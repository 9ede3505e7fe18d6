--------------------------- MODULE LoadStoreProofs ---------------------------
(***************************************************************************)
(* The memory unit and its RAM implement a memory of bytes, for every size *)
(* of RAM and whatever bytes are.                                          *)
(***************************************************************************)
EXTENDS LoadStore, TLAPS

Register == [Wide -> Byte]
Accesses == [kind : {"load", "store", "lr", "sc", "amo"}, addr : Address, size : Size,
             signed : BOOLEAN, io : BOOLEAN,
             rs2 : Register, Eresult : Register, Mdata : Register]

(* What the execute unit hands over: an aligned access with the data that   *)
(* RAM still holds when the memory unit acts on it.                         *)
AccessOK ==
    /\ EM \in Accesses
    /\ Aligned(EM.addr, EM.size)
    /\ EM.Mdata = DMemRData(EM.addr)
    /\ EM.size > 2 => EM.signed
    /\ EM.kind \in {"lr", "sc", "amo"} => EM.size = 4 /\ ~EM.io
    /\ EM.kind \in {"store", "sc"} => EM.rs2 \in Contents
    /\ EM.kind = "amo" => EM.Eresult \in Contents

UnitInv ==
    /\ DATAMEM \in [Word -> [Lane -> Byte]]
    /\ rd \in Register
    /\ MM_reservedAddress \in Address
    /\ MM_reservedChanged \in BOOLEAN
    /\ EM = NoAccess \/ AccessOK

-----------------------------------------------------------------------------
(* Byte o of word w is byte Place(w, o, aw, ao) of an access that starts at *)
(* byte ao of word aw; an access of n bytes takes those with a place below. *)
Place(w, o, aw, ao) == 4 * (w - aw) + o - ao

LEMMA BytePlaces ==
    \A w, aw \in Int, o, ao \in 0..3 :
        /\ Place(w, o, aw, ao) = 0 <=> w = aw /\ o = ao
        /\ ao \in {0, 2} => (Place(w, o, aw, ao) \in 0..1 <=> w = aw /\ o \in {ao, ao + 1})
        /\ ao = 0 => (Place(w, o, aw, ao) \in 0..3 <=> w = aw)
        /\ ao = 0 => (Place(w, o, aw, ao) \in 0..7 <=> w = aw \/ w = aw + 1)
BY DEF Place

(* What RAM reads is a register full of bytes. *)
LEMMA ReadType ==
    ASSUME DATAMEM \in [Word -> [Lane -> Byte]], NEW a \in Address
    PROVE  DMemRData(a) \in Register
BY MemoryAssumption DEF DMemRData, Register, Address, Word, Lane, Wide

(* Alignment: the bytes taken from the two words read are those that the    *)
(* address and the size ask for, with their sign.                           *)
LEMMA AlignsLoads ==
    ASSUME UnitInv, AccessOK
    PROVE  M_Mdata = Program!Loaded(EM.addr, EM.size, EM.signed)
<1> DEFINE a == EM.addr
<1>1. /\ a.w \in Word /\ a.o \in {0, 1, 2, 3} /\ EM.signed \in BOOLEAN
      /\ EM.size \in {1, 2, 4, 8}
  BY DEF AccessOK, Accesses, Address, Word, Lane, Size
<1>2. /\ a.o = 0 => a.o % 2 = 0 /\ a.o \div 2 = 0
      /\ a.o = 1 => a.o % 2 = 1 /\ a.o \div 2 = 0
      /\ a.o = 2 => a.o % 2 = 0 /\ a.o \div 2 = 1
      /\ a.o = 3 => a.o % 2 = 1 /\ a.o \div 2 = 1
  OBVIOUS
<1>3. EM.Mdata = [i \in Wide |-> IF i < 4 THEN DATAMEM[a.w][i]
                    ELSE IF a.w < NWords - 1 THEN DATAMEM[a.w + 1][i - 4] ELSE Zeros]
  BY DEF AccessOK, DMemRData
<1>4. \A i \in Lane : EM.Mdata[i] = DATAMEM[a.w][i]
  BY <1>3 DEF Lane, Wide
<1>5. CASE EM.size = 1
  <2>1. memByte = DATAMEM[a.w][a.o]
    BY <1>1, <1>2, <1>4 DEF memByte, memHalf, Lane
  <2>2. \A i \in Wide : i < 1 => Program!ByteAt(a, i) = memByte
    BY <2>1, <1>1 DEF Program!ByteAt, Wide
  <2>3. Program!ByteAt(a, 1 - 1) = memByte
    BY <2>2 DEF Wide
  <2> QED BY <1>5, <2>2, <2>3, <1>1 DEF M_Mdata, loadSign, Boxed, Program!Loaded, Wide, Program!Wide
<1>6. CASE EM.size = 2
  <2>1. a.o \in {0, 2}
    BY <1>6 DEF AccessOK, Aligned
  <2>2. memHalf[1] = DATAMEM[a.w][a.o] /\ memHalf[2] = DATAMEM[a.w][a.o + 1]
    BY <2>1, <1>1, <1>2, <1>4 DEF memHalf, Lane
  <2>3. Program!ByteAt(a, 0) = memHalf[1] /\ Program!ByteAt(a, 1) = memHalf[2]
    BY <2>1, <2>2 DEF Program!ByteAt
  <2> QED BY <1>6, <2>3, <1>1 DEF M_Mdata, loadSign, Boxed, Program!Loaded, Wide, Program!Wide
<1>7. CASE EM.size = 4
  <2>1. a.o = 0
    BY <1>7 DEF AccessOK, Aligned
  <2>2. \A i \in Lane : Program!ByteAt(a, i) = EM.Mdata[i]
    BY <2>1, <1>4 DEF Program!ByteAt, Lane
  <2> QED BY <1>7, <2>2, <1>1 DEF M_Mdata, Boxed, Program!Loaded, Wide, Program!Wide, Lane
<1>8. CASE EM.size = 8
  <2>1. a.o = 0 /\ a.w < NWords - 1
    BY <1>8 DEF AccessOK, Aligned
  <2>2. \A i \in Wide : Program!ByteAt(a, i) = EM.Mdata[i]
    BY <2>1, <1>3 DEF Program!ByteAt, Wide
  <2> QED BY <1>8, <2>2, <1>3, <1>1 DEF M_Mdata, Program!Loaded, Wide, Program!Wide
<1> QED BY <1>1, <1>5, <1>6, <1>7, <1>8

(* Lanes: what the mask lets through is the register's bytes in order, and  *)
(* every other byte of RAM stays.                                           *)
LEMMA StoresBytes ==
    ASSUME UnitInv, AccessOK, WriteRam, storeEnable, ~EM.io,
           EM.kind = "amo" => EM.size = 4
    PROVE  DATAMEM' = Program!Stored(EM.addr, EM.size,
                                     IF EM.kind = "amo" THEN EM.Eresult ELSE EM.rs2)
<1> DEFINE a == EM.addr
           v == IF EM.kind = "amo" THEN EM.Eresult ELSE EM.rs2
           Written(w, o) == IF w = a.w /\ o \in storeMask THEN storeData[o]
                            ELSE IF w = a.w + 1 /\ 4 \in storeMask THEN storeData[4 + o]
                            ELSE DATAMEM[w][o]
           Index(w, o) == Place(w, o, a.w, a.o)
<1>1. /\ a.w \in Word /\ a.o \in {0, 1, 2, 3}
      /\ EM.size \in {1, 2, 4, 8} /\ NWords \in Nat \ {0}
  BY MemoryAssumption DEF AccessOK, Accesses, Address, Word, Lane, Size
<1>2. /\ a.o = 0 => a.o % 2 = 0 /\ a.o \div 2 = 0
      /\ a.o = 1 => a.o % 2 = 1 /\ a.o \div 2 = 0
      /\ a.o = 2 => a.o % 2 = 0 /\ a.o \div 2 = 1
      /\ a.o = 3 => a.o % 2 = 1 /\ a.o \div 2 = 1
  OBVIOUS
<1>3. DATAMEM' = [w \in Word |-> [o \in Lane |-> Written(w, o)]]
  BY DEF WriteRam, DMemWMask
<1>4. SUFFICES ASSUME NEW w \in Word, NEW o \in Lane
      PROVE  Written(w, o) = IF Index(w, o) \in 0 .. EM.size - 1 THEN v[Index(w, o)]
                             ELSE DATAMEM[w][o]
  BY <1>3 DEF Program!Stored, Program!Lane, Word, Lane, Place
<1>5. w \in Int /\ a.w \in Int /\ o \in 0..3 /\ a.w + 1 # a.w
  BY <1>1 DEF Word, Lane
<1>6. CASE EM.size = 1
  <2>1. EM.kind # "amo" /\ storeMask = {a.o} /\ v = EM.rs2
    BY <1>6 DEF storeMask
  <2>2. storeData[a.o] = EM.rs2[0]
    BY <2>1, <1>1, <1>2 DEF storeData, Wide
  <2>3. Index(w, o) = 0 <=> w = a.w /\ o = a.o
    BY <1>1, <1>5, BytePlaces
  <2>4. 4 \notin storeMask
    BY <2>1, <1>1
  <2>5. Index(w, o) \in 0 .. 0 <=> Index(w, o) = 0
    <3> HIDE DEF Index
    <3> QED OBVIOUS
  <2>6. CASE w = a.w /\ o = a.o
    BY <1>6, <2>6, <2>1, <2>2, <2>3, <2>5
  <2>7. CASE ~(w = a.w /\ o = a.o)
    <3>1. ~(w = a.w /\ o \in storeMask)
      BY <2>7, <2>1
    <3>2. Index(w, o) \notin 0 .. EM.size - 1
      BY <2>7, <2>3, <2>5, <1>6
    <3> HIDE DEF Index
    <3> QED BY <3>1, <3>2, <2>4
  <2> QED BY <2>6, <2>7
<1>7. CASE EM.size = 2
  <2>1. a.o \in {0, 2}
    BY <1>7 DEF AccessOK, Aligned
  <2>2. EM.kind # "amo" /\ v = EM.rs2 /\ storeMask = {a.o, a.o + 1}
    BY <1>7, <2>1, <1>2 DEF storeMask
  <2>3. storeData[a.o] = EM.rs2[0] /\ storeData[a.o + 1] = EM.rs2[1]
    BY <2>1, <2>2, <1>2 DEF storeData, Wide
  <2>4. Index(w, o) \in 0 .. 1 <=> w = a.w /\ o \in {a.o, a.o + 1}
    <3>1. a.o \in 0..3
      BY <2>1
    <3> QED BY <2>1, <3>1, <1>5, BytePlaces
  <2>5. w = a.w => Index(w, o) = o - a.o
    BY <1>5, <2>1 DEF Place
  <2>6. 4 \notin storeMask
    BY <2>1, <2>2
  <2>7. CASE w = a.w /\ o \in {a.o, a.o + 1}
    BY <1>7, <2>7, <2>1, <2>2, <2>3, <2>4, <2>5
  <2>8. CASE ~(w = a.w /\ o \in {a.o, a.o + 1})
    <3>1. ~(w = a.w /\ o \in storeMask)
      BY <2>8, <2>2
    <3>2. Index(w, o) \notin 0 .. EM.size - 1
      BY <2>8, <2>4, <1>7
    <3> HIDE DEF Index
    <3> QED BY <3>1, <3>2, <2>6
  <2> QED BY <2>7, <2>8
<1>8. CASE EM.size = 4
  <2>1. a.o = 0
    BY <1>8 DEF AccessOK, Aligned
  <2>2. storeMask = 0..3 /\ \A l \in Lane : storeData[l] = v[l]
    BY <1>8, <2>1, <1>2 DEF storeMask, storeData, Lane
  <2>3. Index(w, o) \in 0 .. 3 <=> w = a.w
    <3>1. Place(w, o, a.w, 0) \in 0 .. 3 <=> w = a.w
      BY <1>5, BytePlaces
    <3> QED BY <3>1, <2>1
  <2>4. w = a.w => Index(w, o) = o
    BY <1>5, <2>1 DEF Place
  <2>5. 4 \notin storeMask /\ o \in storeMask
    BY <2>2, <1>5
  <2>6. CASE w = a.w
    <3>1. Index(w, o) = o /\ Index(w, o) \in 0 .. EM.size - 1
      BY <2>6, <2>3, <2>4, <1>8
    <3> HIDE DEF Index
    <3> QED BY <3>1, <2>2, <2>5, <2>6
  <2>7. CASE w # a.w
    <3>1. Index(w, o) \notin 0 .. EM.size - 1
      BY <2>7, <2>3, <1>8
    <3> HIDE DEF Index
    <3> QED BY <3>1, <2>5, <2>7
  <2> QED BY <2>6, <2>7
<1>9. CASE EM.size = 8
  <2>1. a.o = 0 /\ EM.kind # "amo"
    BY <1>9 DEF AccessOK, Aligned
  <2>2. storeMask = 0..4 /\ storeData = v
    BY <1>9, <2>1, <1>2 DEF storeMask, storeData
  <2>3. Index(w, o) \in 0 .. 7 <=> w = a.w \/ w = a.w + 1
    <3>1. Place(w, o, a.w, 0) \in 0 .. 7 <=> w = a.w \/ w = a.w + 1
      BY <1>5, BytePlaces
    <3> QED BY <3>1, <2>1
  <2>4. /\ w = a.w => Index(w, o) = o
        /\ w = a.w + 1 => Index(w, o) = 4 + o
    BY <1>5, <2>1 DEF Place
  <2>5. 4 \in storeMask /\ o \in storeMask
    BY <2>2, <1>5
  <2>6. CASE w = a.w
    <3>1. Index(w, o) = o /\ Index(w, o) \in 0 .. EM.size - 1
      BY <2>6, <2>3, <2>4, <1>9
    <3> HIDE DEF Index
    <3> QED BY <3>1, <2>2, <2>5, <2>6
  <2>7. CASE w = a.w + 1
    <3>1. Index(w, o) = 4 + o /\ Index(w, o) \in 0 .. EM.size - 1
      BY <2>7, <2>3, <2>4, <1>9
    <3> HIDE DEF Index
    <3> QED BY <3>1, <2>2, <2>5, <2>7, <1>5
  <2>8. CASE w # a.w /\ w # a.w + 1
    <3>1. Index(w, o) \notin 0 .. EM.size - 1
      BY <2>8, <2>3, <1>9
    <3> HIDE DEF Index
    <3> QED BY <3>1, <2>8
  <2> QED BY <2>6, <2>7, <2>8
<1> QED BY <1>1, <1>6, <1>7, <1>8, <1>9

LEMMA KeepsRam ==
    ASSUME UnitInv, WriteRam, DMemWMask = {}
    PROVE  DATAMEM' = DATAMEM
<1>1. DATAMEM' = [w \in Word |-> [o \in Lane |-> DATAMEM[w][o]]]
  BY DEF WriteRam
<1>2. \A w \in Word : DATAMEM[w] = [o \in Lane |-> DATAMEM[w][o]]
  BY DEF UnitInv
<1>3. DATAMEM = [w \in Word |-> DATAMEM[w]]
  BY DEF UnitInv
<1> QED BY <1>1, <1>2, <1>3
-----------------------------------------------------------------------------
(* Everything that is stored or loaded is eight bytes. *)
LEMMA RegistersHoldBytes ==
    ASSUME UnitInv, AccessOK
    PROVE  storeData \in Register /\ M_Mdata \in Register /\ ScData \in Register
<1>1. /\ EM.rs2 \in Register /\ EM.Eresult \in Register /\ EM.Mdata \in Register
      /\ EM.size \in {1, 2, 4, 8} /\ EM.addr.o \in {0, 1, 2, 3}
  BY DEF AccessOK, Accesses, Size, Address, Lane
<1>2. storeData \in Register
  <2>1. \A l \in Wide : l % 2 \in Wide
    BY DEF Wide
  <2> QED BY <1>1, <2>1 DEF storeData, Register, Wide
<1>3. M_Mdata \in Register
  <2>1. memHalf[1] \in Byte /\ memHalf[2] \in Byte
    BY <1>1 DEF memHalf, Register, Wide
  <2>2. memByte \in Byte
    BY <2>1 DEF memByte
  <2>3. \A i \in Wide : i < 2 => i + 1 \in {1, 2}
    BY DEF Wide
  <2>4. \A i \in Wide : i < 2 => memHalf[i + 1] \in Byte
    BY <2>1, <2>3
  <2>5. Zeros \in Byte /\ Ones \in Byte /\ \A i \in Wide : EM.Mdata[i] \in Byte
    BY <1>1, MemoryAssumption DEF Register
  <2>6. CASE EM.size = 1
    BY <2>6, <2>2, <2>5 DEF M_Mdata, Boxed, Register
  <2>7. CASE EM.size = 2
    BY <2>7, <2>4, <2>5 DEF M_Mdata, Boxed, Register
  <2>8. CASE EM.size = 4
    BY <2>8, <2>5 DEF M_Mdata, Boxed, Register
  <2>9. CASE EM.size = 8
    BY <2>9, <1>1 DEF M_Mdata
  <2> QED BY <1>1, <2>6, <2>7, <2>8, <2>9
<1>4. ScData \in Register
  BY MemoryAssumption DEF ScData, Boxed, Register, Wide
<1> QED BY <1>2, <1>3, <1>4

LEMMA ExecuteKeepsInv ==
    ASSUME UnitInv, Execute
    PROVE  UnitInv'
<1> USE DEF Execute
<1>1. PICK a \in Address : IssueLoad(a) \/ IssueStore(a) \/ IssueAtomic(a)
  OBVIOUS
<1>2. DMemRData(a) \in Register /\ DMemRData(a) = DMemRData(a)'
  BY ReadType DEF UnitInv, DMemRData
<1>3. Unused \in Register /\ \A v \in Contents : v \in Register
  BY MemoryAssumption DEF Unused, Register
<1>4. AccessOK'
  <2>1. CASE IssueLoad(a)
    <3>1. PICK size \in Size, signed \in BOOLEAN, io \in BOOLEAN :
            /\ Aligned(a, size) /\ (size > 2 => signed) /\ (io => size = 4)
            /\ EM' = Access("load", a, size, signed, io, Unused, Unused)
      BY <2>1 DEF IssueLoad
    <3> QED BY <3>1, <1>2, <1>3 DEF Access, AccessOK, Accesses
  <2>2. CASE IssueStore(a)
    <3>1. PICK size \in Size, v \in Contents, io \in BOOLEAN :
            /\ Aligned(a, size) /\ (io => size = 4)
            /\ EM' = Access("store", a, size, TRUE, io, v, Unused)
      BY <2>2 DEF IssueStore
    <3> QED BY <3>1, <1>2, <1>3 DEF Access, AccessOK, Accesses
  <2>3. CASE IssueAtomic(a)
    <3>1. 4 \in Size
      BY DEF Size
    <3>2. CASE EM' = Access("lr", a, 4, TRUE, FALSE, Unused, Unused)
      BY <2>3, <3>1, <3>2, <1>2, <1>3 DEF IssueAtomic, Access, AccessOK, Accesses
    <3>3. CASE \E v \in Contents : EM' = Access("sc", a, 4, TRUE, FALSE, v, Unused)
      BY <2>3, <3>1, <3>3, <1>2, <1>3 DEF IssueAtomic, Access, AccessOK, Accesses
    <3>4. CASE \E v, new \in Contents : EM' = Access("amo", a, 4, TRUE, FALSE, v, new)
      BY <2>3, <3>1, <3>4, <1>2, <1>3 DEF IssueAtomic, Access, AccessOK, Accesses
    <3> QED BY <2>3, <3>2, <3>3, <3>4 DEF IssueAtomic
  <2> QED BY <1>1, <2>1, <2>2, <2>3
<1> QED BY <1>4 DEF UnitInv

LEMMA MemoryKeepsInv ==
    ASSUME UnitInv, Memory
    PROVE  UnitInv'
<1>1. AccessOK /\ EM' = NoAccess
  BY DEF UnitInv, Memory
<1>2. storeData \in Register /\ M_Mdata \in Register /\ ScData \in Register
  BY <1>1, RegistersHoldBytes
<1>3. DATAMEM' \in [Word -> [Lane -> Byte]]
  <2>1. \A o \in Lane : storeData[o] \in Byte /\ storeData[4 + o] \in Byte
    BY <1>2 DEF Register, Lane, Wide
  <2>2. \A w \in Word, o \in Lane : DATAMEM[w][o] \in Byte
    BY DEF UnitInv
  <2> QED BY <2>1, <2>2 DEF Memory, WriteRam
<1>4. rd' \in Register
  <2>1. EM.kind \in {"load", "store", "lr", "sc", "amo"} /\ EM.io \in BOOLEAN
    BY <1>1 DEF AccessOK, Accesses
  <2>2. \A v \in Contents : Boxed(v) \in Register
    BY MemoryAssumption DEF Boxed, Register
  <2> QED BY <1>2, <2>1, <2>2 DEF Memory, WriteBack, Loading, UnitInv
<1>5. MM_reservedAddress' \in Address /\ MM_reservedChanged' \in BOOLEAN
  BY <1>1 DEF Memory, Reservation, UnitInv, AccessOK, Accesses
<1> QED BY <1>1, <1>3, <1>4, <1>5 DEF UnitInv

(* The invariant of the memory unit: an access is aligned and carries what  *)
(* RAM holds when the memory unit acts on it.                               *)
THEOREM UnitInvariant == UnitSpec => []UnitInv
<1>1. UnitInit => UnitInv
  <2> SUFFICES ASSUME UnitInit PROVE UnitInv
    OBVIOUS
  <2>1. Unused \in Register
    BY MemoryAssumption DEF Unused, Register
  <2> QED BY <2>1, PowerOnAssumption DEF UnitInit, UnitInv, Word
<1>2. UnitInv /\ [UnitNext]_unitVars => UnitInv'
  <2> SUFFICES ASSUME UnitInv, [UnitNext]_unitVars PROVE UnitInv'
    OBVIOUS
  <2>1. CASE Execute
    BY <2>1, ExecuteKeepsInv
  <2>2. CASE Memory
    BY <2>2, MemoryKeepsInv
  <2>3. CASE UNCHANGED unitVars
    BY <2>3 DEF unitVars, UnitInv, AccessOK, DMemRData
  <2> QED BY <2>1, <2>2, <2>3 DEF UnitNext
<1> QED BY <1>1, <1>2, PTL DEF UnitSpec

-----------------------------------------------------------------------------
(* What the memory unit does to the reservation, for each kind of access. *)
LEMMA KeepsReservation ==
    ASSUME UnitInv, AccessOK, Reservation
    PROVE  /\ EM.kind = "lr" => ReservedSet' = {EM.addr}
           /\ EM.kind \in {"store", "sc", "amo"} /\ ~EM.io
                => ReservedSet' = ReservedSet \ {EM.addr}
           /\ EM.kind = "load" \/ (EM.kind = "store" /\ EM.io) => ReservedSet' = ReservedSet
           /\ ~EM.io => (ScWriteable <=> EM.addr \in ReservedSet)
BY DEF UnitInv, Reservation, ReservedSet, ScWriteable, AddressReserved

(* Every access the memory unit completes is one access of the byte memory. *)
LEMMA MemoryIsOneAccess ==
    ASSUME UnitInv, Memory
    PROVE  Program!Next
<1> DEFINE a == EM.addr
<1>1. AccessOK /\ Reservation /\ WriteRam /\ WriteBack
  BY DEF UnitInv, Memory
<1>2. /\ a \in Program!Address /\ EM.size \in Program!Size /\ EM.signed \in BOOLEAN
      /\ Program!Aligned(a, EM.size) /\ EM.kind \in {"load", "store", "lr", "sc", "amo"}
  BY <1>1 DEF AccessOK, Accesses, Address, Program!Address, Lane, Program!Lane,
              Size, Program!Size, Aligned, Program!Aligned
<1>3. M_Mdata = Program!Loaded(a, EM.size, EM.signed)
  BY <1>1, AlignsLoads
<1>4. EM.kind \in {"lr", "sc", "amo"} => EM.size = 4 /\ ~EM.io /\ EM.signed /\ a.o = 0
  BY <1>1 DEF AccessOK, Aligned
<1>5. storeEnable /\ ~EM.io =>
        DATAMEM' = Program!Stored(a, EM.size, IF EM.kind = "amo" THEN EM.Eresult ELSE EM.rs2)
  BY <1>1, <1>4, StoresBytes
<1>6. ~(storeEnable /\ ~EM.io) => DATAMEM' = DATAMEM
  <2>1. ASSUME ~(storeEnable /\ ~EM.io) PROVE DMemWMask = {}
    BY <2>1 DEF DMemWMask
  <2> QED BY <2>1, <1>1, KeepsRam
<1>7. EM.kind \in {"store", "sc"} => EM.rs2 \in Contents
  BY <1>1 DEF AccessOK
<1>8. CASE EM.kind = "load" /\ ~EM.io
  <2>1. ~storeEnable
    BY <1>8 DEF storeEnable
  <2>2. rd' = M_Mdata
    BY <1>1, <1>8 DEF WriteBack, Loading
  <2>3. Program!Load
    BY <1>1, <1>2, <1>3, <1>6, <1>8, <2>1, <2>2, KeepsReservation DEF Program!Load
  <2> QED BY <2>3 DEF Program!Next
<1>9. CASE EM.kind \in {"load", "store"} /\ EM.io
  <2>1. rd' \in {Program!Boxed(v) : v \in Contents} \cup {rd}
    BY <1>1, <1>9 DEF WriteBack, Loading, Boxed, Program!Boxed, Wide, Program!Wide
  <2>2. Program!Device
    BY <1>1, <1>6, <1>9, <2>1, KeepsReservation DEF Program!Device
  <2> QED BY <2>2 DEF Program!Next
<1>10. CASE EM.kind = "store" /\ ~EM.io
  <2>1. storeEnable /\ rd' = rd
    BY <1>1, <1>10 DEF storeEnable, WriteBack, Loading
  <2>2. Program!Store
    BY <1>1, <1>2, <1>5, <1>7, <1>10, <2>1, KeepsReservation DEF Program!Store
  <2> QED BY <2>2 DEF Program!Next
<1>11. CASE EM.kind = "lr"
  <2>1. ~storeEnable /\ rd' = M_Mdata
    BY <1>1, <1>4, <1>11 DEF storeEnable, WriteBack, Loading
  <2>2. Program!LoadReserved
    BY <1>1, <1>2, <1>3, <1>4, <1>6, <1>11, <2>1, KeepsReservation DEF Program!LoadReserved
  <2> QED BY <2>2 DEF Program!Next
<1>12. CASE EM.kind = "sc"
  <2>1. (storeEnable <=> a \in ReservedSet) /\ (ScWriteable <=> a \in ReservedSet)
    BY <1>1, <1>4, <1>12, KeepsReservation DEF storeEnable
  <2>2. rd' = Program!Answer(a \in ReservedSet)
    BY <1>1, <1>12, <2>1 DEF WriteBack, Loading, ScData, Boxed, Program!Answer,
                              Program!Boxed, Wide, Program!Wide
  <2>3. DATAMEM' = IF a \in ReservedSet THEN Program!Stored(a, 4, EM.rs2) ELSE DATAMEM
    BY <1>4, <1>5, <1>6, <1>12, <2>1
  <2>4. Program!StoreConditional
    BY <1>1, <1>2, <1>4, <1>7, <1>12, <2>2, <2>3, KeepsReservation DEF Program!StoreConditional
  <2> QED BY <2>4 DEF Program!Next
<1>13. CASE EM.kind = "amo"
  <2>1. storeEnable /\ rd' = M_Mdata /\ EM.Eresult \in Contents
    BY <1>1, <1>4, <1>13 DEF storeEnable, WriteBack, Loading, AccessOK
  <2>2. Program!Atomic
    BY <1>1, <1>2, <1>3, <1>4, <1>5, <1>13, <2>1, KeepsReservation DEF Program!Atomic
  <2> QED BY <2>2 DEF Program!Next
<1> QED BY <1>2, <1>8, <1>9, <1>10, <1>11, <1>12, <1>13

(* ImplementsBytes for every size of RAM, every value of a byte and every   *)
(* power-on content: lanes, masks, sign extension and the reservation of    *)
(* MemoryUnit.v and Memory.v make a memory of bytes.                        *)
THEOREM ImplementsByteMemory == UnitSpec => ImplementsBytes
<1>1. UnitInit => Program!Init
  <2> SUFFICES ASSUME UnitInit PROVE Program!Init
    OBVIOUS
  <2>1. Unused \in Register
    BY MemoryAssumption DEF Unused, Register
  <2> QED BY <2>1, PowerOnAssumption
          DEF UnitInit, Program!Init, ReservedSet, Register, Wide, Program!Wide, Lane,
              Program!Lane, Address, Program!Address
<1>2. UnitInv /\ [UnitNext]_unitVars => [Program!Next]_(Program!memVars)
  <2> SUFFICES ASSUME UnitInv, [UnitNext]_unitVars PROVE [Program!Next]_(Program!memVars)
    OBVIOUS
  <2>1. CASE Execute
    BY <2>1 DEF Execute, Program!memVars, ReservedSet
  <2>2. CASE Memory
    BY <2>2, MemoryIsOneAccess
  <2>3. CASE UNCHANGED unitVars
    BY <2>3 DEF unitVars, Program!memVars, ReservedSet
  <2> QED BY <2>1, <2>2, <2>3 DEF UnitNext
<1> QED BY <1>1, <1>2, UnitInvariant, PTL DEF UnitSpec, ImplementsBytes, Program!Spec
=============================================================================
