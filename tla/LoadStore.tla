------------------------------ MODULE LoadStore ------------------------------
(***************************************************************************)
(* The data side of the processor: the memory unit, which puts bytes in    *)
(* their lanes, and the RAM of words.  An access is in the execute unit    *)
(* first, where RAM is read, and in the memory unit next, where RAM is     *)
(* written and the value read is aligned; the pipeline lets no read pass a *)
(* write (LoadsWaitForStores), so the two steps alternate here.            *)
(***************************************************************************)
EXTENDS Bytes

CONSTANT PowerOn       \* what RAM and the reservation, which no reset touches, may start with

ASSUME PowerOnAssumption ==
    PowerOn \subseteq [ram : [0 .. NWords - 1 -> [Lane -> Byte]],
                       address : Address, changed : BOOLEAN]

VARIABLES
    DATAMEM,           \* DATAMEM[w][o]: words of four bytes
    EM,                \* the access in the memory unit
    rd,                \* the register the accesses load
    MM_reservedAddress,
    MM_reservedChanged

unitVars == <<DATAMEM, EM, rd, MM_reservedAddress, MM_reservedChanged>>

Word == 0 .. NWords - 1
NoAccess == [kind |-> "none"]

-----------------------------------------------------------------------------
(* RAM reads two words at a time, the one addressed and the next. *)
DMemRData(a) ==
    [i \in Wide |-> IF i < 4 THEN DATAMEM[a.w][i]
                    ELSE IF a.w < NWords - 1 THEN DATAMEM[a.w + 1][i - 4] ELSE Zeros]

Unused == [i \in Wide |-> Zeros]      \* what the instruction does not look at

Access(kind, a, size, signed, io, rs2, Eresult) ==
    [kind |-> kind, addr |-> a, size |-> size, signed |-> signed, io |-> io,
     rs2 |-> rs2, Eresult |-> Eresult, Mdata |-> DMemRData(a)]

(* An atomic computes what it stores from what it has read; here that is    *)
(* any value.  I/O registers are loaded and stored as words.                *)
IssueLoad(a) == \E size \in Size, signed, io \in BOOLEAN :
    /\ Aligned(a, size) /\ (size > 2 => signed) /\ (io => size = 4)
    /\ EM' = Access("load", a, size, signed, io, Unused, Unused)

IssueStore(a) == \E size \in Size, v \in Contents, io \in BOOLEAN :
    /\ Aligned(a, size) /\ (io => size = 4)
    /\ EM' = Access("store", a, size, TRUE, io, v, Unused)

IssueAtomic(a) ==
    /\ Aligned(a, 4)
    /\ \/ EM' = Access("lr", a, 4, TRUE, FALSE, Unused, Unused)
       \/ \E v \in Contents : EM' = Access("sc", a, 4, TRUE, FALSE, v, Unused)
       \/ \E v, new \in Contents : EM' = Access("amo", a, 4, TRUE, FALSE, v, new)

Execute ==
    /\ EM = NoAccess
    /\ \E a \in Address : IssueLoad(a) \/ IssueStore(a) \/ IssueAtomic(a)
    /\ UNCHANGED <<DATAMEM, rd, MM_reservedAddress, MM_reservedChanged>>

-----------------------------------------------------------------------------
(* LR and SC. *)
AddressReserved == ~EM.io /\ EM.addr = MM_reservedAddress
ScWriteable == AddressReserved /\ ~MM_reservedChanged

(* Mistake: only stores break a reservation. *)
ReservationStoresOnly ==
    /\ MM_reservedAddress' = IF EM.kind = "lr" THEN EM.addr ELSE MM_reservedAddress
    /\ MM_reservedChanged' =
         (EM.kind # "lr" /\ (MM_reservedChanged \/ (EM.kind = "store" /\ AddressReserved)))

Reservation ==
    /\ MM_reservedAddress' = IF EM.kind = "lr" THEN EM.addr ELSE MM_reservedAddress
    /\ MM_reservedChanged' =
         (EM.kind # "lr" /\ (MM_reservedChanged
                              \/ (EM.kind \in {"store", "sc", "amo"} /\ AddressReserved)))

(* The bytes of a register on the lanes of a word, so that the lane an      *)
(* address selects has the byte or halfword meant for it.                   *)
storeData ==
    IF EM.kind = "amo" THEN EM.Eresult
    ELSE IF EM.addr.o % 2 = 1 THEN [l \in Wide |-> EM.rs2[0]]
    ELSE IF EM.addr.o \div 2 = 1 THEN [l \in Wide |-> EM.rs2[l % 2]]
    ELSE EM.rs2

(* The fifth lane is the whole next word. *)
storeMask ==
    CASE EM.size = 1 -> {EM.addr.o}
      [] EM.size = 2 -> IF EM.addr.o \div 2 = 1 THEN {2, 3} ELSE {0, 1}
      [] EM.size = 4 -> 0..3
      [] EM.size = 8 -> 0..4

storeEnable == EM.kind \in {"store", "amo"} \/ (EM.kind = "sc" /\ ScWriteable)
DMemWMask == IF storeEnable /\ ~EM.io THEN storeMask ELSE {}

WriteRam ==
    DATAMEM' = [w \in Word |-> [o \in Lane |->
        IF w = EM.addr.w /\ o \in DMemWMask THEN storeData[o]
        ELSE IF w = EM.addr.w + 1 /\ 4 \in DMemWMask THEN storeData[4 + o]
        ELSE DATAMEM[w][o]]]

(* Alignment of what was read. *)
memHalf == IF EM.addr.o \div 2 = 1 THEN <<EM.Mdata[2], EM.Mdata[3]>> ELSE <<EM.Mdata[0], EM.Mdata[1]>>
memByte == IF EM.addr.o % 2 = 1 THEN memHalf[2] ELSE memHalf[1]
loadSign == EM.signed /\ Negative(IF EM.size = 1 THEN memByte ELSE memHalf[2])

M_Mdata ==
    LET fill == IF loadSign THEN Ones ELSE Zeros
    IN  CASE EM.size = 1 -> Boxed([i \in Wide |-> IF i = 0 THEN memByte ELSE fill])
          [] EM.size = 2 -> Boxed([i \in Wide |-> IF i < 2 THEN memHalf[i + 1] ELSE fill])
          [] EM.size = 4 -> Boxed(EM.Mdata)
          [] EM.size = 8 -> EM.Mdata

Loading == {"load", "lr", "amo"}

(* 63'h7FFFFFFF80000000 and the answer, in 64 bits. *)
ScData == Boxed([i \in Wide |-> IF i = 0 /\ ScWriteable THEN ByteOne ELSE Zeros])

(* What a device answers is taken as it is, a whole word; here it is any.   *)
WriteBack ==
    CASE EM.kind = "store"                -> rd' = rd
      [] EM.kind = "sc"                   -> rd' = ScData
      [] EM.kind \in Loading /\ ~EM.io    -> rd' = M_Mdata
      [] EM.kind \in Loading /\ EM.io     -> rd' \in {Boxed(v) : v \in Contents}

Memory == EM # NoAccess /\ Reservation /\ WriteRam /\ WriteBack /\ EM' = NoAccess

UnitInit ==
    /\ \E p \in PowerOn : /\ DATAMEM = p.ram
                         /\ MM_reservedAddress = p.address /\ MM_reservedChanged = p.changed
    /\ EM = NoAccess
    /\ rd = Unused

UnitNext == Execute \/ Memory
UnitSpec == UnitInit /\ [][UnitNext]_unitVars

-----------------------------------------------------------------------------
(* The lanes are there for the bytes: whatever is stored, in any size and   *)
(* at any offset, is what a load of any size and offset finds, extended as  *)
(* the instruction says; an atomic is one access; an SC stores only if      *)
(* nothing was stored to its address since the LR; I/O leaves memory alone. *)
ReservedSet == IF MM_reservedChanged THEN {} ELSE {MM_reservedAddress}
Program == INSTANCE ByteMemory WITH bytes <- DATAMEM, result <- rd, reserved <- ReservedSet
ImplementsBytes == Program!Spec
=============================================================================
