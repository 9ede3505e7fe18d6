----------------------------- MODULE ByteMemory -----------------------------
(***************************************************************************)
(* Data memory as a program sees it: an array of bytes, read and written   *)
(* one, two, four or eight at a time, with one reservation.  One access    *)
(* per step.  An address is a word w of memory and an offset o in it.      *)
(***************************************************************************)
EXTENDS Bytes

VARIABLES
    bytes,       \* bytes[w][o]
    result,      \* what the last access put in its destination register
    reserved     \* the addresses, at most one, that an SC may write

memVars == <<bytes, result, reserved>>

(* The place of byte i of an access. *)
ByteAt(a, i) == IF a.o + i < 4 THEN bytes[a.w][a.o + i] ELSE bytes[a.w + 1][a.o + i - 4]

(* A register holds a word sign or zero extended to 32 bits, boxed in ones. *)
Loaded(a, size, signed) ==
    [i \in Wide |-> IF i < size THEN ByteAt(a, i)
                    ELSE IF i > 3 THEN Ones
                    ELSE IF signed /\ Negative(ByteAt(a, size - 1)) THEN Ones ELSE Zeros]

Stored(a, size, v) ==
    [w \in 0 .. NWords - 1 |-> [o \in Lane |->
        LET i == 4 * (w - a.w) + o - a.o
        IN  IF i \in 0 .. size - 1 THEN v[i] ELSE bytes[w][o]]]

(* The answer of an SC: a one when it has stored. *)
Answer(done) == Boxed([i \in Wide |-> IF i = 0 /\ done THEN ByteOne ELSE Zeros])

Load == \E a \in Address, size \in Size, signed \in BOOLEAN :
    /\ Aligned(a, size)
    /\ result' = Loaded(a, size, signed)
    /\ UNCHANGED <<bytes, reserved>>

Store == \E a \in Address, size \in Size, v \in Contents :
    /\ Aligned(a, size)
    /\ bytes' = Stored(a, size, v)
    /\ reserved' = reserved \ {a}
    /\ UNCHANGED result

LoadReserved == \E a \in Address :
    /\ a.o = 0
    /\ result' = Loaded(a, 4, TRUE)
    /\ reserved' = {a}
    /\ UNCHANGED bytes

StoreConditional == \E a \in Address, v \in Contents :
    /\ a.o = 0
    /\ bytes' = IF a \in reserved THEN Stored(a, 4, v) ELSE bytes
    /\ result' = Answer(a \in reserved)
    /\ reserved' = reserved \ {a}

(* The old word is returned and a new one stored. *)
Atomic == \E a \in Address, v \in Contents :
    /\ a.o = 0
    /\ result' = Loaded(a, 4, TRUE)
    /\ bytes' = Stored(a, 4, v)
    /\ reserved' = reserved \ {a}

(* An access to an I/O register reads what the device answers, whole words, *)
(* and leaves memory alone; a store there breaks no reservation of memory.  *)
Device == /\ result' \in {Boxed(v) : v \in Contents} \cup {result}
          /\ UNCHANGED <<bytes, reserved>>

Init == /\ bytes \in [0 .. NWords - 1 -> [Lane -> Byte]]
        /\ result \in [Wide -> Byte]
        /\ reserved \in SUBSET Address

Next == Device \/ Load \/ Store \/ LoadReserved \/ StoreConditional \/ Atomic

Spec == Init /\ [][Next]_memVars
=============================================================================
