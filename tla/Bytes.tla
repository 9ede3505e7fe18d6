-------------------------------- MODULE Bytes --------------------------------
(***************************************************************************)
(* Bytes, addresses and registers, for memory as a program sees it and as  *)
(* the hardware has it.  An address is a word w and an offset o in it.     *)
(***************************************************************************)
EXTENDS Integers

CONSTANTS
    NWords,      \* words of memory
    Byte,        \* values of a byte
    Negative(_), \* the sign bit of a byte
    Zeros, Ones, \* the bytes 00 and FF
    ByteOne,     \* the byte 01
    Contents     \* what registers hold that are stored, eight bytes each

Lane == 0..3                 \* bytes of a word
Wide == 0..7                 \* bytes of a 64-bit register
Address == [w : 0 .. NWords - 1, o : Lane]
Size == {1, 2, 4, 8}

ASSUME MemoryAssumption ==
    /\ NWords \in Nat \ {0}
    /\ {Zeros, Ones, ByteOne} \subseteq Byte
    /\ \A b \in Byte : Negative(b) \in BOOLEAN
    /\ Contents \subseteq [Wide -> Byte]

(* A word in a register: 32 bits, boxed in ones. *)
Boxed(v) == [i \in Wide |-> IF i > 3 THEN Ones ELSE v[i]]

(* Accesses are aligned; a double may start at any word but the last. *)
Aligned(a, size) ==
    /\ size = 2 => a.o \in {0, 2}
    /\ size = 4 => a.o = 0
    /\ size = 8 => a.o = 0 /\ a.w < NWords - 1
=============================================================================
