----------------------------- MODULE MCDatapath -----------------------------
(***************************************************************************)
(* The parts of the data path that work on bits, each on its own: the FPU, *)
(* the decompressor, and the memory unit with RAM.                         *)
(***************************************************************************)
EXTENDS Fpu, Decompressor, LoadStore, TLC

CONSTANTS MaxAccesses      \* accesses of the memory unit in a behaviour

VARIABLES part,            \* the one that is at work
          accesses

MCNegative(b) == b > 127
MCByte == 0..255
Register(b0, b1, b2, b3, b4, b5, b6, b7) ==
    [i \in 0..7 |-> <<b0, b1, b2, b3, b4, b5, b6, b7>>[i + 1]]
(* Bytes of both signs, no two the same. *)
MCContents == {Register(129, 2, 131, 4, 5, 6, 7, 8), Register(17, 146, 19, 148, 21, 22, 23, 24)}
MCPowerOn == [ram : {[w \in Word |-> [o \in Lane |-> 64 + 4 * w + o]]},
              address : {[w |-> 1, o |-> 0]}, changed : BOOLEAN]

PathInit ==
    /\ part \in {"fpu", "decompressor", "memory"} /\ accesses = 0
    /\ Init /\ DecodeInit /\ UnitInit
    /\ part = "memory" \/ MM_reservedChanged

Calculate == part = "fpu" /\ Next /\ UNCHANGED <<decodeVars, unitVars, accesses>>
Expand == part = "decompressor" /\ DecodeNext /\ UNCHANGED <<vars, unitVars, accesses>>
Transfer ==
    /\ part = "memory" /\ UnitNext /\ UNCHANGED <<vars, decodeVars>>
    /\ accesses < MaxAccesses
    /\ accesses' = IF EM = NoAccess THEN accesses ELSE accesses + 1

PathNext == (Calculate \/ Expand \/ Transfer) /\ UNCHANGED part
PathSpec == PathInit /\ [][PathNext]_<<vars, decodeVars, unitVars, part, accesses>>
=============================================================================
