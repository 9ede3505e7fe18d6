---------------------------- MODULE PipelineReset ----------------------------
(***************************************************************************)
(* The pipeline under resets.  reset_i is an input: it may rise in any     *)
(* cycle and stay high for any number of clock edges.  Nothing resets the  *)
(* FD_instr register, the divider and the flags of the execute and memory  *)
(* units: they have to drain while reset_i is high.                        *)
(***************************************************************************)
EXTENDS Pipeline

VARIABLES
    held,       \* clock edges reset_i has been high for, counted to Drain
    settled     \* the last reset was held for that long

resetVars == <<vars, held, settled>>

(* Clock edges that the longest division and what waits behind it need.     *)
Drain == DivBits + 4

InitReset == Init /\ held = 0 /\ settled = TRUE

Edge ==
    /\ \E taken \in BOOLEAN : Clock(taken)
    /\ reset' \in BOOLEAN
    /\ held' = IF ~reset THEN 0 ELSE IF held < Drain THEN held + 1 ELSE Drain
    /\ settled' = IF reset THEN held' = Drain ELSE settled

ResetSpec == InitReset /\ [][Edge]_resetVars

-----------------------------------------------------------------------------
(* The state is well formed under any reset. *)
ResetTypeOK == TypeOK /\ held \in 0..Drain /\ settled \in BOOLEAN

(* A reset held for Drain edges leaves the state the program starts from,   *)
(* whatever it interrupted.                                                 *)
ResetDrains == held = Drain => Drained

(* After such a reset the hazard and flush logic can be relied on again:    *)
(* nothing that was squashed by the reset or later comes back to life and   *)
(* no corrected PC is lost.                                                 *)
SoundAfterReset ==
    settled /\ ~reset => SquashedStaysSquashed /\ CorrectionNeverLost /\ ForwardsFinalValues
=============================================================================
