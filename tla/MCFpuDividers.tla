---------------------------- MODULE MCFpuDividers ----------------------------
(***************************************************************************)
(* Two units, one with three and one with four cycles, and three operands, *)
(* of which one is special.                                                *)
(***************************************************************************)
EXTENDS FpuDividers, TLC

CONSTANTS fdiv, fsqrt, x1, x2, nan

MCUnit == {fdiv, fsqrt}
MCOperand == {x1, x2, nan}
MCSpecial == [u \in MCUnit |-> {nan}]
MCCycles == (fdiv :> 4) @@ (fsqrt :> 3)
=============================================================================
