---------------------------- MODULE MCDivideUnit ----------------------------
(***************************************************************************)
(* The divider with registers of four bits and every pair of operands.    *)
(***************************************************************************)
EXTENDS DivideUnit

MCWidth == 4
MCPow == [n \in 0..MCWidth |-> 2^n]
=============================================================================
