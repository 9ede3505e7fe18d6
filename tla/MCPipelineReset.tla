--------------------------- MODULE MCPipelineReset ---------------------------
(***************************************************************************)
(* Programs that have everything in flight a reset may have to drain:      *)
(* divisions and roots, CSR writes and traps behind them, jumps and an EBREAK.       *)
(***************************************************************************)
EXTENDS MCPipeline, PipelineReset

ResetCode ==
    {Rom((0 :> p[1]) @@ (1 :> p[2]) @@ (2 :> p[3]) @@ (3 :> p[4])) : p \in
        {CsrRI(1, 8, "mepc", 8), OpRRR("div", 0, 4, 4, 1), OpRRR("fdiv.s", 0, 8, 4, 1)}
        \X {OpRRR("div", 0, 4, 4, 1), OpRRI("jalr", 0, 1, 0), OpRRI("load", 4, 1, 0),
            OpRRR("fsqrt.s", 1, 1, 4, 0)}
        \X {Op("mret"), Op("ecall"), OpRRI("alui", 4, 4, 4), OpRRR("div", 0, 4, 4, 1)}
        \X {Op("ebreak"), Bne(4, 1, 8)}}
=============================================================================
