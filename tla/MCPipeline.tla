----------------------------- MODULE MCPipeline -----------------------------
(***************************************************************************)
(* Small instances of the pipeline: four-bit words, byte addresses, four   *)
(* RAM cells, four registers and programs of four instructions at the      *)
(* addresses 0, 4, 8 and 12, followed again by the one at 0.               *)
(***************************************************************************)
EXTENDS PipelineRefinesIsa, TLC, Bitwise

CONSTANT Size    \* bytes of the address space, also the number of words

MCWord == 0 .. Size - 1
MCReg == {0, 1, 4, 8, 16} \cap MCWord
MCCsr == TrapCsr \cup {"mscratch"}
MCFn == 0..3
MCCells == 0 .. (Size \div 4) - 1
MCCellOf(a) == a \div 4
MCPlus(a, b) == (a + b) % Size
MCEven(a) == a - (a % 2)
MCUImm(r) == r
MCAlu(f, a, b) == IF f = 0 THEN (a + b) % Size ELSE (a - b) % Size
MCTaken(f, a, b) == IF f = 0 THEN a = b ELSE a # b
MCDiv(f, a, b) == IF f = 0 THEN (IF b = 0 THEN Size - 1 ELSE a \div b)
                  ELSE (IF b = 0 THEN a ELSE a % b)
MCFpu(f, a, b, c) == (a * b + c) % Size
MCFpuLong(u, x) == IF u = "fsqrt.s" THEN (x.a + x.fn) % Size ELSE (x.a * 3 + x.b) % Size
MCFpuPart(u, x) == x.a
MCFpuStale(u, part, done, now) == (part + now.b + (IF done THEN 1 ELSE 2)) % Size
MCAmoOut(f, a, b) == IF f = 0 THEN (a + b) % Size ELSE b
MCCsrOut(f, old, in) == CASE f = 1 -> in [] f = 2 -> old | in [] OTHER -> old & (Size - 1 - in)
MCCsrMask(c, w) == w
MCScResult(ok) == IF ok THEN 1 ELSE 0
MCMPP(w) == w % 4
MCSPP(w) == (w \div 4) % 2
MCMTrapStatus(w, v) == (w - (w % 4)) + v
MCSTrapStatus(w, v) == (w - 4 * MCSPP(w)) + 4 * (v % 2)
MCDelegated(w, v) == IF v = US THEN w % 2 = 1 ELSE (w \div 4) % 2 = 1

-----------------------------------------------------------------------------
(* Instructions, by what they are made of. *)
Basic == [op |-> "fence", fn |-> 0, rd |-> 0, rs1 |-> 0, rs2 |-> 0, rs3 |-> 0,
          imm |-> 0, csr |-> "mscratch", size |-> 4]
Op(o) == [Basic EXCEPT !.op = o]
OpRRR(o, f, rd, rs1, rs2) == [Basic EXCEPT !.op = o, !.fn = f, !.rd = rd, !.rs1 = rs1, !.rs2 = rs2]
OpRRI(o, rd, rs1, imm) == [Basic EXCEPT !.op = o, !.rd = rd, !.rs1 = rs1, !.imm = imm]
Bne(rs1, rs2, imm) == [Basic EXCEPT !.op = "branch", !.fn = 1, !.rs1 = rs1, !.rs2 = rs2, !.imm = imm]
Sw(rs1, rs2) == [Basic EXCEPT !.op = "store", !.rs1 = rs1, !.rs2 = rs2]
Fma(rd, rs1, rs2, rs3) == [OpRRR("fpu", 0, rd, rs1, rs2) EXCEPT !.rs3 = rs3]
CsrRI(f, rd, c, r) == [Basic EXCEPT !.op = "csri", !.fn = f, !.rd = rd, !.csr = c, !.rs1 = r]
CsrRR(f, rd, c, r) == [CsrRI(f, rd, c, r) EXCEPT !.op = "csr"]
Short(i) == [i EXCEPT !.size = 2]

(* A slot is followed by a compressed instruction, reached only when the    *)
(* slot's own is compressed too or by a jump into the slot.                 *)
Rom(slots) == [a \in MCWord |-> IF a % 4 = 0 THEN slots[a \div 4]
                                ELSE Short(OpRRI("alui", 4, 4, 1))]
Programs(s, last) ==
    {Rom((0 :> p[1]) @@ (1 :> p[2]) @@ (2 :> p[3]) @@ (3 :> p[4])) : p \in s \X s \X s \X last}

MCPowerOn == {4}
MCRamInit == {[c \in MCCells |-> 4 * c + 1]}
MCDivBits == 2

(* A unit of the FPU has a short count for special operands, zero here.     *)
MCMaxCycles == 3
MCLongCycles(u, x) == IF x.a = 0 \/ (u # "fsqrt.s" /\ x.b = 0) THEN 1 ELSE MCMaxCycles

(* Integer code with every kind of memory access and jump. *)
Arithmetic == {OpRRI("alui", 4, 4, 4), OpRRR("alur", 1, 1, 4, 1)}
MemoryOps == {OpRRI("load", 4, 1, 0), Sw(1, 4), OpRRR("lr", 0, 8, 4, 0),
              OpRRR("sc", 0, 8, 4, 1), OpRRR("amo", 0, 1, 4, 4)}
Jumps == {Bne(4, 1, 8), OpRRI("jal", 1, 0, 8), OpRRI("jalr", 0, 1, 0)}

(* Divisions, roots and three-operand instructions among jumps, compressed  *)
(* code and the end of the program.                                         *)
LongOps == {OpRRR("fdiv.d", 0, 8, 4, 1), OpRRR("fsqrt.s", 1, 1, 8, 0),
            OpRRR("div", 0, 4, 4, 1), OpRRR("div", 1, 1, 1, 4), Fma(8, 1, 1, 4)}
OtherOps == {OpRRI("alui", 4, 4, 4), OpRRI("lui", 1, 0, 2), Bne(4, 1, 8), OpRRI("jalr", 1, 4, 4),
             Short(OpRRI("auipc", 1, 0, 3)), CsrRI(1, 1, "mepc", 8), Op("ebreak")}
Last == {Bne(4, 1, 8), Sw(1, 4), OpRRR("div", 1, 1, 1, 4)}
LastLong == {OpRRI("jalr", 0, 1, 0)}
OrderCode == Programs(Arithmetic \cup MemoryOps \cup Jumps, Last)
                \cup {r \in Programs(LongOps \cup OtherOps, LastLong) : UnitsSpaced(r)}

(* Trap handlers: two instructions that set CSRs up, two of the main code,  *)
(* two at the address of the machine-mode handler.                          *)
Setup == {CsrRI(1, 0, "mtvec", 16), CsrRI(1, 0, "stvec", 8), CsrRI(1, 0, "mepc", 8),
          CsrRI(2, 0, "mstatus", 1), CsrRI(1, 0, "medeleg", 1), CsrRI(1, 0, "medeleg", 4)}
Main == {Op("ecall"), Op("mret"), Op("sret"), CsrRR(1, 4, "mepc", 1),
         CsrRI(3, 8, "mstatus", 1), OpRRI("alui", 1, 4, 4)}
Handler == {Op("mret"), Op("sret"), CsrRR(2, 1, "mepc", 4), CsrRI(2, 4, "mstatus", 4)}
(* A program of six instructions, one of each set, that starts over.        *)
OneOfEach(s1, s2, s3, s4, s5, s6) ==
    {Rom((0 :> p[1]) @@ (1 :> p[2]) @@ (2 :> p[3]) @@ (3 :> p[4]) @@ (4 :> p[5])
            @@ (5 :> p[6]) @@ (6 :> Op("ecall")) @@ (7 :> OpRRI("jal", 0, 0, 4))) :
        p \in s1 \X s2 \X s3 \X s4 \X s5 \X s6}
TrapCode == OneOfEach(Setup, Setup, Main, Main, Handler, {Op("mret"), Op("sret")})

(* Both sets of programs keep the rules, under which RefinementProofs has   *)
(* the theorems that the runs check.                                        *)
ASSUME SpacedAssumption ==
    \A r \in IF Size = 16 THEN OrderCode ELSE TrapCode : Spaced(r)

-----------------------------------------------------------------------------
(* The programs on which the pipeline departs from program order. *)

Add == OpRRI("alui", 4, 4, 4)
Fixed(a, b, c, d) == {Rom((0 :> a) @@ (1 :> b) @@ (2 :> c) @@ (3 :> d))}

(* An ECALL on the path that a branch predicted the other way goes on with. *)
WrongPathCode == Fixed(Add, Bne(4, 1, 8), Op("ecall"), Add)

(* A loaded value as the third operand of a fused multiply-add. *)
FmaCode == Fixed(OpRRI("load", 4, 1, 0), Fma(8, 1, 1, 4), Add, Add)
=============================================================================
