--------------------------- MODULE PipelineProofs ---------------------------
(***************************************************************************)
(* Proofs about the pipeline, for every program, every word size and every *)
(* data path that satisfies the typing assumptions of Instructions.        *)
(***************************************************************************)
EXTENDS PipelineReset, TLAPS

-----------------------------------------------------------------------------
(* Types. *)

SlotInstr == [op : Ops \cup {Bubble}, fn : Fn, rd : Reg, rs1 : Reg, rs2 : Reg, rs3 : Reg,
              imm : Word, csr : Csr, size : {2, 4}]

LEMMA ZeroInstrType == ZeroInstr \in SlotInstr /\ 0 \in Reg /\ 0 \in Word
<1>1. (CHOOSE f \in Fn : TRUE) \in Fn
  BY WordAssumption
<1>2. 0 \in Word /\ 0 \in Reg /\ "mstatus" \in Csr
  BY WordAssumption DEF TrapCsr
<1>3. QED
  BY <1>1, <1>2 DEF ZeroInstr, SlotInstr

LEMMA InstrType == Instr \subseteq SlotInstr
  BY DEF Instr, SlotInstr

LEMMA EType == TypeOK => E \in SlotInstr /\ DE.pc \in Word
  BY ZeroInstrType, InstrType DEF TypeOK, E

LEMMA DType == TypeOK => D \in Instr /\ D \in SlotInstr /\ FD.pc \in Word
  BY InstrType DEF TypeOK, D

LEMMA NextPCType ==
  ASSUME NEW pc \in Word, NEW i \in SlotInstr PROVE NextPC(pc, i) \in Word
  BY WordAssumption, ArithmeticAssumption DEF NextPC, SlotInstr

LEMMA ForwardedType ==
  ASSUME TypeOK, NEW r \in Reg PROVE Forwarded(r) \in Word
  BY DEF TypeOK, Forwarded

LEMMA OperandTypes ==
  ASSUME TypeOK
  PROVE  {E_rs1, E_rs2, E_rs3, E_addr, DMemRData, csrRData, E_JALRaddr} \subseteq Word
<1>1. E_rs1 \in Word /\ E_rs2 \in Word /\ E_rs3 \in Word
  BY EType, ForwardedType DEF SlotInstr, E_rs1, E_rs2, E_rs3
<1>2. E_addr \in Word /\ E_JALRaddr \in Word
  BY <1>1, EType, ArithmeticAssumption DEF SlotInstr, E_addr, E_JALRaddr
<1>3. DMemRData \in Word
  BY <1>2, ArithmeticAssumption DEF TypeOK, DMemRData
<1>4. csrRData \in Word
  BY EType DEF TypeOK, SlotInstr, csrRData
<1>5. QED
  BY <1>1, <1>2, <1>3, <1>4

LEMMA OperandTypesOfUnits == TypeOK => FpuOperands \in FpuOperand
  BY OperandTypes, EType DEF FpuOperands, FpuOperand, SlotInstr

LEMMA UnitTypes ==
  ASSUME TypeOK, NEW u \in UnitOps
  PROVE  /\ FpuUnit(u) \in [counter : 0..MaxCycles, ready : BOOLEAN, done : BOOLEAN,
                             x : FpuOperand]
         /\ FpuUnit(u).ready => FpuUnit(u).counter = 0
<1> DEFINE f == fpu[u]
           n == IF Starts(u) THEN LongCycles(u, FpuOperands)
                ELSE IF E.op = u /\ f.counter # 0 THEN f.counter - 1 ELSE 0
           ready == n = 0 /\ f.counter # 0
           x == IF Starts(u) THEN FpuOperands ELSE f.x
           done == IF Starts(u) THEN n = 1 ELSE f.done \/ (E.op = u /\ f.counter = 1)
<1>1. f \in [counter : 0..MaxCycles, ready : BOOLEAN, done : BOOLEAN, x : FpuOperand]
  BY DEF TypeOK
<1>2. FpuOperands \in FpuOperand
  BY OperandTypesOfUnits
<1>3. LongCycles(u, FpuOperands) \in 1..MaxCycles /\ MaxCycles \in Nat
  BY <1>2, PipelineAssumption
<1>4. n \in 0..MaxCycles
  BY <1>1, <1>3
<1>5. x \in FpuOperand /\ done \in BOOLEAN
  BY <1>1, <1>2
<1>6. FpuUnit(u) = [counter |-> n, ready |-> ready, x |-> x, done |-> done]
  BY DEF FpuUnit
<1>7. ready \in BOOLEAN /\ (ready => n = 0)
  OBVIOUS
<1> HIDE DEF n, ready, x, done
<1>8. QED
  BY <1>4, <1>5, <1>6, <1>7

LEMMA ResultTypes ==
  ASSUME TypeOK PROVE E_result \in Word /\ E_PCcorrection \in Word
<1>1. /\ E_rs1 \in Word /\ E_rs2 \in Word /\ E_rs3 \in Word
      /\ DMemRData \in Word /\ csrRData \in Word /\ E_JALRaddr \in Word
  BY OperandTypes
<1>2. /\ E.fn \in Fn /\ E.imm \in Word /\ E.rs1 \in Reg /\ DE.pc \in Word
      /\ NextPC(DE.pc, E) \in Word
  BY EType, NextPCType DEF SlotInstr
<1>3. E_PCcorrection \in Word
  BY <1>1, <1>2, ArithmeticAssumption DEF E_PCcorrection
<1>4. /\ Alu(E.fn, E_rs1, E_rs2) \in Word
      /\ Alu(E.fn, E_rs1, E.imm) \in Word
      /\ Div(div.fn, div.a, div.b) \in Word
      /\ AmoOut(E.fn, DMemRData, E_rs2) \in Word
      /\ CsrOut(E.fn, csrRData, E_rs1) \in Word
      /\ CsrOut(E.fn, csrRData, UImm(E.rs1)) \in Word
      /\ Fpu(E.fn, E_rs1, E_rs2, E_rs3) \in Word
      /\ Plus(DE.pc, E.imm) \in Word
  BY <1>1, <1>2, DataPathAssumption, ArithmeticAssumption DEF TypeOK
<1>u. E.op \in UnitOps => E_fpuLong \in Word
  <2> SUFFICES ASSUME E.op \in UnitOps PROVE E_fpuLong \in Word
    OBVIOUS
  <2>1. /\ FpuOperands \in FpuOperand /\ fpu[E.op].x \in FpuOperand
        /\ fpu[E.op].done \in BOOLEAN
    BY OperandTypesOfUnits DEF TypeOK
  <2>2. FpuLong(E.op, FpuOperands) \in Word
    BY <2>1, DataPathAssumption
  <2>3. FpuPart(E.op, fpu[E.op].x) \in Word
    BY <2>1, PipelineAssumption
  <2>4. FpuStale(E.op, FpuPart(E.op, fpu[E.op].x), fpu[E.op].done, FpuOperands) \in Word
    BY <2>1, <2>3, PipelineAssumption
  <2> QED
    BY <2>2, <2>4 DEF E_fpuLong
<1>5. E_result \in Word
  BY <1>2, <1>4, <1>u DEF E_result
<1>6. QED
  BY <1>3, <1>5

(* What the decode unit makes of the CSRs. *)
LEMMA TrapTypes ==
  ASSUME NEW i \in Instr, NEW v \in Privilege, NEW c \in [Csr -> Word], NEW ret \in Word
  PROVE  /\ PrivilegeSet(i, v, c) \in Privilege
         /\ TrapTarget(i, v, c) \in Word
         /\ TrapSet(i, v, c, ret) \in [Csr -> Word]
<1>1. TrapCsr \subseteq Csr /\ TrapCause(v) \in Word
  BY WordAssumption DEF TrapCause
<1>2. \A x \in TrapCsr : c[x] \in Word
  BY <1>1
<1>3. TrapPrivilege(v, c) \in Privilege
  BY DEF TrapPrivilege, Privilege, SU, MA
<1>4. /\ MPP(c["mstatus"]) \in Privilege
      /\ SPP(c["mstatus"]) \in Privilege
      /\ MTrapStatus(c["mstatus"], v) \in Word
      /\ STrapStatus(c["mstatus"], v) \in Word
  BY <1>2, PrivilegeAssumption DEF TrapCsr, Privilege, US, SU
<1>5. PrivilegeSet(i, v, c) \in Privilege
  BY <1>3, <1>4 DEF PrivilegeSet
<1>6. TrapTarget(i, v, c) \in Word
  BY <1>2 DEF TrapTarget, TrapCsr
<1>7. TrapSet(i, v, c, ret) \in [Csr -> Word]
  BY <1>1, <1>4 DEF TrapSet
<1>8. QED
  BY <1>5, <1>6, <1>7

LEMMA TypeInit == Init => TypeOK
<1> SUFFICES ASSUME Init PROVE TypeOK
  OBVIOUS
<1>1. rom \in [Word -> Instr] /\ 0 \in Word /\ 0 \in Reg /\ "mstatus" \in Csr
  BY PipelineAssumption, WordAssumption DEF Init, Drained, TrapCsr
<1>2. Even(Plus(0, 0)) \in Word
  BY <1>1, ArithmeticAssumption
<1>3. /\ FD \in [pc : Word, instr : Instr, nop : BOOLEAN]
      /\ DE \in [instr : Instr \cup {ZeroInstr}, pc : Word, predict : BOOLEAN, ra : Word]
      /\ EF \in [correctPC : BOOLEAN, PCcorrection : Word]
      /\ EM \in [op : Ops \cup {Bubble}, wb : BOOLEAN, rd : Reg, csr : Csr,
                 csrWrite : BOOLEAN, result : Word, addr : Word, rs2 : Word,
                 Mdata : Word, CSRdata : Word]
      /\ MW \in [wb : BOOLEAN, rd : Reg, data : Word]
  BY <1>1, <1>2 DEF Init, Drained, DE_Bubble, EM_Bubble
<1>4. (CHOOSE f \in Fn : TRUE) \in Fn
  BY WordAssumption
<1>5. /\ div \in [busy : BOOLEAN, finished : BOOLEAN, msk : 0..DivBits,
                  fn : Fn, a : Word, b : Word]
      /\ ~div.busy
  BY <1>1, <1>4, PipelineAssumption DEF Init, Drained, ZeroInstr
<1>u. /\ fpu \in [UnitOps -> [counter : 0..MaxCycles, ready : BOOLEAN, done : BOOLEAN,
                              x : FpuOperand]]
      /\ \A u \in UnitOps : fpu[u].ready => fpu[u].counter = 0
  BY <1>1, <1>4, PipelineAssumption DEF Init, ZeroInstr, FpuOperand
<1>6. /\ ras \in [0..3 -> Word]
      /\ resv \in [addr : Word, changed : BOOLEAN]
      /\ mem \in [Cells -> Word]
  BY PipelineAssumption DEF Init, Drained
<1>7. /\ reset \in BOOLEAN /\ PC \in Word /\ priv \in Privilege
      /\ regs \in [Reg -> Word] /\ csr \in [Csr -> Word]
  <2>1. reset \in BOOLEAN
    BY DEF Init, Drained
  <2>2. PC \in Word /\ regs \in [Reg -> Word] /\ csr \in [Csr -> Word]
    BY <1>1 DEF Init, Drained
  <2>3. priv \in Privilege
    BY DEF Init, Drained, Privilege, MA
  <2>4. QED
    BY <2>1, <2>2, <2>3
<1>8. QED
  BY <1>1, <1>3, <1>5, <1>u, <1>6, <1>7 DEF TypeOK

LEMMA ClockTypes ==
  ASSUME TypeOK, reset' \in BOOLEAN, NEW taken \in BOOLEAN, Clock(taken)
  PROVE  TypeOK'
<1>1. /\ Fetch(taken) /\ Decode(taken) /\ Execute /\ Memory /\ CsrFile /\ WriteBack
      /\ rom' = rom
  BY DEF Clock
<1>2. ZeroInstr \in SlotInstr /\ 0 \in Word /\ 0 \in Reg /\ "mstatus" \in Csr
  BY ZeroInstrType, WordAssumption DEF TrapCsr
<1>3. /\ D \in Instr /\ D \in SlotInstr /\ FD.pc \in Word /\ NextPC(FD.pc, D) \in Word
      /\ E \in SlotInstr
  BY DType, EType, NextPCType
<1>4. /\ PrivilegeSet(D, priv, csr) \in Privilege
      /\ TrapTarget(D, priv, csr) \in Word
      /\ TrapSet(D, priv, csr, NextPC(FD.pc, D)) \in [Csr -> Word]
  BY <1>3, TrapTypes DEF TypeOK
<1>5. /\ E_rs1 \in Word /\ E_rs2 \in Word /\ E_addr \in Word /\ DMemRData \in Word
      /\ csrRData \in Word /\ E_result \in Word /\ E_PCcorrection \in Word
  BY OperandTypes, ResultTypes
<1>6. F_PC(taken) \in Word
  <2>1. D_PCprediction \in Word
    BY <1>3, <1>4, ArithmeticAssumption DEF D_PCprediction, TypeOK, SlotInstr
  <2>2. QED
    BY <2>1 DEF F_PC, TypeOK
<1>7. /\ rom[F_PC(taken)] \in Instr
      /\ NextPC(F_PC(taken), rom[F_PC(taken)]) \in Word
  BY <1>6, InstrType, NextPCType DEF TypeOK
<1>8. FD' \in [pc : Word, instr : Instr, nop : BOOLEAN] /\ PC' \in Word
  <2>1. (D_flush \/ reset) \in BOOLEAN
    OBVIOUS
  <2>2. QED
    BY <1>1, <1>2, <1>6, <1>7, <2>1 DEF Fetch, TypeOK
<1>9. ras' \in [0..3 -> Word]
  BY <1>1, <1>3 DEF Decode, ReturnStack, TypeOK
<1>10. priv' \in Privilege
  BY <1>1, <1>4 DEF Decode, TypeOK, Privilege, MA
<1>11. DE' \in [instr : Instr \cup {ZeroInstr}, pc : Word, predict : BOOLEAN, ra : Word]
  BY <1>1, <1>2, <1>3 DEF Decode, DE_Bubble, TypeOK
<1>12. EF' \in [correctPC : BOOLEAN, PCcorrection : Word]
  <2>1. E_correctPC \in BOOLEAN
    BY DEF E_correctPC
  <2>2. QED
    BY <1>1, <1>5, <2>1 DEF Execute, TypeOK
<1>13. /\ div' \in [busy : BOOLEAN, finished : BOOLEAN, msk : 0..DivBits,
                    fn : Fn, a : Word, b : Word]
       /\ div'.busy => div'.msk # 0
  <2>1. E.fn \in Fn
    BY <1>3 DEF SlotInstr
  <2>2. CASE div.busy
    <3>1. div.msk \in 0..DivBits /\ div.msk # 0 /\ DivBits \in Nat
      BY <2>2, PipelineAssumption DEF TypeOK
    <3>2. div' = [div EXCEPT !.msk = @ - 1, !.busy = (div.msk # 1),
                             !.finished = (div.msk = 1)]
      BY <1>1, <2>2 DEF Execute, Divider
    <3>3. (div.msk # 1) \in BOOLEAN /\ (div.msk = 1) \in BOOLEAN
      OBVIOUS
    <3>4. div.msk - 1 \in 0..DivBits /\ (div.msk # 1 => div.msk - 1 # 0)
      BY <3>1
    <3>5. QED
      BY <3>2, <3>3, <3>4 DEF TypeOK
  <2>3. CASE ~div.busy
    <3> DEFINE start == E.op = "div" /\ ~dataHazard /\ ~div.finished
    <3>1. div' = [busy |-> start, finished |-> (div.msk = 1),
                  msk |-> IF start THEN DivBits ELSE div.msk,
                  fn |-> E.fn, a |-> E_rs1, b |-> E_rs2]
      BY <1>1, <2>3 DEF Execute, Divider
    <3>2. start \in BOOLEAN /\ (div.msk = 1) \in BOOLEAN
      OBVIOUS
    <3>3. (IF start THEN DivBits ELSE div.msk) \in 0..DivBits
      BY PipelineAssumption DEF TypeOK
    <3>4. start => DivBits # 0
      BY PipelineAssumption
    <3> HIDE DEF start
    <3>5. QED
      BY <1>5, <2>1, <3>1, <3>2, <3>3, <3>4
  <2>4. QED
    BY <2>2, <2>3
<1>14. EM' \in [op : Ops \cup {Bubble}, wb : BOOLEAN, rd : Reg, csr : Csr,
                csrWrite : BOOLEAN, result : Word, addr : Word, rs2 : Word,
                Mdata : Word, CSRdata : Word]
  <2>1. /\ (E_stall /\ EM.csrWrite) \in BOOLEAN /\ IsCsrWrite(E) \in BOOLEAN
        /\ (WbEnable(E) /\ E.rd # 0) \in BOOLEAN
    BY DEF IsCsrWrite
  <2>2. QED
    BY <1>1, <1>2, <1>3, <1>5, <2>1 DEF Execute, EM_Bubble, SlotInstr
<1>15. MW' \in [wb : BOOLEAN, rd : Reg, data : Word]
  <2>1. M_scWriteable \in BOOLEAN
    BY DEF M_scWriteable, M_addressReserved
  <2>2. M_wbData \in Word
    BY <2>1, DataPathAssumption DEF M_wbData, TypeOK
  <2>3. QED
    BY <1>1, <2>2 DEF Memory, TypeOK
<1>16. mem' \in [Cells -> Word]
  BY <1>1, ArithmeticAssumption DEF Memory, M_mem, TypeOK
<1>17. resv' \in [addr : Word, changed : BOOLEAN]
  BY <1>1 DEF Memory, M_resv, TypeOK
<1>18. csr' \in [Csr -> Word]
  <2>1. M_csr \in [Csr -> Word]
    BY PrivilegeAssumption DEF M_csr, TypeOK
  <2>2. QED
    BY <1>1, <1>2, <1>4, <2>1 DEF CsrFile
<1>19. regs' \in [Reg -> Word]
  BY <1>1, <1>2 DEF WriteBack, W_regs, TypeOK
<1>20. rom' \in [Word -> Instr]
  BY <1>1 DEF TypeOK
<1>u. /\ fpu' \in [UnitOps -> [counter : 0..MaxCycles, ready : BOOLEAN, done : BOOLEAN,
                               x : FpuOperand]]
      /\ \A u \in UnitOps : fpu'[u].ready => fpu'[u].counter = 0
  BY <1>1, UnitTypes DEF Execute
<1>21. QED
  BY <1>u, <1>8, <1>9, <1>10, <1>11, <1>12, <1>13, <1>14, <1>15, <1>16, <1>17, <1>18,
     <1>19, <1>20 DEF TypeOK

LEMMA TypeStep == TypeOK /\ [Next]_vars => TypeOK'
<1>1. TypeOK /\ UNCHANGED vars => TypeOK'
  BY DEF vars, TypeOK
<1>2. TypeOK /\ Next => TypeOK'
  <2> SUFFICES ASSUME TypeOK, Next PROVE TypeOK'
    OBVIOUS
  <2>1. PICK taken \in BOOLEAN : Clock(taken) /\ UNCHANGED reset
    BY DEF Next
  <2>2. reset' \in BOOLEAN
    BY <2>1 DEF TypeOK
  <2>3. QED
    BY <2>1, <2>2, ClockTypes
<1>3. QED
  BY <1>1, <1>2

(* Every latch of the pipeline always holds a value its wires can carry,   *)
(* and a busy divider has a quotient bit left, for every data path.        *)
THEOREM TypeCorrect == Spec => []TypeOK
<1>1. QED
  BY TypeInit, TypeStep, PTL DEF Spec

-----------------------------------------------------------------------------
(* The control invariant. *)

LEMMA DrainedControl == Drained /\ reset = FALSE => ControlInv
  BY DEF Drained, ControlInv, LoadsWaitForStores, ForwardsFinalValues, CsrReadsSettled,
         NotFinal, E, DE_Bubble, EM_Bubble, ZeroInstr, AmoOps, CsrOps, Bubble

LEMMA ControlInit == Init => ControlInv
  BY DrainedControl DEF Init

(* Where the instruction of the execute unit comes from. *)
LEMMA NextE ==
  ASSUME NEW taken, Decode(taken)
  PROVE  \/ E' = ZeroInstr
         \/ ~E_flush /\ ~FD.nop /\ D_stall /\ E' = E
         \/ ~E_flush /\ ~FD.nop /\ ~D_stall /\ E' = D
  BY DEF Decode, DE_Bubble, E

LEMMA ControlStep == TypeOK /\ ControlInv /\ [Next]_vars => ControlInv'
<1> SUFFICES ASSUME TypeOK, ControlInv, [Next]_vars PROVE ControlInv'
  OBVIOUS
<1>1. CASE UNCHANGED vars
  BY <1>1 DEF vars, ControlInv, LoadsWaitForStores, ForwardsFinalValues, CsrReadsSettled,
              NotFinal, E
<1>2. CASE Next
  <2>1. PICK taken \in BOOLEAN : Clock(taken) /\ UNCHANGED reset
    BY <1>2 DEF Next
  <2>2. /\ Fetch(taken) /\ Decode(taken) /\ Execute
    BY <2>1 DEF Clock
  <2>3. reset = FALSE /\ reset' = FALSE
    BY <2>1 DEF ControlInv
  <2>4. ZeroInstr.op = Bubble
    BY DEF ZeroInstr
  <2>5. E_correctPC => E.op \in {"jalr", "branch"} /\ ~div.busy /\ ~aluBusy
    BY DEF E_correctPC, aluBusy, E_fpuBusy, UnitOps, ControlInv, Bubble
  (* An instruction that stays where it is while the rest waits for it. *)
  <2>6. ~E_flush /\ D_stall => E.op = "ebreak" \/ aluBusy
    BY DEF E_flush, D_stall, HALT
  <2>7. aluBusy => E.op \in {"div", Bubble} \cup UnitOps
    BY DEF aluBusy, E_fpuBusy, ControlInv
  <2>8. E'.op = Bubble \/ E'.op \in {"ebreak", "div"} \cup UnitOps
          \/ (~dataHazard /\ ~FD.nop /\ ~D_stall /\ E' = D)
    BY <2>2, <2>4, <2>6, <2>7, NextE DEF E_flush, D_stall
  <2>nop. FD'.nop = (E_correctPC \/ reset)
    <3>1. DOMAIN FD = {"pc", "instr", "nop"}
      BY DEF TypeOK
    <3>2. QED
      BY <2>2, <3>1, Zenon DEF Fetch, D_flush
  <2>9. (div.busy => E.op \in {"div", Bubble})'
    <3>1. SUFFICES ASSUME div'.busy PROVE E'.op \in {"div", Bubble}
      OBVIOUS
    <3>2. div.busy \/ (E.op = "div" /\ ~div.finished)
      BY <2>2, <3>1 DEF Execute, Divider
    <3>3. aluBusy
      BY <3>2 DEF aluBusy
    <3>4. E' = ZeroInstr \/ E' = E
      BY <3>3, <2>2, NextE DEF D_stall
    <3>5. QED
      BY <3>2, <3>4, <2>4 DEF ControlInv
  <2>10. (FD.nop => E.op = Bubble /\ ~div.busy /\ ~EM.csrWrite)'
    <3>1. SUFFICES ASSUME FD'.nop
                   PROVE  E'.op = Bubble /\ ~div'.busy /\ ~EM'.csrWrite
      OBVIOUS
    <3>2. E_correctPC
      BY <2>nop, <2>3, <3>1
    <3>3. E' = ZeroInstr
      BY <2>2, <3>2, NextE DEF E_flush
    <3>4. ~div'.busy
      BY <2>2, <2>5, <3>2 DEF Execute, Divider
    <3>5. ~EM'.csrWrite
      BY <2>2, <2>5, <3>2 DEF Execute, E_stall, EM_Bubble, IsCsrWrite, CsrOps
    <3>6. QED
      BY <2>4, <3>3, <3>4, <3>5
  <2>11. (EF.correctPC => FD.nop)'
    <3>1. EF'.correctPC => E_correctPC
      BY <2>2 DEF Execute, TypeOK
    <3>2. QED
      BY <2>nop, <3>1
  <2>12. EM'.op = Bubble \/ (~aluBusy /\ EM'.op = E.op)
    BY <2>2 DEF Execute, E_stall, EM_Bubble
  <2>13. LoadsWaitForStores'
    <3>1. SUFFICES ASSUME E'.op \in {"load"} \cup AmoOps
                   PROVE  EM'.op \notin {"store"} \cup AmoOps
      BY DEF LoadsWaitForStores
    <3>2. ~dataHazard /\ E' = D
      BY <2>8, <3>1 DEF AmoOps, UnitOps, Bubble
    <3>3. QED
      BY <2>12, <3>1, <3>2 DEF dataHazard, AmoOps, Bubble
  <2>14. ForwardsFinalValues'
    <3>1. SUFFICES ASSUME NEW r, EM'.wb, EM'.rd = r,
                          EM'.op \in {"load"} \cup AmoOps \cup CsrOps
                   PROVE  /\ ReadsRs1(E') => E'.rs1 # r
                          /\ ReadsRs2(E') => E'.rs2 # r
      BY DEF ForwardsFinalValues, NotFinal
    <3>2. ~aluBusy /\ EM'.op = E.op /\ EM'.rd = E.rd /\ E.rd # 0
      BY <2>2, <3>1 DEF Execute, E_stall, EM_Bubble
    <3>3. CASE E' = ZeroInstr
      BY <3>1, <3>2, <3>3 DEF ZeroInstr
    <3>4. CASE ~dataHazard /\ ~FD.nop /\ E' = D
      BY <3>1, <3>2, <3>4 DEF dataHazard, rs1Hazard, rs2Hazard
    <3>5. ~(~E_flush /\ D_stall)
      BY <2>6, <3>1, <3>2 DEF AmoOps, CsrOps
    <3>6. QED
      BY <2>2, <3>3, <3>4, <3>5, NextE DEF D_stall
  <2>15. CsrReadsSettled'
    <3>1. SUFFICES ASSUME E'.op \in CsrOps PROVE ~EM'.csrWrite
      BY DEF CsrReadsSettled
    <3>2. ~dataHazard /\ ~D_stall /\ E' = D
      BY <2>8, <3>1 DEF CsrOps, UnitOps, Bubble
    <3>3. ~IsCsrWrite(E)
      BY <3>1, <3>2 DEF dataHazard
    <3>4. QED
      BY <2>2, <3>2, <3>3 DEF Execute, E_stall, EM_Bubble, D_stall
  <2>16. QED
    BY <2>3, <2>9, <2>10, <2>11, <2>13, <2>14, <2>15 DEF ControlInv
<1>3. QED
  BY <1>1, <1>2

(* The control unit never deadlocks a squashed or corrected fetch, never    *)
(* forwards an unfinished result, never lets a load overtake a store: the   *)
(* invariant behind the three theorems that follow.                         *)
THEOREM ControlCorrect == Spec => []ControlInv
<1>1. Init => ControlInv
  BY ControlInit
<1>2. TypeOK /\ ControlInv /\ [Next]_vars => ControlInv'
  BY ControlStep
<1>3. QED
  BY <1>1, <1>2, TypeCorrect, PTL DEF Spec

LEMMA SquashFollows == ControlInv => SquashedStaysSquashed
<1> SUFFICES ASSUME ControlInv, FD.nop PROVE ~D_stall
  BY DEF SquashedStaysSquashed
<1>1. E.op = Bubble /\ ~div.busy /\ ~EM.csrWrite
  BY DEF ControlInv
<1>2. ~aluBusy /\ ~HALT /\ ~csrHazard /\ ~dataHazard
  BY <1>1 DEF aluBusy, E_fpuBusy, UnitOps, HALT, csrHazard, dataHazard, IsCsrWrite,
              AmoOps, CsrOps, Bubble
<1>3. QED
  BY <1>2 DEF D_stall

LEMMA CorrectionFollows == ControlInv => CorrectionNeverLost
  BY SquashFollows DEF ControlInv, CorrectionNeverLost, SquashedStaysSquashed, D_predictPC

(* For every program: no stall brings a squashed instruction back to life. *)
THEOREM SquashedIsFinal == Spec => []SquashedStaysSquashed
  BY ControlCorrect, SquashFollows, PTL

(* For every program: the fetch unit takes every PC correction in the one  *)
(* cycle in which it is offered.                                           *)
THEOREM CorrectionTaken == Spec => []CorrectionNeverLost
  BY ControlCorrect, CorrectionFollows, PTL

(* For every program: a load or an atomic never reads the memory while an  *)
(* older store or atomic is still to write it.                             *)
THEOREM MemoryInOrder == Spec => []LoadsWaitForStores
<1>1. ControlInv => LoadsWaitForStores
  BY DEF ControlInv
<1>2. QED
  BY <1>1, ControlCorrect, PTL

(* For every program: the two checked operands are never forwarded from an *)
(* instruction whose result is still to come.                              *)
THEOREM ForwardingFinal == Spec => []ForwardsFinalValues
<1>1. ControlInv => ForwardsFinalValues
  BY DEF ControlInv
<1>2. QED
  BY <1>1, ControlCorrect, PTL

(* For every program: a CSR instruction never reads past a pending write   *)
(* that the hazard logic knows of.                                         *)
THEOREM CsrInOrder == Spec => []CsrReadsSettled
<1>1. ControlInv => CsrReadsSettled
  BY DEF ControlInv
<1>2. QED
  BY <1>1, ControlCorrect, PTL

-----------------------------------------------------------------------------
(***************************************************************************)
(* Resets: how long one has to last, and what can be relied on after it.   *)
(***************************************************************************)
(* What is empty after how many edges of reset_i: the fetch unit and the    *)
(* register files after one, the execute unit after two, the memory unit,   *)
(* the corrections and the counters of the FPU after three, the write-back  *)
(* unit and the flags of the FPU after four; and a division of integers     *)
(* that was in the execute unit then still runs to its last bit.            *)
FetchReset == FD.nop /\ PC = 0 /\ priv = MA /\ regs = [r \in Reg |-> 0] /\ csr = [c \in Csr |-> 0]
ExecuteReset == DE = DE_Bubble /\ (div.busy => div.msk + held <= DivBits + 2)
MemoryReset == /\ ~EF.correctPC /\ EM = EM_Bubble(EM.csrWrite)
               /\ EM.csrWrite => held <= DivBits + 2
               /\ \A u \in UnitOps : fpu[u].counter = 0
WriteBackReset == MW = [wb |-> FALSE, rd |-> 0, data |-> 0] /\ \A u \in UnitOps : ~fpu[u].ready
ResetInv ==
    /\ held \in 0..Drain /\ settled \in BOOLEAN
    /\ ~div.busy => div.msk = 0
    /\ held >= 1 => FetchReset
    /\ held >= 2 => ExecuteReset
    /\ held >= 3 => MemoryReset
    /\ held >= 4 => WriteBackReset
    /\ held = Drain => Drained

LEMMA ResetTypes == ResetSpec => []TypeOK
<1>1. InitReset => TypeOK
  BY TypeInit DEF InitReset
<1>2. TypeOK /\ [Edge]_resetVars => TypeOK'
  <2>1. TypeOK /\ UNCHANGED resetVars => TypeOK'
    BY DEF resetVars, vars, TypeOK
  <2>2. TypeOK /\ Edge => TypeOK'
    <3> SUFFICES ASSUME TypeOK, Edge PROVE TypeOK'
      OBVIOUS
    <3>1. PICK taken \in BOOLEAN : Clock(taken)
      BY DEF Edge
    <3>2. reset' \in BOOLEAN
      BY DEF Edge
    <3>3. QED
      BY <3>1, <3>2, ClockTypes
  <2>3. QED
    BY <2>1, <2>2
<1>3. QED
  BY <1>1, <1>2, PTL DEF ResetSpec

LEMMA ResetInvInit == InitReset => ResetInv
<1> SUFFICES ASSUME InitReset PROVE ResetInv
  OBVIOUS
<1>1. held = 0 /\ settled = TRUE /\ ~div.busy /\ div.msk = 0
  BY DEF InitReset, Init, Drained
<1>2. 0 \in 0..Drain /\ 0 # Drain
  BY PipelineAssumption DEF Drain
<1>3. QED
  BY <1>1, <1>2 DEF ResetInv

(* The divider's last bit is its mask's last place.                         *)
LEMMA DividerMask ==
  ASSUME TypeOK, ~div.busy => div.msk = 0, Divider
  PROVE  ~div'.busy => div'.msk = 0
<1>1. CASE div.busy
  <2>1. div' = [div EXCEPT !.msk = @ - 1, !.busy = (div.msk # 1), !.finished = (div.msk = 1)]
    BY <1>1 DEF Divider
  <2>2. (div'.busy <=> div.msk # 1) /\ div'.msk = div.msk - 1
    BY <2>1 DEF TypeOK
  <2>3. div.msk \in Int
    BY DEF TypeOK
  <2>4. QED
    BY <2>2, <2>3
<1>2. CASE ~div.busy
  <2>1. div.msk = 0
    BY <1>2
  <2>2. div'.busy <=> (E.op = "div" /\ ~dataHazard /\ ~div.finished)
    BY <1>2 DEF Divider
  <2>3. div'.msk = IF E.op = "div" /\ ~dataHazard /\ ~div.finished THEN DivBits ELSE div.msk
    BY <1>2 DEF Divider
  <2>4. QED
    BY <2>1, <2>2, <2>3
<1>3. QED
  BY <1>1, <1>2

(* An edge of the clock with reset_i high, after h of them.                 *)
LEMMA FirstEdge ==
  ASSUME TypeOK, reset, NEW taken \in BOOLEAN, Clock(taken)
  PROVE  FetchReset'
<1>1. PC' = 0 /\ priv' = MA /\ regs' = [r \in Reg |-> 0] /\ csr' = [c \in Csr |-> 0]
  BY DEF Clock, Fetch, Decode, WriteBack, CsrFile
<1>2. FD'.nop
  BY DEF Clock, Fetch, TypeOK
<1>3. QED
  BY <1>1, <1>2 DEF FetchReset

LEMMA EmptyExecute ==
  ASSUME DE = DE_Bubble
  PROVE  /\ E = ZeroInstr /\ E.op = Bubble /\ ~E_correctPC /\ ~dataHazard /\ ~HALT
         /\ E_stall <=> div.busy
BY DEF E, DE_Bubble, ZeroInstr, E_correctPC, dataHazard, HALT, E_stall, aluBusy, E_fpuBusy,
       UnitOps, IsCsrWrite, AmoOps, CsrOps, Bubble

(* With nothing in the execute unit the FPU comes to rest in two edges.     *)
LEMMA IdleUnits ==
  ASSUME E.op = Bubble, Execute, NEW u \in UnitOps
  PROVE  /\ fpu'[u].counter = 0
         /\ fpu'[u].ready <=> fpu[u].counter # 0
<1>1. E.op # u
  BY DEF UnitOps, Bubble
<1>2. QED
  BY <1>1 DEF Execute, FpuUnit, Starts

LEMMA SecondEdge ==
  ASSUME ResetInv, TypeOK, held >= 1, NEW h \in Nat, held' = h, h <= held + 1,
         NEW taken \in BOOLEAN, Clock(taken)
  PROVE  ExecuteReset'
<1>1. DE' = DE_Bubble
  BY DEF Clock, Decode, ResetInv, FetchReset
<1>2. SUFFICES ASSUME div'.busy PROVE div'.msk + h <= DivBits + 2
  BY <1>1 DEF ExecuteReset
<1>3. /\ div.msk \in 0..DivBits /\ held \in 0..Drain /\ Drain \in Nat /\ DivBits \in Nat
  BY PipelineAssumption DEF TypeOK, ResetInv, Drain
<1>4. CASE div.busy
  <2>1. div' = [div EXCEPT !.msk = @ - 1, !.busy = (div.msk # 1), !.finished = (div.msk = 1)]
    BY <1>4 DEF Clock, Execute, Divider
  <2>2. div'.msk = div.msk - 1
    BY <2>1 DEF TypeOK
  <2>3. held >= 2 => div.msk + held <= DivBits + 2
    BY <1>4 DEF ResetInv, ExecuteReset
  <2>4. QED
    BY <1>3, <2>2, <2>3
<1>5. CASE ~div.busy
  <2>1. div'.busy <=> (E.op = "div" /\ ~dataHazard /\ ~div.finished)
    BY <1>5 DEF Clock, Execute, Divider
  <2>2. held = 1
    <3>1. held >= 2 => E.op = Bubble
      BY EmptyExecute DEF ResetInv, ExecuteReset
    <3>2. QED
      BY <1>2, <1>3, <2>1, <3>1 DEF Bubble
  <2>3. div'.msk = DivBits
    BY <1>2, <1>5, <2>1 DEF Clock, Execute, Divider
  <2>4. QED
    BY <1>3, <2>2, <2>3
<1>6. QED
  BY <1>4, <1>5

LEMMA ThirdEdge ==
  ASSUME ResetInv, TypeOK, held >= 2, NEW h \in Nat, held' = h, h <= held + 1,
         NEW taken \in BOOLEAN, Clock(taken)
  PROVE  MemoryReset'
<1>1. /\ E.op = Bubble /\ ~E_correctPC /\ (E_stall <=> div.busy)
      /\ div.busy => div.msk + held <= DivBits + 2
  BY EmptyExecute DEF ResetInv, ExecuteReset
<1>2. ~EF'.correctPC
  BY <1>1 DEF Clock, Execute, TypeOK
<1>3. EM' = EM_Bubble(E_stall /\ EM.csrWrite)
  BY <1>1 DEF Clock, Execute
<1>4. EM'.csrWrite = (E_stall /\ EM.csrWrite)
  BY <1>3 DEF EM_Bubble
<1>5. EM' = EM_Bubble(EM'.csrWrite)
  BY <1>3, <1>4
<1>6. EM'.csrWrite => h <= DivBits + 2
  <2>1. SUFFICES ASSUME div.busy PROVE h <= DivBits + 2
    BY <1>1, <1>4
  <2>2. div.msk \in Nat /\ div.msk # 0 /\ held \in Nat /\ DivBits \in Nat
    BY <2>1, PipelineAssumption DEF TypeOK, ResetInv, Drain
  <2>3. QED
    BY <1>1, <2>1, <2>2
<1>7. \A u \in UnitOps : fpu'[u].counter = 0
  BY <1>1, IdleUnits DEF Clock
<1>8. QED
  BY <1>2, <1>5, <1>6, <1>7 DEF MemoryReset, EM_Bubble

LEMMA FourthEdge ==
  ASSUME ResetInv, held \in Nat, held >= 3, NEW taken \in BOOLEAN, Clock(taken)
  PROVE  WriteBackReset'
<1>1. /\ EM.op = Bubble /\ EM.wb = FALSE /\ EM.rd = 0 /\ EM.result = 0
  BY DEF ResetInv, MemoryReset, EM_Bubble
<1>2. M_wbData = 0
  BY <1>1 DEF M_wbData, CsrOps, Bubble
<1>3. \A u \in UnitOps : ~fpu'[u].ready
  <2>1. E.op = Bubble
    BY EmptyExecute DEF ResetInv, ExecuteReset
  <2>2. \A u \in UnitOps : fpu[u].counter = 0
    BY DEF ResetInv, MemoryReset
  <2>3. QED
    BY <2>1, <2>2, IdleUnits DEF Clock
<1>4. QED
  BY <1>1, <1>2, <1>3 DEF Clock, Memory, WriteBackReset

LEMMA LastEdge ==
  ASSUME ResetInv, TypeOK, reset, held >= DivBits + 3, NEW taken \in BOOLEAN, Clock(taken)
  PROVE  Drained'
<1>1. held \in Nat /\ DivBits \in Nat /\ DivBits >= 1 /\ held >= 4
  BY PipelineAssumption DEF ResetInv, Drain
<1>2. FetchReset /\ ExecuteReset /\ MemoryReset /\ WriteBackReset
  BY <1>1 DEF ResetInv
<1>3. ~div.busy /\ div.msk = 0
  <2>1. div.msk \in Nat /\ (div.busy => div.msk # 0)
    BY <1>1 DEF TypeOK
  <2>2. QED
    BY <1>1, <1>2, <2>1 DEF ExecuteReset, ResetInv
<1>4. ~EF.correctPC /\ EM = EM_Bubble(FALSE)
  <2>1. ~EM.csrWrite /\ EM.csrWrite \in BOOLEAN
    BY <1>1, <1>2 DEF MemoryReset, TypeOK
  <2>2. QED
    BY <1>2, <2>1 DEF MemoryReset
<1>5. /\ E = ZeroInstr /\ E.op = Bubble /\ ~E_correctPC /\ ~dataHazard /\ ~HALT /\ ~E_stall
  BY <1>2, <1>3, EmptyExecute DEF ExecuteReset
<1>6. ~D_stall /\ ~D_predictPC(taken)
  BY <1>2, <1>4, <1>5 DEF D_stall, csrHazard, E_stall, EM_Bubble, D_predictPC, FetchReset
<1>7. FetchReset' /\ DE' = DE_Bubble /\ WriteBackReset'
  BY <1>1, <1>2, FirstEdge, FourthEdge DEF Clock, Decode, FetchReset
<1>8. FD' = [pc |-> 0, instr |-> rom'[0], nop |-> TRUE]
  <2>1. F_PC(taken) = 0
    BY <1>2, <1>4, <1>6 DEF F_PC, FetchReset
  <2>2. FD' = [pc |-> F_PC(taken), instr |-> rom[F_PC(taken)], nop |-> D_flush \/ reset]
    BY <1>6 DEF Clock, Fetch
  <2>3. (D_flush \/ reset) = TRUE
    OBVIOUS
  <2>4. rom' = rom
    BY DEF Clock
  <2>5. QED
    BY <2>1, <2>2, <2>3, <2>4
<1>9. E_rs1 = 0 /\ E_rs2 = 0
  BY <1>2, <1>4, <1>5, WordAssumption DEF E_rs1, E_rs2, Forwarded, EM_Bubble, WriteBackReset,
     FetchReset, ZeroInstr
<1>10. EF' = [correctPC |-> FALSE, PCcorrection |-> Even(Plus(0, 0))]
  <2>1. EF' = [correctPC |-> E_correctPC, PCcorrection |-> E_PCcorrection]
    BY <1>5 DEF Clock, Execute
  <2>2. E_correctPC = FALSE
    BY <1>5
  <2>3. E_PCcorrection = Even(Plus(0, 0))
    BY <1>5, <1>9 DEF E_PCcorrection, E_JALRaddr, ZeroInstr, Bubble
  <2>4. QED
    BY <2>1, <2>2, <2>3
<1>11. EM' = EM_Bubble(FALSE)
  BY <1>5 DEF Clock, Execute
<1>12. div' = [busy |-> FALSE, finished |-> FALSE, msk |-> 0, fn |-> ZeroInstr.fn, a |-> 0, b |-> 0]
  <2>1. (E.op = "div" /\ ~dataHazard /\ ~div.finished) = FALSE /\ (div.msk = 1) = FALSE
    BY <1>3, <1>5 DEF Bubble
  <2>2. Divider
    BY DEF Clock, Execute
  <2>3. QED
    BY <1>3, <1>5, <1>9, <2>1, <2>2 DEF Divider
<1>13. \A u \in UnitOps : fpu'[u].counter = 0 /\ ~fpu'[u].ready
  BY <1>5, <1>7, IdleUnits DEF Clock, WriteBackReset
<1>14. QED
  BY <1>7, <1>8, <1>10, <1>11, <1>12, <1>13 DEF Drained, FetchReset, WriteBackReset

LEMMA ResetStep == TypeOK /\ ResetInv /\ [Edge]_resetVars => ResetInv'
<1>1. ResetInv /\ UNCHANGED resetVars => ResetInv'
  BY DEF resetVars, vars, ResetInv, FetchReset, ExecuteReset, MemoryReset, WriteBackReset, Drained
<1>2. SUFFICES ASSUME TypeOK, ResetInv, Edge PROVE ResetInv'
  BY <1>1
<1>3. PICK taken \in BOOLEAN : Clock(taken)
  BY <1>2 DEF Edge
<1>4. /\ DivBits \in Nat /\ DivBits # 0 /\ Drain = DivBits + 4 /\ Drain \in Nat
      /\ held \in 0..Drain
  BY <1>2, PipelineAssumption DEF ResetInv, Drain
<1>5. held' = (IF ~reset THEN 0 ELSE IF held < Drain THEN held + 1 ELSE Drain)
  BY <1>2 DEF Edge
<1>6. PICK h \in Nat : /\ held' = h /\ h \in 0..Drain /\ h <= held + 1
                       /\ h >= 1 => reset
                       /\ h = Drain => held >= DivBits + 3
  BY <1>4, <1>5
<1>7. settled' \in BOOLEAN
  BY <1>2 DEF Edge, ResetInv
<1>8. ~div'.busy => div'.msk = 0
  BY <1>2, <1>3, DividerMask DEF ResetInv, Clock, Execute
<1>9. ASSUME h >= 1 PROVE FetchReset'
  <2>1. reset
    BY <1>6, <1>9
  <2>2. QED
    BY <1>2, <1>3, <1>6, <2>1, FirstEdge
<1>10. ASSUME h >= 2 PROVE ExecuteReset'
  <2>1. held >= 1
    BY <1>4, <1>6, <1>10
  <2>2. QED
    BY <1>2, <1>3, <1>6, <2>1, SecondEdge
<1>11. ASSUME h >= 3 PROVE MemoryReset'
  <2>1. held >= 2
    BY <1>4, <1>6, <1>11
  <2>2. QED
    BY <1>2, <1>3, <1>6, <2>1, ThirdEdge
<1>12. ASSUME h >= 4 PROVE WriteBackReset'
  <2>1. held >= 3
    BY <1>4, <1>6, <1>12
  <2>2. QED
    BY <1>2, <1>3, <1>4, <1>6, <2>1, FourthEdge
<1>13. ASSUME h = Drain PROVE Drained'
  <2>1. reset /\ held >= DivBits + 3
    BY <1>4, <1>6, <1>13
  <2>2. QED
    BY <1>2, <1>3, <1>6, <2>1, LastEdge
<1>14. /\ held' >= 1 => FetchReset'
       /\ held' >= 2 => ExecuteReset'
       /\ held' >= 3 => MemoryReset'
       /\ held' >= 4 => WriteBackReset'
       /\ held' = Drain => Drained'
  BY <1>6, <1>9, <1>10, <1>11, <1>12, <1>13
<1>15. QED
  BY <1>6, <1>7, <1>8, <1>14 DEF ResetInv, Drain

LEMMA ResetInvariant == ResetSpec => [](TypeOK /\ ResetInv)
<1>1. InitReset => ResetInv
  BY ResetInvInit
<1>2. TypeOK /\ ResetInv /\ [Edge]_resetVars => ResetInv'
  BY ResetStep
<1>3. QED
  BY <1>1, <1>2, ResetTypes, PTL DEF ResetSpec

(* Under any reset every latch holds a value its wires can carry. *)
THEOREM ResetTypeCorrect == ResetSpec => []ResetTypeOK
<1>1. TypeOK /\ ResetInv => ResetTypeOK
  BY DEF ResetInv, ResetTypeOK
<1>2. QED
  BY <1>1, ResetInvariant, PTL

(* Whatever is in flight, four edges more than the divider has quotient     *)
(* bits are enough for a reset to bring the processor to its first state.   *)
THEOREM LongResetDrains == ResetSpec => []ResetDrains
<1>1. ResetInv => ResetDrains
  BY DEF ResetInv, ResetDrains
<1>2. QED
  BY <1>1, ResetInvariant, PTL

(* What is inductive about it. *)
ControlAfterReset == settled /\ ~reset => ControlInv

(* After a reset that long the hazard and flush logic is sound again,       *)
(* however often and however short the processor was reset before.          *)
THEOREM ResetRestoresControl == ResetSpec => []SoundAfterReset
<1>1. InitReset => ControlAfterReset
  BY ControlInit DEF InitReset, ControlAfterReset
<1>2. TypeOK /\ ResetInv /\ TypeOK' /\ ResetInv' /\ ControlAfterReset /\ [Edge]_resetVars
        => ControlAfterReset'
  <2> SUFFICES ASSUME TypeOK, ResetInv, TypeOK', ResetInv', ControlAfterReset,
                      [Edge]_resetVars, settled', ~reset'
               PROVE  ControlInv'
    BY DEF ControlAfterReset
  <2>1. CASE UNCHANGED resetVars
    <3>1. UNCHANGED vars /\ settled /\ ~reset
      BY <2>1 DEF resetVars, vars
    <3>2. QED
      BY <3>1, ControlStep DEF ControlAfterReset
  <2>2. CASE Edge /\ ~reset
    <3>1. settled /\ Next
      BY <2>2 DEF Edge, Next, TypeOK
    <3>2. QED
      BY <2>2, <3>1, ControlStep DEF ControlAfterReset
  <2>3. CASE Edge /\ reset
    <3>1. Drained' /\ reset' = FALSE
      BY <2>3 DEF Edge, ResetInv, TypeOK
    <3>2. (Drained /\ reset = FALSE => ControlInv)'
      BY DrainedControl, PTL
    <3>3. QED
      BY <3>1, <3>2
  <2>4. QED
    BY <2>1, <2>2, <2>3
<1>3. ControlAfterReset => SoundAfterReset
  BY SquashFollows, CorrectionFollows DEF ControlAfterReset, SoundAfterReset, ControlInv
<1>4. QED
  BY <1>1, <1>2, <1>3, ResetInvariant, PTL DEF ResetSpec
=============================================================================
