--------------------------- MODULE RefinementProofs ---------------------------
(***************************************************************************)
(* The pipeline implements the sequential machine: for every program, word *)
(* and data path, on all behaviours without the sequences that the code    *)
(* gets wrong, each of which is a property of its own; and on all behaviours*)
(* of the programs that keep the rules of PipelineRefinesIsa.              *)
(***************************************************************************)
EXTENDS PipelineRefinesIsa, PipelineProofs

(* Where the instructions of the pipeline come from, which operands the     *)
(* division under way has, and that nothing is ever written to x0.          *)
PathInv ==
    /\ FD.instr = rom[FD.pc]
    /\ ~FD.nop => PC = NextPC(FD.pc, D)
    /\ E.op # Bubble => E = rom[DE.pc]
    /\ ~div.busy => div.msk = 0
    /\ div.busy => ~div.finished
    /\ E.op = "div" /\ (div.busy \/ div.finished) =>
          div.fn = E.fn /\ div.a = RegsAfterM[E.rs1] /\ div.b = RegsAfterM[E.rs2]
    /\ EM.wb => EM.rd # 0 /\ \E b \in Word : rom[b].op = EM.op /\ rom[b].rd = EM.rd
    /\ MW.wb => MW.rd # 0
    /\ regs[0] = 0

-----------------------------------------------------------------------------
(* Operands. *)

(* What is forwarded is what the register will hold, unless it is still to  *)
(* come; x0 is never forwarded.                                             *)
LEMMA ForwardsRegs ==
  ASSUME TypeOK, NEW r \in Reg, ~NotFinal(r)
  PROVE  Forwarded(r) = RegsAfterM[r]
<1>1. W_regs \in [Reg -> Word] /\ W_regs[r] = IF MW.wb /\ MW.rd = r THEN MW.data ELSE regs[r]
  BY DEF TypeOK, W_regs
<1>2. CASE EM.wb /\ EM.rd = r
  <2>1. EM.op \notin {"load"} \cup AmoOps \cup CsrOps
    BY <1>2 DEF NotFinal
  <2>2. M_wbData = EM.result
    BY <2>1 DEF M_wbData, AmoOps
  <2> QED
    BY <1>1, <1>2, <2>2 DEF Forwarded, RegsAfterM
<1>3. CASE ~(EM.wb /\ EM.rd = r)
  BY <1>1, <1>3 DEF Forwarded, RegsAfterM, TypeOK
<1> QED
  BY <1>2, <1>3

LEMMA OperandsFinal ==
  ASSUME TypeOK, ControlInv
  PROVE  /\ ReadsRs1(E) => E_rs1 = RegsAfterM[E.rs1]
         /\ ReadsRs2(E) => E_rs2 = RegsAfterM[E.rs2]
<1>1. E.rs1 \in Reg /\ E.rs2 \in Reg
  BY EType DEF SlotInstr
<1> QED
  BY <1>1, ForwardsRegs DEF ControlInv, ForwardsFinalValues, E_rs1, E_rs2

LEMMA RegsAfterMType ==
  ASSUME TypeOK PROVE RegsAfterM \in [Reg -> Word] /\ M_wbData \in Word
<1>1. M_scWriteable \in BOOLEAN
  BY DEF M_scWriteable, M_addressReserved
<1>2. M_wbData \in Word
  BY <1>1, DataPathAssumption DEF M_wbData, TypeOK
<1> QED
  BY <1>2 DEF RegsAfterM, W_regs, TypeOK

-----------------------------------------------------------------------------
(* A clock moves what the memory unit holds on; while the execute unit is   *)
(* stalled, or empty, nothing follows it.                                   *)
LEMMA RegsMoveOn ==
  ASSUME TypeOK, reset = FALSE, Memory, WriteBack
  PROVE  W_regs' = RegsAfterM
<1>1. MW' = [wb |-> EM.wb, rd |-> EM.rd, data |-> M_wbData] /\ regs' = W_regs
  BY DEF Memory, WriteBack
<1> QED
  BY <1>1 DEF W_regs, RegsAfterM

LEMMA Holds ==
  ASSUME TypeOK, reset = FALSE, Execute, Memory, WriteBack, CsrFile,
         E_stall \/ E.op = Bubble
  PROVE  /\ RegsAfterM' = RegsAfterM /\ M_mem' = M_mem /\ M_resv' = M_resv
         /\ ~csrTrapSetEn => M_csr' = M_csr
<1>1. EM'.op = Bubble /\ ~EM'.wb
  BY DEF Execute, EM_Bubble
<1>2. RegsAfterM' = RegsAfterM
  BY <1>1, RegsMoveOn DEF RegsAfterM
<1>3. mem' = M_mem /\ resv' = M_resv /\ (~csrTrapSetEn => csr' = M_csr)
  BY DEF Memory, CsrFile
<1>4. M_mem' = mem' /\ M_resv' = resv' /\ M_csr' = csr'
  BY <1>1 DEF M_mem, M_storeEnable, M_resv, M_csr, CsrOps, Bubble
<1> QED
  BY <1>2, <1>3, <1>4

-----------------------------------------------------------------------------
(* What the following theorems assume of a behaviour, besides properties of *)
(* Pipeline.                                                                *)

(* What a unit of the FPU reports is of the operands at hand. *)
ResultOwn ==
    E.op \in UnitOps /\ fpu[E.op].ready => fpu[E.op].done /\ fpu[E.op].x = FpuOperands

(* The operand with no hazard check. *)
ThirdOperandFinal == E.op = "fpu" /\ UsesThird(E) => ~NotFinal(E.rs3)

(* A CSR instruction with x0 does not count as a write: it must not be one. *)
ReadsOnlyRead == EM.op \in CsrOps /\ ~EM.csrWrite => M_csr = csr

(* A trap is taken before the CSR instruction in front of it writes.        *)
NoReadBeforeTrap == csrTrapSetEn /\ D.op = "ecall" => E.op \notin CsrOps

Undisturbed == ResultOwn /\ ThirdOperandFinal /\ ReadsOnlyRead /\ NoReadBeforeTrap

-----------------------------------------------------------------------------
(* Isa has the vocabulary of Instructions to itself; it is the same.        *)
LEMMA InEVocabulary ==
  /\ InE!AmoOps = AmoOps /\ InE!CsrOps = CsrOps /\ InE!PrivOps = PrivOps
  /\ \A x, y : InE!NextPC(x, y) = NextPC(x, y)
  BY DEF InE!AmoOps, InE!CsrOps, InE!PrivOps, InE!NextPC, AmoOps, CsrOps, PrivOps, NextPC

LEMMA ISAVocabulary ==
  /\ ISA!AmoOps = AmoOps /\ ISA!CsrOps = CsrOps /\ ISA!PrivOps = PrivOps
  /\ \A x, y : ISA!NextPC(x, y) = NextPC(x, y)
  /\ \A x : ISA!WbEnable(x) = WbEnable(x)
  /\ \A x, v, c : ISA!PrivilegeSet(x, v, c) = PrivilegeSet(x, v, c)
  /\ \A x, v, c : ISA!TrapTarget(x, v, c) = TrapTarget(x, v, c)
  /\ \A x, v, c, r : ISA!TrapSet(x, v, c, r) = TrapSet(x, v, c, r)
<1>1. \A v, c : ISA!TrapPrivilege(v, c) = TrapPrivilege(v, c)
  BY DEF ISA!TrapPrivilege, TrapPrivilege, ISA!US, ISA!SU, ISA!MA, US, SU, MA
<1>2. \A x, v, c : ISA!PrivilegeSet(x, v, c) = PrivilegeSet(x, v, c)
  BY <1>1 DEF ISA!PrivilegeSet, PrivilegeSet
<1>3. \A x, v, c : ISA!TrapTarget(x, v, c) = TrapTarget(x, v, c)
  BY <1>1 DEF ISA!TrapTarget, TrapTarget, ISA!SU, SU
<1>4. \A v : ISA!TrapCause(v) = TrapCause(v)
  BY DEF ISA!TrapCause, TrapCause, ISA!US, ISA!SU, US, SU
<1>5. \A x, v, c, r : ISA!TrapSet(x, v, c, r) = TrapSet(x, v, c, r)
  BY <1>1, <1>4 DEF ISA!TrapSet, TrapSet, ISA!MA, MA
<1>6. \A x : ISA!WbEnable(x) = WbEnable(x)
  BY DEF ISA!WbEnable, WbEnable
<1>7. \A x, y : ISA!NextPC(x, y) = NextPC(x, y)
  BY DEF ISA!NextPC, NextPC
<1>8. ISA!AmoOps = AmoOps /\ ISA!CsrOps = CsrOps /\ ISA!PrivOps = PrivOps
  BY DEF ISA!AmoOps, ISA!CsrOps, ISA!PrivOps, AmoOps, CsrOps, PrivOps
<1> QED
  BY <1>2, <1>3, <1>5, <1>6, <1>7, <1>8

(* The instruction that leaves the execute unit, on the state that Isa      *)
(* executes it in.                                                          *)
LEMMA InEInstr ==
  ASSUME TypeOK, PathInv, E.op # Bubble
  PROVE  InE!i = E /\ E \in Instr /\ E.op \in Ops /\ E.rd \in Reg
<1>1. InE!i = E
  BY DEF InE!i, PathInv
<1>2. E \in Instr
  BY DEF PathInv, TypeOK
<1> QED
  BY <1>1, <1>2 DEF Instr

LEMMA InEOperands ==
  ASSUME TypeOK, ControlInv, PathInv, E.op # Bubble
  PROVE  /\ ReadsRs1(E) => InE!rs1 = E_rs1 /\ InE!Addr = E_addr
         /\ ReadsRs2(E) => InE!rs2 = E_rs2
<1>1. ReadsRs1(E) => InE!rs1 = E_rs1
  BY InEInstr, OperandsFinal DEF InE!rs1
<1>2. ReadsRs2(E) => InE!rs2 = E_rs2
  BY InEInstr, OperandsFinal DEF InE!rs2
<1> QED
  BY <1>1, <1>2, InEInstr, InEVocabulary DEF InE!Addr, E_addr

(* No store is pending when memory is read, no write when a CSR is.         *)
LEMMA ReadsSettled ==
  ASSUME TypeOK, ControlInv, Undisturbed
  PROVE  /\ E.op \in {"load"} \cup AmoOps => M_mem = mem
         /\ E.op \in CsrOps => M_csr = csr
<1>1. E.op \in {"load"} \cup AmoOps => EM.op \notin {"store"} \cup AmoOps
  BY DEF ControlInv, LoadsWaitForStores
<1>2. E.op \in {"load"} \cup AmoOps => M_mem = mem
  BY <1>1 DEF M_mem, M_storeEnable, AmoOps
<1>3. E.op \in CsrOps => ~EM.csrWrite
  BY DEF ControlInv, CsrReadsSettled
<1>4. EM.op \notin CsrOps => M_csr = csr
  BY DEF M_csr
<1>5. EM.op \in CsrOps /\ ~EM.csrWrite => M_csr = csr
  BY DEF Undisturbed, ReadsOnlyRead
<1> QED
  BY <1>2, <1>3, <1>4, <1>5

LEMMA InELoaded ==
  ASSUME TypeOK, ControlInv, PathInv, Undisturbed, E.op \in {"load"} \cup AmoOps
  PROVE  InE!Loaded = DMemRData
<1>1. E.op # Bubble /\ ReadsRs1(E)
  BY DEF AmoOps, Bubble, ReadsRs1
<1>2. InE!Addr = E_addr /\ M_mem = mem
  BY <1>1, InEOperands, ReadsSettled
<1> QED
  BY <1>2 DEF InE!Loaded, DMemRData

-----------------------------------------------------------------------------
(* What leaves the execute unit is what Isa computes. *)

LEMMA ThirdOperand ==
  ASSUME TypeOK, ControlInv, Undisturbed, E.op = "fpu", E \in Instr
  PROVE  Fpu(E.fn, E_rs1, E_rs2, E_rs3) = Fpu(E.fn, E_rs1, E_rs2, RegsAfterM[E.rs3])
<1>1. E.rs3 \in Reg
  BY DEF Instr
<1>2. {E_rs1, E_rs2, E_rs3} \subseteq Word /\ RegsAfterM[E.rs3] \in Word
  BY <1>1, OperandTypes, RegsAfterMType
<1>3. CASE ~NotFinal(E.rs3)
  BY <1>1, <1>3, ForwardsRegs DEF E_rs3
<1>4. CASE NotFinal(E.rs3)
  <2>1. ~UsesThird(E)
    BY <1>4 DEF Undisturbed, ThirdOperandFinal
  <2> QED
    BY <1>2, <2>1 DEF UsesThird
<1> QED
  BY <1>3, <1>4

LEMMA ResultRetires ==
  ASSUME TypeOK, ControlInv, PathInv, Undisturbed, Execute, Memory, ~E_stall,
         E.op # Bubble, WbEnable(E), E.rd # 0
  PROVE  M_wbData' = InE!Result
<1>1. InE!i = E /\ E \in Instr /\ E.op \in Ops
  BY InEInstr
<1>2. EM' = [op |-> E.op, wb |-> WbEnable(E) /\ E.rd # 0, rd |-> E.rd,
             csr |-> E.csr, csrWrite |-> IsCsrWrite(E), result |-> E_result,
             addr |-> E_addr, rs2 |-> E_rs2, Mdata |-> DMemRData, CSRdata |-> csrRData]
  BY DEF Execute
<1>3. E.op \notin NoDest
  BY <1>1 DEF Instr
<1> DEFINE R == InE!Result
<1>jump. CASE E.op \in {"jal", "jalr"}
  <2>1. E_result = NextPC(DE.pc, E)
    BY <1>jump DEF E_result, UnitOps, AmoOps
  <2>2. R = NextPC(DE.pc, E)
    BY <1>1, <1>jump DEF InE!Result, InE!CsrOps, InE!UnitOps, InE!NextPC, NextPC
  <2> QED
    BY <1>2, <1>jump, <2>1, <2>2 DEF M_wbData, CsrOps
<1>imm. CASE E.op \in {"lui", "auipc"}
  <2>1. E_result = R
    BY <1>1, <1>imm DEF E_result, UnitOps, AmoOps, InE!Result, InE!CsrOps, InE!UnitOps
  <2> QED
    BY <1>2, <1>imm, <2>1 DEF M_wbData, CsrOps
<1>alu. CASE E.op \in {"alui", "alur"}
  <2>1. ReadsRs1(E) /\ (E.op = "alur" => ReadsRs2(E))
    BY <1>alu DEF ReadsRs1, ReadsRs2, AluROps
  <2>2. InE!rs1 = E_rs1 /\ (E.op = "alur" => InE!rs2 = E_rs2)
    BY <1>alu, <2>1, InEOperands DEF Bubble
  <2>3. E_result = R
    BY <1>1, <1>alu, <2>2 DEF E_result, UnitOps, AmoOps, InE!Result, InE!CsrOps, InE!UnitOps
  <2> QED
    BY <1>2, <1>alu, <2>3 DEF M_wbData, CsrOps
<1>div. CASE E.op = "div"
  <2>1. div.finished
    BY <1>div DEF E_stall, aluBusy
  <2>2. E_result = Div(E.fn, RegsAfterM[E.rs1], RegsAfterM[E.rs2])
    BY <1>div, <2>1 DEF E_result, UnitOps, AmoOps, PathInv
  <2>3. R = Div(E.fn, RegsAfterM[E.rs1], RegsAfterM[E.rs2])
    BY <1>1, <1>div DEF InE!Result, InE!CsrOps, InE!UnitOps, InE!rs1, InE!rs2
  <2> QED
    BY <1>2, <1>div, <2>2, <2>3 DEF M_wbData, CsrOps
<1>fpu. CASE E.op = "fpu"
  <2>1. ReadsRs1(E) /\ ReadsRs2(E)
    BY <1>fpu DEF ReadsRs1, ReadsRs2
  <2>2. InE!rs1 = E_rs1 /\ InE!rs2 = E_rs2
    BY <1>fpu, <2>1, InEOperands DEF Bubble
  <2>3. R = Fpu(E.fn, E_rs1, E_rs2, RegsAfterM[E.rs3])
    BY <1>1, <1>fpu, <2>2 DEF InE!Result, InE!CsrOps, InE!UnitOps
  <2>4. E_result = Fpu(E.fn, E_rs1, E_rs2, E_rs3)
    BY <1>fpu DEF E_result, UnitOps, AmoOps
  <2>5. E_result = R
    BY <1>1, <1>fpu, <2>3, <2>4, ThirdOperand
  <2> QED
    BY <1>2, <1>fpu, <2>5 DEF M_wbData, CsrOps
<1>unit. CASE E.op \in UnitOps
  <2>1. fpu[E.op].ready /\ ReadsRs1(E) /\ ReadsRs2(E) /\ E.op # Bubble
    BY <1>unit DEF E_stall, aluBusy, E_fpuBusy, ReadsRs1, ReadsRs2, UnitOps, Bubble
  <2>2. InE!rs1 = E_rs1 /\ InE!rs2 = E_rs2
    BY <2>1, InEOperands
  <2>3. R = FpuLong(E.op, FpuOperands)
    BY <1>1, <1>unit, <2>2 DEF InE!Result, InE!CsrOps, InE!UnitOps, UnitOps, FpuOperands
  <2>4. E_result = E_fpuLong
    BY <1>unit DEF E_result, UnitOps, AmoOps
  <2>5. E_fpuLong = FpuLong(E.op, FpuOperands)
    BY <1>unit, <2>1 DEF E_fpuLong, Undisturbed, ResultOwn
  <2>6. M_wbData' = E_result
    BY <1>2, <1>unit DEF M_wbData, UnitOps, CsrOps
  <2> QED
    BY <2>3, <2>4, <2>5, <2>6
<1>mem. CASE E.op \in {"load", "lr", "amo"}
  <2>1. InE!Loaded = DMemRData
    BY <1>mem, InELoaded DEF AmoOps
  <2>2. R = DMemRData
    BY <1>1, <1>mem, <2>1 DEF InE!Result, InE!CsrOps, InE!UnitOps
  <2> QED
    BY <1>2, <1>mem, <2>2 DEF M_wbData, CsrOps
<1>sc. CASE E.op = "sc"
  <2>1. InE!Addr = E_addr
    BY <1>sc, InEOperands DEF ReadsRs1, Bubble
  <2>2. resv' = M_resv /\ EM'.addr = E_addr
    BY <1>2 DEF Memory
  <2>3. M_scWriteable' = InE!ScWriteable
    <3>1. M_scWriteable' <=> E_addr = M_resv.addr /\ ~M_resv.changed
      BY <2>2 DEF M_scWriteable, M_addressReserved
    <3>2. InE!ScWriteable <=> E_addr = M_resv.addr /\ ~M_resv.changed
      BY <2>1 DEF InE!ScWriteable
    <3>3. M_scWriteable' \in BOOLEAN /\ InE!ScWriteable \in BOOLEAN
      BY DEF M_scWriteable, M_addressReserved, InE!ScWriteable
    <3> QED
      BY <3>1, <3>2, <3>3
  <2>4. R = ScResult(InE!ScWriteable)
    BY <1>1, <1>sc DEF InE!Result, InE!CsrOps, InE!UnitOps
  <2>5. M_wbData' = ScResult(M_scWriteable')
    BY <1>2, <1>sc DEF M_wbData, CsrOps
  <2> QED
    BY <2>3, <2>4, <2>5
<1>csr. CASE E.op \in CsrOps
  <2>1. R = M_csr[E.csr]
    BY <1>1, <1>csr DEF InE!Result, InE!CsrOps, InE!UnitOps, CsrOps
  <2>2. R = csrRData
    BY <1>csr, <2>1, ReadsSettled DEF csrRData
  <2> QED
    BY <1>2, <1>csr, <2>2 DEF M_wbData, CsrOps, CsrOps
<1> QED
  BY <1>1, <1>3, <1>jump, <1>imm, <1>alu, <1>div, <1>fpu, <1>unit, <1>mem, <1>sc, <1>csr
  DEF Ops, AluROps, AmoOps

LEMMA RegsRetire ==
  ASSUME TypeOK, ControlInv, PathInv, Undisturbed, reset = FALSE, Execute, Memory, WriteBack,
         ~E_stall, E.op # Bubble
  PROVE  RegsAfterM' = AbsRegs
<1>1. EM'.wb = (WbEnable(E) /\ E.rd # 0) /\ EM'.rd = E.rd
  BY DEF Execute
<1>2. W_regs' = RegsAfterM
  BY RegsMoveOn
<1>3. CASE WbEnable(E) /\ E.rd # 0
  <2>1. M_wbData' = InE!Result
    BY <1>3, ResultRetires
  <2> QED
    BY <1>1, <1>2, <1>3, <2>1 DEF RegsAfterM, AbsRegs
<1>4. CASE ~(WbEnable(E) /\ E.rd # 0)
  BY <1>1, <1>2, <1>4 DEF RegsAfterM, AbsRegs
<1> QED
  BY <1>3, <1>4

LEMMA MemRetires ==
  ASSUME TypeOK, ControlInv, PathInv, Undisturbed, Execute, Memory, ~E_stall, E.op # Bubble
  PROVE  M_mem' = AbsMem /\ M_resv' = AbsResv
<1>1. InE!i = E
  BY InEInstr
<1>2. EM' = [op |-> E.op, wb |-> WbEnable(E) /\ E.rd # 0, rd |-> E.rd,
             csr |-> E.csr, csrWrite |-> IsCsrWrite(E), result |-> E_result,
             addr |-> E_addr, rs2 |-> E_rs2, Mdata |-> DMemRData, CSRdata |-> csrRData]
  BY DEF Execute
<1>3. mem' = M_mem /\ resv' = M_resv
  BY DEF Memory
<1>4. AbsMem = InE!Stored /\ AbsResv = InE!Reserved
  BY DEF AbsMem, AbsResv
<1>5. CASE E.op \notin {"store", "lr", "sc", "amo"}
  <2>1. M_mem' = mem' /\ M_resv' = resv'
    BY <1>2, <1>5 DEF M_mem, M_storeEnable, M_resv
  <2>2. InE!Stored = M_mem /\ InE!Reserved = M_resv
    BY <1>1, <1>5 DEF InE!Stored, InE!Reserved
  <2> QED
    BY <1>3, <1>4, <2>1, <2>2
<1>6. CASE E.op \in {"store", "lr", "sc", "amo"}
  <2>1. InE!Addr = E_addr
    BY <1>6, InEOperands DEF ReadsRs1
  <2>2. E.op # "lr" => InE!rs2 = E_rs2
    BY <1>6, InEOperands DEF ReadsRs2
  <2>3. E.op # "lr" => (M_addressReserved' <=> M_resv.addr = InE!Addr)
    BY <1>2, <1>3, <2>1 DEF M_addressReserved
  <2>4. M_resv' = InE!Reserved
    BY <1>1, <1>2, <1>3, <1>6, <2>1, <2>3 DEF M_resv, InE!Reserved
  <2>5. E.op = "sc" => (M_scWriteable' <=> InE!ScWriteable)
    BY <1>3, <2>3 DEF M_scWriteable, InE!ScWriteable
  <2>6. M_mem' = InE!Stored
    <3>1. CASE E.op = "lr"
      BY <1>1, <1>2, <1>3, <3>1 DEF M_mem, M_storeEnable, InE!Stored
    <3>2. CASE E.op = "store"
      BY <1>1, <1>2, <1>3, <2>1, <2>2, <3>2 DEF M_mem, M_storeEnable, InE!Stored
    <3>3. CASE E.op = "sc"
      BY <1>1, <1>2, <1>3, <2>1, <2>2, <2>5, <3>3 DEF M_mem, M_storeEnable, InE!Stored
    <3>4. CASE E.op = "amo"
      <4>1. E_result = AmoOut(E.fn, mem[CellOf(E_addr)], E_rs2)
        BY <3>4 DEF E_result, UnitOps, AmoOps, DMemRData
      <4>2. M_mem = mem
        BY <3>4, ReadsSettled DEF AmoOps
      <4>3. M_mem' = [M_mem EXCEPT ![CellOf(E_addr)] = E_result]
        BY <1>2, <1>3, <3>4 DEF M_mem, M_storeEnable
      <4>4. InE!Stored = [M_mem EXCEPT ![CellOf(E_addr)] =
                                          AmoOut(E.fn, M_mem[CellOf(E_addr)], E_rs2)]
        BY <1>1, <2>1, <2>2, <3>4 DEF InE!Stored
      <4> QED
        BY <4>1, <4>2, <4>3, <4>4
    <3> QED
      BY <1>6, <3>1, <3>2, <3>3, <3>4
  <2> QED
    BY <1>4, <2>4, <2>6
<1> QED
  BY <1>5, <1>6

LEMMA CsrRetires ==
  ASSUME TypeOK, ControlInv, PathInv, Undisturbed, reset = FALSE, Execute, CsrFile,
         ~E_stall, E.op # Bubble, ~csrTrapSetEn
  PROVE  M_csr' = AbsCsr
<1>1. InE!i = E
  BY InEInstr
<1>2. EM'.op = E.op /\ EM'.csr = E.csr /\ EM'.result = E_result
  BY DEF Execute
<1>3. csr' = M_csr
  BY DEF CsrFile
<1>4. CASE E.op \notin CsrOps
  BY <1>2, <1>3, <1>4 DEF M_csr, AbsCsr
<1>5. CASE E.op \in CsrOps
  <2>1. M_csr = csr
    BY <1>5, ReadsSettled
  <2>2. ReadsRs1(E) => InE!rs1 = E_rs1
    BY InEOperands
  <2>3. E_result = CsrOut(E.fn, csr[E.csr], IF E.op = "csri" THEN UImm(E.rs1) ELSE InE!rs1)
    BY <1>5, <2>2 DEF E_result, UnitOps, AmoOps, CsrOps, csrRData, ReadsRs1
  <2>4. M_csr' = [M_csr EXCEPT ![E.csr] = CsrMask(E.csr, E_result)]
    BY <1>2, <1>3, <1>5 DEF M_csr
  <2>5. AbsCsr = [M_csr EXCEPT ![E.csr] = CsrMask(E.csr, CsrOut(E.fn, M_csr[E.csr],
                                   IF E.op = "csri" THEN UImm(E.rs1) ELSE InE!rs1))]
    BY <1>1, <1>5 DEF AbsCsr, InE!CsrWritten, InE!CsrOps, CsrOps
  <2> QED
    BY <2>1, <2>3, <2>4, <2>5
<1> QED
  BY <1>4, <1>5

-----------------------------------------------------------------------------
(* The path invariant. *)

LEMMA PathInit == Init => PathInv
<1> SUFFICES ASSUME Init PROVE PathInv
  OBVIOUS
<1>1. /\ FD = [pc |-> 0, instr |-> rom[0], nop |-> TRUE] /\ E = ZeroInstr
      /\ div = [busy |-> FALSE, finished |-> FALSE, msk |-> 0, fn |-> ZeroInstr.fn,
                a |-> 0, b |-> 0]
      /\ EM = EM_Bubble(FALSE) /\ MW = [wb |-> FALSE, rd |-> 0, data |-> 0]
      /\ regs = [r \in Reg |-> 0]
  BY DEF Init, Drained, E, DE_Bubble
<1>2. ZeroInstr.op = Bubble /\ ~EM_Bubble(FALSE).wb
  BY DEF ZeroInstr, EM_Bubble
<1> QED
  BY <1>1, <1>2, WordAssumption DEF PathInv, Bubble

(* The divider keeps the operands it has started with until it is done. *)
LEMMA DividerPath ==
  ASSUME TypeOK, ControlInv, PathInv, NEW taken, Clock(taken)
  PROVE  /\ ~div'.busy => div'.msk = 0
         /\ div'.busy => ~div'.finished
         /\ E'.op = "div" /\ (div'.busy \/ div'.finished) =>
               /\ div'.fn = E'.fn
               /\ div'.a = RegsAfterM'[E'.rs1] /\ div'.b = RegsAfterM'[E'.rs2]
<1>1. /\ Decode(taken) /\ Execute /\ Divider /\ Memory /\ WriteBack /\ CsrFile
      /\ reset = FALSE
  BY DEF Clock, Execute, ControlInv
<1>2. aluBusy => E' = ZeroInstr \/ E' = E
  BY <1>1, NextE DEF D_stall
<1>3. aluBusy => RegsAfterM' = RegsAfterM
  BY <1>1, Holds DEF E_stall
<1>4. ZeroInstr.op # "div"
  BY DEF ZeroInstr, Bubble
<1>5. CASE div.busy
  <2>1. aluBusy
    BY <1>5 DEF aluBusy
  <2>2. /\ div'.fn = div.fn /\ div'.a = div.a /\ div'.b = div.b
        /\ div'.msk = div.msk - 1 /\ div'.busy = (div.msk # 1) /\ div'.finished = (div.msk = 1)
    BY <1>1, <1>5 DEF Divider, TypeOK
  <2>3. ~div'.busy => div'.msk = 0
    <3>1. div.msk = 1 => div.msk - 1 = 0
      OBVIOUS
    <3> QED
      BY <2>2, <3>1, Zenon
  <2> QED
    BY <1>2, <1>3, <1>4, <1>5, <2>1, <2>2, <2>3 DEF PathInv
<1>6. CASE ~div.busy
  <2> DEFINE start == E.op = "div" /\ ~dataHazard /\ ~div.finished
  <2>1. /\ div'.fn = E.fn /\ div'.a = E_rs1 /\ div'.b = E_rs2
        /\ div'.msk = (IF start THEN DivBits ELSE div.msk) /\ div'.busy = start
        /\ div'.finished = (div.msk = 1)
    BY <1>1, <1>6 DEF Divider
  <2>2. div.msk = 0 /\ ~(div.msk = 1)
    BY <1>6 DEF PathInv
  <2>3. ~div'.finished
    BY <2>1, <2>2, Zenon
  <2>4. ~div'.busy => div'.msk = 0
    BY <2>1, <2>2
  <2>5. start => aluBusy /\ ReadsRs1(E) /\ ReadsRs2(E)
    BY DEF aluBusy, ReadsRs1, ReadsRs2, AluROps
  <2>6. start => E_rs1 = RegsAfterM[E.rs1] /\ E_rs2 = RegsAfterM[E.rs2]
    BY <2>5, OperandsFinal
  <2> HIDE DEF start
  <2> QED
    BY <1>2, <1>3, <1>4, <2>1, <2>3, <2>4, <2>5, <2>6
<1> QED
  BY <1>5, <1>6

LEMMA PathStep ==
  ASSUME TypeOK, ControlInv, PathInv, [Next]_vars PROVE PathInv'
<1>1. CASE UNCHANGED vars
  BY <1>1 DEF vars, PathInv, E, D, RegsAfterM, W_regs, M_wbData, M_scWriteable, M_addressReserved
<1>2. CASE Next
  <2>1. PICK taken \in BOOLEAN : Clock(taken)
    BY <1>2 DEF Next
  <2>2. /\ Fetch(taken) /\ Decode(taken) /\ Execute /\ Memory /\ WriteBack
        /\ reset = FALSE /\ rom' = rom
    BY <2>1 DEF Clock, ControlInv
  <2>3. FD'.instr = rom[FD'.pc]
    BY <2>2 DEF Fetch, PathInv, TypeOK
  <2>4. ~FD'.nop => PC' = NextPC(FD'.pc, D')
    <3>1. CASE D_stall
      <4>1. ~FD.nop
        BY <3>1, SquashFollows DEF SquashedStaysSquashed
      <4>2. PC' = PC /\ FD'.pc = FD.pc /\ D' = D
        BY <2>2, <3>1 DEF Fetch, TypeOK, D
      <4> QED
        BY <4>1, <4>2 DEF PathInv
    <3>2. CASE ~D_stall
      BY <2>2, <3>2 DEF Fetch, D
    <3> QED
      BY <3>1, <3>2
  <2>5. E'.op # Bubble => E' = rom[DE'.pc]
    <3>1. ZeroInstr.op = Bubble
      BY DEF ZeroInstr
    <3>2. DE' = DE_Bubble \/ DE' = DE \/ (E' = D /\ DE'.pc = FD.pc)
      BY <2>2 DEF Decode, E
    <3>3. DE_Bubble.instr = ZeroInstr
      BY DEF DE_Bubble
    <3> QED
      BY <3>1, <3>2, <3>3 DEF PathInv, E, D
  <2>6. EM'.wb => EM'.rd # 0 /\ \E b \in Word : rom[b].op = EM'.op /\ rom[b].rd = EM'.rd
    <3>1. EM'.wb => E.op # Bubble /\ EM'.op = E.op /\ EM'.rd = E.rd /\ E.rd # 0
      BY <2>2 DEF Execute, EM_Bubble
    <3>2. DE.pc \in Word
      BY EType
    <3> QED
      BY <3>1, <3>2 DEF PathInv
  <2>7. MW'.wb => MW'.rd # 0
    BY <2>2 DEF Memory, PathInv
  <2>8. regs'[0] = 0
    BY <2>2, WordAssumption DEF WriteBack, W_regs, PathInv, TypeOK
  <2> QED
    BY <2>1, <2>2, <2>3, <2>4, <2>5, <2>6, <2>7, <2>8, DividerPath DEF PathInv
<1> QED
  BY <1>1, <1>2

(* For every program: an instruction goes through the pipeline with the     *)
(* address it was fetched from, a division keeps the operands it started    *)
(* with, and nothing is ever written to x0.                                 *)
THEOREM PathCorrect == Spec => []PathInv
<1>1. TypeOK /\ ControlInv /\ PathInv /\ [Next]_vars => PathInv'
  BY PathStep
<1> QED
  BY <1>1, PathInit, TypeCorrect, ControlCorrect, PTL DEF Spec

-----------------------------------------------------------------------------
(* A clock, seen from Isa. *)

(* The properties of Pipeline that the theorem takes from a behaviour, as   *)
(* they stand for one step.                                                 *)
NoFalseTrap    == priv' # priv \/ csrTrapSetEn => ~FD.nop /\ ~E_correctPC
NoLostDivision ==
    DE' # DE => /\ E.op = "div" => div.finished
                /\ E.op \in UnitOps => fpu[E.op].ready
StaysHalted    == HALT => HALT'

Good == TypeOK /\ ControlInv /\ PathInv /\ Undisturbed

(* What a clock leaves of the instruction in the execute unit. *)
LEMMA Commits ==
  ASSUME Good, NEW taken, Clock(taken), ~E_stall \/ E.op = Bubble
  PROVE  /\ RegsAfterM' = AbsRegs /\ M_mem' = AbsMem /\ M_resv' = AbsResv
         /\ ~csrTrapSetEn => M_csr' = AbsCsr
<1>1. /\ Execute /\ Memory /\ WriteBack /\ CsrFile /\ reset = FALSE
      /\ TypeOK /\ ControlInv /\ PathInv /\ Undisturbed
  BY DEF Clock, Good, ControlInv
<1>2. CASE E.op = Bubble
  <2>1. AbsRegs = RegsAfterM /\ AbsMem = M_mem /\ AbsResv = M_resv /\ AbsCsr = M_csr
    BY <1>2 DEF AbsRegs, AbsMem, AbsResv, AbsCsr, CsrOps, Bubble
  <2> QED
    BY <1>1, <1>2, <2>1, Holds
<1>3. CASE E.op # Bubble
  BY <1>1, <1>3, RegsRetire, MemRetires, CsrRetires
<1> QED
  BY <1>2, <1>3

(* The squashed slot that takes the place of an instruction. *)
LEMMA BubbleIs == ZeroInstr.op = Bubble /\ DE_Bubble.instr = ZeroInstr
  BY DEF ZeroInstr, DE_Bubble

LEMMA AbsBubble ==
  ASSUME E.op = Bubble
  PROVE  /\ AbsRegs = RegsAfterM /\ AbsMem = M_mem /\ AbsResv = M_resv /\ AbsCsr = M_csr
         /\ ~E_correctPC
  BY DEF AbsRegs, AbsMem, AbsResv, AbsCsr, E_correctPC, CsrOps, Bubble

LEMMA AbsBubbleNext ==
  (E.op = Bubble =>
     /\ AbsRegs = RegsAfterM /\ AbsMem = M_mem /\ AbsResv = M_resv /\ AbsCsr = M_csr
     /\ ~E_correctPC)'
<1>1. E.op = Bubble =>
        /\ AbsRegs = RegsAfterM /\ AbsMem = M_mem /\ AbsResv = M_resv /\ AbsCsr = M_csr
        /\ ~E_correctPC
  BY AbsBubble
<1> QED
  BY <1>1, PTL

LEMMA CorrectionIdle ==
  ASSUME ControlInv, E_correctPC PROVE E.op \in {"jalr", "branch"} /\ ~aluBusy
  BY DEF E_correctPC, aluBusy, E_fpuBusy, UnitOps, ControlInv, Bubble

(* Nothing enters the execute unit: Isa waits. *)
LEMMA BubbleWaits ==
  ASSUME Good, NEW taken \in BOOLEAN, Clock(taken), E_flush \/ FD.nop,
         NoFalseTrap, NoLostDivision, StaysHalted
  PROVE  UNCHANGED ISA!vars
<1>1. /\ Fetch(taken) /\ Decode(taken) /\ Execute /\ reset = FALSE /\ rom' = rom
      /\ TypeOK /\ ControlInv /\ PathInv
  BY DEF Clock, Good, ControlInv
<1>2. DE' = DE_Bubble /\ E' = ZeroInstr /\ E'.op = Bubble
  BY <1>1, BubbleIs DEF Decode, E
<1>3. E.op # "ebreak" /\ E'.op # "ebreak"
  BY <1>1, <1>2 DEF StaysHalted, HALT, Bubble
<1>4. ~E_stall \/ E.op = Bubble
  <2>1. SUFFICES ASSUME E_stall, E.op # Bubble PROVE FALSE
    OBVIOUS
  <2>1a. E' # E
    BY <1>2, <2>1
  <2>2. DE' # DE
    BY <2>1a DEF E
  <2>3. CASE E.op = "div"
    <3>1. div.finished
      BY <2>2, <2>3 DEF NoLostDivision
    <3> QED
      BY <1>1, <2>1, <2>3, <3>1 DEF E_stall, aluBusy, E_fpuBusy, UnitOps, PathInv
  <2>4. CASE E.op # "div"
    <3>1. E_fpuBusy
      BY <1>1, <2>1, <2>4 DEF E_stall, aluBusy, ControlInv
    <3> QED
      BY <2>2, <3>1 DEF E_fpuBusy, NoLostDivision
  <2> QED
    BY <2>3, <2>4
<1>5. ~csrTrapSetEn
  BY DEF NoFalseTrap, csrTrapSetEn, E_flush, D_stall
<1>6. priv' = priv
  BY <1>1 DEF NoFalseTrap, E_flush, D_stall, Decode
<1>7. AbsRegs' = AbsRegs /\ AbsMem' = AbsMem /\ AbsResv' = AbsResv /\ AbsCsr' = AbsCsr
  BY <1>2, <1>4, <1>5, Commits, AbsBubbleNext
<1>8. AbsPC' = AbsPC
  <2>1. ~E_correctPC'
    BY <1>2, AbsBubbleNext
  <2>2. CASE E_correctPC
    <3>1. EF' = [correctPC |-> E_correctPC, PCcorrection |-> E_PCcorrection]
      BY <1>1, <2>2, CorrectionIdle DEF Execute, E_stall
    <3> QED
      BY <2>1, <2>2, <3>1 DEF AbsPC
  <2>3. CASE ~E_correctPC
    <3>1. ~EF'.correctPC
      BY <1>1, <2>3 DEF Execute, TypeOK
    <3>2. ~FD'.nop
      BY <1>1, <2>3 DEF Fetch, D_flush, TypeOK
    <3>3. AbsPC' = FD'.pc
      BY <2>1, <3>1, <3>2 DEF AbsPC
    <3>4. CASE FD.nop
      <4>1. ~D_stall /\ ~D_predictPC(taken)
        BY <1>1, <3>4, SquashFollows DEF SquashedStaysSquashed, D_predictPC
      <4>2. FD'.pc = IF EF.correctPC THEN EF.PCcorrection ELSE PC
        BY <1>1, <4>1 DEF Fetch, F_PC
      <4> QED
        BY <2>3, <3>3, <3>4, <4>2 DEF AbsPC
    <3>5. CASE ~FD.nop
      <4>1. D_stall
        BY <2>3, <3>5 DEF E_flush, D_stall
      <4>2. FD'.pc = FD.pc
        BY <1>1, <4>1 DEF Fetch, TypeOK
      <4>3. ~EF.correctPC
        BY <1>1, <3>5 DEF ControlInv
      <4> QED
        BY <2>3, <3>3, <3>5, <4>2, <4>3 DEF AbsPC
    <3> QED
      BY <3>4, <3>5
  <2> QED
    BY <2>2, <2>3
<1> QED
  BY <1>1, <1>3, <1>6, <1>7, <1>8 DEF ISA!vars

(* The instruction in the execute unit stays there: Isa waits. *)
LEMMA InEStays ==
  ASSUME DE' = DE, rom' = rom, RegsAfterM' = RegsAfterM, M_mem' = M_mem, M_csr' = M_csr,
         M_resv' = M_resv, priv' = priv
  PROVE  /\ InE!Result' = InE!Result /\ InE!Stored' = InE!Stored
         /\ InE!Reserved' = InE!Reserved /\ InE!CsrWritten' = InE!CsrWritten
<1>1. InE!i' = InE!i /\ InE!rs1' = InE!rs1 /\ InE!rs2' = InE!rs2 /\ InE!Addr' = InE!Addr
  BY DEF InE!i, InE!rs1, InE!rs2, InE!Addr
<1>2. InE!Loaded' = InE!Loaded /\ InE!ScWriteable' = InE!ScWriteable
  BY <1>1 DEF InE!Loaded, InE!ScWriteable
<1>3. InE!Result' = InE!Result
  BY <1>1, <1>2 DEF InE!Result
<1>4. InE!Stored' = InE!Stored
  BY <1>1, <1>2 DEF InE!Stored
<1>5. InE!Reserved' = InE!Reserved
  BY <1>1 DEF InE!Reserved
<1> QED
  BY <1>1, <1>3, <1>4, <1>5 DEF InE!CsrWritten, InE!TrapSet, InE!NextPC, InE!CsrOps

LEMMA StallWaits ==
  ASSUME Good, NEW taken \in BOOLEAN, Clock(taken), ~E_flush, ~FD.nop, D_stall
  PROVE  UNCHANGED ISA!vars
<1>1. /\ Fetch(taken) /\ Decode(taken) /\ Execute /\ Memory /\ WriteBack /\ CsrFile
      /\ reset = FALSE /\ rom' = rom /\ TypeOK /\ ControlInv /\ PathInv
  BY DEF Clock, Good, ControlInv
<1>2. DE' = DE /\ E' = E /\ priv' = priv
  BY <1>1 DEF Decode, E
<1>3. ~csrTrapSetEn /\ ~E_correctPC
  BY DEF csrTrapSetEn, E_flush
<1>4. aluBusy \/ E.op = "ebreak"
  BY DEF E_flush, D_stall, HALT
<1>5. AbsPC' = AbsPC
  <2>1. ~E_correctPC'
    BY <1>1, <1>2, <1>4 DEF E_correctPC, aluBusy, E_fpuBusy, UnitOps, ControlInv, Bubble
  <2>2. ~EF.correctPC /\ ~EF'.correctPC
    BY <1>1, <1>3 DEF ControlInv, Execute, TypeOK
  <2>3. FD'.pc = FD.pc /\ ~FD'.nop
    BY <1>1, <1>3 DEF Fetch, D_flush, TypeOK
  <2> QED
    BY <1>3, <2>1, <2>2, <2>3 DEF AbsPC
<1>6. AbsRegs' = AbsRegs /\ AbsMem' = AbsMem /\ AbsResv' = AbsResv /\ AbsCsr' = AbsCsr
  <2>1. CASE E_stall
    <3>1. /\ RegsAfterM' = RegsAfterM /\ M_mem' = M_mem /\ M_resv' = M_resv
          /\ M_csr' = M_csr
      BY <1>1, <1>3, <2>1, Holds
    <3> QED
      BY <1>1, <1>2, <3>1, InEStays DEF AbsRegs, AbsMem, AbsResv, AbsCsr
  <2>2. CASE E.op = "ebreak" /\ ~E_stall
    <3>1. /\ RegsAfterM' = AbsRegs /\ M_mem' = AbsMem /\ M_resv' = AbsResv
          /\ M_csr' = AbsCsr
      BY <1>3, <2>2, Commits
    <3>2. E.rd = 0 /\ E' = E /\ InE!i = E /\ E.op # Bubble
      BY <1>1, <1>2, <2>2, InEInstr DEF Instr, NoDest, Bubble
    <3>3. InE!i' = E
      BY <1>1, <1>2, <3>2 DEF InE!i
    <3>4. AbsRegs' = RegsAfterM'
      BY <3>2 DEF AbsRegs
    <3>5. AbsMem' = M_mem' /\ AbsResv' = M_resv'
      BY <2>2, <3>2, <3>3 DEF AbsMem, AbsResv, InE!Stored, InE!Reserved
    <3>6. AbsCsr' = M_csr'
      BY <2>2, <3>2 DEF AbsCsr, CsrOps
    <3> QED
      BY <3>1, <3>4, <3>5, <3>6
  <2> QED
    BY <1>4, <2>1, <2>2 DEF E_stall
<1> QED
  BY <1>1, <1>2, <1>5, <1>6 DEF ISA!vars

(* An instruction enters the execute unit: Isa executes it, on the state    *)
(* that the one in front of it leaves.                                      *)
LEMMA EntersFacts ==
  ASSUME Good, NEW taken \in BOOLEAN, Clock(taken), Enters
  PROVE  /\ Fetch(taken) /\ Decode(taken) /\ Execute /\ Memory /\ WriteBack /\ CsrFile
         /\ reset = FALSE /\ rom' = rom /\ TypeOK /\ ControlInv /\ PathInv
         /\ DE' = [instr |-> D, pc |-> FD.pc,
                   predict |-> D.op = "branch" /\ taken, ra |-> ras[0]]
         /\ E' = D /\ D \in Instr /\ D.op # Bubble
         /\ AbsPC = FD.pc /\ ISA!i = D
         /\ ~E_stall /\ E.op # "ebreak"
         /\ RegsAfterM' = AbsRegs /\ M_mem' = AbsMem /\ M_resv' = AbsResv
         /\ D.op \notin PrivOps => ~csrTrapSetEn /\ M_csr' = AbsCsr
<1>1. /\ Fetch(taken) /\ Decode(taken) /\ Execute /\ Memory /\ WriteBack /\ CsrFile
      /\ reset = FALSE /\ rom' = rom /\ TypeOK /\ ControlInv /\ PathInv
  BY DEF Clock, Good, ControlInv
<1>2. DE' = [instr |-> D, pc |-> FD.pc, predict |-> D.op = "branch" /\ taken, ra |-> ras[0]]
  BY <1>1 DEF Decode, Enters
<1>3. E' = D
  BY <1>2 DEF E
<1>4. D \in Instr /\ D.op # Bubble
  BY <1>1, DType DEF Instr, Ops, UnitOps, Bubble, AluROps, AmoOps, CsrOps, NoDest, PrivOps
<1>5. AbsPC = FD.pc
  BY <1>1 DEF AbsPC, Enters, E_flush, ControlInv
<1>6. ISA!i = D
  BY <1>1, <1>5 DEF ISA!i, PathInv, D
<1>7. ~E_stall /\ E.op # "ebreak"
  BY <1>1 DEF Enters, D_stall, E_stall, HALT
<1>8. /\ RegsAfterM' = AbsRegs /\ M_mem' = AbsMem /\ M_resv' = AbsResv
      /\ ~csrTrapSetEn => M_csr' = AbsCsr
  BY <1>7, Commits
<1>9. D.op \notin PrivOps => ~csrTrapSetEn
  BY DEF csrTrapSetEn
<1> QED
  BY <1>1, <1>2, <1>3, <1>4, <1>5, <1>6, <1>7, <1>8, <1>9

(* Every write of a CSR that the trap functions may read has been done.     *)
LEMMA TrapReadsSettled ==
  ASSUME Good, NEW taken \in BOOLEAN, Clock(taken), Enters, ReadsOnlyRead',
         D.op \in PrivOps
  PROVE  /\ AbsCsr = csr
         /\ csr' = TrapSet(D, priv, csr, NextPC(FD.pc, D)) /\ M_csr' = csr'
<1>1. csrTrapSetEn
  BY DEF csrTrapSetEn, Enters
<1>2. /\ Execute /\ CsrFile /\ reset = FALSE /\ TypeOK /\ ControlInv /\ PathInv
      /\ Undisturbed /\ ~E_stall
  BY EntersFacts DEF Good
<1>3. csr' = TrapSet(D, priv, csr, NextPC(FD.pc, D))
  BY <1>1, <1>2 DEF CsrFile
<1>4. ~EM.csrWrite /\ ~IsCsrWrite(E)
  BY DEF Enters, D_stall, csrHazard, dataHazard
<1>5. M_csr = csr
  BY <1>2, <1>4 DEF Undisturbed, ReadsOnlyRead, M_csr
<1>6. CASE E.op = Bubble
  <2>1. EM'.op = Bubble
    BY <1>2, <1>6 DEF Execute, EM_Bubble
  <2> QED
    BY <1>3, <1>5, <1>6, <2>1, AbsBubble DEF M_csr, CsrOps, Bubble
<1>7. CASE E.op # Bubble
  <2>1. EM'.op = E.op /\ EM'.csr = E.csr /\ EM'.result = E_result /\ ~EM'.csrWrite
    BY <1>2, <1>4, <1>7 DEF Execute
  <2>2. M_csr' = csr'
    BY <2>1 DEF ReadsOnlyRead, M_csr
  <2>3. CASE E.op \notin CsrOps
    BY <1>3, <1>5, <2>2, <2>3 DEF AbsCsr
  <2>4. CASE E.op \in CsrOps
    <3>1. D.op # "ecall"
      BY <1>1, <1>2, <2>4 DEF Undisturbed, NoReadBeforeTrap
    <3>2. csr' = csr
      BY <1>3, <3>1 DEF TrapSet
    <3>3. csr = [csr EXCEPT ![E.csr] = CsrMask(E.csr, E_result)]
      BY <2>1, <2>2, <2>4, <3>2 DEF M_csr
    <3>4. ReadsRs1(E) => InE!rs1 = E_rs1
      BY <1>2, <1>7, InEOperands
    <3>5. E_result = CsrOut(E.fn, csr[E.csr], IF E.op = "csri" THEN UImm(E.rs1) ELSE InE!rs1)
      BY <2>4, <3>4 DEF E_result, UnitOps, AmoOps, CsrOps, csrRData, ReadsRs1
    <3>6. InE!i = E
      BY <1>2, <1>7, InEInstr
    <3>7. AbsCsr = [csr EXCEPT ![E.csr] = CsrMask(E.csr, CsrOut(E.fn, csr[E.csr],
                                   IF E.op = "csri" THEN UImm(E.rs1) ELSE InE!rs1))]
      BY <1>5, <2>4, <3>6 DEF AbsCsr, InE!CsrWritten, InE!CsrOps, CsrOps
    <3> QED
      BY <1>3, <2>2, <3>3, <3>5, <3>7
  <2> QED
    BY <2>3, <2>4
<1> QED
  BY <1>6, <1>7

LEMMA OperandsFinalNext ==
  (TypeOK /\ ControlInv =>
     /\ ReadsRs1(E) => E_rs1 = RegsAfterM[E.rs1]
     /\ ReadsRs2(E) => E_rs2 = RegsAfterM[E.rs2])'
<1>1. TypeOK /\ ControlInv =>
        /\ ReadsRs1(E) => E_rs1 = RegsAfterM[E.rs1]
        /\ ReadsRs2(E) => E_rs2 = RegsAfterM[E.rs2]
  BY OperandsFinal
<1> QED
  BY <1>1, PTL

LEMMA RegsNextType == (TypeOK => RegsAfterM \in [Reg -> Word])'
<1>1. TypeOK => RegsAfterM \in [Reg -> Word]
  BY RegsAfterMType
<1> QED
  BY <1>1, PTL

(* The fetch unit goes, or is sent, where the program goes. *)
LEMMA EntersPC ==
  ASSUME Good, TypeOK', ControlInv', NEW taken \in BOOLEAN, Clock(taken), Enters,
         ReadsOnlyRead'
  PROVE  AbsPC' = ISA!Successor
<1>1. /\ Fetch(taken) /\ Execute /\ reset = FALSE /\ TypeOK /\ ControlInv /\ PathInv
      /\ DE' = [instr |-> D, pc |-> FD.pc, predict |-> D.op = "branch" /\ taken, ra |-> ras[0]]
      /\ E' = D /\ D \in Instr /\ AbsPC = FD.pc /\ ISA!i = D /\ RegsAfterM' = AbsRegs
      /\ ~E_stall
  BY EntersFacts
<1>2. ~E_correctPC /\ ~EF.correctPC /\ ~FD.nop /\ ~D_stall
  BY <1>1 DEF Enters, E_flush, ControlInv
<1>3. ~EF'.correctPC
  BY <1>1, <1>2 DEF Execute
<1>4. FD'.pc = F_PC(taken) /\ ~FD'.nop
  BY <1>1, <1>2 DEF Fetch, D_flush
<1>5. AbsPC' = IF E_correctPC' THEN E_PCcorrection' ELSE F_PC(taken)
  BY <1>3, <1>4 DEF AbsPC
<1>6. PC = NextPC(FD.pc, D) /\ ISA!NextPC(AbsPC, ISA!i) = NextPC(FD.pc, D)
  BY <1>1, <1>2, ISAVocabulary DEF PathInv
<1>7. /\ ReadsRs1(D) => E_rs1' = ISA!rs1
      /\ ReadsRs2(D) => E_rs2' = ISA!rs2
  BY <1>1, OperandsFinalNext DEF ISA!rs1, ISA!rs2
<1>8. CASE D.op = "jal"
  <2>1. ~E_correctPC' /\ F_PC(taken) = Plus(FD.pc, D.imm)
    BY <1>1, <1>2, <1>8 DEF E_correctPC, F_PC, D_predictPC, D_PCprediction, PrivOps
  <2> QED
    BY <1>1, <1>5, <1>8, <2>1 DEF ISA!Successor, ISA!PrivOps
<1>9. CASE D.op = "jalr"
  <2>1. E_JALRaddr' = Even(Plus(ISA!rs1, D.imm))
    BY <1>1, <1>7, <1>9 DEF E_JALRaddr, ReadsRs1
  <2>2. F_PC(taken) = ras[0]
    BY <1>2, <1>9 DEF F_PC, D_predictPC, D_PCprediction, PrivOps
  <2>3. DE'.ra = ras[0]
    BY <1>1
  <2>4. E_correctPC' <=> ras[0] # E_JALRaddr'
    BY <1>1, <1>9, <2>3 DEF E_correctPC
  <2>5. E_PCcorrection' = E_JALRaddr'
    BY <1>1, <1>9 DEF E_PCcorrection
  <2>6. AbsPC' = E_JALRaddr'
    BY <1>5, <2>2, <2>4, <2>5
  <2>7. ISA!Successor = Even(Plus(ISA!rs1, D.imm))
    BY <1>1, <1>9 DEF ISA!Successor, ISA!PrivOps
  <2> QED
    BY <2>1, <2>6, <2>7
<1>10. CASE D.op \in PrivOps
  <2>1. AbsCsr = csr
    BY <1>10, TrapReadsSettled
  <2>2. ~E_correctPC'
    BY <1>1, <1>10 DEF E_correctPC, PrivOps
  <2>3. F_PC(taken) = TrapTarget(D, priv, csr)
    BY <1>2, <1>10 DEF F_PC, D_predictPC, D_PCprediction, PrivOps
  <2>4. ISA!Successor = ISA!TrapTarget(D, priv, AbsCsr)
    BY <1>1, <1>10 DEF ISA!Successor, ISA!PrivOps, PrivOps
  <2> QED
    BY <1>5, <2>1, <2>2, <2>3, <2>4, ISAVocabulary
<1>11. CASE D.op = "branch"
  <2>1. E_takeBranch' = Taken(D.fn, ISA!rs1, ISA!rs2)
    BY <1>1, <1>7, <1>11 DEF E_takeBranch, ReadsRs1, ReadsRs2
  <2>2. E_takeBranch' \in BOOLEAN
    <3>1. ISA!rs1 \in Word /\ ISA!rs2 \in Word /\ D.fn \in Fn
      <4>1. RegsAfterM' \in [Reg -> Word]
        BY RegsNextType
      <4> QED
        BY <1>1, <4>1 DEF ISA!rs1, ISA!rs2, Instr
    <3> QED
      BY <2>1, <3>1, DataPathAssumption
  <2>3. DE'.predict = taken
    BY <1>1, <1>11
  <2>4. E_correctPC' <=> E_takeBranch' # taken
    BY <1>1, <1>11, <2>3 DEF E_correctPC
  <2>5. E_PCcorrection' = IF taken THEN NextPC(FD.pc, D) ELSE Plus(FD.pc, D.imm)
    BY <1>1, <1>11, <2>3 DEF E_PCcorrection
  <2>6. F_PC(taken) = IF taken THEN Plus(FD.pc, D.imm) ELSE NextPC(FD.pc, D)
    BY <1>2, <1>6, <1>11 DEF F_PC, D_predictPC, D_PCprediction, PrivOps
  <2>7. AbsPC' = IF E_takeBranch' THEN Plus(FD.pc, D.imm) ELSE NextPC(FD.pc, D)
    BY <1>5, <2>2, <2>4, <2>5, <2>6
  <2>8. ISA!Successor = IF Taken(D.fn, ISA!rs1, ISA!rs2) THEN Plus(FD.pc, D.imm)
                        ELSE NextPC(FD.pc, D)
    BY <1>1, <1>6, <1>11 DEF ISA!Successor, ISA!PrivOps
  <2> QED
    BY <2>1, <2>7, <2>8
<1>12. CASE D.op \notin {"jal", "jalr", "branch"} \cup PrivOps
  <2>1. ~E_correctPC'
    BY <1>1, <1>12 DEF E_correctPC
  <2>2. F_PC(taken) = NextPC(FD.pc, D)
    BY <1>2, <1>6, <1>12 DEF F_PC, D_predictPC
  <2>3. ISA!Successor = NextPC(FD.pc, D)
    BY <1>1, <1>6, <1>12 DEF ISA!Successor, ISA!PrivOps, PrivOps
  <2> QED
    BY <1>5, <2>1, <2>2, <2>3
<1> QED
  BY <1>8, <1>9, <1>10, <1>11, <1>12

(* What it does when it leaves the execute unit is what Isa does now. *)
LEMMA EntersEffects ==
  ASSUME Good, NEW taken \in BOOLEAN, Clock(taken), Enters, ReadsOnlyRead'
  PROVE  /\ AbsRegs' = IF ISA!WbEnable(ISA!i) /\ ISA!i.rd # 0
                       THEN [AbsRegs EXCEPT ![ISA!i.rd] = ISA!Result] ELSE AbsRegs
         /\ AbsMem' = ISA!Stored /\ AbsResv' = ISA!Reserved /\ AbsCsr' = ISA!CsrWritten
<1>1. /\ rom' = rom /\ DE'.pc = FD.pc /\ E' = D /\ D.op # Bubble
      /\ AbsPC = FD.pc /\ ISA!i = D /\ TypeOK /\ ControlInv /\ PathInv
      /\ RegsAfterM' = AbsRegs /\ M_mem' = AbsMem /\ M_resv' = AbsResv
      /\ (D.op \notin PrivOps => M_csr' = AbsCsr)
  <2>1. DE' = [instr |-> D, pc |-> FD.pc, predict |-> D.op = "branch" /\ taken, ra |-> ras[0]]
    BY EntersFacts
  <2>2. DE'.pc = FD.pc
    BY <2>1
  <2> QED
    BY <2>2, EntersFacts, Zenon
<1>2. InE!i' = D
  BY <1>1 DEF InE!i, PathInv, D
<1>3. InE!rs1' = ISA!rs1 /\ InE!rs2' = ISA!rs2
  BY <1>1, <1>2 DEF InE!rs1, InE!rs2, ISA!rs1, ISA!rs2
<1>4. InE!Addr' = ISA!Addr
  BY <1>1, <1>2, <1>3 DEF InE!Addr, ISA!Addr, InE!AmoOps, ISA!AmoOps
<1>5. InE!Loaded' = ISA!Loaded /\ InE!ScWriteable' = ISA!ScWriteable
  BY <1>1, <1>4 DEF InE!Loaded, ISA!Loaded, InE!ScWriteable, ISA!ScWriteable
<1>6. InE!Result' = ISA!Result
  <2>1. CASE D.op \in CsrOps
    <3>1. M_csr' = AbsCsr
      BY <1>1, <2>1 DEF CsrOps, PrivOps
    <3>2. InE!Result' = M_csr'[D.csr]
      BY <1>2, <2>1 DEF InE!Result, InE!CsrOps, CsrOps
    <3>3. ISA!Result = AbsCsr[D.csr]
      BY <1>1, <2>1 DEF ISA!Result, ISA!CsrOps, CsrOps
    <3> QED
      BY <3>1, <3>2, <3>3
  <2>2. CASE D.op \notin CsrOps
    BY <1>1, <1>2, <1>3, <1>5, <2>2
    DEF InE!Result, ISA!Result, InE!CsrOps, ISA!CsrOps, InE!UnitOps, ISA!UnitOps,
        InE!NextPC, ISA!NextPC, CsrOps
  <2> QED
    BY <2>1, <2>2
<1>7. AbsRegs' = IF ISA!WbEnable(ISA!i) /\ ISA!i.rd # 0
                 THEN [AbsRegs EXCEPT ![ISA!i.rd] = ISA!Result] ELSE AbsRegs
  <2>1. AbsRegs' = IF WbEnable(D) /\ D.rd # 0
                   THEN [RegsAfterM' EXCEPT ![D.rd] = InE!Result'] ELSE RegsAfterM'
    BY <1>1 DEF AbsRegs
  <2> QED
    BY <1>1, <1>6, <2>1, ISAVocabulary
<1>8. AbsMem' = ISA!Stored
  <2>1. InE!Stored' = ISA!Stored
    BY <1>1, <1>2, <1>3, <1>4, <1>5 DEF InE!Stored, ISA!Stored
  <2> QED
    BY <1>1, <2>1 DEF AbsMem
<1>9. AbsResv' = ISA!Reserved
  <2>1. InE!Reserved' = ISA!Reserved
    BY <1>1, <1>2, <1>4 DEF InE!Reserved, ISA!Reserved
  <2> QED
    BY <1>1, <2>1 DEF AbsResv
<1>10. AbsCsr' = ISA!CsrWritten
  <2>1. CASE D.op \in CsrOps
    <3>1. M_csr' = AbsCsr /\ AbsCsr' = InE!CsrWritten'
      BY <1>1, <2>1 DEF AbsCsr, CsrOps, PrivOps
    <3>2. InE!CsrWritten' =
            [M_csr' EXCEPT ![D.csr] = CsrMask(D.csr, CsrOut(D.fn, M_csr'[D.csr],
                              IF D.op = "csri" THEN UImm(D.rs1) ELSE InE!rs1'))]
      BY <1>2, <2>1 DEF InE!CsrWritten, InE!CsrOps, CsrOps
    <3>3. ISA!CsrWritten =
            [AbsCsr EXCEPT ![D.csr] = CsrMask(D.csr, CsrOut(D.fn, AbsCsr[D.csr],
                              IF D.op = "csri" THEN UImm(D.rs1) ELSE ISA!rs1))]
      BY <1>1, <2>1 DEF ISA!CsrWritten, ISA!CsrOps, CsrOps
    <3> QED
      BY <1>3, <3>1, <3>2, <3>3
  <2>2. CASE D.op \notin CsrOps
    <3>1. AbsCsr' = M_csr'
      BY <1>1, <2>2 DEF AbsCsr
    <3>2. ISA!CsrWritten = TrapSet(D, priv, AbsCsr, NextPC(FD.pc, D))
      BY <1>1, <2>2, ISAVocabulary DEF ISA!CsrWritten
    <3>3. CASE D.op \in PrivOps
      BY <3>1, <3>2, <3>3, TrapReadsSettled
    <3>4. CASE D.op \notin PrivOps
      <4>1. TrapSet(D, priv, AbsCsr, NextPC(FD.pc, D)) = AbsCsr
        BY <3>4 DEF TrapSet, PrivOps
      <4> QED
        BY <1>1, <3>1, <3>2, <3>4, <4>1
    <3> QED
      BY <3>3, <3>4
  <2> QED
    BY <2>1, <2>2
<1> QED
  BY <1>7, <1>8, <1>9, <1>10

LEMMA EntersSteps ==
  ASSUME Good, TypeOK', ControlInv', NEW taken \in BOOLEAN, Clock(taken), Enters,
         ReadsOnlyRead'
  PROVE  ISA!Step
<1>1. /\ Decode(taken) /\ reset = FALSE /\ rom' = rom /\ E' = D /\ ISA!i = D /\ E.op # "ebreak"
  BY EntersFacts
<1>2. priv' = ISA!PrivilegeSet(ISA!i, priv, AbsCsr)
  <2>1. priv' = PrivilegeSet(D, priv, csr)
    BY <1>1 DEF Decode, Enters
  <2>2. CASE D.op \in PrivOps
    BY <1>1, <2>1, <2>2, TrapReadsSettled, ISAVocabulary
  <2>3. CASE D.op \notin PrivOps
    <3>1. PrivilegeSet(D, priv, csr) = priv /\ PrivilegeSet(D, priv, AbsCsr) = priv
      BY <2>3 DEF PrivilegeSet, PrivOps
    <3> QED
      BY <1>1, <2>1, <3>1, ISAVocabulary
  <2> QED
    BY <2>2, <2>3
<1>3. (E'.op = "ebreak") = (ISA!i.op = "ebreak")
  BY <1>1
<1> QED
  BY <1>1, <1>2, <1>3, EntersPC, EntersEffects DEF ISA!Step

(* The initial states. *)
LEMMA AbsInit == Init => ISA!Init
<1> SUFFICES ASSUME Init PROVE ISA!Init
  OBVIOUS
<1>1. /\ TypeOK /\ DE = DE_Bubble /\ EF.correctPC = FALSE /\ FD.nop = TRUE /\ PC = 0
      /\ EM = EM_Bubble(FALSE) /\ MW.wb = FALSE /\ priv = MA
      /\ regs = [r \in Reg |-> 0] /\ csr = [c \in Csr |-> 0]
  BY TypeInit DEF Init, Drained
<1>2. E.op = Bubble
  BY <1>1, BubbleIs DEF E
<1>3. EM.op = Bubble /\ EM.wb = FALSE
  BY <1>1 DEF EM_Bubble
<1>4. AbsRegs = regs /\ AbsMem = mem /\ AbsResv = resv /\ AbsCsr = csr
  <2>1. RegsAfterM = regs
    BY <1>1, <1>3 DEF RegsAfterM, W_regs
  <2>2. M_mem = mem /\ M_resv = resv /\ M_csr = csr
    BY <1>3 DEF M_mem, M_storeEnable, M_resv, M_csr, CsrOps, Bubble
  <2> QED
    BY <1>2, <2>1, <2>2, AbsBubble
<1>5. AbsPC = 0
  BY <1>1, <1>2, AbsBubble DEF AbsPC
<1>6. (E.op = "ebreak") = FALSE
  BY <1>2 DEF Bubble
<1>7. ISA!Instr = Instr
  BY DEF ISA!Instr, Instr, ISA!Ops, Ops, ISA!UnitOps, UnitOps, ISA!AluROps, AluROps, ISA!AmoOps, AmoOps,
         ISA!CsrOps, CsrOps, ISA!NoDest, NoDest, ISA!PrivOps, PrivOps
<1> QED
  BY <1>1, <1>4, <1>5, <1>6, <1>7 DEF ISA!Init, ISA!MA, MA, TypeOK

LEMMA Simulates ==
  ASSUME Good, Good', [Next]_vars, NoFalseTrap \/ UNCHANGED vars,
         NoLostDivision \/ UNCHANGED vars, StaysHalted \/ UNCHANGED vars
  PROVE  [ISA!Step]_(ISA!vars)
<1>1. CASE UNCHANGED vars
  <2>1. DE' = DE /\ rom' = rom /\ RegsAfterM' = RegsAfterM /\ M_mem' = M_mem
        /\ M_csr' = M_csr /\ M_resv' = M_resv /\ priv' = priv
    BY <1>1 DEF vars, RegsAfterM, W_regs, M_wbData, M_scWriteable, M_addressReserved,
                M_mem, M_storeEnable, M_csr, M_resv
  <2>2. AbsPC' = AbsPC
    BY <1>1 DEF vars, AbsPC, E_correctPC, E_PCcorrection, E_JALRaddr, E_takeBranch, E_rs1,
                E_rs2, Forwarded, E
  <2>3. AbsRegs' = AbsRegs /\ AbsMem' = AbsMem /\ AbsResv' = AbsResv /\ AbsCsr' = AbsCsr
    BY <2>1, InEStays DEF AbsRegs, AbsMem, AbsResv, AbsCsr, E
  <2> QED
    BY <2>1, <2>2, <2>3 DEF ISA!vars, E
<1>2. CASE ~UNCHANGED vars
  <2>1. PICK taken \in BOOLEAN : Clock(taken)
    BY <1>2 DEF Next
  <2>2. /\ TypeOK' /\ ControlInv' /\ ReadsOnlyRead'
        /\ NoFalseTrap /\ NoLostDivision /\ StaysHalted
    BY <1>2 DEF Good, Undisturbed
  <2>3. CASE E_flush \/ FD.nop
    BY <2>1, <2>2, <2>3, BubbleWaits
  <2>4. CASE ~E_flush /\ ~FD.nop /\ D_stall
    BY <2>1, <2>4, StallWaits
  <2>5. CASE Enters
    BY <2>1, <2>2, <2>5, EntersSteps
  <2> QED
    BY <2>3, <2>4, <2>5 DEF Enters
<1> QED
  BY <1>1, <1>2

(* For every program: the pipeline implements the sequential machine on     *)
(* every behaviour on which no trap is taken out of order, no division is   *)
(* lost, no EBREAK squashed, the units of the FPU report what they computed *)
(* for the instruction that waits, the third operand of a fused operation   *)
(* is final, and no CSR instruction that the hazard logic takes for a read  *)
(* writes.                                                                  *)
THEOREM ImplementsIsa ==
  Spec /\ []Undisturbed /\ TrapsInOrder /\ DivisionCompletes /\ HaltIsFinal
    => ExecutesInOrder
<1>1. ASSUME TypeOK, ControlInv, PathInv, Undisturbed, TypeOK', ControlInv', PathInv',
             Undisturbed', [Next]_vars, [NoFalseTrap]_vars, [NoLostDivision]_vars,
             [StaysHalted]_vars
      PROVE  [ISA!Step]_(ISA!vars)
  BY <1>1, Simulates DEF Good
<1>2. TrapsInOrder => [][NoFalseTrap]_vars
  BY PTL DEF TrapsInOrder, NoFalseTrap
<1>3. DivisionCompletes => [][NoLostDivision]_vars
  BY PTL DEF DivisionCompletes, NoLostDivision
<1>4. HaltIsFinal => [][StaysHalted]_vars
  BY PTL DEF HaltIsFinal, StaysHalted
<1> QED
  BY <1>1, <1>2, <1>3, <1>4, AbsInit, TypeCorrect, ControlCorrect, PathCorrect, PTL
  DEF Spec, ExecutesInOrder, ISA!Spec

-----------------------------------------------------------------------------
(* What follows what in the pipeline, for every program. *)
FlowInv ==
    /\ \A n \in 0..3 : ras[n] \in Returns(rom)
    /\ ~FD.nop /\ E.op # Bubble => Follows(rom, DE.pc, FD.pc)
    /\ EM.op \in Late =>
          \E a \in Word : /\ rom[a].op = EM.op /\ rom[a].rd = EM.rd
                          /\ E.op # Bubble => DE.pc = NextPC(a, rom[a])

LEMMA FlowInit == Init => FlowInv
<1> SUFFICES ASSUME Init PROVE FlowInv
  OBVIOUS
<1>1. E.op = Bubble /\ EM.op = Bubble
  BY BubbleIs DEF Init, Drained, E, EM_Bubble
<1>2. \A n \in 0..3 : ras[n] \in PowerOn
  BY DEF Init
<1> QED
  BY <1>1, <1>2 DEF FlowInv, Returns, Late, AmoOps, CsrOps, Bubble

(* The fetch unit goes where Follows says. *)
LEMMA FetchFollows ==
  ASSUME TypeOK, ControlInv, PathInv, FlowInv, NEW taken \in BOOLEAN, ~FD.nop
  PROVE  Follows(rom, FD.pc, F_PC(taken))
<1>1. ~EF.correctPC /\ PC = NextPC(FD.pc, D) /\ D = rom[FD.pc]
  BY DEF ControlInv, PathInv, D
<1>2. CASE D.op = "jal"
  BY <1>1, <1>2 DEF F_PC, D_predictPC, D_PCprediction, PrivOps, Follows
<1>3. CASE D.op = "jalr"
  BY <1>1, <1>3 DEF F_PC, D_predictPC, D_PCprediction, PrivOps, Follows, FlowInv
<1>4. CASE D.op \in PrivOps
  BY <1>1, <1>4 DEF Follows
<1>5. CASE D.op = "branch"
  BY <1>1, <1>5 DEF F_PC, D_predictPC, D_PCprediction, PrivOps, Follows
<1>6. CASE D.op \notin {"jal", "jalr", "branch"} \cup PrivOps
  BY <1>1, <1>6 DEF F_PC, D_predictPC, Follows
<1> QED
  BY <1>2, <1>3, <1>4, <1>5, <1>6

LEMMA FlowStep ==
  ASSUME TypeOK, ControlInv, PathInv, FlowInv, [Next]_vars PROVE FlowInv'
<1>1. CASE UNCHANGED vars
  BY <1>1 DEF vars, FlowInv, E
<1>2. CASE Next
  <2>1. PICK taken \in BOOLEAN : Clock(taken)
    BY <1>2 DEF Next
  <2>2. /\ Fetch(taken) /\ Decode(taken) /\ ReturnStack /\ Execute
        /\ reset = FALSE /\ rom' = rom
    BY <2>1 DEF Clock, Decode, ControlInv
  <2>3. FD.pc \in Word /\ D = rom[FD.pc] /\ DE.pc \in Word
    BY DType, EType DEF PathInv, D
  <2>4. \A n \in 0..3 : ras'[n] \in Returns(rom)
    <3>1. D.op \in {"jal", "jalr"} /\ D.rd = 1 => NextPC(FD.pc, D) \in Returns(rom)
      BY <2>3 DEF Returns
    <3>2. \A n \in 0..3 : ras[n] \in Returns(rom)
      BY DEF FlowInv
    <3>3. CASE ras' = ras
      BY <3>2, <3>3
    <3>4. CASE ras' = [n \in 0..3 |-> IF n = 0 THEN NextPC(FD.pc, D) ELSE ras[n - 1]]
               /\ NextPC(FD.pc, D) \in Returns(rom)
      <4>1. \A n \in 0..3 : n # 0 => n - 1 \in 0..3
        OBVIOUS
      <4> QED
        BY <3>2, <3>4, <4>1
    <3>5. CASE ras' = [n \in 0..3 |-> IF n = 3 THEN ras[3] ELSE ras[n + 1]]
      <4>1. 3 \in 0..3 /\ \A n \in 0..3 : n # 3 => n + 1 \in 0..3
        OBVIOUS
      <4> QED
        BY <3>2, <3>5, <4>1
    <3> QED
      BY <2>2, <3>1, <3>3, <3>4, <3>5 DEF ReturnStack
  <2>5. \/ E'.op = Bubble
        \/ ~E_flush /\ ~FD.nop /\ D_stall /\ DE' = DE /\ FD'.pc = FD.pc
        \/ Enters /\ E' = D /\ DE'.pc = FD.pc /\ FD'.pc = F_PC(taken)
    <3>1. CASE E_flush \/ FD.nop
      BY <2>2, <3>1, BubbleIs DEF Decode, E
    <3>2. CASE ~E_flush /\ ~FD.nop /\ D_stall
      BY <2>2, <3>2 DEF Decode, Fetch, TypeOK
    <3>3. CASE Enters
      BY <2>2, <3>3 DEF Decode, Fetch, Enters, E
    <3> QED
      BY <3>1, <3>2, <3>3 DEF Enters
  <2>6. ~FD'.nop /\ E'.op # Bubble => Follows(rom, DE'.pc, FD'.pc)
    BY <2>5, FetchFollows DEF Enters, FlowInv, E
  <2>7. ASSUME EM'.op \in Late
        PROVE  \E a \in Word : /\ rom[a].op = EM'.op /\ rom[a].rd = EM'.rd
                               /\ E'.op # Bubble => DE'.pc = NextPC(a, rom[a])
    <3>1. ~E_stall /\ E.op # Bubble /\ EM'.op = E.op /\ EM'.rd = E.rd
      BY <2>2, <2>7 DEF Execute, EM_Bubble, Late, AmoOps, CsrOps, Bubble
    <3>2. E = rom[DE.pc]
      BY <3>1 DEF PathInv
    <3>3. E'.op # Bubble => DE'.pc = NextPC(DE.pc, rom[DE.pc])
      <4>1. SUFFICES ASSUME E'.op # Bubble PROVE DE'.pc = NextPC(DE.pc, rom[DE.pc])
        OBVIOUS
      <4>2. E.op # "ebreak" /\ E.op \notin {"jal", "jalr", "branch"} \cup PrivOps
        BY <2>7, <3>1 DEF Late, AmoOps, CsrOps, PrivOps
      <4>3. Enters /\ DE'.pc = FD.pc
        BY <2>5, <3>1, <4>1, <4>2 DEF E_flush, D_stall, E_stall, HALT
      <4>4. Follows(rom, DE.pc, FD.pc)
        BY <3>1, <4>3 DEF FlowInv, Enters
      <4> QED
        BY <3>2, <4>2, <4>3, <4>4 DEF Follows
    <3> QED
      BY <2>3, <3>1, <3>2, <3>3
  <2> QED
    BY <2>2, <2>4, <2>6, <2>7 DEF FlowInv
<1> QED
  BY <1>1, <1>2

(* For every program: an instruction in the decode unit stands where the    *)
(* fetch unit may go from the one in front of it, the return stack holds    *)
(* addresses behind calls only, and behind a load, an atomic or a CSR       *)
(* instruction in the memory unit comes the next one in program order.      *)
THEOREM FlowCorrect == Spec => []FlowInv
<1>1. TypeOK /\ ControlInv /\ PathInv /\ FlowInv /\ [Next]_vars => FlowInv'
  BY FlowStep
<1> QED
  BY <1>1, FlowInit, TypeCorrect, ControlCorrect, PathCorrect, PTL DEF Spec

-----------------------------------------------------------------------------
(* The five rules, one by one. *)

Sound == TypeOK /\ ControlInv /\ PathInv /\ FlowInv

LEMMA SoundCorrect == Spec => []Sound
  BY TypeCorrect, ControlCorrect, PathCorrect, FlowCorrect, PTL DEF Sound

(* What is left in FD_instr after a squash is no trap. *)
SquashedInv == TrapsSpaced(rom) /\ (FD.nop => D.op \notin PrivOps)

LEMMA CorrectionsMeetNoTrap ==
  ASSUME Sound, SquashedInv, E_correctPC
  PROVE  ~FD.nop /\ D.op \notin PrivOps
         /\ \A c \in Word : Follows(rom, FD.pc, c) => rom[c].op \notin PrivOps
<1>1. E.op \in {"branch", "jalr"} /\ ~FD.nop /\ E.op # Bubble
  BY DEF E_correctPC, Sound, ControlInv, Bubble
<1>2. rom[DE.pc] = E /\ Follows(rom, DE.pc, FD.pc) /\ D = rom[FD.pc]
  BY <1>1 DEF Sound, PathInv, FlowInv, D
<1>3. DE.pc \in Word /\ FD.pc \in Word
  BY EType, DType DEF Sound
<1> QED
  BY <1>1, <1>2, <1>3 DEF SquashedInv, TrapsSpaced

LEMMA SquashedStep ==
  ASSUME Sound, SquashedInv, TypeOK', [Next]_vars PROVE SquashedInv'
<1>1. CASE UNCHANGED vars
  BY <1>1 DEF vars, SquashedInv, D
<1>2. CASE Next
  <2>1. PICK taken \in BOOLEAN : Clock(taken)
    BY <1>2 DEF Next
  <2>2. Fetch(taken) /\ reset = FALSE /\ rom' = rom /\ TypeOK
    BY <2>1 DEF Clock, Sound, ControlInv
  <2>3. ASSUME FD'.nop PROVE D'.op \notin PrivOps
    <3>1. E_correctPC
      BY <2>2, <2>3 DEF Fetch, D_flush, TypeOK
    <3>2. ~FD.nop /\ D.op \notin PrivOps
          /\ \A c \in Word : Follows(rom, FD.pc, c) => rom[c].op \notin PrivOps
      BY <3>1, CorrectionsMeetNoTrap
    <3>3. CASE D_stall
      BY <2>2, <3>2, <3>3 DEF Fetch, D, TypeOK
    <3>4. CASE ~D_stall
      <4>1. FD' = [pc |-> F_PC(taken), instr |-> rom[F_PC(taken)], nop |-> D_flush \/ reset]
        BY <2>2, <3>4 DEF Fetch
      <4>2. F_PC(taken) \in Word
        BY <4>1 DEF TypeOK
      <4>3. Follows(rom, FD.pc, F_PC(taken))
        BY <3>2, FetchFollows DEF Sound
      <4> QED
        BY <3>2, <4>1, <4>2, <4>3 DEF D
    <3> QED
      BY <3>3, <3>4
  <2> QED
    BY <2>2, <2>3 DEF SquashedInv
<1> QED
  BY <1>1, <1>2

(* For every program that has no trap where a misprediction may lead: no    *)
(* ECALL, MRET or SRET takes effect on a path that the program does not     *)
(* take.  Without the rule that fails (wrong_path_trap).                    *)
THEOREM SpacedTrapsInOrder ==
  ASSUME \A r \in Code : TrapsSpaced(r)
  PROVE  Spec => TrapsInOrder
<1>1. Init => SquashedInv
  BY DEF Init, Drained, SquashedInv, TrapsSpaced, D
<1>2. Sound /\ SquashedInv /\ Sound' /\ [Next]_vars => SquashedInv'
  BY SquashedStep DEF Sound
<1>3. Sound /\ SquashedInv /\ [Next]_vars => [NoFalseTrap]_vars
  <2> SUFFICES ASSUME Sound, SquashedInv, Next, priv' # priv \/ csrTrapSetEn
               PROVE  ~FD.nop /\ ~E_correctPC
    BY DEF NoFalseTrap
  <2>1. PICK taken \in BOOLEAN : Clock(taken)
    BY DEF Next
  <2>2. reset = FALSE /\ Decode(taken)
    BY <2>1 DEF Clock, Sound, ControlInv
  <2>3. D.op \in PrivOps
    BY <2>2 DEF csrTrapSetEn, Decode, PrivilegeSet, PrivOps
  <2> QED
    BY <2>3, CorrectionsMeetNoTrap DEF SquashedInv
<1> QED
  BY <1>1, <1>2, <1>3, SoundCorrect, PTL DEF Spec, TrapsInOrder, NoFalseTrap

(* Behind a division, a root or an EBREAK that the rule protects, no hazard *)
(* flushes the execute unit.                                                *)
LEMMA StallsKept ==
  ASSUME Sound, StallsSpaced(rom), E.op \in {"div", "ebreak"} \cup UnitOps
  PROVE  /\ ~E_flush /\ ~FD.nop
         /\ DE.pc \in Word /\ rom[DE.pc] = E /\ D = rom[NextPC(DE.pc, E)]
         /\ FD.pc = NextPC(DE.pc, E)
<1>1. ~FD.nop /\ E.op # Bubble /\ ~E_correctPC
  BY DEF Sound, ControlInv, E_correctPC, UnitOps, Bubble
<1>2. rom[DE.pc] = E /\ Follows(rom, DE.pc, FD.pc) /\ D = rom[FD.pc] /\ DE.pc \in Word
  BY <1>1, EType DEF Sound, PathInv, FlowInv, D
<1>3. FD.pc = NextPC(DE.pc, rom[DE.pc])
  BY <1>2 DEF Follows, PrivOps, UnitOps
<1>4. D.op \notin PrivOps
  BY <1>2, <1>3 DEF StallsSpaced
<1> QED
  BY <1>1, <1>2, <1>3, <1>4 DEF E_flush, csrHazard, dataHazard, AmoOps, CsrOps, UnitOps, IsCsrWrite

LEMMA StallsRule ==
  ASSUME \A r \in Code : StallsSpaced(r)
  PROVE  Spec => []StallsSpaced(rom)
<1>1. Init => StallsSpaced(rom)
  BY DEF Init
<1>2. StallsSpaced(rom) /\ [Next]_vars => StallsSpaced(rom)'
  BY DEF Next, Clock, vars, StallsSpaced
<1> QED
  BY <1>1, <1>2, PTL DEF Spec

(* For every program without a trap directly behind a division or a root of *)
(* integers or the FPU: one that has started leaves the execute unit with   *)
(* its result only.                                                         *)
THEOREM SpacedDivisionsComplete ==
  ASSUME \A r \in Code : StallsSpaced(r)
  PROVE  Spec => DivisionCompletes
<1>1. Sound /\ StallsSpaced(rom) /\ [Next]_vars => [NoLostDivision]_vars
  <2> SUFFICES ASSUME Sound, StallsSpaced(rom), Next, E.op \in {"div"} \cup UnitOps, DE' # DE
               PROVE  /\ E.op = "div" => div.finished
                      /\ E.op \in UnitOps => fpu[E.op].ready
    BY DEF NoLostDivision
  <2>1. PICK taken \in BOOLEAN : Decode(taken)
    BY DEF Next, Clock
  <2>2. ~D_stall
    BY <2>1, StallsKept DEF Decode
  <2> QED
    BY <2>2 DEF D_stall, aluBusy, E_fpuBusy
<1> QED
  BY <1>1, SoundCorrect, StallsRule, PTL DEF Spec, DivisionCompletes, NoLostDivision

(* For every program without a trap directly behind an EBREAK: the EBREAK   *)
(* stops the processor for good.                                            *)
THEOREM SpacedHaltsAreFinal ==
  ASSUME \A r \in Code : StallsSpaced(r)
  PROVE  Spec => HaltIsFinal
<1>1. Sound /\ StallsSpaced(rom) /\ [Next]_vars => [StaysHalted]_vars
  <2> SUFFICES ASSUME Sound, StallsSpaced(rom), Next, HALT
               PROVE  HALT'
    BY DEF StaysHalted
  <2>1. PICK taken \in BOOLEAN : Decode(taken) /\ reset' = reset
    BY DEF Next, Clock
  <2>2. D_stall /\ E.op = "ebreak"
    BY DEF D_stall, HALT
  <2>3. DE' = DE
    BY <2>1, <2>2, StallsKept DEF Decode
  <2> QED
    BY <2>1, <2>3 DEF HALT, E
<1> QED
  BY <1>1, SoundCorrect, StallsRule, PTL DEF Spec, HaltIsFinal, StaysHalted

(* A unit of the FPU that is at work, or reports, for the instruction in    *)
(* the execute unit has begun with its operands; one that is not yet at rest*)
(* will not find an instruction of its own in the next cycle.               *)
UnitsInv ==
    \A u \in UnitOps :
        /\ E.op = u /\ (fpu[u].counter # 0 \/ fpu[u].ready) =>
              /\ fpu[u].x = [fn |-> E.fn, a |-> RegsAfterM[E.rs1], b |-> RegsAfterM[E.rs2]]
              /\ fpu[u].ready => fpu[u].done
        /\ E.op # u /\ fpu[u].counter # 0 /\ ~FD.nop => D.op # u

LEMMA UnitsFollow ==
  ASSUME Sound, UnitsInv PROVE ResultOwn
<1> SUFFICES ASSUME E.op \in UnitOps, fpu[E.op].ready
             PROVE  fpu[E.op].done /\ fpu[E.op].x = FpuOperands
  BY DEF ResultOwn
<1>1. ReadsRs1(E) /\ ReadsRs2(E)
  BY DEF ReadsRs1, ReadsRs2, UnitOps
<1>2. E_rs1 = RegsAfterM[E.rs1] /\ E_rs2 = RegsAfterM[E.rs2]
  BY <1>1, OperandsFinal DEF Sound
<1> QED
  BY <1>2 DEF UnitsInv, FpuOperands

LEMMA UnitsStep ==
  ASSUME Sound, UnitsInv, StallsSpaced(rom), UnitsSpaced(rom), TypeOK', [Next]_vars
  PROVE  UnitsInv'
<1>1. CASE UNCHANGED vars
  BY <1>1 DEF vars, UnitsInv, E, D, RegsAfterM, W_regs, M_wbData, M_scWriteable,
              M_addressReserved
<1>2. CASE Next
  <2>1. PICK taken \in BOOLEAN : Clock(taken)
    BY <1>2 DEF Next
  <2>2. /\ Fetch(taken) /\ Decode(taken) /\ Execute /\ Memory /\ WriteBack /\ CsrFile
        /\ reset = FALSE /\ rom' = rom /\ TypeOK /\ ControlInv /\ PathInv /\ FlowInv
    BY <2>1 DEF Clock, Sound, ControlInv
  <2>3. ZeroInstr.op \notin UnitOps
    BY DEF ZeroInstr, UnitOps, Bubble
  <2> SUFFICES ASSUME NEW u \in UnitOps
               PROVE  /\ E'.op = u /\ (fpu'[u].counter # 0 \/ fpu'[u].ready) =>
                            /\ fpu'[u].x = [fn |-> E'.fn, a |-> RegsAfterM'[E'.rs1],
                                                         b |-> RegsAfterM'[E'.rs2]]
                            /\ fpu'[u].ready => fpu'[u].done
                      /\ E'.op # u /\ fpu'[u].counter # 0 /\ ~FD'.nop => D'.op # u
    BY DEF UnitsInv
  <2> DEFINE own == [fn |-> E.fn, a |-> RegsAfterM[E.rs1], b |-> RegsAfterM[E.rs2]]
  <2>4. /\ fpu'[u].counter = (IF Starts(u) THEN LongCycles(u, FpuOperands)
                              ELSE IF E.op = u /\ fpu[u].counter # 0
                                   THEN fpu[u].counter - 1 ELSE 0)
        /\ fpu'[u].ready = (fpu'[u].counter = 0 /\ fpu[u].counter # 0)
        /\ fpu'[u].x = (IF Starts(u) THEN FpuOperands ELSE fpu[u].x)
        /\ ~Starts(u) /\ E.op = u /\ fpu[u].counter = 1 => fpu'[u].done
    BY <2>2 DEF Execute, FpuUnit
  <2>5. CASE E.op # u
    <3>1. fpu'[u].counter = 0 /\ (fpu'[u].ready => fpu[u].counter # 0)
      BY <2>4, <2>5 DEF Starts
    <3>2. fpu[u].counter # 0 => E'.op # u
      BY <2>2, <2>3, <2>5, NextE DEF UnitsInv
    <3> QED
      BY <3>1, <3>2
  <2>6. CASE E.op = u /\ ~fpu[u].ready
    <3>1. E_stall /\ D_stall
      BY <2>6 DEF E_stall, D_stall, aluBusy, E_fpuBusy
    <3>2. ~E_flush /\ ~FD.nop
      BY <2>6, StallsKept
    <3>3. E' = E
      BY <2>2, <3>1, <3>2 DEF Decode, E
    <3>4. RegsAfterM' = RegsAfterM
      BY <2>2, <3>1, Holds
    <3>5. ReadsRs1(E) /\ ReadsRs2(E)
      BY <2>6 DEF ReadsRs1, ReadsRs2, UnitOps
    <3>6. FpuOperands = own
      BY <2>2, <3>5, OperandsFinal DEF FpuOperands
    <3>7. fpu'[u].x = own
      BY <2>2, <2>4, <2>6, <3>6 DEF Starts, UnitsInv
    <3>8. fpu'[u].ready => fpu'[u].done
      <4>1. fpu[u].counter \in Nat
        BY <2>2 DEF TypeOK
      <4>2. fpu'[u].ready => fpu'[u].counter = 0 /\ fpu[u].counter # 0
        BY <2>4
      <4>3. fpu'[u].ready => ~Starts(u) /\ fpu[u].counter - 1 = 0
        BY <2>4, <2>6, <4>2 DEF Starts
      <4>4. fpu'[u].ready => ~Starts(u) /\ fpu[u].counter = 1
        BY <4>1, <4>3
      <4> QED
        BY <2>4, <2>6, <4>4
    <3> QED
      BY <2>6, <3>3, <3>4, <3>7, <3>8
  <2>7. CASE E.op = u /\ fpu[u].ready
    <3>1. fpu[u].counter = 0
      BY <2>2, <2>7 DEF TypeOK
    <3>2. /\ ~E_flush /\ ~FD.nop /\ DE.pc \in Word /\ rom[DE.pc] = E
          /\ D = rom[NextPC(DE.pc, E)] /\ FD.pc = NextPC(DE.pc, E)
      BY <2>7, StallsKept
    <3>3. D.op # u /\ \A c \in Word : Follows(rom, FD.pc, c) => rom[c].op # u
      BY <2>7, <3>2 DEF UnitsSpaced
    <3>4. ~D_stall
      <4>1. ~div.busy /\ ~(E.op = "div")
        BY <2>2, <2>7 DEF ControlInv, UnitOps, Bubble
      <4>2. ~HALT
        BY <2>7 DEF HALT, UnitOps
      <4> QED
        BY <2>7, <3>2, <4>1, <4>2 DEF D_stall, E_flush, aluBusy, E_fpuBusy
    <3>5. E' = D
      BY <2>2, <3>2, <3>4, NextE DEF Decode, E
    <3>6. FD'.pc = F_PC(taken) /\ D' = rom[F_PC(taken)]
      BY <2>2, <3>4 DEF Fetch, D
    <3>7. FD'.pc \in Word
      BY DEF TypeOK
    <3>8. Follows(rom, FD.pc, F_PC(taken))
      BY <2>2, <3>2, FetchFollows
    <3> QED
      BY <3>3, <3>5, <3>6, <3>7, <3>8
  <2> QED
    BY <2>5, <2>6, <2>7
<1> QED
  BY <1>1, <1>2 DEF UnitsInv

(* For every program that lets two instructions pass between two of one     *)
(* unit of the FPU, and has no trap directly behind one: what a unit reports*)
(* is the finished result of the operands of the instruction that waits.    *)
THEOREM SpacedUnitsOwn ==
  ASSUME \A r \in Code : StallsSpaced(r), \A r \in Code : UnitsSpaced(r)
  PROVE  Spec => []ResultOwn
<1>1. Init => UnitsInv
  <2> SUFFICES ASSUME Init PROVE UnitsInv
    OBVIOUS
  <2>1. \A u \in UnitOps : fpu[u].counter = 0 /\ ~fpu[u].ready
    BY DEF Init, Drained
  <2> QED
    BY <2>1 DEF UnitsInv
<1>2. Init => UnitsSpaced(rom)
  BY DEF Init
<1>3. UnitsSpaced(rom) /\ [Next]_vars => UnitsSpaced(rom)'
  BY DEF Next, Clock, vars, UnitsSpaced, Follows, Returns
<1>4. Sound /\ UnitsInv /\ StallsSpaced(rom) /\ UnitsSpaced(rom) /\ Sound' /\ [Next]_vars
        => UnitsInv'
  BY UnitsStep DEF Sound
<1>5. Sound /\ UnitsInv => ResultOwn
  BY UnitsFollow
<1> QED
  BY <1>1, <1>2, <1>3, <1>4, <1>5, SoundCorrect, StallsRule, PTL DEF Spec

(* The fused operation in the execute unit follows what is in front of it.  *)
LEMMA FusedFollows ==
  ASSUME Sound, FusedSpaced(rom) PROVE ThirdOperandFinal
<1> SUFFICES ASSUME E.op = "fpu", UsesThird(E), NotFinal(E.rs3) PROVE FALSE
  BY DEF ThirdOperandFinal
<1>1. EM.op \in Late /\ EM.rd = E.rs3
  BY DEF NotFinal, Late
<1>2. PICK a \in Word : /\ rom[a].op = EM.op /\ rom[a].rd = EM.rd
                        /\ E.op # Bubble => DE.pc = NextPC(a, rom[a])
  BY <1>1 DEF Sound, FlowInv
<1>3. E = rom[NextPC(a, rom[a])]
  BY <1>2 DEF Sound, PathInv, Bubble
<1> QED
  BY <1>1, <1>2, <1>3 DEF FusedSpaced

(* For every program without a load, an atomic or a CSR instruction into    *)
(* the third operand of the fused operation behind it: where an operation   *)
(* depends on that operand, it is the value the register has in program     *)
(* order.  Without the rule that fails (fma_after_load).                    *)
THEOREM SpacedFusedFinal ==
  ASSUME \A r \in Code : FusedSpaced(r)
  PROVE  Spec => []ThirdOperandFinal
<1>1. Init => FusedSpaced(rom)
  BY DEF Init
<1>2. FusedSpaced(rom) /\ [Next]_vars => FusedSpaced(rom)'
  BY DEF Next, Clock, vars, FusedSpaced
<1>3. Sound /\ FusedSpaced(rom) => ThirdOperandFinal
  BY FusedFollows
<1> QED
  BY <1>1, <1>2, <1>3, SoundCorrect, PTL DEF Spec

(* The CSRs hold what their masks let through; what passes for a read has   *)
(* read the value its CSR still has.                                        *)
ReadsInv ==
    /\ ReadsSpaced(rom)
    /\ \A c \in Csr : CsrMask(c, csr[c]) = csr[c]
    /\ EM.op \in CsrOps /\ ~EM.csrWrite => EM.result = csr[EM.csr]

LEMMA ReadsFollow ==
  ASSUME Sound, ReadsInv PROVE ReadsOnlyRead /\ NoReadBeforeTrap
<1>1. ASSUME EM.op \in CsrOps, ~EM.csrWrite PROVE M_csr = csr
  <2>1. CsrMask(EM.csr, EM.result) = csr[EM.csr] /\ csr \in [Csr -> Word]
    BY <1>1 DEF ReadsInv, Sound, TypeOK
  <2> QED
    BY <1>1, <2>1 DEF M_csr
<1>2. ASSUME csrTrapSetEn, D.op = "ecall", E.op \in CsrOps PROVE FALSE
  <2>1. ~FD.nop /\ E.op # Bubble
    BY <1>2 DEF Sound, ControlInv, CsrOps, Bubble
  <2>2. rom[DE.pc] = E /\ Follows(rom, DE.pc, FD.pc) /\ D = rom[FD.pc] /\ DE.pc \in Word
    BY <2>1, EType DEF Sound, PathInv, FlowInv, D
  <2>3. FD.pc = NextPC(DE.pc, rom[DE.pc])
    BY <1>2, <2>2 DEF Follows, PrivOps, CsrOps
  <2>4. ~IsCsrWrite(E)
    BY <1>2 DEF csrTrapSetEn, D_stall, dataHazard, PrivOps
  <2> QED
    BY <1>2, <2>2, <2>3, <2>4 DEF ReadsInv, ReadsSpaced, IsCsrWrite
<1> QED
  BY <1>1, <1>2 DEF ReadsOnlyRead, NoReadBeforeTrap

LEMMA MasksKept ==
  ASSUME NEW c \in [Csr -> Word], \A k \in Csr : CsrMask(k, c[k]) = c[k],
         NEW i, NEW v \in Privilege, NEW ret \in Word
  PROVE  \A k \in Csr : CsrMask(k, TrapSet(i, v, c, ret)[k]) = TrapSet(i, v, c, ret)[k]
<1>1. c["mstatus"] \in Word /\ CsrMask("mstatus", c["mstatus"]) = c["mstatus"]
      /\ "mstatus" \in Csr /\ TrapCause(v) \in Word
  BY WordAssumption DEF TrapCsr, TrapCause
<1>2. /\ CsrMask("mstatus", MTrapStatus(c["mstatus"], v)) = MTrapStatus(c["mstatus"], v)
      /\ CsrMask("mstatus", STrapStatus(c["mstatus"], v)) = STrapStatus(c["mstatus"], v)
  BY <1>1, MaskAssumption
<1>3. \A k \in {"mepc", "sepc"} : CsrMask(k, ret) = ret
  BY MaskAssumption
<1>4. \A k \in {"mcause", "scause"} : CsrMask(k, TrapCause(v)) = TrapCause(v)
  BY <1>1, MaskAssumption
<1> QED
  BY <1>1, <1>2, <1>3, <1>4 DEF TrapSet

LEMMA ReadsStep ==
  ASSUME Sound, ReadsInv, TypeOK', [Next]_vars PROVE ReadsInv'
<1>1. CASE UNCHANGED vars
  BY <1>1 DEF vars, ReadsInv
<1>2. CASE Next
  <2>1. PICK taken \in BOOLEAN : Clock(taken)
    BY <1>2 DEF Next
  <2>2. Execute /\ CsrFile /\ reset = FALSE /\ rom' = rom /\ TypeOK
    BY <2>1 DEF Clock, Sound, ControlInv
  <2>3. D \in Instr /\ NextPC(FD.pc, D) \in Word /\ csr \in [Csr -> Word] /\ priv \in Privilege
    BY <2>2, DType, NextPCType DEF TypeOK
  <2>4. ReadsOnlyRead /\ NoReadBeforeTrap
    BY ReadsFollow
  <2>5. \A c \in Csr : CsrMask(c, csr'[c]) = csr'[c]
    <3>1. CASE csrTrapSetEn
      <4>1. csr' = TrapSet(D, priv, csr, NextPC(FD.pc, D))
        BY <2>2, <3>1 DEF CsrFile
      <4> QED
        BY <2>3, <4>1, MasksKept DEF ReadsInv
    <3>2. CASE ~csrTrapSetEn
      <4>1. csr' = M_csr
        BY <2>2, <3>2 DEF CsrFile
      <4>2. EM.csr \in Csr /\ EM.result \in Word
        BY <2>2 DEF TypeOK
      <4>3. CsrMask(EM.csr, CsrMask(EM.csr, EM.result)) = CsrMask(EM.csr, EM.result)
        BY <4>2, MaskAssumption
      <4> QED
        BY <2>3, <4>1, <4>2, <4>3 DEF M_csr, ReadsInv
    <3> QED
      BY <3>1, <3>2
  <2>6. ASSUME EM'.op \in CsrOps, ~EM'.csrWrite PROVE EM'.result = csr'[EM'.csr]
    <3>1. /\ ~E_stall /\ E.op \in CsrOps /\ E.rs1 = 0
          /\ EM'.result = E_result /\ EM'.csr = E.csr
      BY <2>2, <2>6 DEF Execute, EM_Bubble, CsrOps, Bubble, IsCsrWrite
    <3>2. rom[DE.pc] = E /\ DE.pc \in Word /\ E.op # Bubble
      BY <2>2, <3>1, EType DEF Sound, PathInv, CsrOps, Bubble
    <3>3. E_rs1 = 0
      BY <3>1 DEF E_rs1, Forwarded, Sound, PathInv
    <3>4. csr[E.csr] \in Word
      BY <2>2, EType DEF TypeOK, SlotInstr
    <3>5. \A zero \in {0, UImm(0)} : CsrOut(E.fn, csr[E.csr], zero) = csr[E.csr]
      BY <3>1, <3>2, <3>4 DEF ReadsInv, ReadsSpaced
    <3>6. E_result = csr[E.csr]
      BY <3>1, <3>3, <3>5 DEF E_result, UnitOps, AmoOps, CsrOps, csrRData
    <3>7. csr' = csr
      <4>1. CASE csrTrapSetEn
        <5>1. D.op # "ecall"
          BY <2>4, <3>1, <4>1 DEF NoReadBeforeTrap
        <5> QED
          BY <2>2, <4>1, <5>1 DEF CsrFile, TrapSet
      <4>2. CASE ~csrTrapSetEn
        <5>1. ~EM.csrWrite
          BY <3>1 DEF Sound, ControlInv, CsrReadsSettled
        <5>2. M_csr = csr
          BY <2>4, <5>1 DEF ReadsOnlyRead, M_csr
        <5> QED
          BY <2>2, <4>2, <5>2 DEF CsrFile
      <4> QED
        BY <4>1, <4>2
    <3> QED
      BY <3>1, <3>6, <3>7
  <2> QED
    BY <2>2, <2>5, <2>6 DEF ReadsInv, ReadsSpaced
<1> QED
  BY <1>1, <1>2

(* For every program whose CSR instructions on x0 write nothing new and are *)
(* not directly in front of an ECALL: what the hazard logic takes for a     *)
(* read leaves the CSRs as they are.                                        *)
THEOREM SpacedReadsOnlyRead ==
  ASSUME \A r \in Code : ReadsSpaced(r)
  PROVE  Spec => [](ReadsOnlyRead /\ NoReadBeforeTrap)
<1>1. Init => ReadsInv
  <2> SUFFICES ASSUME Init PROVE ReadsInv
    OBVIOUS
  <2>1. csr = [c \in Csr |-> 0] /\ EM.op = Bubble /\ ReadsSpaced(rom)
    BY DEF Init, Drained, EM_Bubble
  <2> QED
    BY <2>1, MaskAssumption DEF ReadsInv, CsrOps, Bubble
<1>2. Sound /\ ReadsInv /\ Sound' /\ [Next]_vars => ReadsInv'
  BY ReadsStep DEF Sound
<1>3. Sound /\ ReadsInv => ReadsOnlyRead /\ NoReadBeforeTrap
  BY ReadsFollow
<1> QED
  BY <1>1, <1>2, <1>3, SoundCorrect, PTL DEF Spec

-----------------------------------------------------------------------------
LEMMA SpacedSound ==
  ASSUME \A r \in Code : Spaced(r)
  PROVE  Spec => []Undisturbed /\ TrapsInOrder /\ DivisionCompletes /\ HaltIsFinal
<1>1. /\ \A r \in Code : TrapsSpaced(r)
      /\ \A r \in Code : StallsSpaced(r)
      /\ \A r \in Code : UnitsSpaced(r)
      /\ \A r \in Code : FusedSpaced(r)
      /\ \A r \in Code : ReadsSpaced(r)
  BY DEF Spaced
<1>2. Spec => TrapsInOrder
  BY <1>1, SpacedTrapsInOrder
<1>3. Spec => DivisionCompletes
  BY <1>1, SpacedDivisionsComplete
<1>4. Spec => HaltIsFinal
  BY <1>1, SpacedHaltsAreFinal
<1>5. Spec => []ThirdOperandFinal
  BY <1>1, SpacedFusedFinal
<1>6. Spec => [](ReadsOnlyRead /\ NoReadBeforeTrap)
  BY <1>1, SpacedReadsOnlyRead
<1>7. Spec => []ResultOwn
  BY <1>1, SpacedUnitsOwn
<1>8. Spec => []Undisturbed
  BY <1>5, <1>6, <1>7, PTL DEF Undisturbed
<1> QED
  BY <1>2, <1>3, <1>4, <1>8

(* For every program that keeps the five rules, whatever the branch         *)
(* predictor guesses: its instructions are executed one at a time and in    *)
(* order.                                                                   *)
THEOREM SpacedImplementsIsa ==
  ASSUME \A r \in Code : Spaced(r)
  PROVE  Spec => ExecutesInOrder
  BY SpacedSound, ImplementsIsa

(* For every program whose CSR instructions all write: no trap takes the    *)
(* write port of the CSR file from one.                                     *)
THEOREM TrapsDropNothing ==
  ASSUME \A r \in Code : \A a \in Word : r[a].op \in CsrOps => r[a].rs1 # 0
  PROVE  Spec => []TrapsDropNoWrite
<1> DEFINE Writes == \A a \in Word : rom[a].op \in CsrOps => rom[a].rs1 # 0
           Inv == Writes /\ (EM.op \in CsrOps => EM.csrWrite)
<1>1. Init => Inv
  BY DEF Init, Drained, EM_Bubble, CsrOps, Bubble
<1>2. Sound /\ Inv /\ [Next]_vars => Inv'
  <2> SUFFICES ASSUME Sound, Inv, [Next]_vars PROVE Inv'
    OBVIOUS
  <2>1. CASE UNCHANGED vars
    BY <2>1 DEF vars
  <2>2. CASE Next
    <3>1. Execute /\ rom' = rom
      BY <2>2 DEF Next, Clock
    <3>2. ASSUME EM'.op \in CsrOps PROVE EM'.csrWrite
      <4>1. E.op \in CsrOps /\ E.op # Bubble /\ EM'.csrWrite = IsCsrWrite(E)
        BY <3>1, <3>2 DEF Execute, EM_Bubble, CsrOps, Bubble
      <4>2. rom[DE.pc] = E /\ DE.pc \in Word
        BY <4>1, EType DEF Sound, PathInv
      <4> QED
        BY <4>1, <4>2 DEF IsCsrWrite
    <3> QED
      BY <3>1, <3>2
  <2> QED
    BY <2>1, <2>2
<1>3. Inv => TrapsDropNoWrite
  BY DEF TrapsDropNoWrite, csrTrapSetEn, D_stall, csrHazard
<1> HIDE DEF Inv
<1> QED
  BY <1>1, <1>2, <1>3, SoundCorrect, PTL DEF Spec

-----------------------------------------------------------------------------
(* Progress. *)

(* The two parts of Wait that take more than a few clocks to count down.   *)
Dividing == DivWait + FpuWait
Hazards == (IF csrHazard THEN 1 ELSE 0)
           + (IF ~dataHazard THEN 0 ELSE IF D.op \in PrivOps THEN 2 ELSE 1)
Redirect == IF E_correctPC THEN 2 ELSE IF FD.nop THEN 1 ELSE 0

LEMMA WaitParts ==
  ASSUME TypeOK, ControlInv
  PROVE  /\ Dividing \in 0 .. Longest + 1 /\ Hazards \in 0..3 /\ Redirect \in 0..2
         /\ Wait = Dividing + Hazards + Redirect /\ Longest \in Nat \ {0}
<1>1. /\ DivBits \in Nat \ {0} /\ MaxCycles \in Nat /\ div.msk \in 0..DivBits
      /\ \A u \in UnitOps : fpu[u].counter \in 0..MaxCycles
  BY PipelineAssumption DEF TypeOK
<1>2. Dividing \in 0 .. Longest + 1 /\ Longest \in Nat \ {0}
  <2>1. DivWait \in 0 .. DivBits + 1
    BY <1>1 DEF DivWait
  <2>2. FpuWait \in 0 .. MaxCycles + 1
    BY <1>1 DEF FpuWait, E_fpuBusy
  <2>3. E_fpuBusy => DivWait = 0
    BY DEF E_fpuBusy, DivWait, ControlInv, UnitOps, Bubble
  <2>4. ~E_fpuBusy => FpuWait = 0
    BY DEF FpuWait
  <2> QED
    BY <1>1, <2>1, <2>2, <2>3, <2>4 DEF Dividing, Longest
<1>3. Hazards \in 0..3 /\ Redirect \in 0..2
  BY DEF Hazards, Redirect
<1> DEFINE a == IF csrHazard THEN 1 ELSE 0
           b == IF ~dataHazard THEN 0 ELSE IF D.op \in PrivOps THEN 2 ELSE 1
<1>4. Wait = Dividing + a + b + Redirect /\ Hazards = a + b
  BY DEF Wait, Dividing, Hazards, Redirect
<1>5. a \in 0..1 /\ b \in 0..2
  OBVIOUS
<1> HIDE DEF a, b
<1> QED
  BY <1>1, <1>2, <1>3, <1>4, <1>5

(* What keeps an instruction waiting keeps out most of the rest. *)
LEMMA OneReason ==
  ASSUME TypeOK, ControlInv
  PROVE  /\ FD.nop => ~aluBusy /\ ~csrHazard /\ ~dataHazard /\ ~E_correctPC
         /\ E_correctPC => ~aluBusy /\ ~dataHazard /\ ~FD.nop
         /\ dataHazard => ~aluBusy /\ E.op \notin {"div", "ebreak", Bubble} \cup UnitOps
         /\ aluBusy <=> Dividing # 0
<1>1. FD.nop => ~aluBusy /\ ~csrHazard /\ ~dataHazard /\ ~E_correctPC
  BY DEF ControlInv, aluBusy, E_fpuBusy, UnitOps, csrHazard, dataHazard, E_correctPC, IsCsrWrite,
         AmoOps, CsrOps, Bubble
<1>2. dataHazard => E.op \in {"load", "store"} \cup AmoOps \cup CsrOps
  BY DEF dataHazard, IsCsrWrite
<1>3. dataHazard => ~aluBusy /\ E.op \notin {"div", "ebreak", Bubble} \cup UnitOps
  BY <1>2 DEF ControlInv, aluBusy, E_fpuBusy, UnitOps, AmoOps, CsrOps, Bubble
<1>4. E_correctPC => ~aluBusy /\ ~dataHazard /\ ~FD.nop
  BY <1>1, <1>2, CorrectionIdle DEF AmoOps, CsrOps
<1>5. aluBusy <=> Dividing # 0
  <2>1. /\ DivBits \in Nat /\ MaxCycles \in Nat /\ div.msk \in Nat
        /\ \A u \in UnitOps : fpu[u].counter \in Nat
    BY PipelineAssumption DEF TypeOK
  <2>2. DivWait \in Nat /\ (DivWait # 0 <=> div.busy \/ (E.op = "div" /\ ~div.finished))
    BY <2>1 DEF DivWait, TypeOK
  <2>3. FpuWait \in Nat /\ (FpuWait # 0 <=> E_fpuBusy)
    BY <2>1 DEF FpuWait, E_fpuBusy
  <2> QED
    BY <2>2, <2>3 DEF aluBusy, Dividing
<1> QED
  BY <1>1, <1>3, <1>4, <1>5

LEMMA WaitBounded ==
  ASSUME TypeOK, ControlInv PROVE Wait \in 0 .. Longest + 2
<1>1. CASE dataHazard
  BY <1>1, WaitParts, OneReason DEF Redirect
<1>2. CASE ~dataHazard
  <2>1. Hazards = IF csrHazard THEN 1 ELSE 0
    BY <1>2 DEF Hazards
  <2> QED
    BY <2>1, WaitParts, OneReason DEF Redirect
<1> QED
  BY <1>1, <1>2

LEMMA WaitPartsNext ==
  (TypeOK /\ ControlInv => /\ Dividing \in Nat /\ Hazards \in Nat /\ Redirect \in Nat
                           /\ Wait = Dividing + Hazards + Redirect)'
<1>1. TypeOK /\ ControlInv => /\ Dividing \in Nat /\ Hazards \in Nat /\ Redirect \in Nat
                              /\ Wait = Dividing + Hazards + Redirect
  BY WaitParts
<1> QED
  BY <1>1, PTL

(* A clock on which nothing enters brings the next instruction closer. *)
LEMMA WaitCounts ==
  ASSUME TypeOK, ControlInv, TypeOK', ControlInv', NEW taken \in BOOLEAN, Clock(taken),
         ~HALT, ~Enters
  PROVE  Wait' < Wait
<1>1. /\ Fetch(taken) /\ Decode(taken) /\ Execute /\ Divider /\ reset = FALSE /\ reset' = FALSE
  BY DEF Clock, Execute, ControlInv
<1>2. E.op # "ebreak"
  BY <1>1 DEF HALT
<1>3. FD'.nop <=> E_correctPC
  <2>1. DOMAIN FD = {"pc", "instr", "nop"}
    BY DEF TypeOK
  <2>2. FD'.nop = (D_flush \/ reset)
    BY <1>1, <2>1, Zenon DEF Fetch
  <2> QED
    BY <1>1, <2>2 DEF D_flush
<1>4. D_stall => D' = D
  BY <1>1 DEF Fetch, D, TypeOK
<1>5. E' = ZeroInstr => E'.op = Bubble /\ ~E_correctPC' /\ ~dataHazard'
  BY DEF ZeroInstr, E_correctPC, dataHazard, IsCsrWrite, AmoOps, CsrOps, Bubble
<1>6. E' = ZeroInstr => Wait' = Dividing' + (IF csrHazard' THEN 1 ELSE 0) + (IF FD'.nop THEN 1 ELSE 0)
  <2> SUFFICES ASSUME E' = ZeroInstr
               PROVE  Wait' = Dividing' + (IF csrHazard' THEN 1 ELSE 0) + (IF FD'.nop THEN 1 ELSE 0)
    OBVIOUS
  <2>1. Hazards' = (IF csrHazard' THEN 1 ELSE 0) /\ Redirect' = (IF FD'.nop THEN 1 ELSE 0)
    BY <1>5 DEF Hazards, Redirect
  <2> QED
    BY <2>1, WaitPartsNext
<1>7. E' = ZeroInstr /\ ~aluBusy => Dividing' = 0
  <2> SUFFICES ASSUME E' = ZeroInstr, ~aluBusy
               PROVE  ~div'.busy /\ E'.op # "div" /\ E'.op \notin UnitOps
    BY DEF Dividing, DivWait, FpuWait, E_fpuBusy
  <2>1. ~div.busy /\ ~(E.op = "div" /\ ~div.finished)
    BY DEF aluBusy
  <2>2. ~div'.busy
    BY <1>1, <2>1 DEF Divider
  <2> QED
    BY <1>5, <2>2 DEF UnitOps, Bubble
<1>8. CASE E_correctPC
  <2>1. E' = ZeroInstr /\ FD'.nop
    BY <1>1, <1>3, <1>8, BubbleIs DEF Decode, E_flush, E
  <2>2. ~csrHazard' /\ Dividing' = 0
    BY <1>7, <1>8, <2>1, OneReason DEF ControlInv, csrHazard
  <2>3. Wait' = 1
    BY <1>6, <2>1, <2>2
  <2>4. Redirect = 2
    BY <1>8 DEF Redirect
  <2> QED
    BY <2>3, <2>4, WaitParts
<1>9. CASE FD.nop
  <2>1. E' = ZeroInstr /\ ~FD'.nop
    BY <1>1, <1>3, <1>9, BubbleIs, OneReason DEF Decode, E
  <2>2. ~EM'.csrWrite
    BY <1>1, <1>9, OneReason DEF Execute, E_stall, EM_Bubble, ControlInv
  <2>3. Wait' = 0
    BY <1>6, <1>7, <1>9, <2>1, <2>2, OneReason DEF csrHazard
  <2>4. Redirect = 1
    BY <1>9, OneReason DEF Redirect
  <2> QED
    BY <2>3, <2>4, WaitParts
<1>10. CASE ~E_correctPC /\ ~FD.nop /\ dataHazard
  <2>1. E' = ZeroInstr /\ ~FD'.nop /\ D' = D
    BY <1>1, <1>3, <1>4, <1>10, BubbleIs DEF Decode, E_flush, D_stall, E
  <2>2. Wait' = IF csrHazard' THEN 1 ELSE 0
    BY <1>6, <1>7, <1>10, <2>1, OneReason
  <2>3. csrHazard' => D.op \in PrivOps
    BY <2>1 DEF csrHazard
  <2>4. Hazards >= (IF D.op \in PrivOps THEN 2 ELSE 1)
    BY <1>10 DEF Hazards
  <2> QED
    BY <2>2, <2>3, <2>4, WaitParts
<1>11. CASE ~E_correctPC /\ ~FD.nop /\ ~dataHazard /\ aluBusy
  <2>1. E.op \in {"div", Bubble} \cup UnitOps /\ (E' = E \/ E' = ZeroInstr) /\ ~FD'.nop /\ D' = D
    BY <1>1, <1>3, <1>4, <1>11, NextE DEF ControlInv, aluBusy, E_fpuBusy, D_stall
  <2>2. ~E_correctPC' /\ ~dataHazard'
    BY <1>5, <2>1 DEF E_correctPC, dataHazard, IsCsrWrite, AmoOps, CsrOps, UnitOps, Bubble
  <2>3. csrHazard' => csrHazard
    <3>1. EM'.csrWrite => EM.csrWrite
      BY <1>1, <1>11 DEF Execute, E_stall, EM_Bubble
    <3> QED
      BY <2>1, <3>1 DEF csrHazard
  <2>4. Dividing' < Dividing
    <3>1. CASE div.busy
      <4>0. FpuWait = 0 /\ FpuWait' = 0
        BY <1>5, <2>1, <3>1 DEF FpuWait, E_fpuBusy, ControlInv, UnitOps, Bubble
      <4>1. /\ div'.msk = div.msk - 1 /\ div'.busy = (div.msk # 1)
            /\ div'.finished = (div.msk = 1)
        BY <1>1, <3>1 DEF Divider, TypeOK
      <4>2. div.msk \in 1..DivBits /\ DivBits \in Nat
        BY <3>1, PipelineAssumption DEF TypeOK
      <4>3. Dividing = div.msk
        BY <3>1, <4>0, <4>2 DEF Dividing, DivWait
      <4>4. Dividing' = IF div.msk # 1 THEN div.msk - 1 ELSE 0
        <5>1. DivWait' = IF div.msk # 1 THEN div.msk - 1 ELSE 0
          BY <4>1 DEF DivWait
        <5> QED
          BY <4>0, <4>2, <5>1 DEF Dividing
      <4> QED
        BY <4>2, <4>3, <4>4
    <3>2. CASE ~div.busy /\ E.op = "div" /\ ~div.finished
      <4>0. FpuWait = 0 /\ FpuWait' = 0
        BY <1>5, <2>1, <3>2 DEF FpuWait, E_fpuBusy, UnitOps, Bubble
      <4>1. div'.busy /\ div'.msk = DivBits
        BY <1>1, <1>11, <3>2 DEF Divider
      <4> QED
        BY <3>2, <4>0, <4>1, PipelineAssumption DEF Dividing, DivWait
    <3>3. CASE E_fpuBusy
      <4> DEFINE u == E.op
      <4>1. u \in UnitOps /\ ~fpu[u].ready /\ u # "div" /\ ~div.busy
        BY <3>3 DEF E_fpuBusy, ControlInv, UnitOps, Bubble
      <4>2. DivWait = 0 /\ DivWait' = 0
        <5>1. ~div'.busy
          BY <1>1, <4>1 DEF Divider
        <5> QED
          BY <1>5, <2>1, <4>1, <5>1 DEF DivWait, Bubble
      <4>3. /\ LongCycles(u, FpuOperands) \in 1..MaxCycles /\ MaxCycles \in Nat
            /\ fpu[u].counter \in 0..MaxCycles
        BY <4>1, OperandTypesOfUnits, PipelineAssumption DEF TypeOK
      <4>4. /\ fpu'[u].counter = (IF fpu[u].counter = 0 THEN LongCycles(u, FpuOperands)
                                  ELSE fpu[u].counter - 1)
            /\ fpu'[u].ready = (fpu'[u].counter = 0 /\ fpu[u].counter # 0)
        BY <1>1, <4>1 DEF Execute, FpuUnit, Starts
      <4>5. FpuWait = IF fpu[u].counter = 0 THEN MaxCycles + 1 ELSE fpu[u].counter
        BY <3>3 DEF FpuWait
      <4>6. FpuWait' < FpuWait /\ FpuWait' \in Nat
        <5>1. CASE E' = ZeroInstr
          <6>1. FpuWait' = 0
            BY <1>5, <5>1 DEF FpuWait, E_fpuBusy, UnitOps, Bubble
          <6> QED
            BY <4>3, <4>5, <6>1
        <5>2. CASE E' = E
          <6>1. FpuWait' = IF fpu'[u].ready THEN 0
                           ELSE IF fpu'[u].counter = 0 THEN MaxCycles + 1 ELSE fpu'[u].counter
            BY <4>1, <5>2 DEF FpuWait, E_fpuBusy
          <6>2. CASE fpu[u].counter = 0
            <7>1. fpu'[u].counter \in 1..MaxCycles /\ fpu'[u].counter # 0 /\ ~fpu'[u].ready
              <8>1. fpu'[u].counter = LongCycles(u, FpuOperands)
                BY <4>4, <6>2
              <8>2. fpu'[u].counter \in 1..MaxCycles /\ fpu'[u].counter # 0
                BY <4>3, <8>1
              <8> QED
                BY <4>4, <8>2
            <7>2. FpuWait' = fpu'[u].counter /\ FpuWait = MaxCycles + 1
              BY <4>5, <6>1, <6>2, <7>1
            <7> QED
              BY <4>3, <7>1, <7>2
          <6>3. CASE fpu[u].counter # 0
            <7>1. fpu'[u].counter = fpu[u].counter - 1 /\ FpuWait = fpu[u].counter
              BY <4>4, <4>5, <6>3
            <7>2. fpu'[u].counter = 0 => fpu'[u].ready
              BY <4>4, <6>3
            <7>3. FpuWait' = 0 \/ FpuWait' = fpu[u].counter - 1
              BY <6>1, <7>1, <7>2
            <7> QED
              BY <4>3, <6>3, <7>1, <7>3
          <6> QED
            BY <6>2, <6>3
        <5> QED
          BY <2>1, <5>1, <5>2
      <4> QED
        BY <4>2, <4>6, <4>3, <4>5 DEF Dividing
    <3> QED
      BY <1>11, <3>1, <3>2, <3>3 DEF aluBusy
  <2>5. Hazards' <= Hazards
    BY <1>11, <2>2, <2>3 DEF Hazards
  <2>6. Redirect' = 0 /\ Redirect = 0
    BY <1>11, <2>1, <2>2 DEF Redirect
  <2> QED
    BY <2>4, <2>5, <2>6, WaitParts, WaitPartsNext
<1>12. CASE ~E_correctPC /\ ~FD.nop /\ ~dataHazard /\ ~aluBusy
  <2>1. csrHazard
    BY <1>12 DEF Enters, E_flush, D_stall
  <2>2. E' = ZeroInstr /\ ~FD'.nop
    BY <1>1, <1>3, <1>12, <2>1, BubbleIs DEF Decode, E_flush, E
  <2>3. ~EM'.csrWrite
    <3>1. D.op \in PrivOps
      BY <2>1 DEF csrHazard
    <3>2. ~IsCsrWrite(E)
      BY <1>12, <3>1 DEF dataHazard
    <3> QED
      BY <1>1, <1>12, <3>2 DEF Execute, E_stall, EM_Bubble
  <2>4. Wait' = 0
    BY <1>6, <1>7, <1>12, <2>2, <2>3 DEF csrHazard
  <2>5. Hazards = 1
    BY <1>12, <2>1 DEF Hazards
  <2> QED
    BY <2>4, <2>5, WaitParts
<1> QED
  BY <1>8, <1>9, <1>10, <1>11, <1>12

(* For every program, those that break the rules included: no stall, flush  *)
(* or correction can put off the next instruction for more than Longest + 2 *)
(* clocks, of the divider or of the FPU, unless an EBREAK stops the         *)
(* processor.                                                               *)
THEOREM StallsEnd == Spec => StallsAreShort
<1>1. TypeOK /\ ControlInv /\ TypeOK' /\ ControlInv' /\ [Next]_vars
        => [(HALT \/ Enters \/ Wait' < Wait) /\ Wait \in 0 .. Longest + 2]_vars
  BY WaitBounded, WaitCounts DEF Next
<1> QED
  BY <1>1, TypeCorrect, ControlCorrect, PTL DEF Spec, StallsAreShort

(* For every program that keeps the five rules: every clock executes an     *)
(* instruction of the sequential machine, or brings the next one closer, or *)
(* the program has stopped; and the next one is never more than Longest + 2 *)
(* clocks away.  The sequential machine therefore runs at one instruction   *)
(* in Longest + 3 clocks at least.                                          *)
THEOREM SpacedRunsSteadily ==
  ASSUME \A r \in Code : Spaced(r)
  PROVE  Spec => [][/\ HALT \/ ISA!Step \/ (Wait' < Wait /\ UNCHANGED ISA!vars)
                    /\ Wait \in 0 .. Longest + 2]_vars
<1> DEFINE Closer == HALT \/ ISA!Step \/ (Wait' < Wait /\ UNCHANGED ISA!vars)
           Runs == /\ Closer
                   /\ Wait \in 0 .. Longest + 2
<1>1. ASSUME TypeOK, ControlInv, PathInv, Undisturbed, TypeOK', ControlInv', PathInv',
             Undisturbed', [Next]_vars, [NoFalseTrap]_vars, [NoLostDivision]_vars,
             [StaysHalted]_vars
      PROVE  [Runs]_vars
  <2>0. Wait \in 0 .. Longest + 2
    BY <1>1, WaitBounded
  <2> SUFFICES ASSUME ~UNCHANGED vars, ~HALT PROVE Closer
    BY <2>0
  <2>1. PICK taken \in BOOLEAN : Clock(taken)
    BY <1>1 DEF Next
  <2>2. Good /\ ReadsOnlyRead' /\ NoFalseTrap /\ NoLostDivision /\ StaysHalted
    BY <1>1 DEF Good, Undisturbed
  <2>3. CASE Enters
    BY <1>1, <2>1, <2>2, <2>3, EntersSteps
  <2>4. CASE ~Enters
    <3>1. Wait' < Wait
      BY <1>1, <2>1, <2>4, WaitCounts
    <3>2. UNCHANGED ISA!vars
      BY <2>1, <2>2, <2>4, BubbleWaits, StallWaits DEF Enters
    <3> QED
      BY <3>1, <3>2
  <2> QED
    BY <2>3, <2>4
<1>2. TrapsInOrder => [][NoFalseTrap]_vars
  BY PTL DEF TrapsInOrder, NoFalseTrap
<1>3. DivisionCompletes => [][NoLostDivision]_vars
  BY PTL DEF DivisionCompletes, NoLostDivision
<1>4. HaltIsFinal => [][StaysHalted]_vars
  BY PTL DEF HaltIsFinal, StaysHalted
<1>5. Spec => []Undisturbed /\ TrapsInOrder /\ DivisionCompletes /\ HaltIsFinal
  BY SpacedSound
<1> HIDE DEF Runs
<1>6. Spec => [][Runs]_vars
  BY <1>1, <1>2, <1>3, <1>4, <1>5, TypeCorrect, ControlCorrect, PathCorrect, PTL DEF Spec
<1> QED
  BY <1>6 DEF Runs
===============================================================================
