------------------------------ MODULE Pipeline ------------------------------
(***************************************************************************)
(* The five-stage pipeline of src/Processor: the fetch, decode, execute,   *)
(* memory and write-back units, the control unit that stalls and flushes   *)
(* them, the register file, the CSR file and the two memories.  One step   *)
(* is one rising edge of the clock: every register of every unit takes its *)
(* next value from the wires of the cycle that ends.                       *)
(*                                                                         *)
(* Three simplifications of the data, none of the control.  A squashed     *)
(* slot holds only what is read of it: the code clears its is... flags and *)
(* keeps the other fields.  The branch history table is left free to       *)
(* predict either way; the return address stack is modelled as it is.  The *)
(* dividers and the root of the FPU count their cycles, and the quotient   *)
(* that grows meanwhile is left out (FpuArith has it, FpuDividers has both *)
(* edges of their clock).                                                  *)
(***************************************************************************)
EXTENDS Instructions

CONSTANTS
    Code,       \* the programs the ROM may hold, functions from Word to Instr
    PowerOn,    \* what a word that no reset initialises may hold
    RamInit,    \* what the data RAM may hold at start
    DivBits,    \* the quotient bits of the divider, one per cycle
    MaxCycles,  \* the longest count of a unit of the FPU, DIVIDE_CYCLES of 64 bits
    LongCycles(_, _),       \* of a unit and its operands: SPECIAL_CYCLES or the long count
    FpuPart(_, _),          \* what a unit makes of the operands it began with
    FpuStale(_, _, _, _)    \* what comes of that, done or not, with other operands at hand

ASSUME PipelineAssumption ==
    /\ Code \subseteq [Word -> Instr]
    /\ PowerOn \subseteq Word
    /\ RamInit \subseteq [Cells -> Word]
    /\ DivBits \in Nat \ {0}
    /\ MaxCycles \in Nat
    /\ \A u \in UnitOps, x \in FpuOperand :
          /\ LongCycles(u, x) \in 1 .. MaxCycles
          /\ FpuPart(u, x) \in Word
          /\ \A w \in Word, done \in BOOLEAN : FpuStale(u, w, done, x) \in Word

VARIABLES
    reset,  \* reset_i, an input
    rom,    \* INSTMEM
    PC,     \* the fetch unit's program counter
    FD,     \* fetch-decode registers
    ras,    \* RAS_0 .. RAS_3
    priv,   \* DD_privilege
    DE,     \* decode-execute registers
    EF,     \* EF_correctPC and EF_PCcorrection
    div,    \* the divider
    fpu,    \* the units of the FPU: counter, ready_o, what it began with, is that done
    EM,     \* execute-memory registers
    MW,     \* memory-writeback registers
    regs,   \* the register file
    mem,    \* DATAMEM
    csr,    \* the CSR file
    resv    \* MM_reservedAddress and MM_reservedChanged

vars == <<reset, rom, PC, FD, ras, priv, DE, EF, div, fpu, EM, MW, regs, mem, csr, resv>>

-----------------------------------------------------------------------------
(* The latches when nothing is in them. *)

ZeroInstr == [op |-> Bubble, fn |-> CHOOSE f \in Fn : TRUE, rd |-> 0, rs1 |-> 0,
              rs2 |-> 0, rs3 |-> 0, imm |-> 0, csr |-> "mstatus", size |-> 4]
DE_Bubble == [instr |-> ZeroInstr, pc |-> 0, predict |-> FALSE, ra |-> 0]

(* EM_isCSRWrite is the one flag that flushing the memory unit leaves set. *)
EM_Bubble(csrWrite) ==
    [op |-> Bubble, wb |-> FALSE, rd |-> 0, csr |-> "mstatus", csrWrite |-> csrWrite,
     result |-> 0, addr |-> 0, rs2 |-> 0, Mdata |-> 0, CSRdata |-> 0]

-----------------------------------------------------------------------------
(* Execute unit: operand forwarding and results. *)

E == DE.instr

Forwarded(r) ==
    IF EM.wb /\ EM.rd = r THEN EM.result
    ELSE IF MW.wb /\ MW.rd = r THEN MW.data ELSE regs[r]

E_rs1 == Forwarded(E.rs1)
E_rs2 == Forwarded(E.rs2)
E_rs3 == Forwarded(E.rs3)

E_addr == IF E.op \in AmoOps THEN E_rs1 ELSE Plus(E_rs1, E.imm)
DMemRData == mem[CellOf(E_addr)]
csrRData == csr[E.csr]

E_takeBranch == Taken(E.fn, E_rs1, E_rs2)
E_JALRaddr == Even(Plus(E_rs1, E.imm))

E_correctPC ==
    \/ E.op = "jalr" /\ DE.ra # E_JALRaddr
    \/ E.op = "branch" /\ E_takeBranch # DE.predict

E_PCcorrection ==
    IF E.op # "branch" THEN E_JALRaddr
    ELSE IF DE.predict THEN NextPC(DE.pc, E) ELSE Plus(DE.pc, E.imm)

(* A unit starts when it is enabled and its counter is zero, also on the    *)
(* edge on which the instruction it has finished for leaves.  What it has   *)
(* belongs to the operands at hand if it began with them and is done.       *)
FpuOperands == [fn |-> E.fn, a |-> E_rs1, b |-> E_rs2]
Starts(u) == E.op = u /\ fpu[u].counter = 0 /\ ~reset

E_fpuLong ==
    IF fpu[E.op].done /\ fpu[E.op].x = FpuOperands THEN FpuLong(E.op, FpuOperands)
    ELSE FpuStale(E.op, FpuPart(E.op, fpu[E.op].x), fpu[E.op].done, FpuOperands)

E_result ==
    CASE E.op \in {"jal", "jalr"} -> NextPC(DE.pc, E)
      [] E.op = "lui"             -> E.imm
      [] E.op = "auipc"           -> Plus(DE.pc, E.imm)
      [] E.op = "div"             -> Div(div.fn, div.a, div.b)
      [] E.op = "fpu"             -> Fpu(E.fn, E_rs1, E_rs2, E_rs3)
      [] E.op \in UnitOps         -> E_fpuLong
      [] E.op = "csr"             -> CsrOut(E.fn, csrRData, E_rs1)
      [] E.op = "csri"            -> CsrOut(E.fn, csrRData, UImm(E.rs1))
      [] E.op \in AmoOps          -> AmoOut(E.fn, DMemRData, E_rs2)
      [] E.op = "alur"            -> Alu(E.fn, E_rs1, E_rs2)
      [] OTHER                    -> Alu(E.fn, E_rs1, E.imm)

(* A unit of the FPU holds the execute unit until it reports.               *)
E_fpuBusy == E.op \in UnitOps /\ ~fpu[E.op].ready

(* Mistakes: a division that is done counts as busy; the units of the FPU   *)
(* do not.                                                                  *)
aluBusyWhenFinished == div.busy \/ E.op = "div" \/ E_fpuBusy
aluBusyNoFpu == div.busy \/ (E.op = "div" /\ ~div.finished)

aluBusy == div.busy \/ (E.op = "div" /\ ~div.finished) \/ E_fpuBusy
HALT == ~reset /\ E.op = "ebreak"

-----------------------------------------------------------------------------
(* Decode unit: hazards, prediction and traps. *)

D == FD.instr

rs1Hazard == ReadsRs1(D) /\ D.rs1 = E.rd
(* Mistake: the data of a store is not taken for an operand. *)
rs2HazardNotStores == ReadsRs2(D) /\ D.op # "store" /\ D.rs2 = E.rd

rs2Hazard == ReadsRs2(D) /\ D.rs2 = E.rd

(* Mistakes: a load overtakes a store; a CSR read overtakes a CSR write. *)
dataHazardNoStores ==
    \/ ~FD.nop /\ E.op \in {"load"} \cup AmoOps \cup CsrOps /\ (rs1Hazard \/ rs2Hazard)
    \/ D.op \in CsrOps \cup PrivOps /\ IsCsrWrite(E)
dataHazardNoCsrs ==
    \/ ~FD.nop /\ E.op \in {"load"} \cup AmoOps \cup CsrOps /\ (rs1Hazard \/ rs2Hazard)
    \/ D.op \in {"load"} \cup AmoOps /\ E.op \in {"store"} \cup AmoOps

dataHazard ==
    \/ ~FD.nop /\ E.op \in {"load"} \cup AmoOps \cup CsrOps /\ (rs1Hazard \/ rs2Hazard)
    \/ D.op \in {"load"} \cup AmoOps /\ E.op \in {"store"} \cup AmoOps
    \/ D.op \in CsrOps \cup PrivOps /\ IsCsrWrite(E)

(* Mistake: a squashed jump still redirects the fetch unit. *)
D_predictPCSquashed(taken) ==
    D.op \in {"jal", "jalr"} \cup PrivOps \/ (D.op = "branch" /\ taken)

(* taken is the prediction of the branch history table. *)
D_predictPC(taken) ==
    /\ ~FD.nop
    /\ D.op \in {"jal", "jalr"} \cup PrivOps \/ (D.op = "branch" /\ taken)

D_PCprediction ==
    CASE D.op = "jalr"       -> ras[0]
      [] D.op \in PrivOps    -> TrapTarget(D, priv, csr)
      [] OTHER               -> Plus(FD.pc, D.imm)

-----------------------------------------------------------------------------
(* Control unit. *)

(* Mistake: only the returns wait for a pending CSR write. *)
csrHazardReturns == D.op \in {"mret", "sret"} /\ EM.csrWrite

csrHazard == D.op \in PrivOps /\ EM.csrWrite

(* Mistake: an EBREAK does not hold the pipeline. *)
D_stallNoHalt == aluBusy \/ csrHazard \/ dataHazard

D_stall == aluBusy \/ csrHazard \/ dataHazard \/ HALT     \* and F_stall
E_stall == aluBusy                                        \* and M_flush
(* Mistakes: a mispredicted JALR squashes nothing in the decode unit; a     *)
(* correction squashes the decode unit and not the execute unit.            *)
D_flushBranches == E.op = "branch" /\ E_correctPC
E_flushHazards == csrHazard \/ dataHazard

D_flush == E_correctPC
E_flush == E_correctPC \/ csrHazard \/ dataHazard

(* Mistake: a trap sets its CSRs on every cycle it waits. *)
csrTrapSetEnStalled == D.op \in PrivOps

csrTrapSetEn == ~D_stall /\ D.op \in PrivOps

-----------------------------------------------------------------------------
(* The rising edge, unit by unit. *)

F_PC(taken) ==
    IF D_predictPC(taken) THEN D_PCprediction
    ELSE IF EF.correctPC THEN EF.PCcorrection ELSE PC

Fetch(taken) ==
    LET next == F_PC(taken)
        nop == D_flush \/ reset
    IN  /\ FD' = IF D_stall THEN [FD EXCEPT !.nop = nop]
                 ELSE [pc |-> next, instr |-> rom[next], nop |-> nop]
        /\ PC' = IF reset THEN 0
                 ELSE IF D_stall THEN PC ELSE NextPC(next, rom[next])

ReturnStack ==
    LET link == NextPC(FD.pc, D)
        push == D.op \in {"jal", "jalr"} /\ D.rd = 1
        pop  == D.op = "jalr" /\ D.rd = 0 /\ D.rs1 \in {1, 5}
    IN  ras' = IF D_stall \/ FD.nop \/ D_flush THEN ras
               ELSE IF push THEN [n \in 0..3 |-> IF n = 0 THEN link ELSE ras[n - 1]]
               ELSE IF pop THEN [n \in 0..3 |-> IF n = 3 THEN ras[3] ELSE ras[n + 1]]
               ELSE ras

Decode(taken) ==
    /\ DE' = IF E_flush \/ FD.nop THEN DE_Bubble
             ELSE IF D_stall THEN DE
             ELSE [instr |-> D, pc |-> FD.pc,
                   predict |-> D.op = "branch" /\ taken, ra |-> ras[0]]
    /\ priv' = IF reset THEN MA
               ELSE IF D_stall THEN priv ELSE PrivilegeSet(D, priv, csr)
    /\ ReturnStack

(* Mistakes: the busy flag falls one step late; the last step is missed. *)
DividerLate ==
    LET start == E.op = "div" /\ ~dataHazard /\ ~div.finished
    IN  div' = IF div.busy
               THEN [div EXCEPT !.msk = @ - 1, !.busy = (div.msk # 0),
                                !.finished = (div.msk = 1)]
               ELSE [busy |-> start, finished |-> (div.msk = 1),
                     msk |-> IF start THEN DivBits ELSE div.msk,
                     fn |-> E.fn, a |-> E_rs1, b |-> E_rs2]
DividerEndless ==
    LET start == E.op = "div" /\ ~dataHazard /\ ~div.finished
    IN  div' = IF div.busy
               THEN [div EXCEPT !.msk = @ - 1, !.busy = (div.msk # 1),
                                !.finished = (div.msk = 0)]
               ELSE [busy |-> start, finished |-> (div.msk = 1),
                     msk |-> IF start THEN DivBits ELSE div.msk,
                     fn |-> E.fn, a |-> E_rs1, b |-> E_rs2]

(* msk counts EE_quotientMsk's place down to bit 0, which is place 1. *)
Divider ==
    LET start == E.op = "div" /\ ~dataHazard /\ ~div.finished
    IN  div' = IF div.busy
               THEN [div EXCEPT !.msk = @ - 1, !.busy = (div.msk # 1),
                                !.finished = (div.msk = 1)]
               ELSE [busy |-> start, finished |-> (div.msk = 1),
                     msk |-> IF start THEN DivBits ELSE div.msk,
                     fn |-> E.fn, a |-> E_rs1, b |-> E_rs2]

(* ready_o follows on the falling edge in between: it is set for the cycle  *)
(* after the counter has come to zero, whatever brought it there.           *)
FpuUnit(u) ==
    LET f == fpu[u]
        n == IF Starts(u) THEN LongCycles(u, FpuOperands)
             ELSE IF E.op = u /\ f.counter # 0 THEN f.counter - 1 ELSE 0
    IN  [counter |-> n,
         ready |-> n = 0 /\ f.counter # 0,
         x     |-> IF Starts(u) THEN FpuOperands ELSE f.x,
         done  |-> IF Starts(u) THEN n = 1 ELSE f.done \/ (E.op = u /\ f.counter = 1)]

Execute ==
    /\ EM' = IF E_stall \/ E.op = Bubble
             THEN EM_Bubble(E_stall /\ EM.csrWrite)
             ELSE [op |-> E.op, wb |-> WbEnable(E) /\ E.rd # 0, rd |-> E.rd,
                   csr |-> E.csr, csrWrite |-> IsCsrWrite(E), result |-> E_result,
                   addr |-> E_addr, rs2 |-> E_rs2, Mdata |-> DMemRData,
                   CSRdata |-> csrRData]
    /\ EF' = IF E_stall THEN [EF EXCEPT !.correctPC = FALSE]
             ELSE [correctPC |-> E_correctPC, PCcorrection |-> E_PCcorrection]
    /\ Divider
    /\ fpu' = [u \in UnitOps |-> FpuUnit(u)]

-----------------------------------------------------------------------------
(* Memory unit. *)

M_addressReserved == EM.addr = resv.addr
M_scWriteable == M_addressReserved /\ ~resv.changed
M_storeEnable == EM.op \in {"store", "amo"} \/ (EM.op = "sc" /\ M_scWriteable)

M_wbData ==
    CASE EM.op = "sc"                     -> ScResult(M_scWriteable)
      [] EM.op \in {"load", "lr", "amo"}  -> EM.Mdata
      [] EM.op \in CsrOps                 -> EM.CSRdata
      [] OTHER                            -> EM.result

M_mem ==
    IF M_storeEnable
    THEN [mem EXCEPT ![CellOf(EM.addr)] = IF EM.op = "amo" THEN EM.result ELSE EM.rs2]
    ELSE mem

M_resv ==
    IF EM.op = "lr" THEN [addr |-> EM.addr, changed |-> FALSE]
    ELSE IF EM.op \in {"store", "sc", "amo"} /\ M_addressReserved
         THEN [resv EXCEPT !.changed = TRUE] ELSE resv

M_csr ==
    IF EM.op \in CsrOps
    THEN [csr EXCEPT ![EM.csr] = CsrMask(EM.csr, EM.result)] ELSE csr

Memory ==
    /\ MW' = [wb |-> EM.wb, rd |-> EM.rd, data |-> M_wbData]
    /\ mem' = M_mem
    /\ resv' = M_resv

(* A trap that sets its CSRs takes the write port from the memory unit. *)
CsrFile ==
    csr' = IF reset THEN [c \in Csr |-> 0]
           ELSE IF csrTrapSetEn THEN TrapSet(D, priv, csr, NextPC(FD.pc, D)) ELSE M_csr

W_regs == IF MW.wb THEN [regs EXCEPT ![MW.rd] = MW.data] ELSE regs

(* Mistake: a reset leaves the registers as they are. *)
WriteBackUnreset == regs' = W_regs

WriteBack == regs' = IF reset THEN [r \in Reg |-> 0] ELSE W_regs

-----------------------------------------------------------------------------
(* The state that a reset held long enough leaves: the fetch unit waits at  *)
(* address 0 and the rest of the pipeline is empty (PipelineReset shows how *)
(* long that takes).                                                        *)
Drained ==
    /\ PC = 0
    /\ FD = [pc |-> 0, instr |-> rom[0], nop |-> TRUE]
    /\ priv = MA
    /\ DE = DE_Bubble
    /\ EF = [correctPC |-> FALSE, PCcorrection |-> Even(Plus(0, 0))]
    /\ div = [busy |-> FALSE, finished |-> FALSE, msk |-> 0, fn |-> ZeroInstr.fn, a |-> 0, b |-> 0]
    /\ \A u \in UnitOps : fpu[u].counter = 0 /\ ~fpu[u].ready
    /\ EM = EM_Bubble(FALSE)
    /\ MW = [wb |-> FALSE, rd |-> 0, data |-> 0]
    /\ regs = [r \in Reg |-> 0]
    /\ csr = [c \in Csr |-> 0]

(* Nothing resets the return addresses and the reservation. *)
Init ==
    /\ reset = FALSE
    /\ rom \in Code
    /\ fpu = [u \in UnitOps |-> [counter |-> 0, ready |-> FALSE, done |-> FALSE,
                                  x |-> [fn |-> ZeroInstr.fn, a |-> 0, b |-> 0]]]
    /\ Drained
    /\ ras \in [0..3 -> PowerOn]
    /\ mem \in RamInit
    /\ resv \in [addr : PowerOn, changed : BOOLEAN]

Clock(taken) ==
    /\ Fetch(taken)
    /\ Decode(taken)
    /\ Execute
    /\ Memory
    /\ CsrFile
    /\ WriteBack
    /\ UNCHANGED rom

Next == /\ \E taken \in BOOLEAN : Clock(taken)
        /\ UNCHANGED reset

(* The clock never stops. *)
Spec == Init /\ [][Next]_vars /\ WF_vars(Next)

-----------------------------------------------------------------------------
(* The state is well formed: every latch holds values its wires can carry,  *)
(* a divider that is busy still has a quotient bit to produce, and a unit   *)
(* of the FPU that reports has counted to the end.                          *)
TypeOK ==
    /\ reset \in BOOLEAN
    /\ rom \in [Word -> Instr]
    /\ PC \in Word
    /\ FD \in [pc : Word, instr : Instr, nop : BOOLEAN]
    /\ ras \in [0..3 -> Word]
    /\ priv \in Privilege
    /\ DE \in [instr : Instr \cup {ZeroInstr}, pc : Word, predict : BOOLEAN, ra : Word]
    /\ EF \in [correctPC : BOOLEAN, PCcorrection : Word]
    /\ div \in [busy : BOOLEAN, finished : BOOLEAN, msk : 0..DivBits,
                fn : Fn, a : Word, b : Word]
    /\ div.busy => div.msk # 0
    /\ fpu \in [UnitOps -> [counter : 0..MaxCycles, ready : BOOLEAN, done : BOOLEAN,
                            x : FpuOperand]]
    /\ \A u \in UnitOps : fpu[u].ready => fpu[u].counter = 0
    /\ EM \in [op : Ops \cup {Bubble}, wb : BOOLEAN, rd : Reg, csr : Csr,
               csrWrite : BOOLEAN, result : Word, addr : Word, rs2 : Word,
               Mdata : Word, CSRdata : Word]
    /\ MW \in [wb : BOOLEAN, rd : Reg, data : Word]
    /\ regs \in [Reg -> Word]
    /\ mem \in [Cells -> Word]
    /\ csr \in [Csr -> Word]
    /\ resv \in [addr : Word, changed : BOOLEAN]

(* A squashed instruction stays squashed.  FD_nop is rewritten on every     *)
(* clock, stalled or not, while FD_instr is kept by a stall: a stall while  *)
(* FD_nop is set would bring the wrong-path instruction back to life.       *)
SquashedStaysSquashed == FD.nop => ~D_stall

(* A corrected PC is never lost.  EF_correctPC is set for one cycle; the    *)
(* fetch unit must take it in that cycle, neither stalled nor listening to  *)
(* a prediction of the decode unit instead, which has priority.             *)
CorrectionNeverLost ==
    EF.correctPC => ~D_stall /\ \A t \in BOOLEAN : ~D_predictPC(t)

(* Loads read the memory in the execute unit and stores write it one stage  *)
(* later: no load or atomic may be there while the memory unit holds a      *)
(* store or an atomic, or it would read the old word.                       *)
LoadsWaitForStores ==
    E.op \in {"load"} \cup AmoOps => EM.op \notin {"store"} \cup AmoOps

(* What the memory unit forwards is the value the register will get: the    *)
(* result of a load, an atomic or a CSR instruction is not known there yet. *)
(* The third operand of the FPU's fused operations is left out: it has no   *)
(* hazard check (FmaReadsFinalValue).                                       *)
NotFinal(r) == EM.wb /\ EM.rd = r /\ EM.op \in {"load"} \cup AmoOps \cup CsrOps
ForwardsFinalValues ==
    /\ ReadsRs1(E) => ~NotFinal(E.rs1)
    /\ ReadsRs2(E) => ~NotFinal(E.rs2)

(* A CSR instruction reads its CSR in the execute unit after every older    *)
(* CSR write the hazard logic knows of has been done in the memory unit.    *)
CsrReadsSettled == E.op \in CsrOps => ~EM.csrWrite

(* A branch or a jump that corrects the PC has no multi-cycle operation and *)
(* no CSR write around it, and what it squashed is thrown away in the next  *)
(* cycle with the units behind it empty: nothing can stall that cycle.      *)
ControlInv ==
    /\ reset = FALSE
    /\ div.busy => E.op \in {"div", Bubble}
    /\ FD.nop => E.op = Bubble /\ ~div.busy /\ ~EM.csrWrite
    /\ EF.correctPC => FD.nop
    /\ LoadsWaitForStores
    /\ ForwardsFinalValues
    /\ CsrReadsSettled

(* A division or a root that has started, of integers or in the FPU, stays  *)
(* in the execute unit until its result is there.                           *)
DivisionCompletes ==
    [][DE' # DE => /\ E.op = "div" => div.finished
                   /\ E.op \in UnitOps => fpu[E.op].ready]_vars

(* The privilege level and the CSRs of a trap change only for an ECALL,     *)
(* MRET or SRET that the program executes: neither for one on a mispredicted*)
(* path, nor for what is left in FD_instr once FD_nop is set.               *)
TrapsInOrder ==
    [][priv' # priv \/ csrTrapSetEn => ~FD.nop /\ ~E_correctPC]_vars

(* No CSR write is pending in the memory unit when a trap takes the write   *)
(* port of the CSR file from it.                                            *)
TrapsDropNoWrite == csrTrapSetEn => EM.op \notin CsrOps

(* An EBREAK stops the processor for good.                                  *)
HaltIsFinal == [][HALT => HALT']_vars

(* The third operand of a fused multiply-add is the value the register has  *)
(* in program order, wherever it comes from.                                *)
FmaReadsFinalValue == E.op = "fpu" => ~NotFinal(E.rs3)
=============================================================================
