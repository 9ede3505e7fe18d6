------------------------- MODULE PipelineRefinesIsa -------------------------
(***************************************************************************)
(* The pipeline implements the sequential machine of Isa.  An instruction  *)
(* counts as executed from the clock edge that moves it, unsquashed, into  *)
(* the decode-execute registers: from there on nothing may take it back.   *)
(* The abstract state is therefore the registers, memory and CSRs with the *)
(* effects of the three instructions in flight applied oldest first, each  *)
(* one complete, and the abstract program counter is the address of the    *)
(* instruction that will enter next.                                       *)
(***************************************************************************)
EXTENDS Pipeline

(* The register file once the memory and write-back units have finished. *)
RegsAfterM == IF EM.wb THEN [W_regs EXCEPT ![EM.rd] = M_wbData] ELSE W_regs

(* The instruction in the execute unit, on the state the older ones leave. *)
InE == INSTANCE Isa WITH pc <- DE.pc, regs <- RegsAfterM, mem <- M_mem,
                         csr <- M_csr, resv <- M_resv, halted <- FALSE

AbsPC ==
    IF E_correctPC THEN E_PCcorrection
    ELSE IF EF.correctPC THEN EF.PCcorrection
    ELSE IF FD.nop THEN PC ELSE FD.pc

AbsRegs ==
    IF WbEnable(E) /\ E.op # Bubble /\ E.rd # 0
    THEN [RegsAfterM EXCEPT ![E.rd] = InE!Result] ELSE RegsAfterM

AbsMem  == IF E.op = Bubble THEN M_mem ELSE InE!Stored
AbsResv == IF E.op = Bubble THEN M_resv ELSE InE!Reserved

(* ECALL, MRET and SRET have their whole effect in the decode unit. *)
AbsCsr == IF E.op \in CsrOps THEN InE!CsrWritten ELSE M_csr

ISA == INSTANCE Isa WITH pc <- AbsPC, regs <- AbsRegs, mem <- AbsMem, csr <- AbsCsr,
                         resv <- AbsResv, halted <- (E.op = "ebreak")

(* Whatever the branch predictor guesses and however the hazards fall, the  *)
(* program sees its instructions executed one at a time and in order.       *)
ExecutesInOrder == ISA!Spec

(* No stall lasts for ever: unless the program stops itself at an EBREAK,   *)
(* its next instruction always gets executed.                               *)
KeepsExecuting == ISA!FairSpec

(* The instruction in the decode unit enters the execute unit. *)
Enters == ~E_flush /\ ~FD.nop /\ ~D_stall

(* Clocks that pass before the next instruction enters, at the most: those  *)
(* of the division or root under way or about to start, of the hazards, of  *)
(* a correction on its way to the fetch unit.                               *)
DivWait ==
    IF div.busy THEN div.msk ELSE IF E.op = "div" /\ ~div.finished THEN DivBits + 1 ELSE 0
FpuWait ==
    IF ~E_fpuBusy THEN 0
    ELSE IF fpu[E.op].counter = 0 THEN MaxCycles + 1 ELSE fpu[E.op].counter
Wait ==
    DivWait + FpuWait
    + (IF csrHazard THEN 1 ELSE 0)
    + (IF ~dataHazard THEN 0 ELSE IF D.op \in PrivOps THEN 2 ELSE 1)
    + (IF E_correctPC THEN 2 ELSE IF FD.nop THEN 1 ELSE 0)

Longest == IF DivBits < MaxCycles THEN MaxCycles ELSE DivBits

(* Whatever stalls and flushes meet, an instruction enters within Longest+3 *)
(* clocks, unless an EBREAK holds the pipeline: no combination of them      *)
(* renews itself.                                                           *)
StallsAreShort ==
    [][(HALT \/ Enters \/ Wait' < Wait) /\ Wait \in 0 .. Longest + 2]_vars

-----------------------------------------------------------------------------
(* The programs that the code executes in order.  Five rules keep apart the *)
(* instructions that its control unit does not: each one is about a pair or *)
(* triple of instructions that follow each other, on any path, and none is  *)
(* about what a program computes.  r is the program.                        *)

(* What the return stack may hold. *)
Returns(r) ==
    PowerOn \cup {NextPC(a, r[a]) : a \in {b \in Word : r[b].op \in {"jal", "jalr"} /\ r[b].rd = 1}}

(* The fetch unit may go from a to b, whether the program does or not. *)
Follows(r, a, b) ==
    \/ r[a].op \in {"jal", "branch"} /\ b = Plus(a, r[a].imm)
    \/ r[a].op = "jalr" /\ b \in Returns(r)
    \/ r[a].op \in PrivOps
    \/ r[a].op \notin {"jal", "jalr"} \cup PrivOps /\ b = NextPC(a, r[a])

(* No trap where a misprediction may have led: nothing takes it back. *)
TrapsSpaced(r) ==
    /\ r[0].op \notin PrivOps
    /\ \A a \in Word : r[a].op \in {"branch", "jalr"} =>
          \A b \in Word : Follows(r, a, b) =>
              /\ r[b].op \notin PrivOps
              /\ \A c \in Word : Follows(r, b, c) => r[c].op \notin PrivOps

(* No trap behind what stalls the execute unit: its CSR hazard flushes that.*)
StallsSpaced(r) ==
    \A a \in Word : r[a].op \in {"div", "ebreak"} \cup UnitOps =>
        r[NextPC(a, r[a])].op \notin PrivOps

(* Neither of the two instructions behind one of a unit of the FPU is of    *)
(* the same unit, which has started once more and takes two cycles to rest. *)
UnitsSpaced(r) ==
    \A a \in Word : r[a].op \in UnitOps =>
        LET next == NextPC(a, r[a])
        IN  /\ r[next].op # r[a].op
            /\ \A c \in Word : Follows(r, next, c) => r[c].op # r[a].op

(* The operand with no hazard check, where the operation depends on it.     *)
UsesThird(i) == \E a, b, c, d \in Word : Fpu(i.fn, a, b, c) # Fpu(i.fn, a, b, d)

(* The instructions whose result the memory unit knows only. *)
Late == {"load"} \cup AmoOps \cup CsrOps

FusedSpaced(r) ==
    \A a \in Word : LET next == r[NextPC(a, r[a])] IN
        r[a].op \in Late /\ next.op = "fpu" /\ next.rs3 = r[a].rd => ~UsesThird(next)

(* A CSR instruction on x0 is taken for a read, so it must write nothing    *)
(* new, and writes what it read, so no trap may set the CSR meanwhile.      *)
ReadsSpaced(r) ==
    \A a \in Word : r[a].op \in CsrOps /\ r[a].rs1 = 0 =>
        /\ \A w \in Word, zero \in {0, UImm(0)} : CsrOut(r[a].fn, w, zero) = w
        /\ r[NextPC(a, r[a])].op # "ecall"

Spaced(r) ==
    /\ TrapsSpaced(r) /\ StallsSpaced(r) /\ UnitsSpaced(r)
    /\ FusedSpaced(r) /\ ReadsSpaced(r)
=============================================================================
