---------------------------- MODULE Instructions ----------------------------
(***************************************************************************)
(* The vocabulary the processor's units share: words, register and CSR     *)
(* identifiers, decoded instructions, and the combinational functions of   *)
(* the data path that depend on the operands only.  The functions of the   *)
(* data path are constants with typing assumptions: the pipeline moves     *)
(* their results about and what it moves must be right whatever they are.  *)
(***************************************************************************)
EXTENDS Integers

CONSTANTS
    Word,               \* 32-bit values: data, addresses and PCs
    Reg,                \* register ids, 0..31 integer and 32..63 floating point
    Csr,                \* CSR ids
    Fn,                 \* funct3/funct7: which operation of an opcode is meant
    Cells,              \* the 32-bit words of the data RAM
    CellOf(_),          \* DMemRAddr_i[31:2]: the cell an address falls in
    Plus(_, _),         \* 32-bit addition
    Even(_),            \* {a[31:1], 1'b0}
    UImm(_),            \* {26'b0, rs1Id}: the immediate of csrrwi/csrrsi/csrrci
    Alu(_, _, _),       \* E_aluOutBase and the multiplier
    Taken(_, _, _),     \* E_takeBranch
    Div(_, _, _),       \* what the divider ends with: quotient or remainder
    Fpu(_, _, _, _),    \* the single-cycle operations of the FPU
    FpuLong(_, _),      \* what a unit of the FPU ends with, of its operands
    AmoOut(_, _, _),    \* E_amoOut
    CsrOut(_, _, _),    \* E_csrOut
    CsrMask(_, _),      \* the writable bits of a CSR
    ScResult(_),        \* what SC returns
    Delegated(_, _),    \* the bit of medeleg for an ECALL from a privilege level
    MPP(_), SPP(_),     \* the two previous-privilege fields of mstatus
    MTrapStatus(_, _),  \* mstatus after a trap to machine mode
    STrapStatus(_, _)   \* mstatus after a trap to supervisor mode

(* Privilege levels: DD_privilege is two bits wide and any value fits. *)
US == 0
SU == 1
MA == 3
Privilege == 0 .. 3

(* The operations of the FPU's multi-cycle units, one for each unit, and    *)
(* what they are told: which rounding, and two registers.                   *)
UnitOps == {"fdiv.s", "fdiv.d", "fsqrt.s"}
FpuOperand == [fn : Fn, a : Word, b : Word]

TrapCsr == {"mstatus", "medeleg", "mtvec", "mepc", "mcause",
            "stvec", "sepc", "scause"}

ASSUME WordAssumption ==
    /\ {0, 2, 4, 8, 9, 11} \subseteq Word
    /\ 0 \in Reg
    /\ Fn # {}
    /\ TrapCsr \subseteq Csr
ASSUME ArithmeticAssumption ==
    /\ \A a, b \in Word : Plus(a, b) \in Word
    /\ \A a \in Word : Even(a) \in Word /\ CellOf(a) \in Cells
    /\ \A r \in Reg : UImm(r) \in Word
ASSUME DataPathAssumption ==
    /\ \A f \in Fn, a, b \in Word :
          /\ {Alu(f, a, b), Div(f, a, b), AmoOut(f, a, b),
              CsrOut(f, a, b)} \subseteq Word
          /\ Taken(f, a, b) \in BOOLEAN
    /\ \A f \in Fn, a, b, c \in Word : Fpu(f, a, b, c) \in Word
    /\ \A u \in UnitOps, x \in FpuOperand : FpuLong(u, x) \in Word
    /\ \A ok \in BOOLEAN : ScResult(ok) \in Word
ASSUME PrivilegeAssumption ==
    /\ \A c \in Csr, w \in Word : CsrMask(c, w) \in Word
    /\ \A w \in Word :
          /\ MPP(w) \in Privilege /\ SPP(w) \in {US, SU}
          /\ \A v \in Privilege : /\ Delegated(w, v) \in BOOLEAN
                                  /\ MTrapStatus(w, v) \in Word
                                  /\ STrapStatus(w, v) \in Word

(* The masks of the CSR file: what was masked once fits, mstatus has the    *)
(* bits a trap sets, and the CSRs of a trap have all of theirs.             *)
ASSUME MaskAssumption ==
    /\ \A c \in Csr : CsrMask(c, 0) = 0
    /\ \A c \in Csr, w \in Word : CsrMask(c, CsrMask(c, w)) = CsrMask(c, w)
    /\ \A c \in {"mepc", "mcause", "sepc", "scause"}, w \in Word : CsrMask(c, w) = w
    /\ \A w \in Word, v \in Privilege : CsrMask("mstatus", w) = w =>
          /\ CsrMask("mstatus", MTrapStatus(w, v)) = MTrapStatus(w, v)
          /\ CsrMask("mstatus", STrapStatus(w, v)) = STrapStatus(w, v)

-----------------------------------------------------------------------------
(* Decoded instructions. *)

AmoOps   == {"lr", "sc", "amo"}                    \* D_isAMO
CsrOps   == {"csr", "csri"}                        \* D_isCSR
PrivOps  == {"ecall", "mret", "sret"}              \* D_isPrivileged
AluROps  == {"alur", "div"}                        \* D_isALUR
NoDest   == {"branch", "store", "fence", "ebreak"} \cup PrivOps
Ops == {"lui", "auipc", "jal", "jalr", "alui", "load", "fpu"}
         \cup UnitOps \cup AluROps \cup AmoOps \cup CsrOps \cup NoDest

(* size is 2 for a compressed instruction (isRV32C) and 4 otherwise.  The  *)
(* bits that hold rd are zero in FENCE and in the privileged encodings and *)
(* part of the immediate in branches and stores, which never write back.   *)
Instr == {i \in [op : Ops, fn : Fn, rd : Reg, rs1 : Reg, rs2 : Reg, rs3 : Reg,
                 imm : Word, csr : Csr, size : {2, 4}] :
             i.op \in NoDest => i.rd = 0}

(* What a squashed or empty slot holds: every is... flag is clear. *)
Bubble == "bubble"

ReadsRs1(i) == i.op \notin {"jal", "lui", "auipc"}
ReadsRs2(i) == i.op \in {"store", "amo", "sc", "branch", "fpu"} \cup UnitOps \cup AluROps

(* DE_wbEnable, before x0 is ruled out by the execute unit. *)
WbEnable(i) == i.op \notin {"branch", "store"}

(* DE_isCSR && DE_rs1Id != 0, what the hazard logic takes for a CSR write. *)
IsCsrWrite(i) == i.op \in CsrOps /\ i.rs1 # 0

NextPC(pc, i) == Plus(pc, i.size)

-----------------------------------------------------------------------------
(* The trap functions of the decode unit: v is the current privilege and c *)
(* the CSR file.                                                           *)

TrapPrivilege(v, c) == IF v \in {US, SU} /\ Delegated(c["medeleg"], v) THEN SU ELSE MA

TrapCause(v) == CASE v = US -> 8 [] v = SU -> 9 [] OTHER -> 11

PrivilegeSet(i, v, c) ==
    CASE i.op = "ecall" -> TrapPrivilege(v, c)
      [] i.op = "mret"  -> MPP(c["mstatus"])
      [] i.op = "sret"  -> SPP(c["mstatus"])
      [] OTHER          -> v

TrapTarget(i, v, c) ==
    CASE i.op = "mret" -> c["mepc"]
      [] i.op = "sret" -> c["sepc"]
      [] OTHER -> IF TrapPrivilege(v, c) = SU THEN c["stvec"] ELSE c["mtvec"]

(* The CSRs a privileged instruction leaves behind: MRET and SRET set every *)
(* one of them to the value it has.                                         *)
TrapSet(i, v, c, return) ==
    IF i.op # "ecall" THEN c
    ELSE IF TrapPrivilege(v, c) = MA
         THEN [c EXCEPT !["mstatus"] = MTrapStatus(@, v), !["mepc"] = return,
                        !["mcause"] = TrapCause(v)]
         ELSE [c EXCEPT !["mstatus"] = STrapStatus(@, v), !["sepc"] = return,
                        !["scause"] = TrapCause(v)]
=============================================================================
