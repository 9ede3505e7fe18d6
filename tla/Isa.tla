-------------------------------- MODULE Isa ---------------------------------
(***************************************************************************)
(* What the processor promises its programs: one instruction at a time, in *)
(* program order, each one reading the registers, the memory and the CSRs  *)
(* as the instruction before it left them.  There is no pipeline here: the *)
(* instruction functions of the source are composed sequentially.          *)
(***************************************************************************)
EXTENDS Instructions

VARIABLES
    rom,     \* the instruction at each address; never changes
    pc,      \* address of the next instruction
    regs,    \* the register file
    mem,     \* the data RAM
    csr,     \* the CSR file
    priv,    \* privilege level
    resv,    \* the LR/SC reservation
    halted   \* an EBREAK was executed

vars == <<rom, pc, regs, mem, csr, priv, resv, halted>>

Init ==
    /\ pc = 0
    /\ regs = [r \in Reg |-> 0]
    /\ csr = [c \in Csr |-> 0]
    /\ priv = MA
    /\ halted = FALSE
    /\ mem \in [Cells -> Word]
    /\ resv \in [addr : Word, changed : BOOLEAN]
    /\ rom \in [Word -> Instr]

-----------------------------------------------------------------------------
i == rom[pc]
rs1 == regs[i.rs1]
rs2 == regs[i.rs2]
Addr == IF i.op \in AmoOps THEN rs1 ELSE Plus(rs1, i.imm)
Loaded == mem[CellOf(Addr)]
ScWriteable == resv.addr = Addr /\ ~resv.changed

Result ==
    CASE i.op \in {"jal", "jalr"}          -> NextPC(pc, i)
      [] i.op = "lui"                      -> i.imm
      [] i.op = "auipc"                    -> Plus(pc, i.imm)
      [] i.op = "alui"                     -> Alu(i.fn, rs1, i.imm)
      [] i.op = "alur"                     -> Alu(i.fn, rs1, rs2)
      [] i.op = "div"                      -> Div(i.fn, rs1, rs2)
      [] i.op = "fpu"                      -> Fpu(i.fn, rs1, rs2, regs[i.rs3])
      [] i.op \in UnitOps                  -> FpuLong(i.op, [fn |-> i.fn, a |-> rs1, b |-> rs2])
      [] i.op \in {"load", "lr", "amo"}    -> Loaded
      [] i.op = "sc"                       -> ScResult(ScWriteable)
      [] i.op \in CsrOps                   -> csr[i.csr]
      [] OTHER                             -> 0

Successor ==
    CASE i.op = "jal"      -> Plus(pc, i.imm)
      [] i.op = "jalr"     -> Even(Plus(rs1, i.imm))
      [] i.op \in PrivOps  -> TrapTarget(i, priv, csr)
      [] i.op = "branch" /\ Taken(i.fn, rs1, rs2) -> Plus(pc, i.imm)
      [] OTHER             -> NextPC(pc, i)

Stored ==
    CASE i.op = "store"              -> [mem EXCEPT ![CellOf(Addr)] = rs2]
      [] i.op = "amo"                -> [mem EXCEPT ![CellOf(Addr)] = AmoOut(i.fn, @, rs2)]
      [] i.op = "sc" /\ ScWriteable  -> [mem EXCEPT ![CellOf(Addr)] = rs2]
      [] OTHER                       -> mem

Reserved ==
    CASE i.op = "lr" -> [addr |-> Addr, changed |-> FALSE]
      [] i.op \in {"store", "sc", "amo"} /\ resv.addr = Addr -> [resv EXCEPT !.changed = TRUE]
      [] OTHER -> resv

CsrWritten ==
    LET in == IF i.op = "csri" THEN UImm(i.rs1) ELSE rs1
    IN  IF i.op \in CsrOps
        THEN [csr EXCEPT ![i.csr] = CsrMask(i.csr, CsrOut(i.fn, @, in))]
        ELSE TrapSet(i, priv, csr, NextPC(pc, i))

(* One instruction, all of it. *)
Step ==
    /\ ~halted
    /\ pc' = Successor
    /\ regs' = IF WbEnable(i) /\ i.rd # 0 THEN [regs EXCEPT ![i.rd] = Result] ELSE regs
    /\ mem' = Stored
    /\ resv' = Reserved
    /\ csr' = CsrWritten
    /\ priv' = PrivilegeSet(i, priv, csr)
    /\ halted' = (i.op = "ebreak")
    /\ UNCHANGED rom

Spec == Init /\ [][Step]_vars
FairSpec == Spec /\ WF_vars(Step)
=============================================================================
