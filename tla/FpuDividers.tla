----------------------------- MODULE FpuDividers -----------------------------
(***************************************************************************)
(* The multi-cycle units of the FPU, FDIV and FSQRT, and their handshake   *)
(* with the execute unit.  Each has a counter clocked by the rising edge,  *)
(* like the pipeline, and the two flags busy and ready_o clocked by the    *)
(* falling one.  An instruction stays in the execute unit, and its operands*)
(* with it, until the ready flag of its unit lets the pipeline go on.      *)
(*                                                                         *)
(* What a unit computes is left open.  A result is a record of the         *)
(* operands each of its parts was computed from: the significand, read     *)
(* when the unit starts, the exponent, read when the quotient is           *)
(* normalised, and the sign and rounding mode, read at the end.            *)
(***************************************************************************)
EXTENDS Integers

CONSTANTS
    Unit,       \* FDIV in both formats and FSQRT
    Operand,    \* operands of an instruction: both registers and the rounding mode
    Special,    \* of each unit, the operands it needs no division for
    Cycles,     \* of each unit, DIVIDE_CYCLES or SQRT_CYCLES
    Other,      \* an instruction of another unit, or none
    Spacing     \* clock cycles that pass between two instructions of one unit

ASSUME UnitAssumption == Other \notin Unit /\ Operand # {}
ASSUME CyclesAssumption ==
    /\ Special \in [Unit -> SUBSET Operand]
    /\ Cycles \in [Unit -> Nat \ {0, 1}]
    /\ Spacing \in Nat

VARIABLES
    clk,    \* the level of the clock
    E,      \* the instruction in the execute unit and its operands
    fpu,    \* the registers of each unit
    since   \* clock cycles since each unit was last in use, counted to Spacing

vars == <<clk, E, fpu, since>>

Slot == [op : Unit \cup {Other}, x : Operand]
Correct(x) == [sig |-> x, exp |-> x, end |-> x, done |-> TRUE]

aluBusy == E.op \in Unit /\ ~fpu[E.op].ready

-----------------------------------------------------------------------------
(* The unit's counter, restarted whenever it is zero and the unit enabled. *)

Count(u) ==
    LET n == fpu[u].counter
    IN  IF E.op # u THEN 0
        ELSE IF n = 0 THEN (IF E.x \in Special[u] THEN 1 ELSE Cycles[u])
        ELSE n - 1

(* The result register, which also shows the quotient while it grows. *)
Result(u) ==
    LET f == fpu[u]
        n == f.counter
    IN  IF E.op # u THEN f.out
        ELSE IF n = 0 /\ E.x \in Special[u] THEN Correct(E.x)
        ELSE IF n = 0 THEN [f.out EXCEPT !.sig = E.x, !.done = FALSE]
        ELSE IF n > 2 THEN [f.out EXCEPT !.done = FALSE]
        ELSE IF n = 2 THEN [f.out EXCEPT !.exp = E.x, !.done = FALSE]
        ELSE IF f.special THEN f.out
        ELSE [f.out EXCEPT !.end = E.x, !.done = TRUE]

IsSpecial(u) ==
    IF E.op = u /\ fpu[u].counter = 0 THEN E.x \in Special[u]
    ELSE fpu[u].special /\ ~(E.op = u /\ fpu[u].counter = 1)

(* The program lets Spacing clock cycles pass between two of one unit.      *)
MayEnter(next) == next.op \in Unit => since[next.op] = Spacing

(* An instruction leaves the execute unit when nothing in it is busy.  A    *)
(* CSR hazard also flushes one that is, and the ECALL or return that raised *)
(* it then takes two cycles to get out of the way.                          *)
Stay == aluBusy /\ E' = E
Enter(next) ==
    /\ aluBusy => next.op = Other /\ Spacing >= 2
    /\ MayEnter(next)
    /\ E' = next

Rise ==
    /\ clk = 0 /\ clk' = 1
    /\ Stay \/ \E next \in Slot : Enter(next)
    /\ fpu' = [u \in Unit |-> [fpu[u] EXCEPT !.counter = Count(u), !.out = Result(u),
                                             !.special = IsSpecial(u)]]
    /\ since' = [u \in Unit |-> IF E'.op = u THEN 0
                                ELSE IF since[u] < Spacing THEN since[u] + 1 ELSE Spacing]

(* Mistake: a unit reports every time it is idle. *)
ReadyWhenIdle(u) == fpu[u].counter = 0

Ready(u) == fpu[u].counter = 0 /\ fpu[u].busy

(* Mistake: only an instruction that took the long way raises the flag. *)
BusyLong(u) == fpu[u].counter > 1

Busy(u) == fpu[u].counter > 0

Fall ==
    /\ clk = 1 /\ clk' = 0
    /\ fpu' = [u \in Unit |-> [fpu[u] EXCEPT !.busy = Busy(u), !.ready = Ready(u)]]
    /\ UNCHANGED <<E, since>>

Init ==
    /\ clk = 0
    /\ E \in [op : {Other}, x : Operand]
    /\ \E old \in [Unit -> Operand] :
          fpu = [u \in Unit |->
                   [counter |-> 0, special |-> FALSE, busy |-> FALSE, ready |-> FALSE,
                    out |-> [sig |-> old[u], exp |-> old[u], end |-> old[u], done |-> FALSE]]]
    /\ since = [u \in Unit |-> Spacing]

Next == Rise \/ Fall
Spec == Init /\ [][Next]_vars /\ WF_vars(Next)

-----------------------------------------------------------------------------
(* The state is well formed and no counter exceeds its unit's cycles.       *)
TypeOK ==
    /\ clk \in {0, 1}
    /\ E \in Slot
    /\ fpu \in [Unit -> [counter : Nat, special : BOOLEAN, busy : BOOLEAN, ready : BOOLEAN,
                         out : [sig : Operand, exp : Operand, end : Operand, done : BOOLEAN]]]
    /\ \A u \in Unit : fpu[u].counter <= Cycles[u]
    /\ since \in [Unit -> 0 .. Spacing]

(* An instruction that leaves the execute unit takes with it the result of  *)
(* its own operands: not one of an instruction before it, nor one that is   *)
(* not finished.                                                            *)
LeavesWithOwnResult ==
    clk = 0 /\ E.op \in Unit /\ ~aluBusy => fpu[E.op].out = Correct(E.x)

(* No operation of the FPU stalls the pipeline for ever.                    *)
KeepsGoing == []<>(clk = 0 /\ ~aluBusy)

(* Half clocks until the unit of the instruction in the execute unit        *)
(* reports, read off the unit's counter and busy flag.                      *)
HalvesLeft ==
    LET f == fpu[E.op]
        n == IF E.x \in Special[E.op] THEN 1 ELSE Cycles[E.op]
    IN  IF f.counter > 0 THEN 2 * f.counter + clk
        ELSE IF clk = 0 /\ f.ready THEN 0
        ELSE IF clk = 1 /\ f.busy THEN 1
        ELSE 2 * n + 2 + clk

(* An operation of the FPU stalls the pipeline for its unit's cycles and    *)
(* one more at most: every edge it waits brings its ready flag closer, and  *)
(* once that is set it waits no longer.                                     *)
ReportsInTime ==
    [][E.op \in Unit => /\ HalvesLeft \in 0 .. 2 * Cycles[E.op] + 3
                        /\ E' = E => HalvesLeft' < HalvesLeft]_vars

(* Between two edges a unit is fresh, computing for the instruction in the  *)
(* execute unit, or done with it; and it is at rest, with no ready flag     *)
(* left to come, two cycles after it was used.                              *)
Working(u) ==
    LET f == fpu[u]
    IN  /\ f.counter > 0 => /\ f.out.sig = E.x /\ ~f.ready
                            /\ clk = 0 => f.busy
                            /\ f.special => f.counter = 1 /\ f.out = Correct(E.x)
                            /\ ~f.special /\ f.counter = 1 => f.out.exp = E.x
        /\ f.counter = 0 /\ f.busy => clk = 1 /\ ~f.ready /\ f.out = Correct(E.x)
        /\ f.counter = 0 /\ clk = 0 /\ f.ready => f.out = Correct(E.x)
Resting(u) == fpu[u].counter = 0 /\ (clk = 0 => ~fpu[u].busy)
HandshakeInv ==
    \A u \in Unit : /\ E.op = u => since[u] = 0 /\ Working(u)
                    /\ E.op # u /\ since[u] >= 2 => Resting(u)
=============================================================================
