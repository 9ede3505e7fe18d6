-------------------------- MODULE FpuDividersProofs --------------------------
(***************************************************************************)
(* The handshake of the multi-cycle FPU units is right, for any units,     *)
(* operands and numbers of cycles, as long as a program lets two cycles    *)
(* pass between two instructions of the same unit.                         *)
(***************************************************************************)
EXTENDS FpuDividers, TLAPS

Registers == [counter : Nat, special : BOOLEAN, busy : BOOLEAN, ready : BOOLEAN,
              out : [sig : Operand, exp : Operand, end : Operand, done : BOOLEAN]]

USE UnitAssumption, CyclesAssumption

(* What the counter and the result register take at a rising edge.          *)
LEMMA CountType ==
    ASSUME TypeOK, NEW u \in Unit
    PROVE  Count(u) \in Nat /\ Count(u) <= Cycles[u]
<1>1. fpu[u].counter \in Nat /\ fpu[u].counter <= Cycles[u] /\ Cycles[u] \in Nat \ {0, 1}
  BY DEF TypeOK
<1> QED BY <1>1 DEF Count

LEMMA ResultType ==
    ASSUME TypeOK, NEW u \in Unit
    PROVE  Result(u) \in [sig : Operand, exp : Operand, end : Operand, done : BOOLEAN]
<1> DEFINE Out == [sig : Operand, exp : Operand, end : Operand, done : BOOLEAN]
<1>1. fpu[u].out \in Out /\ E.x \in Operand
  BY DEF TypeOK, Slot
<1>2. Correct(E.x) \in Out
  BY <1>1 DEF Correct
<1> QED BY <1>1, <1>2 DEF Result

LEMMA SpecialType ==
    ASSUME TypeOK, NEW u \in Unit
    PROVE  IsSpecial(u) \in BOOLEAN
<1>1. fpu[u].special \in BOOLEAN
  BY DEF TypeOK
<1>2. (E.x \in Special[u]) \in BOOLEAN
  OBVIOUS
<1> QED BY <1>1, <1>2 DEF IsSpecial

LEMMA RiseRegisters ==
    ASSUME TypeOK, Rise, NEW u \in Unit
    PROVE  /\ fpu'[u] \in Registers
           /\ fpu'[u].counter = Count(u) /\ fpu'[u].out = Result(u)
           /\ fpu'[u].special = IsSpecial(u)
           /\ fpu'[u].busy = fpu[u].busy /\ fpu'[u].ready = fpu[u].ready
<1>1. fpu[u] \in Registers
  BY DEF TypeOK, Registers
<1>2. fpu'[u] = [fpu[u] EXCEPT !.counter = Count(u), !.out = Result(u), !.special = IsSpecial(u)]
  BY DEF Rise
<1> QED BY <1>1, <1>2, CountType, ResultType, SpecialType DEF Registers

LEMMA FallRegisters ==
    ASSUME TypeOK, Fall, NEW u \in Unit
    PROVE  /\ fpu'[u] \in Registers
           /\ fpu'[u].counter = fpu[u].counter /\ fpu'[u].out = fpu[u].out
           /\ fpu'[u].special = fpu[u].special
           /\ (fpu'[u].busy <=> Busy(u)) /\ (fpu'[u].ready <=> Ready(u))
<1>1. fpu[u] \in Registers
  BY DEF TypeOK, Registers
<1>2. fpu'[u] = [fpu[u] EXCEPT !.busy = Busy(u), !.ready = Ready(u)]
  BY DEF Fall
<1>3. Busy(u) \in BOOLEAN /\ Ready(u) \in BOOLEAN
  BY <1>1 DEF Busy, Ready, Registers
<1> QED BY <1>1, <1>2, <1>3 DEF Registers

-----------------------------------------------------------------------------
(* Types, for every spacing. *)
LEMMA TypeStep == TypeOK /\ [Next]_vars => TypeOK'
<1> SUFFICES ASSUME TypeOK, [Next]_vars PROVE TypeOK'
  OBVIOUS
<1>1. CASE Rise
  <2>1. E' \in Slot
    BY <1>1 DEF Rise, Stay, Enter, TypeOK
  <2>2. fpu' \in [Unit -> Registers]
    <3>1. fpu' = [u \in Unit |-> fpu'[u]]
      BY <1>1 DEF Rise
    <3> QED BY <1>1, <3>1, RiseRegisters
  <2>3. \A u \in Unit : fpu'[u].counter <= Cycles[u]
    BY <1>1, RiseRegisters, CountType
  <2>4. since' \in [Unit -> 0 .. Spacing]
    <3>1. \A u \in Unit : since[u] \in 0 .. Spacing
      BY DEF TypeOK
    <3>2. \A u \in Unit : (IF E'.op = u THEN 0 ELSE IF since[u] < Spacing THEN since[u] + 1
                            ELSE Spacing) \in 0 .. Spacing
      BY <3>1
    <3> QED BY <1>1, <3>2 DEF Rise
  <2>5. clk' \in {0, 1}
    BY <1>1 DEF Rise
  <2> QED BY <2>1, <2>2, <2>3, <2>4, <2>5 DEF TypeOK, Registers
<1>2. CASE Fall
  <2>1. fpu' \in [Unit -> Registers]
    <3>1. fpu' = [u \in Unit |-> fpu'[u]]
      BY <1>2 DEF Fall
    <3> QED BY <1>2, <3>1, FallRegisters
  <2>2. \A u \in Unit : fpu'[u].counter <= Cycles[u]
    BY <1>2, FallRegisters DEF TypeOK
  <2> QED BY <1>2, <2>1, <2>2 DEF Fall, TypeOK, Registers
<1>3. CASE UNCHANGED vars
  BY <1>3 DEF vars, TypeOK
<1> QED BY <1>1, <1>2, <1>3 DEF Next

LEMMA InitRegisters ==
    ASSUME Init, NEW u \in Unit
    PROVE  fpu[u] \in Registers /\ fpu[u].counter = 0 /\ ~fpu[u].busy
<1>1. PICK old \in [Unit -> Operand] :
          fpu = [v \in Unit |->
                   [counter |-> 0, special |-> FALSE, busy |-> FALSE, ready |-> FALSE,
                    out |-> [sig |-> old[v], exp |-> old[v], end |-> old[v], done |-> FALSE]]]
  BY DEF Init
<1>2. fpu[u] = [counter |-> 0, special |-> FALSE, busy |-> FALSE, ready |-> FALSE,
                out |-> [sig |-> old[u], exp |-> old[u], end |-> old[u], done |-> FALSE]]
  BY <1>1
<1> QED BY <1>2 DEF Registers

LEMMA TypeInit == Init => TypeOK
<1> SUFFICES ASSUME Init PROVE TypeOK
  OBVIOUS
<1>1. \A u \in Unit : fpu[u] \in Registers /\ fpu[u].counter = 0
  BY InitRegisters
<1>2. fpu \in [Unit -> Registers] /\ \A u \in Unit : fpu[u].counter <= Cycles[u]
  <2>1. fpu = [u \in Unit |-> fpu[u]]
    BY DEF Init
  <2> QED BY <1>1, <2>1
<1>3. since \in [Unit -> 0 .. Spacing] /\ E \in Slot /\ clk \in {0, 1}
  BY DEF Init, Slot
<1> QED BY <1>2, <1>3 DEF TypeOK, Registers

(* The registers of the units keep their types and no counter exceeds the   *)
(* number of cycles its unit takes.                                         *)
THEOREM FpuTypeCorrect == Spec => []TypeOK
BY TypeInit, TypeStep, PTL DEF Spec

-----------------------------------------------------------------------------
(* A unit that the instruction in the execute unit keeps using: it starts,  *)
(* counts or finishes.                                                      *)
LEMMA WorkingRises ==
    ASSUME TypeOK, Rise, NEW u \in Unit, E.op = u, E' = E, Working(u), ~fpu[u].ready
    PROVE  Working(u)'
<1> DEFINE f == fpu[u]
<1>1. /\ f \in Registers /\ fpu'[u] \in Registers
      /\ fpu'[u].counter = Count(u) /\ fpu'[u].out = Result(u) /\ fpu'[u].special = IsSpecial(u)
      /\ fpu'[u].busy = f.busy /\ fpu'[u].ready = FALSE
  BY RiseRegisters DEF TypeOK, Registers
<1>2. clk = 0 /\ clk' = 1
  BY DEF Rise
<1>3. E.x \in Operand /\ Cycles[u] \in Nat \ {0, 1}
  BY DEF TypeOK, Slot
<1>4. CASE f.counter = 0 /\ E.x \in Special[u]
  BY <1>1, <1>2, <1>3, <1>4 DEF Working, Count, Result, IsSpecial, Correct
<1>5. CASE f.counter = 0 /\ E.x \notin Special[u]
  BY <1>1, <1>2, <1>3, <1>5 DEF Working, Count, Result, IsSpecial, Registers
<1>6. CASE f.counter = 1
  <2>1. f.out.sig = E.x /\ f.busy
    BY <1>2, <1>6 DEF Working
  <2>2. CASE f.special
    BY <1>1, <1>2, <1>6, <2>1, <2>2 DEF Working, Count, Result, IsSpecial
  <2>3. CASE ~f.special
    <3>1. f.out.exp = E.x
      BY <1>6, <2>3 DEF Working
    <3>2. Result(u) = Correct(E.x)
      <4>1. Result(u) = [fpu[u].out EXCEPT !.end = E.x, !.done = TRUE]
        BY <1>6, <2>3 DEF Result
      <4>2. fpu[u].out \in [sig : Operand, exp : Operand, end : Operand, done : BOOLEAN]
        BY DEF TypeOK
      <4>3. Result(u) = [sig |-> fpu[u].out.sig, exp |-> fpu[u].out.exp, end |-> E.x, done |-> TRUE]
        BY <4>1, <4>2
      <4> QED BY <2>1, <3>1, <4>3 DEF Correct
    <3>3. Count(u) = 0 /\ IsSpecial(u) = FALSE
      BY <1>6, <2>3 DEF Count, IsSpecial
    <3>4. fpu'[u].counter = 0 /\ fpu'[u].out = Correct(E.x) /\ ~fpu'[u].ready
      BY <1>1, <3>2, <3>3
    <3> QED BY <1>2, <3>4 DEF Working
  <2> QED BY <2>2, <2>3
<1>7. CASE f.counter > 1
  <2>1. f.out.sig = E.x /\ f.busy /\ ~f.special
    BY <1>1, <1>2, <1>7 DEF Working, Registers
  <2>2. Count(u) = f.counter - 1 /\ f.counter - 1 > 0 /\ IsSpecial(u) = FALSE
    BY <1>1, <1>7, <2>1 DEF Count, IsSpecial, Registers
  <2>3. Result(u).sig = E.x /\ (f.counter = 2 => Result(u).exp = E.x)
    BY <1>1, <1>3, <1>7, <2>1 DEF Result, Registers
  <2> QED BY <1>1, <1>2, <2>1, <2>2, <2>3 DEF Working, Registers
<1> QED BY <1>1, <1>4, <1>5, <1>6, <1>7 DEF Registers

LEMMA HandshakeRises ==
    ASSUME TypeOK, HandshakeInv, Spacing >= 2, Rise, NEW u \in Unit
    PROVE  /\ E'.op = u => since'[u] = 0 /\ Working(u)'
           /\ E'.op # u /\ since'[u] >= 2 => Resting(u)'
<1>1. /\ fpu'[u].counter = Count(u) /\ fpu[u] \in Registers /\ fpu'[u] \in Registers
      /\ fpu'[u].busy = fpu[u].busy
  BY RiseRegisters DEF TypeOK, Registers
<1>2. clk' = 1 /\ clk = 0 /\ since[u] \in 0 .. Spacing
  BY DEF Rise, TypeOK
<1>3. since'[u] = IF E'.op = u THEN 0 ELSE IF since[u] < Spacing THEN since[u] + 1 ELSE Spacing
  BY DEF Rise
<1>4. CASE E.op # u /\ E'.op = u
  <2>1. E' # E
    BY <1>4
  <2>2. since[u] = Spacing
    BY <1>4, <2>1 DEF Rise, Stay, Enter, MayEnter
  <2>3. fpu[u].counter = 0 /\ ~fpu[u].busy
    BY <1>2, <1>4, <2>2 DEF HandshakeInv, Resting
  <2>4. Count(u) = 0
    BY <1>4 DEF Count
  <2> QED BY <1>1, <1>2, <1>3, <1>4, <2>3, <2>4 DEF Working
<1>5. CASE E.op = u /\ E'.op = u
  <2>1. since[u] = 0 /\ Working(u)
    BY <1>5 DEF HandshakeInv
  <2>2. aluBusy /\ E' = E
    <3>1. Stay \/ \E next \in Slot : Enter(next)
      BY DEF Rise
    <3>2. ~(\E next \in Slot : Enter(next))
      BY <1>5, <2>1 DEF Enter, MayEnter
    <3> QED BY <3>1, <3>2 DEF Stay
  <2>3. ~fpu[u].ready
    BY <1>5, <2>2 DEF aluBusy
  <2> QED BY <1>3, <1>5, <2>1, <2>2, <2>3, WorkingRises
<1>6. CASE E.op = u /\ E'.op # u
  <2>1. since[u] = 0
    BY <1>6 DEF HandshakeInv
  <2>2. since'[u] = 1
    BY <1>3, <1>6, <2>1
  <2> QED BY <1>6, <2>2
<1>7. CASE E.op # u /\ E'.op # u
  <2>1. Count(u) = 0
    BY <1>7 DEF Count
  <2> QED BY <1>1, <1>2, <1>7, <2>1 DEF Resting
<1> QED BY <1>4, <1>5, <1>6, <1>7

LEMMA HandshakeFalls ==
    ASSUME TypeOK, HandshakeInv, Fall, NEW u \in Unit
    PROVE  /\ E'.op = u => since'[u] = 0 /\ Working(u)'
           /\ E'.op # u /\ since'[u] >= 2 => Resting(u)'
<1>1. /\ fpu[u] \in Registers /\ fpu'[u] \in Registers
      /\ fpu'[u].counter = fpu[u].counter /\ fpu'[u].out = fpu[u].out
      /\ fpu'[u].special = fpu[u].special
      /\ fpu'[u].busy <=> fpu[u].counter > 0
      /\ fpu'[u].ready <=> fpu[u].counter = 0 /\ fpu[u].busy
  BY FallRegisters DEF TypeOK, Registers, Busy, Ready
<1>2. clk = 1 /\ clk' = 0 /\ E' = E /\ since' = since
  BY DEF Fall
<1>3. CASE E.op = u
  <2>1. Working(u) /\ since[u] = 0
    BY <1>3 DEF HandshakeInv
  <2>2. CASE fpu[u].counter > 0
    <3>1. fpu'[u].counter > 0 /\ fpu'[u].busy /\ ~fpu'[u].ready
      BY <1>1, <2>2
    <3>2. Working(u)'
      BY <1>1, <1>2, <2>1, <2>2, <3>1 DEF Working
    <3> QED BY <1>2, <1>3, <2>1, <3>2
  <2>3. CASE fpu[u].counter = 0
    <3>1. fpu'[u].counter = 0 /\ ~fpu'[u].busy /\ (fpu'[u].ready => fpu[u].busy)
      BY <1>1, <2>3
    <3>2. Working(u)'
      BY <1>1, <1>2, <2>1, <2>3, <3>1 DEF Working
    <3> QED BY <1>2, <1>3, <2>1, <3>2
  <2> QED BY <1>1, <2>2, <2>3 DEF Registers
<1>4. CASE E.op # u
  BY <1>1, <1>2, <1>4 DEF HandshakeInv, Resting
<1> QED BY <1>3, <1>4

(* Two cycles after a unit was used it is at rest, and while it is used it  *)
(* works on the operands of the instruction that is there.                  *)
THEOREM HandshakeCorrect == ASSUME Spacing >= 2 PROVE Spec => []HandshakeInv
<1>1. Init => HandshakeInv
  <2> SUFFICES ASSUME Init, NEW u \in Unit PROVE E.op # u /\ Resting(u)
    BY DEF HandshakeInv
  <2> QED BY InitRegisters DEF Init, Resting
<1>2. TypeOK /\ HandshakeInv /\ [Next]_vars => HandshakeInv'
  <2> SUFFICES ASSUME TypeOK, HandshakeInv, [Next]_vars PROVE HandshakeInv'
    OBVIOUS
  <2>1. CASE Rise
    BY <2>1, HandshakeRises DEF HandshakeInv
  <2>2. CASE Fall
    BY <2>2, HandshakeFalls DEF HandshakeInv
  <2>3. CASE UNCHANGED vars
    BY <2>3 DEF vars, HandshakeInv, Working, Resting
  <2> QED BY <2>1, <2>2, <2>3 DEF Next
<1> QED BY <1>1, <1>2, FpuTypeCorrect, PTL DEF Spec

(* Every FPU division and square root leaves the execute unit with the      *)
(* result of its own operands.                                              *)
THEOREM ResultsAreOwn == ASSUME Spacing >= 2 PROVE Spec => []LeavesWithOwnResult
<1>1. TypeOK /\ HandshakeInv => LeavesWithOwnResult
  <2> SUFFICES ASSUME TypeOK, HandshakeInv, clk = 0, E.op \in Unit, ~aluBusy
               PROVE  fpu[E.op].out = Correct(E.x)
    BY DEF LeavesWithOwnResult
  <2>1. fpu[E.op].ready /\ Working(E.op) /\ fpu[E.op].counter \in Nat
    BY DEF aluBusy, HandshakeInv, TypeOK
  <2> QED BY <2>1 DEF Working
<1> QED BY <1>1, FpuTypeCorrect, HandshakeCorrect, PTL

-----------------------------------------------------------------------------
(* How long an instruction stays. *)
LEMMA LeftBounded ==
    ASSUME TypeOK, NEW u \in Unit, E.op = u
    PROVE  HalvesLeft \in 0 .. 2 * Cycles[u] + 3
<1>1. /\ fpu[u].counter \in Nat /\ fpu[u].counter <= Cycles[u] /\ clk \in {0, 1}
      /\ Cycles[u] \in Nat \ {0, 1}
  BY DEF TypeOK
<1> QED BY <1>1 DEF HalvesLeft

(* At a rising edge the unit starts or counts, unless it has reported: then *)
(* the instruction leaves.                                                  *)
LEMMA LeftRises ==
    ASSUME TypeOK, HandshakeInv, Spacing >= 2, Rise, NEW u \in Unit, E.op = u, E' = E
    PROVE  HalvesLeft' < HalvesLeft
<1>1. /\ fpu'[u].counter = Count(u) /\ fpu'[u].busy = fpu[u].busy
      /\ fpu[u].counter \in Nat /\ Cycles[u] \in Nat \ {0, 1}
  BY RiseRegisters DEF TypeOK
<1>2. clk = 0 /\ clk' = 1
  BY DEF Rise
<1>3. Working(u) /\ since[u] = 0
  BY DEF HandshakeInv
<1>4. ~fpu[u].ready
  <2>1. ~(\E next \in Slot : Enter(next))
    BY <1>3 DEF Enter, MayEnter
  <2>2. aluBusy
    BY <2>1 DEF Rise, Stay
  <2> QED BY <2>2 DEF aluBusy
<1>5. CASE fpu[u].counter = 0
  BY <1>1, <1>2, <1>4, <1>5 DEF HalvesLeft, Count
<1>6. CASE fpu[u].counter > 0
  <2>1. fpu'[u].busy /\ Count(u) = fpu[u].counter - 1
    BY <1>1, <1>2, <1>3, <1>6 DEF Working, Count
  <2> QED BY <1>1, <1>2, <1>6, <2>1 DEF HalvesLeft
<1> QED BY <1>1, <1>5, <1>6

(* At a falling edge the unit notices that it counts, or that it has done.  *)
LEMMA LeftFalls ==
    ASSUME TypeOK, Fall, NEW u \in Unit, E.op = u
    PROVE  HalvesLeft' < HalvesLeft
<1>1. /\ fpu'[u].counter = fpu[u].counter
      /\ fpu'[u].busy <=> fpu[u].counter > 0
      /\ fpu'[u].ready <=> fpu[u].counter = 0 /\ fpu[u].busy
      /\ fpu[u].counter \in Nat /\ Cycles[u] \in Nat \ {0, 1}
  BY FallRegisters DEF TypeOK, Busy, Ready
<1>2. clk = 1 /\ clk' = 0 /\ E' = E
  BY DEF Fall
<1>3. CASE fpu[u].counter > 0
  BY <1>1, <1>2, <1>3 DEF HalvesLeft
<1>4. CASE fpu[u].counter = 0
  BY <1>1, <1>2, <1>4 DEF HalvesLeft
<1> QED BY <1>1, <1>3, <1>4

(* No FPU division or root stalls the pipeline for more half clocks than    *)
(* twice its unit's cycles and three, and none stays when it is done.       *)
THEOREM StallsFinitely == ASSUME Spacing >= 2 PROVE Spec => ReportsInTime
<1> DEFINE Progress(u) == /\ HalvesLeft \in 0 .. 2 * Cycles[u] + 3
                          /\ E' = E => HalvesLeft' < HalvesLeft
<1>1. ASSUME TypeOK, HandshakeInv, [Next]_vars, ~UNCHANGED vars, E.op \in Unit
      PROVE  Progress(E.op)
  <2>1. CASE Rise
    BY <1>1, <2>1, LeftBounded, LeftRises
  <2>2. CASE Fall
    BY <1>1, <2>2, LeftBounded, LeftFalls
  <2> QED BY <1>1, <2>1, <2>2 DEF Next
<1>2. TypeOK /\ HandshakeInv /\ [Next]_vars => [E.op \in Unit => Progress(E.op)]_vars
  BY <1>1
<1> QED BY <1>2, FpuTypeCorrect, HandshakeCorrect, PTL DEF Spec, ReportsInTime
=============================================================================
