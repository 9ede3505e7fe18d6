------------------------------ MODULE Counters ------------------------------
(***************************************************************************)
(* The 64-bit counters of the CSR file and the firmware that reads them as *)
(* two halves while they run: show_CPI_2 of the benchmarks takes instret   *)
(* and then cycle.  One step is one clock; the program moves on or waits.  *)
(***************************************************************************)
EXTENDS Integers

CONSTANTS Base,      \* 2^32: what the lower half counts to
          NotRead    \* show_CPI_2 has no value of the counter yet

ASSUME BaseAssumption == Base \in Nat \ {0}
ASSUME NotReadAssumption == NotRead \notin Nat \X (0 .. Base - 1)

VARIABLES
    CSR_cycle, CSR_instret,   \* <<upper half, lower half>>
    which,     \* the counter being read, "none" outside of show_CPI_2
    at,        \* the instruction of rdcycle or rdinstret that is next
    a0, a1, t0,
    begun,     \* what the counter was when it was asked for
    taken      \* what show_CPI_2 got

counterVars == <<CSR_cycle, CSR_instret, which, at, a0, a1, t0, begun, taken>>

Half == 0 .. Base - 1
Counter == {"cycle", "instret"}
Nothing == [c \in Counter |-> NotRead]
Now(c) == IF c = "cycle" THEN CSR_cycle ELSE CSR_instret
Next64(x) == IF x[2] < Base - 1 THEN <<x[1], x[2] + 1>> ELSE <<x[1] + 1, 0>>

(* Moments, in the order in which a counter passes them. *)
NotAfter(x, y) == x[1] < y[1] \/ (x[1] = y[1] /\ x[2] <= y[2])

-----------------------------------------------------------------------------
Ask(c) == which' = c /\ at' = "high" /\ begun' = Now(c)

(* Mistake: the order of testRdcycle's loop. *)
ShowFirstCycle == "cycle"
ShowFirst == "instret"

Show ==
    /\ which = "none" /\ Ask(ShowFirst)
    /\ taken' = Nothing
    /\ UNCHANGED <<a0, a1, t0>>

ReadHigh ==
    /\ at = "high" /\ a1' = Now(which)[1] /\ at' = "low"
    /\ UNCHANGED <<which, a0, t0, begun, taken>>

ReadLow ==
    /\ at = "low" /\ a0' = Now(which)[2] /\ at' = "again"
    /\ UNCHANGED <<which, a1, t0, begun, taken>>

ReadAgain ==
    /\ at = "again" /\ t0' = Now(which)[1] /\ at' = "bne"
    /\ UNCHANGED <<which, a0, a1, begun, taken>>

(* Mistake: no comparison of the two upper halves. *)
FallThrough ==
    /\ at = "bne" /\ at' = "ret"
    /\ UNCHANGED <<which, a0, a1, t0, begun, taken>>

Bne ==
    /\ at = "bne" /\ at' = IF a1 # t0 THEN "high" ELSE "ret"
    /\ UNCHANGED <<which, a0, a1, t0, begun, taken>>

Return ==
    /\ at = "ret"
    /\ taken' = [taken EXCEPT ![which] = <<a1, a0>>]
    /\ IF which = ShowFirst
       THEN \E c \in Counter \ {ShowFirst} : Ask(c)
       ELSE which' = "none" /\ at' = "none" /\ UNCHANGED begun
    /\ UNCHANGED <<a0, a1, t0>>

Program ==
    \/ Show \/ ReadHigh \/ ReadLow \/ ReadAgain \/ Bne \/ Return
    \/ UNCHANGED <<which, at, a0, a1, t0, begun, taken>>

(* The CSR file counts every clock, and every clock on which the memory     *)
(* unit hands on an instruction.  MaxCount leaves out the wrap of 64 bits.  *)
MaxCount == <<Base - 1, Base - 1>>
Tick ==
    /\ CSR_cycle # MaxCount
    /\ CSR_cycle' = Next64(CSR_cycle)
    /\ CSR_instret' \in {CSR_instret, Next64(CSR_instret)}

(* Reset clears the counters; the program starts over.  What the registers  *)
(* hold then does not matter.                                               *)
Reset ==
    /\ CSR_cycle' = <<0, 0>> /\ CSR_instret' = <<0, 0>>
    /\ which' = "none" /\ at' = "none" /\ begun' = <<0, 0>> /\ taken' = Nothing
    /\ UNCHANGED <<a0, a1, t0>>

CountersInit ==
    /\ CSR_cycle = <<0, 0>> /\ CSR_instret = <<0, 0>>
    /\ which = "none" /\ at = "none" /\ begun = <<0, 0>> /\ taken = Nothing
    /\ a0 = 0 /\ a1 = 0 /\ t0 = 0

CountersNext == (Tick /\ Program) \/ Reset
CountersSpec == CountersInit /\ [][CountersNext]_counterVars

-----------------------------------------------------------------------------
(* What rdcycle and rdinstret return, two halves read on different clocks,  *)
(* is what the whole counter was at one moment of the call: no carry from   *)
(* the lower half falls between them.                                       *)
ReadsOneMoment ==
    at = "ret" => NotAfter(begun, <<a1, a0>>) /\ NotAfter(<<a1, a0>>, Now(which))

(* show_CPI_2 never shows less than one clock per instruction, although it  *)
(* reads the two counters at different times.                               *)
AtLeastOneClock ==
    NotRead \notin {taken[c] : c \in Counter} => NotAfter(taken["instret"], taken["cycle"])
=============================================================================
