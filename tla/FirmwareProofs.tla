--------------------------- MODULE FirmwareProofs ---------------------------
(***************************************************************************)
(* Proofs about the programs: the counters that the benchmarks read in     *)
(* halves, and what Dhrystone computes.                                    *)
(***************************************************************************)
EXTENDS Counters, Dhrystone, TLAPS

(***************************************************************************)
(* Counters: two halves read on different clocks make one moment of the    *)
(* counter, for every width of the halves and however long the program     *)
(* waits between.                                                          *)
(***************************************************************************)
Moment == Nat \X Half

TypeOK ==
    /\ CSR_cycle \in Moment /\ CSR_instret \in Moment
    /\ NotAfter(CSR_instret, CSR_cycle)
    /\ which \in Counter \cup {"none"}
    /\ at \in {"none", "high", "low", "again", "bne", "ret"}
    /\ (which = "none") <=> (at = "none")
    /\ begun \in Moment
    /\ at \in {"low", "again", "bne", "ret"} => a1 \in Nat
    /\ at \in {"again", "bne", "ret"} => a0 \in Half
    /\ at = "bne" => t0 \in Nat

(* The lower half belongs to a moment with upper half h of the call; what   *)
(* was read before it is not above h, what was read after it not below.     *)
HalvesInv ==
    /\ at # "none" => NotAfter(begun, Now(which))
    /\ at = "low" => a1 <= Now(which)[1]
    /\ at = "again" => \E h \in Nat : /\ a1 <= h
                                      /\ NotAfter(begun, <<h, a0>>)
                                      /\ NotAfter(<<h, a0>>, Now(which))
    /\ at = "bne" => \E h \in Nat : /\ a1 <= h /\ h <= t0 /\ t0 <= Now(which)[1]
                                    /\ NotAfter(begun, <<h, a0>>)
                                    /\ NotAfter(<<h, a0>>, Now(which))
    /\ ReadsOneMoment

(* show_CPI_2 asks for cycle with a value of instret that cycle has passed. *)
TakenInv ==
    /\ taken \in [Counter -> Moment \cup {NotRead}]
    /\ which = "instret" => taken = Nothing
    /\ which = "cycle" => /\ taken["instret"] \in Moment
                            /\ NotAfter(taken["instret"], begun)
                            /\ taken["cycle"] = NotRead
    /\ which = "none" => taken = Nothing \/ /\ taken["instret"] \in Moment
                                              /\ taken["cycle"] \in Moment
                                              /\ NotAfter(taken["instret"], taken["cycle"])

CountersInv == TypeOK /\ HalvesInv /\ TakenInv

-----------------------------------------------------------------------------
LEMMA OrderIsTotal ==
    \A x, y, z \in Moment :
        /\ NotAfter(x, x)
        /\ NotAfter(x, y) /\ NotAfter(y, z) => NotAfter(x, z)
BY BaseAssumption DEF Moment, Half, NotAfter

LEMMA ClockCountsUp ==
    \A x \in Moment :
        /\ Next64(x) \in Moment
        /\ NotAfter(x, Next64(x))
        /\ x[1] <= Next64(x)[1]
        /\ \A y \in Moment : NotAfter(x, y) => NotAfter(Next64(x), Next64(y))
BY BaseAssumption DEF Moment, Half, NotAfter, Next64

(* A clock moves both counters on and keeps instret behind cycle. *)
LEMMA TickMovesOn ==
    ASSUME TypeOK, Tick
    PROVE  /\ CSR_cycle' \in Moment /\ CSR_instret' \in Moment
           /\ NotAfter(CSR_cycle, CSR_cycle') /\ NotAfter(CSR_instret, CSR_instret')
           /\ CSR_cycle[1] <= CSR_cycle'[1] /\ CSR_instret[1] <= CSR_instret'[1]
           /\ NotAfter(CSR_instret', CSR_cycle')
<1>1. /\ CSR_cycle \in Moment /\ CSR_instret \in Moment /\ NotAfter(CSR_instret, CSR_cycle)
      /\ CSR_cycle' = Next64(CSR_cycle) /\ CSR_instret' \in {CSR_instret, Next64(CSR_instret)}
  BY DEF TypeOK, Tick
<1>2. CSR_instret[1] \in Nat /\ CSR_cycle[1] \in Nat
  BY <1>1 DEF Moment
<1>3. NotAfter(CSR_instret, Next64(CSR_cycle))
  BY <1>1, OrderIsTotal, ClockCountsUp
<1> QED BY <1>1, <1>2, <1>3, OrderIsTotal, ClockCountsUp

(* What the program does on a clock, told by what it has read. *)
LEMMA ClockKeepsInv ==
    ASSUME CountersInv, Tick, Program
    PROVE  CountersInv'
<1> DEFINE n == Now(which)
<1>0. TypeOK /\ HalvesInv /\ TakenInv
  BY DEF CountersInv
<1>1. /\ CSR_cycle' \in Moment /\ CSR_instret' \in Moment
      /\ NotAfter(CSR_cycle, CSR_cycle') /\ NotAfter(CSR_instret, CSR_instret')
      /\ CSR_cycle[1] <= CSR_cycle'[1] /\ CSR_instret[1] <= CSR_instret'[1]
      /\ NotAfter(CSR_instret', CSR_cycle')
  BY <1>0, TickMovesOn
<1>2. /\ n \in Moment /\ n[1] \in Nat /\ n[2] \in Half /\ n = <<n[1], n[2]>>
      /\ which' = which => /\ n' \in Moment /\ n'[1] \in Nat
                               /\ NotAfter(n, n') /\ n[1] <= n'[1]
  <2>1. CSR_cycle \in Moment /\ CSR_instret \in Moment
    BY <1>0 DEF TypeOK
  <2> QED BY <2>1, <1>1 DEF Now, Moment
<1>3. ASSUME UNCHANGED <<which, at, a0, a1, t0, begun, taken>>
      PROVE  CountersInv'
  <2>1. TypeOK' /\ TakenInv'
    BY <1>0, <1>1, <1>3 DEF TypeOK, TakenInv
  <2>2. HalvesInv'
    <3>1. which' = which
      BY <1>3
    <3>2. at # "none" => NotAfter(begun, Now(which)')
      BY <1>0, <3>1, <1>2, OrderIsTotal DEF TypeOK, HalvesInv
    <3>3. at = "low" => a1 <= Now(which)'[1]
      BY <1>0, <3>1, <1>2 DEF TypeOK, HalvesInv
    <3>4. at = "again" => \E h \in Nat : /\ a1 <= h /\ NotAfter(begun, <<h, a0>>)
                                         /\ NotAfter(<<h, a0>>, Now(which)')
      <4> SUFFICES ASSUME at = "again"
          PROVE \E h \in Nat : /\ a1 <= h /\ NotAfter(begun, <<h, a0>>)
                               /\ NotAfter(<<h, a0>>, Now(which)')
        OBVIOUS
      <4>1. PICK h \in Nat : /\ a1 <= h /\ NotAfter(begun, <<h, a0>>)
                             /\ NotAfter(<<h, a0>>, Now(which))
        BY <1>0 DEF HalvesInv
      <4>2. <<h, a0>> \in Moment
        BY <1>0 DEF TypeOK, Moment
      <4> QED BY <4>1, <4>2, <3>1, <1>2, OrderIsTotal
    <3>5. at = "bne" => \E h \in Nat : /\ a1 <= h /\ h <= t0 /\ t0 <= Now(which)'[1]
                                       /\ NotAfter(begun, <<h, a0>>)
                                       /\ NotAfter(<<h, a0>>, Now(which)')
      <4> SUFFICES ASSUME at = "bne"
          PROVE \E h \in Nat : /\ a1 <= h /\ h <= t0 /\ t0 <= Now(which)'[1]
                               /\ NotAfter(begun, <<h, a0>>)
                               /\ NotAfter(<<h, a0>>, Now(which)')
        OBVIOUS
      <4>1. PICK h \in Nat : /\ a1 <= h /\ h <= t0 /\ t0 <= Now(which)[1]
                             /\ NotAfter(begun, <<h, a0>>)
                             /\ NotAfter(<<h, a0>>, Now(which))
        BY <1>0 DEF HalvesInv
      <4>2. <<h, a0>> \in Moment /\ t0 \in Nat
        BY <1>0 DEF TypeOK, Moment
      <4>3. t0 <= Now(which)'[1]
        BY <4>1, <4>2, <3>1, <1>2
      <4> QED BY <4>1, <4>2, <4>3, <3>1, <1>2, OrderIsTotal
    <3>6. at = "ret" => NotAfter(begun, <<a1, a0>>) /\ NotAfter(<<a1, a0>>, Now(which)')
      <4> SUFFICES ASSUME at = "ret"
          PROVE NotAfter(begun, <<a1, a0>>) /\ NotAfter(<<a1, a0>>, Now(which)')
        OBVIOUS
      <4>1. <<a1, a0>> \in Moment
        BY <1>0 DEF TypeOK, Moment
      <4>2. NotAfter(begun, <<a1, a0>>) /\ NotAfter(<<a1, a0>>, Now(which))
        BY <1>0 DEF HalvesInv, ReadsOneMoment
      <4> QED BY <4>1, <4>2, <3>1, <1>2, OrderIsTotal
    <3> QED BY <1>3, <3>1, <3>2, <3>3, <3>4, <3>5, <3>6 DEF HalvesInv, ReadsOneMoment
  <2> QED BY <2>1, <2>2 DEF CountersInv
<1>4. CASE Show
  <2>1. Nothing \in [Counter -> Moment \cup {NotRead}]
    BY DEF Nothing
  <2>2. which' = "instret" /\ at' = "high" /\ begun' = CSR_instret /\ taken' = Nothing
    BY <1>4 DEF Show, Ask, ShowFirst, Now
  <2>3. TypeOK'
    BY <2>2, <1>0, <1>1 DEF TypeOK, Counter
  <2>4. HalvesInv'
    BY <2>2, <1>1 DEF HalvesInv, ReadsOneMoment, Now
  <2>5. TakenInv'
    BY <2>1, <2>2 DEF TakenInv
  <2> QED BY <2>3, <2>4, <2>5 DEF CountersInv
<1>5. CASE ReadHigh
  <2>1. /\ at = "high" /\ at' = "low" /\ a1' = n[1] /\ n[1] \in Nat
        /\ UNCHANGED <<which, a0, t0, begun, taken>>
    BY <1>5, <1>2 DEF ReadHigh
  <2>2. TypeOK'
    BY <2>1, <1>0, <1>1 DEF TypeOK
  <2>3. NotAfter(begun, Now(which)')
    BY <2>1, <1>0, <1>2, OrderIsTotal DEF TypeOK, HalvesInv
  <2>4. HalvesInv'
    BY <2>1, <2>3, <1>2 DEF HalvesInv, ReadsOneMoment
  <2>5. TakenInv'
    BY <2>1, <1>0 DEF TakenInv
  <2> QED BY <2>2, <2>4, <2>5 DEF CountersInv
<1>6. CASE ReadLow
  <2>1. /\ at = "low" /\ at' = "again" /\ a0' = n[2] /\ n[2] \in Half
        /\ UNCHANGED <<which, a1, t0, begun, taken>>
    BY <1>6, <1>2 DEF ReadLow
  <2>2. TypeOK'
    BY <2>1, <1>0, <1>1 DEF TypeOK
  <2>3. NotAfter(begun, n) /\ NotAfter(n, n') /\ NotAfter(begun, n')
    BY <2>1, <1>0, <1>2, OrderIsTotal DEF TypeOK, HalvesInv
  <2>4. n[1] \in Nat /\ a1 <= n[1] /\ n = <<n[1], a0'>>
    BY <2>1, <1>0, <1>2 DEF HalvesInv
  <2>5. \E h \in Nat : a1 <= h /\ NotAfter(begun, <<h, a0'>>) /\ NotAfter(<<h, a0'>>, n')
    BY <2>3, <2>4
  <2>6. HalvesInv'
    BY <2>1, <2>3, <2>5 DEF HalvesInv, ReadsOneMoment
  <2>7. TakenInv'
    BY <2>1, <1>0 DEF TakenInv
  <2> QED BY <2>2, <2>6, <2>7 DEF CountersInv
<1>7. CASE ReadAgain
  <2>1. /\ at = "again" /\ at' = "bne" /\ t0' = n[1] /\ n[1] \in Nat
        /\ UNCHANGED <<which, a0, a1, begun, taken>>
    BY <1>7, <1>2 DEF ReadAgain
  <2>2. TypeOK'
    BY <2>1, <1>0, <1>1 DEF TypeOK
  <2>3. NotAfter(n, n') /\ NotAfter(begun, n') /\ n[1] <= n'[1]
    BY <2>1, <1>0, <1>2, OrderIsTotal DEF TypeOK, HalvesInv
  <2>4. PICK h \in Nat : a1 <= h /\ NotAfter(begun, <<h, a0>>) /\ NotAfter(<<h, a0>>, n)
    BY <2>1, <1>0 DEF HalvesInv
  <2>5. <<h, a0>> \in Moment
    BY <2>1, <1>0 DEF TypeOK, Moment
  <2>6. h <= n[1]
    BY <2>1, <2>4 DEF NotAfter
  <2>7. NotAfter(<<h, a0>>, n')
    BY <2>1, <2>3, <2>4, <2>5, <1>2, OrderIsTotal
  <2>8. HalvesInv'
    BY <2>1, <2>3, <2>4, <2>6, <2>7 DEF HalvesInv, ReadsOneMoment
  <2>9. TakenInv'
    BY <2>1, <1>0 DEF TakenInv
  <2> QED BY <2>2, <2>8, <2>9 DEF CountersInv
<1>8. CASE Bne
  <2>1. /\ at = "bne" /\ at' = IF a1 # t0 THEN "high" ELSE "ret"
        /\ UNCHANGED <<which, a0, a1, t0, begun, taken>>
    BY <1>8 DEF Bne
  <2>2. TypeOK'
    BY <2>1, <1>0, <1>1 DEF TypeOK
  <2>3. NotAfter(begun, n')
    BY <2>1, <1>0, <1>2, OrderIsTotal DEF TypeOK, HalvesInv
  <2>4. PICK h \in Nat : /\ a1 <= h /\ h <= t0
                         /\ NotAfter(begun, <<h, a0>>) /\ NotAfter(<<h, a0>>, n)
    BY <2>1, <1>0 DEF HalvesInv
  <2>5. <<h, a0>> \in Moment /\ a1 \in Nat /\ t0 \in Nat
    BY <2>1, <1>0 DEF TypeOK, Moment
  <2>6. NotAfter(<<h, a0>>, n')
    BY <2>1, <2>4, <2>5, <1>2, OrderIsTotal
  <2>7. a1 = t0 => h = a1
    BY <2>4, <2>5
  <2>8. HalvesInv'
    BY <2>1, <2>3, <2>4, <2>6, <2>7 DEF HalvesInv, ReadsOneMoment
  <2>9. TakenInv'
    BY <2>1, <1>0 DEF TakenInv
  <2> QED BY <2>2, <2>8, <2>9 DEF CountersInv
<1>9. CASE Return
  <2>1. /\ at = "ret" /\ taken' = [taken EXCEPT ![which] = <<a1, a0>>]
        /\ which \in Counter /\ <<a1, a0>> \in Moment
    BY <1>9, <1>0 DEF Return, TypeOK, Moment
  <2>2. NotAfter(begun, <<a1, a0>>) /\ NotAfter(<<a1, a0>>, Now(which))
    BY <2>1, <1>0 DEF HalvesInv, ReadsOneMoment
  <2>3. taken' \in [Counter -> Moment \cup {NotRead}]
    BY <2>1, <1>0 DEF TakenInv
  <2>4. CASE which = "instret"
    <3>1. which' = "cycle" /\ at' = "high" /\ begun' = CSR_cycle
      BY <1>9, <2>4 DEF Return, ShowFirst, Ask, Counter, Now
    <3>2. taken' = [taken EXCEPT !["instret"] = <<a1, a0>>] /\ taken = Nothing
      BY <2>1, <2>4, <1>0 DEF TakenInv
    <3>3. taken'["instret"] = <<a1, a0>> /\ taken'["cycle"] = NotRead
      BY <3>2 DEF Nothing, Counter
    <3>4. NotAfter(<<a1, a0>>, CSR_cycle)
      BY <2>1, <2>2, <2>4, <1>0, OrderIsTotal DEF TypeOK, Now
    <3>5. TypeOK'
      BY <3>1, <1>0, <1>1 DEF TypeOK, Counter
    <3>6. HalvesInv'
      BY <3>1, <1>1 DEF HalvesInv, ReadsOneMoment, Now
    <3>7. TakenInv'
      BY <2>1, <2>3, <3>1, <3>3, <3>4 DEF TakenInv
    <3> QED BY <3>5, <3>6, <3>7 DEF CountersInv
  <2>5. CASE which = "cycle"
    <3>1. which' = "none" /\ at' = "none" /\ begun' = begun
      BY <1>9, <2>5 DEF Return, ShowFirst
    <3>2. /\ taken["instret"] \in Moment /\ NotAfter(taken["instret"], begun)
          /\ taken \in [Counter -> Moment \cup {NotRead}] /\ begun \in Moment
      BY <2>5, <1>0 DEF TakenInv, TypeOK
    <3>3. taken'["instret"] = taken["instret"] /\ taken'["cycle"] = <<a1, a0>>
      BY <2>1, <2>5, <3>2 DEF Counter
    <3>4. NotAfter(taken["instret"], <<a1, a0>>)
      BY <2>1, <2>2, <3>2, OrderIsTotal
    <3>5. TypeOK'
      BY <3>1, <1>0, <1>1 DEF TypeOK
    <3>6. HalvesInv'
      BY <3>1 DEF HalvesInv, ReadsOneMoment
    <3>7. TakenInv'
      BY <2>1, <2>3, <3>1, <3>2, <3>3, <3>4 DEF TakenInv
    <3> QED BY <3>5, <3>6, <3>7 DEF CountersInv
  <2> QED BY <2>1, <2>4, <2>5 DEF Counter
<1> QED BY <1>3, <1>4, <1>5, <1>6, <1>7, <1>8, <1>9 DEF Program

(* The counters and the registers of rdcycle and rdinstret, at every clock. *)
THEOREM CountersInvariant == CountersSpec => []CountersInv
<1>1. <<0, 0>> \in Moment /\ NotAfter(<<0, 0>>, <<0, 0>>)
  BY BaseAssumption DEF Moment, Half, NotAfter
<1>2. Nothing \in [Counter -> Moment \cup {NotRead}]
  BY DEF Nothing
<1>3. CountersInit => CountersInv
  BY <1>1, <1>2 DEF CountersInit, CountersInv, TypeOK, HalvesInv, TakenInv, ReadsOneMoment
<1>4. CountersInv /\ [CountersNext]_counterVars => CountersInv'
  <2> SUFFICES ASSUME CountersInv, [CountersNext]_counterVars PROVE CountersInv'
    OBVIOUS
  <2>1. CASE Tick /\ Program
    BY <2>1, ClockKeepsInv
  <2>2. CASE Reset
    BY <2>2, <1>1, <1>2 DEF Reset, CountersInv, TypeOK, HalvesInv, TakenInv, ReadsOneMoment
  <2>3. CASE UNCHANGED counterVars
    BY <2>3 DEF counterVars, CountersInv, TypeOK, HalvesInv, TakenInv, ReadsOneMoment, Now
  <2> QED BY <2>1, <2>2, <2>3 DEF CountersNext
<1> QED BY <1>3, <1>4, PTL DEF CountersSpec

(* Two halves read on different clocks make a value the counter had during  *)
(* the call (perf.S), for counters of any width.                            *)
THEOREM ReadsAreMoments == CountersSpec => []ReadsOneMoment
<1>1. CountersInv => ReadsOneMoment
  BY DEF CountersInv, HalvesInv
<1> QED BY <1>1, CountersInvariant, PTL

(* show_CPI_2 never divides fewer clocks by more instructions.              *)
THEOREM ClocksPerInstruction == CountersSpec => []AtLeastOneClock
<1>1. CountersInv => AtLeastOneClock
  BY NotReadAssumption DEF CountersInv, TypeOK, TakenInv, AtLeastOneClock, Counter,
                           Nothing, Moment, Half
<1> QED BY <1>1, CountersInvariant, PTL

-----------------------------------------------------------------------------
(***************************************************************************)
(* Dhrystone: the final values, for every number of runs and whatever      *)
(* uninitialised memory holds.                                             *)
(***************************************************************************)
Record == [Ptr_Comp : {"R1", "unknown"}, Discr : Int, Enum_Comp : Int, Int_Comp : Int,
           Str_Comp : Int]

Inside == {"Proc_4", "Func_2", "while", "Proc_1", "Proc_3", "if", "chars", "Proc_2"}
Late == {"Proc_1", "Proc_3", "if", "chars", "Proc_2"}

\* A round has been completed, or its later half has been reached.
Finished == pc \in {"for", "done"} /\ Run_Index > 1

Typed ==
  /\ pc \in Inside \cup {"for", "done"}
  /\ Run_Index \in Nat /\ 1 <= Run_Index /\ Run_Index <= Number_Of_Runs + 1
  /\ pc \in Inside => Run_Index <= Number_Of_Runs
  /\ pc = "done" => Run_Index = Number_Of_Runs + 1
  /\ rec \in [{"R1", "R2"} -> Record]
  /\ Arr_1_Glob \in [Arr_1_Dim -> Int] /\ Arr_2_Glob \in [Arr_2_Dim -> Int]
  /\ Int_Glob \in Int /\ Int_1_Loc \in Int /\ Int_2_Loc \in Int /\ Int_3_Loc \in Int
  /\ Str_1_Loc = FirstString

\* The record that Ptr_Glob points to keeps its shape.
Glob ==
  /\ rec["R2"].Ptr_Comp = "R1" /\ rec["R2"].Discr = 0 /\ rec["R2"].Enum_Comp = 2
  /\ rec["R2"].Str_Comp = SomeString
  /\ pc \in {"if", "chars", "Proc_2"} \/ Finished => rec["R2"].Int_Comp = 17

\* Its successor is a copy of it, and differs in two fields in the end.
Next_Glob ==
  /\ pc \in {"Proc_3", "if"} =>
       /\ Next_Record = "R1"
       /\ rec["R1"].Ptr_Comp = "R1" /\ rec["R1"].Discr = 0 /\ rec["R1"].Str_Comp = SomeString
  /\ pc \in {"chars", "Proc_2"} \/ Finished =>
       /\ rec["R1"].Ptr_Comp = "R1" /\ rec["R1"].Discr = 0 /\ rec["R1"].Enum_Comp = 1
       /\ rec["R1"].Int_Comp = 18 /\ rec["R1"].Str_Comp = SomeString

Characters ==
  /\ pc \in Inside \/ Finished => Ch_1_Glob = A
  /\ pc \in Inside \ {"Proc_4"} \/ Finished => Ch_2_Glob = B /\ Bool_Glob = 1
  /\ pc = "chars" => Ch_Index \in {A, B, C}

Arrays ==
  /\ Arr_2_Glob[<<8, 7>>] = IF pc \in Late THEN 10 + Run_Index ELSE 9 + Run_Index
  /\ pc \in Late \/ Finished => Arr_1_Glob[8] = 7 /\ Int_Glob = 5

Numbers ==
  /\ pc = "while" =>
       \/ Int_1_Loc = 2 /\ Int_2_Loc = 3
       \/ Int_1_Loc = 3 /\ Int_2_Loc = 3 /\ Int_3_Loc = 7
  /\ pc \in {"Proc_1", "Proc_3", "if", "chars"} => Int_1_Loc = 3 /\ Int_2_Loc = 3 /\ Int_3_Loc = 7
  /\ pc = "Proc_2" => Int_1_Loc = 1 /\ Int_2_Loc = 13 /\ Int_3_Loc = 7
  /\ Finished => Int_1_Loc = 5 /\ Int_2_Loc = 13 /\ Int_3_Loc = 7
  /\ pc \in Late \cup {"while"} \/ Finished => Enum_Loc = Ident_2 /\ Str_2_Loc = SecondString

DhryInv == Typed /\ Glob /\ Next_Glob /\ Characters /\ Arrays /\ Numbers

LEMMA DhryInvInit == DhryInit => DhryInv
<1> SUFFICES ASSUME DhryInit PROVE DhryInv
  OBVIOUS
<1> USE DhrystoneAssumption DEF DhryInit, Finished, Inside, Late, Next_Ptr_Glob, Ptr_Glob,
        Ident_1, Ident_2, Ident_3, A, B, C, FirstString, SecondString, SomeString
<1>1. Typed
  BY DEF Typed, Record, Arr_1_Dim, Arr_2_Dim
<1>2. Glob /\ Next_Glob /\ Characters /\ Numbers
  BY DEF Glob, Next_Glob, Characters, Numbers
<1>3. Arrays
  BY DEF Arrays, Arr_1_Dim, Arr_2_Dim
<1> QED
  BY <1>1, <1>2, <1>3 DEF DhryInv

LEMMA DhryInvNext == DhryInv /\ [DhryNext]_dhryVars => DhryInv'
<1> SUFFICES ASSUME DhryInv, [DhryNext]_dhryVars PROVE DhryInv'
  OBVIOUS
<1> USE DhrystoneAssumption DEF DhryInv, Finished, Inside, Late, Next_Ptr_Glob, Ptr_Glob,
        Ident_1, Ident_2, Ident_3, A, B, C, FirstString, SecondString, SomeString,
        globals, arrays, intLocs, locals
<1>1. CASE Proc_5
  BY <1>1 DEF Proc_5, Typed, Glob, Next_Glob, Characters, Arrays, Numbers
<1>2. CASE Proc_4
  BY <1>2 DEF Proc_4, Typed, Glob, Next_Glob, Characters, Arrays, Numbers
<1>3. CASE Func_2
  BY <1>3 DEF Func_2, Func_1, Func_1_Ch, Char, Typed, Glob, Next_Glob, Characters, Arrays, Numbers
<1>4. CASE While
  BY <1>4 DEF While, Proc_7, Typed, Glob, Next_Glob, Characters, Arrays, Numbers
<1>5. CASE Proc_8
  <2>1. Int_1_Loc = 3 /\ Int_2_Loc = 3 /\ Int_3_Loc = 7
    BY <1>5 DEF Proc_8, Typed, Numbers
  <2>2. Arr_1_Glob' = [Arr_1_Glob EXCEPT ![8] = 7, ![9] = 7, ![38] = 8]
    <3>1. 3 + 5 = 8 /\ 8 + 1 = 9 /\ 8 + 30 = 38
      OBVIOUS
    <3> QED
      BY <1>5, <2>1, <3>1 DEF Proc_8
  <2>3. Arr_2_Glob' = [Arr_2_Glob EXCEPT ![<<8, 8>>] = 8, ![<<8, 9>>] = 8, ![<<8, 7>>] = @ + 1,
                                         ![<<28, 8>>] = 7]
    <3>1. 3 + 5 = 8 /\ 8 + 1 = 9 /\ 8 - 1 = 7 /\ 8 + 20 = 28
      OBVIOUS
    <3> QED
      BY <1>5, <2>1, <3>1 DEF Proc_8
  <2>4. Arr_1_Glob' \in [Arr_1_Dim -> Int] /\ Arr_1_Glob'[8] = 7
    BY <2>2 DEF Typed, Arr_1_Dim
  <2>5. Arr_2_Glob' \in [Arr_2_Dim -> Int] /\ Arr_2_Glob'[<<8, 7>>] = Arr_2_Glob[<<8, 7>>] + 1
    <3>1. Arr_2_Glob \in [Arr_2_Dim -> Int]
      BY DEF Typed
    <3>2. {<<8, 8>>, <<8, 9>>, <<8, 7>>, <<28, 8>>} \subseteq Arr_2_Dim
      BY DEF Arr_1_Dim, Arr_2_Dim
    <3>3. /\ <<8, 7>> # <<8, 8>> /\ <<8, 7>> # <<8, 9>> /\ <<8, 7>> # <<28, 8>>
      OBVIOUS
    <3> QED
      BY ONLY <2>3, <3>1, <3>2, <3>3, SMT
  <2>6. /\ pc = "while" /\ pc' = "Proc_1" /\ Int_Glob' = 5
        /\ UNCHANGED <<rec, Bool_Glob, Ch_1_Glob, Ch_2_Glob, intLocs, locals, Next_Record>>
    BY <1>5 DEF Proc_8
  <2>7. Typed'
    BY <2>1, <2>4, <2>5, <2>6 DEF Typed
  <2>8. Arrays'
    BY <2>4, <2>5, <2>6 DEF Typed, Arrays
  <2>9. Glob' /\ Next_Glob' /\ Characters' /\ Numbers'
    BY <2>1, <2>6 DEF Typed, Glob, Next_Glob, Characters, Numbers
  <2> QED
    BY <2>7, <2>8, <2>9
<1>6. CASE Proc_1
  BY <1>6 DEF Proc_1, Record, Typed, Glob, Next_Glob, Characters, Arrays, Numbers
<1>7. CASE Proc_3
  BY <1>7 DEF Proc_3, Proc_7, Record, Typed, Glob, Next_Glob, Characters, Arrays, Numbers
<1>8. CASE Variant
  <2>1. /\ rec["R2"].Ptr_Comp = "R1" /\ Next_Record = "R1" /\ rec["R1"].Discr = Ident_1
        /\ Proc_6(rec["R2"].Enum_Comp) = 1 /\ Proc_7(6, 10) = 18
    <3>1. pc = "if" /\ rec["R2"].Enum_Comp = 2
      BY <1>8 DEF Variant, Glob
    <3>2. Proc_6(2) = 1
      BY DEF Proc_6, Ident_4, Ident_5
    <3> QED
      BY <3>1, <3>2 DEF Proc_7, Glob, Next_Glob
  <2> DEFINE new == [Ptr_Comp |-> "R1", Discr |-> rec["R1"].Discr, Enum_Comp |-> 1,
                     Int_Comp |-> 18, Str_Comp |-> rec["R1"].Str_Comp]
  <2>2. rec' = [rec EXCEPT !["R1"] = new]
    BY <1>8, <2>1 DEF Variant
  <2>3. /\ rec' \in [{"R1", "R2"} -> Record] /\ rec'["R2"] = rec["R2"]
        /\ rec'["R1"].Ptr_Comp = "R1" /\ rec'["R1"].Discr = 0 /\ rec'["R1"].Enum_Comp = 1
        /\ rec'["R1"].Int_Comp = 18 /\ rec'["R1"].Str_Comp = rec["R1"].Str_Comp
    <3>1. rec["R1"] \in Record /\ rec["R2"] \in Record /\ rec \in [{"R1", "R2"} -> Record]
      BY DEF Typed
    <3>2. new \in Record
      BY <3>1 DEF Record
    <3>3. rec' \in [{"R1", "R2"} -> Record] /\ rec'["R2"] = rec["R2"] /\ rec'["R1"] = new
      <4> HIDE DEF new
      <4> QED
        BY <2>2, <3>1, <3>2
    <3> QED
      BY <2>1, <3>3
  <2>4. /\ pc = "if" /\ pc' = "chars" /\ Ch_Index' = A
        /\ UNCHANGED <<globals, arrays, intLocs, Run_Index, Enum_Loc, Str_1_Loc, Str_2_Loc,
                       Next_Record>>
    BY <1>8 DEF Variant
  <2> QED
    BY <2>1, <2>3, <2>4 DEF Typed, Glob, Next_Glob, Characters, Arrays, Numbers
<1>9. CASE Chars
  BY <1>9 DEF Chars, Func_1, Func_1_Ch, Typed, Glob, Next_Glob, Characters, Arrays, Numbers
<1>10. CASE Arithmetic
  BY <1>10 DEF Arithmetic, Typed, Glob, Next_Glob, Characters, Arrays, Numbers
<1>11. CASE Proc_2
  BY <1>11 DEF Proc_2, Typed, Glob, Next_Glob, Characters, Arrays, Numbers
<1>12. CASE Report
  BY <1>12 DEF Report, Typed, Glob, Next_Glob, Characters, Arrays, Numbers
<1>13. CASE UNCHANGED dhryVars
  BY <1>13 DEF dhryVars, Typed, Glob, Next_Glob, Characters, Arrays, Numbers
<1> QED
  BY <1>1, <1>2, <1>3, <1>4, <1>5, <1>6, <1>7, <1>8, <1>9, <1>10, <1>11, <1>12, <1>13
  DEF DhryNext

THEOREM DhryInvariant == DhrySpec => []DhryInv
  BY DhryInvInit, DhryInvNext, PTL DEF DhrySpec

(***************************************************************************)
(* The comments of main's loop hold in every round of any number of runs.  *)
(***************************************************************************)
THEOREM CommentsHold == DhrySpec => []AfterComments
<1>1. DhryInv => AfterComments
  BY DEF DhryInv, AfterComments, Typed, Glob, Next_Glob, Characters, Arrays, Numbers, Inside,
         Late, Ptr_Glob
<1> QED
  BY <1>1, DhryInvariant, PTL

(***************************************************************************)
(* What main prints is what it says it should be: 50000 runs included,     *)
(* and every content of the uninitialised record and locals.               *)
(***************************************************************************)
THEOREM FinalValuesHold == DhrySpec => []FinalValues
<1>1. DhryInv => FinalValues
  <2> SUFFICES ASSUME DhryInv, pc = "done", Number_Of_Runs >= 1 PROVE FinalValues
    BY DEF FinalValues
  <2> USE DhrystoneAssumption DEF DhryInv, Typed, Finished
  <2>1. Finished /\ Run_Index = Number_Of_Runs + 1 /\ pc \notin Late /\ Number_Of_Runs \in Nat
    BY DEF Late
  <2>2. /\ rec["R2"] = [Ptr_Comp |-> "R1", Discr |-> 0, Enum_Comp |-> 2, Int_Comp |-> 17,
                        Str_Comp |-> SomeString]
        /\ rec["R1"] = [Ptr_Comp |-> "R1", Discr |-> 0, Enum_Comp |-> 1, Int_Comp |-> 18,
                        Str_Comp |-> SomeString]
    BY <2>1 DEF Glob, Next_Glob, Record
  <2>3. /\ Int_Glob = 5 /\ Bool_Glob = 1 /\ Ch_1_Glob = A /\ Ch_2_Glob = B
        /\ Arr_1_Glob[8] = 7 /\ Arr_2_Glob[<<8, 7>>] = Number_Of_Runs + 10
    BY <2>1 DEF Characters, Arrays
  <2>4. /\ Int_1_Loc = 5 /\ Int_2_Loc = 13 /\ Int_3_Loc = 7 /\ Enum_Loc = Ident_2
        /\ Str_1_Loc = FirstString /\ Str_2_Loc = SecondString
    BY <2>1 DEF Numbers
  <2> QED
    BY <2>2, <2>3, <2>4 DEF FinalValues, Ptr_Glob, Next_Ptr_Glob
<1> QED
  BY <1>1, DhryInvariant, PTL
=============================================================================
