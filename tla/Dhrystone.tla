------------------------------ MODULE Dhrystone ------------------------------
(***************************************************************************)
(* The Dhrystone image of firmware/dhrystones: one action per call of the  *)
(* benchmark's main loop, on its global variables, the two records its     *)
(* pointers reach and the locals of main.  Of the strings only the order   *)
(* and the two characters that Func_2 looks at matter.                     *)
(***************************************************************************)
EXTENDS Integers

CONSTANTS Number_Of_Runs,   \* 50000 in dhry_1.c
          Garbage           \* what an uninitialised variable may hold

ASSUME DhrystoneAssumption == Number_Of_Runs \in Nat /\ Garbage \subseteq Int

Ident_1 == 0
Ident_2 == 1
Ident_3 == 2
Ident_4 == 3
Ident_5 == 4

A == 65
B == 66
C == 67

Arr_1_Dim == 0..49
Arr_2_Dim == Arr_1_Dim \X Arr_1_Dim

\* The strings that occur, by strcmp's order.
FirstString  == 1           \* "DHRYSTONE PROGRAM, 1'ST STRING"
SecondString == 2
ThirdString  == 3
SomeString   == 4           \* "DHRYSTONE PROGRAM, SOME STRING"

\* They all begin with "DHRYSTONE".
Char(string, index) == CASE index = 2 -> 82 [] index = 3 -> 89

\* The two records: main's locals R1 and R2, and the pointers to them.
Next_Ptr_Glob == "R1"
Ptr_Glob == "R2"

VARIABLES pc, rec,
          Int_Glob, Bool_Glob, Ch_1_Glob, Ch_2_Glob, Arr_1_Glob, Arr_2_Glob,
          Run_Index, Ch_Index, Int_1_Loc, Int_2_Loc, Int_3_Loc, Enum_Loc, Str_1_Loc, Str_2_Loc,
          Next_Record           \* Proc_1's local

globals == <<Int_Glob, Bool_Glob, Ch_1_Glob, Ch_2_Glob>>
arrays  == <<Arr_1_Glob, Arr_2_Glob>>
intLocs == <<Int_1_Loc, Int_2_Loc, Int_3_Loc>>
locals  == <<Run_Index, Ch_Index, Enum_Loc, Str_1_Loc, Str_2_Loc>>
dhryVars == <<pc, rec, globals, arrays, intLocs, locals, Next_Record>>

(***************************************************************************)
(* Procedures and functions that return or assign one value.               *)
(***************************************************************************)
Func_1(ch1, ch2) == IF ch1 # ch2 THEN Ident_1 ELSE Ident_2
(* Mistake: the global is assigned on both paths of Func_1. *)
Func_1_ChAlways(ch1, ch2) == ch1

\* ... and what Func_1 leaves in Ch_1_Glob.
Func_1_Ch(ch1, ch2) == IF ch1 # ch2 THEN Ch_1_Glob ELSE ch1

Func_3(enum) == enum = Ident_3

(* Mistake: a case of Proc_6 that falls through to the default. *)
Proc_6NoCases(enum) == IF Func_3(enum) THEN enum ELSE Ident_4

Proc_6(enum) ==
  CASE enum = Ident_1 -> Ident_1
    [] enum = Ident_2 -> IF Int_Glob > 100 THEN Ident_1 ELSE Ident_4
    [] enum = Ident_3 -> Ident_2
    [] enum = Ident_5 -> Ident_3
    [] OTHER          -> IF Func_3(enum) THEN enum ELSE Ident_4

Proc_7(int1, int2) == int2 + (int1 + 2)

(***************************************************************************)
(* main, up to the loop.  R1, Ptr_Glob's successor, and the locals are not *)
(* initialised; globals are zero.                                          *)
(***************************************************************************)
DhryInit ==
  /\ pc = "for" /\ Run_Index = 1
  /\ Int_Glob = 0 /\ Bool_Glob = 0 /\ Ch_1_Glob = 0 /\ Ch_2_Glob = 0
  /\ Arr_1_Glob = [i \in Arr_1_Dim |-> 0]
  /\ Arr_2_Glob = [ij \in Arr_2_Dim |-> IF ij = <<8, 7>> THEN 10 ELSE 0]
  /\ \E g \in Garbage :
       /\ rec = [r \in {"R1", "R2"} |->
                  IF r = Ptr_Glob
                  THEN [Ptr_Comp |-> Next_Ptr_Glob, Discr |-> Ident_1, Enum_Comp |-> Ident_3,
                        Int_Comp |-> 40, Str_Comp |-> SomeString]
                  ELSE [Ptr_Comp |-> "unknown", Discr |-> g, Enum_Comp |-> g,
                        Int_Comp |-> g, Str_Comp |-> g]]
       /\ Int_1_Loc = g /\ Int_2_Loc = g /\ Int_3_Loc = g /\ Enum_Loc = g
       /\ Ch_Index = g /\ Str_2_Loc = g
  /\ Str_1_Loc = FirstString /\ Next_Record = "unknown"

Proc_5 ==
  /\ pc = "for" /\ Run_Index <= Number_Of_Runs
  /\ Ch_1_Glob' = A /\ Bool_Glob' = 0
  /\ pc' = "Proc_4"
  /\ UNCHANGED <<rec, Int_Glob, Ch_2_Glob, arrays, intLocs, locals, Next_Record>>

Proc_4 ==
  /\ pc = "Proc_4"
  /\ Bool_Glob' = IF Ch_1_Glob = A \/ Bool_Glob = 1 THEN 1 ELSE 0
  /\ Ch_2_Glob' = B
  /\ pc' = "Func_2"
  /\ UNCHANGED <<rec, Int_Glob, Ch_1_Glob, arrays, intLocs, locals, Next_Record>>

\* Bool_Glob = ! Func_2 (Str_1_Loc, Str_2_Loc).  Its loop ends only when the
\* two characters differ; Ch_Loc is 'A' then.
Func_2 ==
  /\ pc = "Func_2"
  /\ LET s2 == SecondString
         greater == Str_1_Loc > s2
     IN  /\ Func_1(Char(Str_1_Loc, 2), Char(s2, 3)) = Ident_1
         /\ Str_2_Loc' = s2
         /\ Int_Glob' = IF greater THEN 3 + 7 ELSE Int_Glob
         /\ Bool_Glob' = IF greater THEN 0 ELSE 1
         /\ Ch_1_Glob' = Func_1_Ch(Char(Str_1_Loc, 2), Char(s2, 3))
  /\ Int_1_Loc' = 2 /\ Int_2_Loc' = 3 /\ Enum_Loc' = Ident_2
  /\ pc' = "while"
  /\ UNCHANGED <<rec, Ch_2_Glob, arrays, Int_3_Loc, Run_Index, Ch_Index, Str_1_Loc, Next_Record>>

\* The body of the while loop, Proc_7 included.
While ==
  /\ pc = "while" /\ Int_1_Loc < Int_2_Loc
  /\ Int_3_Loc' = Proc_7(Int_1_Loc, Int_2_Loc)
  /\ Int_1_Loc' = Int_1_Loc + 1
  /\ UNCHANGED <<pc, rec, globals, arrays, Int_2_Loc, locals, Next_Record>>

Proc_8 ==
  /\ pc = "while" /\ ~(Int_1_Loc < Int_2_Loc)
  /\ LET loc == Int_1_Loc + 5
     IN  /\ Arr_1_Glob' = [Arr_1_Glob EXCEPT ![loc] = Int_3_Loc, ![loc + 1] = Int_3_Loc,
                                             ![loc + 30] = loc]
         /\ Arr_2_Glob' = [Arr_2_Glob EXCEPT ![<<loc, loc>>] = loc, ![<<loc, loc + 1>>] = loc,
                                             ![<<loc, loc - 1>>] = @ + 1,
                                             ![<<loc + 20, loc>>] = Int_3_Loc]
  /\ Int_Glob' = 5
  /\ pc' = "Proc_1"
  /\ UNCHANGED <<rec, Bool_Glob, Ch_1_Glob, Ch_2_Glob, intLocs, locals, Next_Record>>

\* Proc_1 (Ptr_Glob), up to its call of Proc_3.
Proc_1 ==
  /\ pc = "Proc_1"
  /\ LET next == rec[Ptr_Glob].Ptr_Comp
     IN  /\ rec' = [rec EXCEPT ![next] = [rec[Ptr_Glob] EXCEPT !.Int_Comp = 5],
                               ![Ptr_Glob].Int_Comp = 5]
         /\ Next_Record' = next
  /\ pc' = "Proc_3"
  /\ UNCHANGED <<globals, arrays, intLocs, locals>>

Proc_3 ==
  /\ pc = "Proc_3"
  /\ rec' = [rec EXCEPT ![Next_Record].Ptr_Comp = rec[Ptr_Glob].Ptr_Comp,
                        ![Ptr_Glob].Int_Comp = Proc_7(10, Int_Glob)]
  /\ pc' = "if"
  /\ UNCHANGED <<globals, arrays, intLocs, locals, Next_Record>>

\* The conditional of Proc_1, with Proc_6 and Proc_7.
Variant ==
  /\ pc = "if"
  /\ rec' = IF rec[Next_Record].Discr = Ident_1
            THEN [rec EXCEPT ![Next_Record] =
                    [Ptr_Comp  |-> rec[Ptr_Glob].Ptr_Comp,
                     Discr     |-> rec[Next_Record].Discr,
                     Enum_Comp |-> Proc_6(rec[Ptr_Glob].Enum_Comp),
                     Int_Comp  |-> Proc_7(6, 10),
                     Str_Comp  |-> rec[Next_Record].Str_Comp]]
            ELSE [rec EXCEPT ![Ptr_Glob] = rec[rec[Ptr_Glob].Ptr_Comp]]
  /\ Ch_Index' = A
  /\ pc' = "chars"
  /\ UNCHANGED <<globals, arrays, intLocs, Run_Index, Enum_Loc, Str_1_Loc, Str_2_Loc, Next_Record>>

\* One round of the loop over Ch_Index.
Chars ==
  /\ pc = "chars" /\ Ch_Index <= Ch_2_Glob
  /\ LET then == Enum_Loc = Func_1(Ch_Index, C)
     IN  /\ Enum_Loc'  = IF then THEN Proc_6(Ident_1) ELSE Enum_Loc
         /\ Str_2_Loc' = IF then THEN ThirdString ELSE Str_2_Loc
         /\ Int_2_Loc' = IF then THEN Run_Index ELSE Int_2_Loc
         /\ Int_Glob'  = IF then THEN Run_Index ELSE Int_Glob
  /\ Ch_1_Glob' = Func_1_Ch(Ch_Index, C)
  /\ Ch_Index' = Ch_Index + 1
  /\ UNCHANGED <<pc, rec, Bool_Glob, Ch_2_Glob, arrays, Int_1_Loc, Int_3_Loc, Run_Index,
                 Str_1_Loc, Next_Record>>

\* The three assignments after it; Int_3_Loc is the divisor.
Arithmetic ==
  /\ pc = "chars" /\ Ch_Index > Ch_2_Glob
  /\ LET product  == Int_2_Loc * Int_1_Loc
         quotient == product \div Int_3_Loc
     IN  /\ Int_1_Loc' = quotient
         /\ Int_2_Loc' = 7 * (product - Int_3_Loc) - quotient
  /\ pc' = "Proc_2"
  /\ UNCHANGED <<rec, globals, arrays, Int_3_Loc, locals, Next_Record>>

\* Proc_2 (&Int_1_Loc), whose loop ends on an uninitialised variable unless
\* Ch_1_Glob is 'A'.
Proc_2 ==
  /\ pc = "Proc_2"
  /\ Ch_1_Glob = A \/ Ident_1 \in Garbage
  /\ Int_1_Loc' = IF Ch_1_Glob = A THEN (Int_1_Loc + 10 - 1) - Int_Glob ELSE Int_1_Loc
  /\ Run_Index' = Run_Index + 1
  /\ pc' = "for"
  /\ UNCHANGED <<rec, globals, arrays, Int_2_Loc, Int_3_Loc, Ch_Index, Enum_Loc, Str_1_Loc,
                 Str_2_Loc, Next_Record>>

\* The final values are printed.
Report ==
  /\ pc = "for" /\ Run_Index > Number_Of_Runs
  /\ pc' = "done"
  /\ UNCHANGED <<rec, globals, arrays, intLocs, locals, Next_Record>>

DhryNext == \/ Proc_5 \/ Proc_4 \/ Func_2 \/ While \/ Proc_8 \/ Proc_1 \/ Proc_3 \/ Variant
            \/ Chars \/ Arithmetic \/ Proc_2 \/ Report
DhrySpec == DhryInit /\ [][DhryNext]_dhryVars

-----------------------------------------------------------------------------
(***************************************************************************)
(* The comments inside main's loop: what the variables are after the       *)
(* procedures that set them, in every round.                               *)
(***************************************************************************)
AfterComments ==
  /\ pc \in {"Func_2", "while"} => Ch_1_Glob = A /\ Ch_2_Glob = B /\ Bool_Glob = 1
  /\ pc \in {"Proc_1", "Proc_3", "if", "chars"} =>
       Int_1_Loc = 3 /\ Int_2_Loc = 3 /\ Int_3_Loc = 7 /\ Int_Glob = 5
  /\ pc \in {"if", "chars"} => rec[rec[Ptr_Glob].Ptr_Comp].Ptr_Comp = rec[Ptr_Glob].Ptr_Comp
  /\ pc = "Proc_2" => Int_1_Loc = 1 /\ Int_2_Loc = 13 /\ Int_3_Loc = 7

(***************************************************************************)
(* The values that main prints, against the "should be" beside each,       *)
(* for any number of runs from 1 on and whatever uninitialised memory held.*)
(***************************************************************************)
FinalValues ==
  pc = "done" /\ Number_Of_Runs >= 1 =>
    /\ Int_Glob = 5 /\ Bool_Glob = 1 /\ Ch_1_Glob = A /\ Ch_2_Glob = B
    /\ Arr_1_Glob[8] = 7 /\ Arr_2_Glob[<<8, 7>>] = Number_Of_Runs + 10
    /\ rec[Ptr_Glob] = [Ptr_Comp |-> Next_Ptr_Glob, Discr |-> 0, Enum_Comp |-> 2,
                        Int_Comp |-> 17, Str_Comp |-> SomeString]
    /\ rec[Next_Ptr_Glob] = [Ptr_Comp |-> Next_Ptr_Glob, Discr |-> 0, Enum_Comp |-> 1,
                             Int_Comp |-> 18, Str_Comp |-> SomeString]
    /\ Int_1_Loc = 5 /\ Int_2_Loc = 13 /\ Int_3_Loc = 7 /\ Enum_Loc = Ident_2
    /\ Str_1_Loc = FirstString /\ Str_2_Loc = SecondString
=============================================================================
