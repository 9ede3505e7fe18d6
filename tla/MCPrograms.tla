------------------------------ MODULE MCPrograms ------------------------------
(***************************************************************************)
(* The board runs one image: an FPU test program, Dhrystone, a program     *)
(* that makes one call of printf, or one that calls show_CPI_2.            *)
(***************************************************************************)
EXTENDS FpuPrograms, Dhrystone, MCPrintf, Counters

CONSTANT NoCall     \* the images without printf

NoPrintf ==
  /\ call = NoCall /\ phase = "none" /\ format = <<>> /\ va = <<>> /\ dir = NoDirective
  /\ idx = 0 /\ mem = <<>> /\ log = <<>> /\ ret = None

NoDhrystone ==
  /\ pc = "none" /\ rec = <<>> /\ Next_Record = "none"
  /\ Int_Glob = 0 /\ Bool_Glob = 0 /\ Ch_1_Glob = 0 /\ Ch_2_Glob = 0
  /\ Arr_1_Glob = <<>> /\ Arr_2_Glob = <<>>
  /\ Run_Index = 0 /\ Ch_Index = 0 /\ Enum_Loc = 0 /\ Str_1_Loc = 0 /\ Str_2_Loc = 0
  /\ Int_1_Loc = 0 /\ Int_2_Loc = 0 /\ Int_3_Loc = 0

NoCounters == CountersInit     \* at rest

Started(image) == program = image /\ i = 1 /\ check = 1 /\ errors = {} /\ passed = 0

ImageInit ==
  \/ Init /\ NoDhrystone /\ NoPrintf /\ NoCounters
  \/ Started("dhrystone") /\ DhryInit /\ NoPrintf /\ NoCounters
  \/ Started("printf") /\ NoDhrystone /\ PrintfInit /\ NoCounters
  \/ Started("show_CPI_2") /\ NoDhrystone /\ NoPrintf /\ CountersInit

ImageNext ==
  \/ Next /\ UNCHANGED <<dhryVars, printfVars, counterVars>>
  \/ program = "dhrystone" /\ DhryNext /\ UNCHANGED <<vars, printfVars, counterVars>>
  \/ program = "printf" /\ PrintfNext /\ UNCHANGED <<vars, dhryVars, counterVars>>
  \/ program = "show_CPI_2" /\ CountersNext /\ UNCHANGED <<vars, dhryVars, printfVars>>

ImageSpec == ImageInit /\ [][ImageNext]_<<vars, dhryVars, printfVars, counterVars>>
===============================================================================
