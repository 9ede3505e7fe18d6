------------------------------ MODULE MCConsole ------------------------------
(***************************************************************************)
(* A kernel that uses every service of the SBI, right and wrong.  The      *)
(* bytes are those that are hard for a receiver: no edge in the data, an   *)
(* edge at every bit; 300 is cut to a char.                                *)
(***************************************************************************)
EXTENDS Console

Fn(fn, arg, ptr) == [fn |-> fn, arg |-> arg, ptr |-> ptr]
SbiCall(eid, fid) == [fn |-> "sbiCall", arg |-> 7, ptr |-> 9, eid |-> eid, fid |-> fid]

MCRam == (0 :> 255) @@ (1 :> 0) @@ (2 :> 85)
MCProgram == <<Fn("putchar", 300, 0), SbiCall(2, 0), Fn("putstr", 3, 0), SbiCall(DBCN, 1),
               Fn("putstr", 0, 0), Fn("putchar", 0, 0), Fn("exit", 0, 0)>>
=============================================================================
