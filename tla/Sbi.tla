--------------------------------- MODULE Sbi ---------------------------------
(***************************************************************************)
(* The operating system's console: a program in supervisor mode that calls *)
(* the functions of firmware/OS/kernel.c, and the machine-mode BIOS that   *)
(* serves them (firmware/OS/BIOS: bios.S, SBI.c, sbi.h, putchar.S).  One   *)
(* step is a few instructions; the UART is an environment that a step      *)
(* writes a byte to or reads the busy flag from.                           *)
(***************************************************************************)
EXTENDS Integers, Sequences, Functions

CONSTANTS Program,      \* the calls the kernel makes, the last one an exit
          Ram,          \* the bytes in memory that a putstr may point to
          Junk          \* what C code may leave in a caller-saved register

SBI_SUCCESS == 0
SBI_ERR_NOT_SUPPORTED == -2
DBCN == 1145193294      \* 0x4442434E, "DBCN"

\* m_trap stores the registers in this order from the new stack pointer up.
SaveOrder == <<"ra", "gp", "tp", "t0", "t1", "t2", "t3", "t4", "t5", "t6",
               "a0", "a1", "a2", "a3", "a4", "a5", "a6", "a7",
               "s0", "s1", "s2", "s3", "s4", "s5", "s6", "s7", "s8", "s9", "s10", "s11">>

\* ... and loads them back in this one.
LoadOrder == <<"ra", "gp", "tp", "t0", "t1", "t2", "t3", "t4", "t5", "t6",
               "a0", "a1", "a2", "a3", "a4", "a5", "a6", "a7",
               "s0", "s1", "s2", "s3", "s4", "s5", "s6", "s7", "s8", "s9", "s10", "s11">>

\* The fields of struct trap_frame, through which mtrap_handler sees them.
trap_frame == <<"ra", "gp", "tp", "t0", "t1", "t2", "t3", "t4", "t5", "t6",
                "a0", "a1", "a2", "a3", "a4", "a5", "a6", "a7",
                "s0", "s1", "s2", "s3", "s4", "s5", "s6", "s7", "s8", "s9", "s10", "s11", "sp">>

FrameWords == 31
Saved == Range(SaveOrder)
Regs == Saved \cup {"sp"}
CallerSaved == {"ra", "t0", "t1", "t2", "t3", "t4", "t5", "t6",
                "a0", "a1", "a2", "a3", "a4", "a5", "a6", "a7"}

VARIABLES pc,         \* what the processor does next
          regs,       \* the integer registers
          mscratch,   \* the CSR that holds the other stack pointer
          frame,      \* the words 0..30 above the trap handler's stack pointer
          todo,       \* calls the kernel has not made yet
          call,       \* the call under way
          queue,      \* bytes the handler still has to print
          ret,        \* the handler's struct sbiret
          saved       \* registers and mscratch at the ECALL (history)

sbiVars == <<pc, regs, mscratch, frame, todo, call, queue, ret, saved>>

(***************************************************************************)
(* The registers that the functions of kernel.c pass to sbiCall.           *)
(***************************************************************************)
Request(c) ==
  CASE c.fn = "putchar" -> [a0 |-> c.arg, a1 |-> 0, a6 |-> 0, a7 |-> 1]
    [] c.fn = "putstr"  -> [a0 |-> c.arg, a1 |-> c.ptr, a6 |-> 0, a7 |-> DBCN]
    [] c.fn = "exit"    -> [a0 |-> 0, a1 |-> 0, a6 |-> 0, a7 |-> 8]
    [] c.fn = "sbiCall" -> [a0 |-> c.arg, a1 |-> c.ptr, a6 |-> c.fid, a7 |-> c.eid]

\* The trap frame's word for a register, as the C code finds it.
Field(r) == CHOOSE i \in 0..(FrameWords - 1) : trap_frame[i + 1] = r

(***************************************************************************)
(* sbi_handler and dbcn: what a request prints and what it returns, for    *)
(* the arguments in the frame.                                             *)
(***************************************************************************)
Prints(f) ==
  LET a0 == f[Field("a0")]
      a1 == f[Field("a1")]
  IN  CASE f[Field("a7")] = 1 -> <<a0 % 256>>
        [] f[Field("a7")] = DBCN /\ f[Field("a6")] = 0 -> [i \in 1..a0 |-> Ram[a1 + i - 1]]
        [] OTHER -> <<>>
Returns(f) ==
  CASE f[Field("a7")] = 1 -> [error |-> SBI_SUCCESS, value |-> 0]
    [] f[Field("a7")] = DBCN /\ f[Field("a6")] = 0 ->
         [error |-> SBI_SUCCESS, value |-> f[Field("a0")]]
    [] OTHER -> [error |-> SBI_ERR_NOT_SUPPORTED, value |-> 0]
ShutsDown(f) == f[Field("a7")] = 8

(***************************************************************************)
(* Power-on and reset: _start sets the BIOS up, boot the kernel.           *)
(***************************************************************************)
KernelStack == 1000     \* __stack_top
BiosStack == 2000       \* __stack_top_bios

SbiInit ==
  /\ pc = "start" /\ todo = Program
  /\ regs = [r \in Regs |-> Junk] /\ mscratch = 0
  /\ frame = [i \in 0..(FrameWords - 1) |-> Junk]
  /\ call = Head(Program) /\ queue = <<>>
  /\ ret = [error |-> 0, value |-> 0]
  /\ saved = [regs |-> regs, mscratch |-> mscratch]

\* _start, up to its MRET into the kernel.
Start ==
  /\ pc = "start"
  /\ regs' = [r \in Regs |-> CASE r = "sp" -> BiosStack
                                [] r \in {"gp", "t0", "t1", "t2", "t3", "t4"} -> Junk
                                [] OTHER -> regs[r]]
  /\ mscratch' = BiosStack
  /\ pc' = "boot"
  /\ UNCHANGED <<frame, todo, call, queue, ret, saved>>

Boot ==
  /\ pc = "boot"
  /\ regs' = [regs EXCEPT !["sp"] = KernelStack]
  /\ pc' = "kernel"
  /\ UNCHANGED <<mscratch, frame, todo, call, queue, ret, saved>>

\* kernel_main makes its next call; sbiCall loads the argument registers.
Call ==
  /\ pc = "kernel" /\ todo # <<>>
  /\ call' = Head(todo) /\ todo' = Tail(todo)
  /\ LET a == Request(Head(todo))
     IN  regs' = [r \in Regs |-> CASE r = "a0" -> a.a0
                                   [] r = "a1" -> a.a1
                                   [] r = "a6" -> a.a6
                                   [] r = "a7" -> a.a7
                                   [] r \in {"a2", "a3", "a4", "a5"} -> 0
                                   [] OTHER -> regs[r]]
  /\ pc' = "ecall"
  /\ UNCHANGED <<mscratch, frame, queue, ret, saved>>

\* ECALL, and csrrw sp, mscratch, sp.
Trap ==
  /\ pc = "ecall"
  /\ saved' = [regs |-> regs, mscratch |-> mscratch]
  /\ regs' = [regs EXCEPT !["sp"] = mscratch] /\ mscratch' = regs["sp"]
  /\ pc' = "save"
  /\ UNCHANGED <<frame, todo, call, queue, ret>>

\* The frame is allocated and filled.
SaveFrame ==
  /\ pc = "save"
  /\ frame' = [i \in 0..(FrameWords - 1) |->
                 IF i + 1 \in DOMAIN SaveOrder THEN regs[SaveOrder[i + 1]] ELSE frame[i]]
  /\ regs' = [regs EXCEPT !["sp"] = @ - 4 * FrameWords]
  /\ pc' = "savesp"
  /\ UNCHANGED <<mscratch, todo, call, queue, ret, saved>>

(* Mistake: mscratch is set to the stack pointer with the frame still on it. *)
SaveStackInFrame ==
  /\ pc = "savesp"
  /\ frame' = [frame EXCEPT ![FrameWords - 1] = mscratch]
  /\ mscratch' = regs["sp"]
  /\ pc' = "handler"
  /\ UNCHANGED <<regs, todo, call, queue, ret, saved>>

\* The caller's stack pointer follows, and mscratch is set for the next trap.
SaveStack ==
  /\ pc = "savesp"
  /\ frame' = [frame EXCEPT ![FrameWords - 1] = mscratch]
  /\ mscratch' = regs["sp"] + 4 * FrameWords
  /\ pc' = "handler"
  /\ UNCHANGED <<regs, todo, call, queue, ret, saved>>

\* mtrap_handler(frame, cause): the handler is C code, free to change the
\* caller-saved registers; shutdown stops the processor.
Handle ==
  /\ pc = "handler"
  /\ regs' = [r \in Regs |-> IF r \in CallerSaved THEN Junk ELSE regs[r]]
  /\ queue' = Prints(frame)
  /\ ret' = Returns(frame)
  /\ pc' = IF ShutsDown(frame) THEN "halted" ELSE "print"
  /\ UNCHANGED <<mscratch, frame, todo, call, saved>>

\* _putchar: the byte is stored in the UART's data register ...
WriteUart(c) ==
  /\ pc = "print" /\ queue # <<>> /\ c = Head(queue)
  /\ queue' = Tail(queue)
  /\ pc' = "poll"
  /\ UNCHANGED <<regs, mscratch, frame, todo, call, ret, saved>>

(* Mistake: the busy flag is read once and not waited for. *)
PollUartOnce(busy) ==
  /\ pc = "poll"
  /\ pc' = "print"
  /\ UNCHANGED <<regs, mscratch, frame, todo, call, queue, ret, saved>>

\* ... and its control register read until the busy flag is clear.
PollUart(busy) ==
  /\ pc = "poll"
  /\ pc' = IF busy THEN "poll" ELSE "print"
  /\ UNCHANGED <<regs, mscratch, frame, todo, call, queue, ret, saved>>

\* mtrap_handler stores its results in the frame.
Finish ==
  /\ pc = "print" /\ queue = <<>>
  /\ frame' = [frame EXCEPT ![Field("a0")] = ret.error, ![Field("a1")] = ret.value]
  /\ pc' = "restore"
  /\ UNCHANGED <<regs, mscratch, todo, call, queue, ret, saved>>

\* The registers are loaded back, sp last.
LoadSlot(r) == CHOOSE i \in 0..(FrameWords - 2) : LoadOrder[i + 1] = r
Restore ==
  /\ pc = "restore"
  /\ regs' = [r \in Regs |-> IF r = "sp" THEN frame[FrameWords - 1] ELSE frame[LoadSlot(r)]]
  /\ pc' = "return"
  /\ UNCHANGED <<mscratch, frame, todo, call, queue, ret, saved>>

\* MRET, and sbiCall returns to the kernel.
Return ==
  /\ pc = "return"
  /\ pc' = "kernel"
  /\ UNCHANGED <<regs, mscratch, frame, todo, call, queue, ret, saved>>

\* A reset clears the CSRs; registers and memory keep what they held.
Restart ==
  /\ pc' = "start" /\ todo' = Program
  /\ mscratch' = 0 /\ queue' = <<>>
  /\ UNCHANGED <<regs, frame, call, ret, saved>>

Quiet == \/ Start \/ Boot \/ Call \/ Trap \/ SaveFrame \/ SaveStack \/ Handle
         \/ Finish \/ Restore \/ Return

\* The console alone, under any UART.
SbiNext == Quiet \/ (\E c \in 0..255 : WriteUart(c)) \/ (\E busy \in BOOLEAN : PollUart(busy)) \/ Restart
SbiSpec == SbiInit /\ [][SbiNext]_sbiVars

(***************************************************************************)
(* What the SBI promises of a call, from the request itself.               *)
(***************************************************************************)
Answer(c) ==
  LET q == Request(c)
  IN  CASE q.a7 = 1                -> [error |-> SBI_SUCCESS, value |-> 0]
        [] q.a7 = DBCN /\ q.a6 = 0 -> [error |-> SBI_SUCCESS, value |-> q.a0]
        [] OTHER                   -> [error |-> SBI_ERR_NOT_SUPPORTED, value |-> 0]

(***************************************************************************)
(* A call comes back with the SBI's answer in a0 and a1, every other       *)
(* register as it was at the ECALL, the stack pointer included, and with   *)
(* mscratch ready for the next trap: the frame of bios.S, its order of     *)
(* swaps and sbi.h's view of it agree.                                     *)
(***************************************************************************)
CallReturns ==
  pc = "return" =>
    /\ \A r \in Regs \ {"a0", "a1"} : regs[r] = saved.regs[r]
    /\ regs["a0"] = Answer(call).error /\ regs["a1"] = Answer(call).value
    /\ mscratch = saved.mscratch
=============================================================================
