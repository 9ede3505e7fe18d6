---------------------------- MODULE ConsoleProofs ----------------------------
(***************************************************************************)
(* The trap path of the BIOS gives every register back, for every program, *)
(* memory and behaviour of the UART; the UART takes every byte but,        *)
(* perhaps, the first; and the far end gets all the bytes taken, in order, *)
(* at every baud rate.                                                     *)
(***************************************************************************)
EXTENDS Console, SequenceTheorems, TLAPS

(***************************************************************************)
(* The three tables agree where the handler looks.                         *)
(***************************************************************************)
LEMMA SlotsOfArguments ==
  /\ Field("a0") = 10 /\ Field("a1") = 11 /\ Field("a6") = 16 /\ Field("a7") = 17
<1>1. ASSUME NEW k \in {<<10, "a0">>, <<11, "a1">>, <<16, "a6">>, <<17, "a7">>}, NEW f \in 0..30
      PROVE  trap_frame[f + 1] = k[2] <=> f = k[1]
  BY <1>1 DEF trap_frame
<1> QED
  BY <1>1 DEF Field, FrameWords

LEMMA OrderOfSaving ==
  /\ LoadOrder = SaveOrder /\ DOMAIN SaveOrder = 1..30
  /\ \A i \in 1..30 : SaveOrder[i] # "sp"
  /\ \A i \in 0..29 : SaveOrder[i + 1] = trap_frame[i + 1]
  BY DEF LoadOrder, SaveOrder, trap_frame

-----------------------------------------------------------------------------
(***************************************************************************)
(* Where the caller's registers are at each step of the trap.              *)
(***************************************************************************)
Pcs == {"start", "boot", "kernel", "ecall", "save", "savesp", "handler", "print", "poll",
        "restore", "return", "halted"}

Served == {"handler", "print", "poll"}

Shape ==
  /\ pc \in Pcs
  /\ DOMAIN regs = Regs
  /\ DOMAIN frame = 0..30
  /\ mscratch \in Int
  /\ pc \notin {"start", "halted", "print", "poll", "restore", "handler"} => regs["sp"] \in Int

\* The call's arguments are in the registers saved at the ECALL.
Asked ==
  LET q == Request(call)
      r == IF pc = "ecall" THEN regs ELSE saved.regs
  IN  pc \in Served \cup {"ecall", "save", "savesp"} =>
        r["a0"] = q.a0 /\ r["a1"] = q.a1 /\ r["a6"] = q.a6 /\ r["a7"] = q.a7

\* From the ECALL on, the two stack pointers have been swapped.
Swapped ==
  /\ pc \in Served \cup {"save", "savesp", "restore"} =>
       saved.regs["sp"] \in Int /\ saved.mscratch \in Int
  /\ pc = "save" =>
       /\ \A r \in Regs \ {"sp"} : regs[r] = saved.regs[r]
       /\ regs["sp"] = saved.mscratch /\ mscratch = saved.regs["sp"]
  /\ pc = "savesp" => regs["sp"] = saved.mscratch - 124 /\ mscratch = saved.regs["sp"]
  /\ pc \in Served \cup {"restore"} => mscratch = saved.mscratch

\* The frame holds the registers, and the stack pointer in its last word.
Stored ==
  /\ pc \in Served \cup {"savesp"} => \A i \in 0..29 : frame[i] = saved.regs[SaveOrder[i + 1]]
  /\ pc = "restore" =>
       /\ \A i \in 0..29 \ {10, 11} : frame[i] = saved.regs[SaveOrder[i + 1]]
       /\ frame[10] = Answer(call).error /\ frame[11] = Answer(call).value
  /\ pc \in Served \cup {"restore"} => frame[30] = saved.regs["sp"]

Answered == pc \in {"print", "poll"} => ret = Answer(call)

SbiInv == Shape /\ Asked /\ Swapped /\ Stored /\ Answered /\ CallReturns

LEMMA SbiInvInit == SbiInit => SbiInv
  BY DEF SbiInit, SbiInv, Shape, Asked, Swapped, Stored, Answered, CallReturns, Pcs, Served,
         FrameWords

\* The handler answers the request in the frame, which is the caller's.
LEMMA AnswersTheRequest ==
  ASSUME Asked, Stored, pc = "handler"
  PROVE  Returns(frame) = Answer(call)
<1>1. /\ SaveOrder[11] = "a0" /\ SaveOrder[12] = "a1" /\ SaveOrder[17] = "a6"
      /\ SaveOrder[18] = "a7"
  BY DEF SaveOrder
<1>2. frame[10] = saved.regs["a0"] /\ frame[16] = saved.regs["a6"] /\ frame[17] = saved.regs["a7"]
  BY <1>1 DEF Stored, Served
<1>3. LET q == Request(call)
      IN  frame[10] = q.a0 /\ frame[16] = q.a6 /\ frame[17] = q.a7
  BY <1>2 DEF Asked, Served
<1> DEFINE q == Request(call)
<1> HIDE DEF q
<1>4. q.a0 = frame[Field("a0")] /\ q.a6 = frame[Field("a6")] /\ q.a7 = frame[Field("a7")]
  BY <1>3, SlotsOfArguments DEF q
<1>5. Answer(call) = CASE q.a7 = 1                -> [error |-> SBI_SUCCESS, value |-> 0]
                       [] q.a7 = DBCN /\ q.a6 = 0 -> [error |-> SBI_SUCCESS, value |-> q.a0]
                       [] OTHER                   -> [error |-> SBI_ERR_NOT_SUPPORTED, value |-> 0]
  BY DEF Answer, q
<1> QED
  BY <1>4, <1>5 DEF Returns

\* Loading finds the word that saving wrote.
LEMMA LoadsWhatWasSaved ==
  ASSUME Stored, pc = "restore", NEW r \in Saved
  PROVE  /\ LoadSlot(r) \in 0..29
         /\ r = "a0" => frame[LoadSlot(r)] = Answer(call).error
         /\ r = "a1" => frame[LoadSlot(r)] = Answer(call).value
         /\ r \notin {"a0", "a1"} => frame[LoadSlot(r)] = saved.regs[r]
<1>1. PICK j \in 1..30 : SaveOrder[j] = r
  BY OrderOfSaving DEF Saved, Range
<1>2. j - 1 \in 0..29 /\ LoadOrder[(j - 1) + 1] = r
  BY <1>1, OrderOfSaving
<1>3. LoadSlot(r) \in 0..29 /\ LoadOrder[LoadSlot(r) + 1] = r
  <2>1. \E i \in 0..(FrameWords - 2) : LoadOrder[i + 1] = r
    BY <1>2 DEF FrameWords
  <2>2. LoadSlot(r) \in 0..(FrameWords - 2) /\ LoadOrder[LoadSlot(r) + 1] = r
    BY <2>1, Zenon DEF LoadSlot
  <2> QED
    BY <2>2 DEF FrameWords
<1> DEFINE i == LoadSlot(r)
<1> HIDE DEF i
<1>4. i \in 0..29 /\ SaveOrder[i + 1] = r
  BY <1>3, OrderOfSaving DEF i
<1>5. /\ r = "a0" => i = 10
      /\ r = "a1" => i = 11
      /\ r \notin {"a0", "a1"} => i # 10 /\ i # 11
  BY <1>4 DEF SaveOrder
<1> QED
  BY <1>4, <1>5 DEF Stored, Served, i

LEMMA SbiInvNext == SbiInv /\ [SbiNext]_sbiVars => SbiInv'
<1> SUFFICES ASSUME SbiInv, [SbiNext]_sbiVars PROVE SbiInv'
  OBVIOUS
<1> USE DEF SbiInv, Served
<1>1. CASE Start
  <2>1. /\ pc = "start" /\ pc' = "boot" /\ frame' = frame
        /\ mscratch' \in Int
    BY <1>1 DEF Start, BiosStack
  <2>2. DOMAIN regs' = Regs
    BY <1>1 DEF Start
  <2>3. regs'["sp"] \in Int
    BY <1>1 DEF Start, BiosStack, Regs
  <2> QED
    BY <2>1, <2>2, <2>3 DEF Shape, Asked, Swapped, Stored, Answered, CallReturns, Pcs
<1>2. CASE Boot
  <2>1. /\ pc = "boot" /\ pc' = "kernel" /\ frame' = frame /\ mscratch' = mscratch
        /\ regs' = [regs EXCEPT !["sp"] = 1000]
    BY <1>2 DEF Boot, KernelStack
  <2>2. DOMAIN regs' = Regs /\ regs'["sp"] = 1000
    <3>1. "sp" \in Regs /\ DOMAIN regs = Regs
      BY DEF Shape, Regs
    <3> QED
      BY <2>1, <3>1
  <2> QED
    BY <2>1, <2>2 DEF Shape, Asked, Swapped, Stored, Answered, CallReturns, Pcs
<1>3. CASE Call
  <2>1. pc = "kernel" /\ pc' = "ecall" /\ mscratch' = mscratch /\ frame' = frame
    BY <1>3 DEF Call
  <2>2. /\ regs'["a0"] = Request(call').a0 /\ regs'["a1"] = Request(call').a1
        /\ regs'["a6"] = Request(call').a6 /\ regs'["a7"] = Request(call').a7
        /\ regs'["sp"] = regs["sp"]
    BY <1>3 DEF Call, Regs, Saved, Range, SaveOrder
  <2>3. DOMAIN regs' = Regs
    BY <1>3 DEF Call
  <2> QED
    BY <2>1, <2>2, <2>3 DEF Shape, Asked, Swapped, Stored, Answered, CallReturns, Pcs
<1>4. CASE Trap
  BY <1>4 DEF Trap, Shape, Asked, Swapped, Stored, Answered, CallReturns, Pcs, Regs
<1>5. CASE SaveFrame
  <2>1. \A i \in 0..29 : frame'[i] = regs[SaveOrder[i + 1]] /\ SaveOrder[i + 1] \in Regs \ {"sp"}
    BY <1>5, OrderOfSaving DEF SaveFrame, FrameWords, Regs, Saved, Range
  <2>2. pc = "save" /\ pc' = "savesp" /\ saved' = saved /\ call' = call /\ mscratch' = mscratch
    BY <1>5 DEF SaveFrame
  <2>3. Shape' /\ regs'["sp"] = regs["sp"] - 124
    <3>1. regs' = [regs EXCEPT !["sp"] = regs["sp"] - 124]
      BY <1>5 DEF SaveFrame, FrameWords, Regs, Shape
    <3>2. DOMAIN regs' = Regs /\ regs'["sp"] = regs["sp"] - 124
      BY <3>1 DEF Shape, Regs
    <3>3. DOMAIN frame' = 0..30
      BY <1>5 DEF SaveFrame, FrameWords
    <3> QED
      BY <2>2, <3>2, <3>3 DEF Shape, Pcs
  <2> QED
    BY <2>1, <2>2, <2>3 DEF Asked, Swapped, Stored, Answered, CallReturns
<1>6. CASE SaveStack
  <2>1. /\ frame' = [frame EXCEPT ![30] = mscratch] /\ mscratch' = regs["sp"] + 124
        /\ pc = "savesp" /\ pc' = "handler" /\ UNCHANGED <<regs, call, ret, saved>>
    BY <1>6 DEF SaveStack, FrameWords
  <2>2. /\ DOMAIN frame' = 0..30 /\ frame'[30] = mscratch
        /\ \A i \in 0..29 : frame'[i] = frame[i]
    <3>1. DOMAIN frame = 0..30
      BY DEF Shape
    <3> QED
      BY <2>1, <3>1
  <2>3. mscratch' = saved.mscratch /\ mscratch' \in Int
    BY <2>1 DEF Swapped
  <2> QED
    BY <2>1, <2>2, <2>3 DEF Shape, Asked, Swapped, Stored, Answered, CallReturns, Pcs
<1>7. CASE Handle
  <2>1. ret' = Answer(call)
    BY <1>7, AnswersTheRequest DEF Handle
  <2>2. /\ pc = "handler" /\ pc' \in {"halted", "print"}
        /\ UNCHANGED <<mscratch, frame, call, saved>>
        /\ DOMAIN regs' = Regs
    BY <1>7 DEF Handle
  <2> QED
    BY <2>1, <2>2 DEF Shape, Asked, Swapped, Stored, Answered, CallReturns, Pcs
<1>8. CASE \E c \in 0..255 : WriteUart(c)
  BY <1>8 DEF WriteUart, Shape, Asked, Swapped, Stored, Answered, CallReturns, Pcs
<1>9. CASE \E busy \in BOOLEAN : PollUart(busy)
  BY <1>9 DEF PollUart, Shape, Asked, Swapped, Stored, Answered, CallReturns, Pcs
<1>10. CASE Finish
  <2>1. /\ frame' = [frame EXCEPT ![10] = ret.error, ![11] = ret.value]
        /\ pc = "print" /\ pc' = "restore" /\ UNCHANGED <<regs, mscratch, call, saved>>
    BY <1>10, SlotsOfArguments DEF Finish
  <2> DEFINE half == [frame EXCEPT ![10] = ret.error]
  <2>2. /\ DOMAIN half = 0..30 /\ half[10] = ret.error
        /\ \A i \in 0..30 \ {10} : half[i] = frame[i]
    BY DEF Shape
  <2>3. frame' = [half EXCEPT ![11] = ret.value]
    BY <2>1
  <2>4. /\ DOMAIN frame' = 0..30 /\ frame'[11] = ret.value
        /\ \A i \in 0..30 \ {11} : frame'[i] = half[i]
    <3> HIDE DEF half
    <3> QED
      BY <2>2, <2>3
  <2>5. /\ frame'[10] = ret.error /\ \A i \in 0..29 \ {10, 11} : frame'[i] = frame[i]
        /\ frame'[30] = frame[30]
    BY <2>2, <2>4
  <2>6. ret = Answer(call)
    BY <2>1 DEF Answered
  <2> QED
    BY <2>1, <2>4, <2>5, <2>6 DEF Shape, Asked, Swapped, Stored, Answered, CallReturns, Pcs
<1>11. CASE Restore
  <2>1. pc = "restore" /\ pc' = "return" /\ UNCHANGED <<mscratch, frame, call, saved>>
    BY <1>11 DEF Restore
  <2>2. /\ regs'["sp"] = saved.regs["sp"]
        /\ DOMAIN regs' = Regs
    BY <1>11 DEF Restore, Regs, FrameWords, Stored
  <2>3. ASSUME NEW r \in Regs \ {"sp"}
        PROVE  r \in Saved /\ regs'[r] = frame[LoadSlot(r)]
    BY <1>11 DEF Restore, Regs
  <2>4. ASSUME NEW r \in Regs \ {"a0", "a1"} PROVE regs'[r] = saved.regs[r]
    BY <2>1, <2>2, <2>3, LoadsWhatWasSaved
  <2>5. regs'["a0"] = Answer(call).error /\ regs'["a1"] = Answer(call).value
    <3>1. "a0" \in Regs \ {"sp"} /\ "a1" \in Regs \ {"sp"}
      BY DEF Regs, Saved, Range, SaveOrder
    <3> QED
      BY <2>1, <2>3, <3>1, LoadsWhatWasSaved
  <2>6. CallReturns'
    BY <2>1, <2>4, <2>5 DEF Swapped, CallReturns
  <2> QED
    BY <2>1, <2>2, <2>6 DEF Shape, Asked, Swapped, Stored, Answered, Pcs
<1>12. CASE Return
  BY <1>12 DEF Return, Shape, Asked, Swapped, Stored, Answered, CallReturns, Pcs
<1>13. CASE Restart
  BY <1>13 DEF Restart, Shape, Asked, Swapped, Stored, Answered, CallReturns, Pcs
<1>14. CASE UNCHANGED sbiVars
  BY <1>14 DEF sbiVars, Shape, Asked, Swapped, Stored, Answered, CallReturns
<1> QED
  BY <1>1, <1>2, <1>3, <1>4, <1>5, <1>6, <1>7, <1>8, <1>9, <1>10, <1>11, <1>12, <1>13, <1>14
  DEF SbiNext, Quiet

THEOREM SbiInvariant == SbiSpec => []SbiInv
  BY SbiInvInit, SbiInvNext, PTL DEF SbiSpec

(***************************************************************************)
(* The console on the board takes only steps of the SBI alone: the UART    *)
(* just decides what a poll reads.                                         *)
(***************************************************************************)
THEOREM ConsoleIsSbi == Spec => SbiSpec
<1>1. Init => SbiInit
  BY DEF Init
<1>2. [Next]_vars => [SbiNext]_sbiVars
  <2> SUFFICES ASSUME [Next]_vars PROVE [SbiNext]_sbiVars
    OBVIOUS
  <2>1. ASSUME PollUart(tx.busy) PROVE \E busy \in BOOLEAN : PollUart(busy)
    <3>1. CASE tx.busy
      <4>1. PollUart(TRUE)
        BY <2>1, <3>1 DEF PollUart
      <4> QED
        BY <4>1
    <3>2. CASE ~tx.busy
      <4>1. PollUart(FALSE)
        BY <2>1, <3>2 DEF PollUart
      <4> QED
        BY <4>1
    <3> QED
      BY <3>1, <3>2
  <2>2. CASE Execute
    BY <2>1, <2>2 DEF Execute, SbiNext
  <2>3. CASE Wait
    BY <2>3 DEF Wait
  <2>4. CASE Reset
    BY <2>4 DEF Reset, SbiNext
  <2>5. CASE UNCHANGED vars
    BY <2>5 DEF vars
  <2> QED
    BY <2>2, <2>3, <2>4, <2>5 DEF Next
<1> QED
  BY <1>1, <1>2, PTL DEF Spec, SbiSpec

(***************************************************************************)
(* Every call of every program comes back with the SBI's answer and every  *)
(* other register unchanged, whatever the UART does and whenever the reset *)
(* button is pressed.                                                      *)
(***************************************************************************)
THEOREM EveryCallReturns == Spec => []CallReturns
<1>1. SbiInv => CallReturns
  BY DEF SbiInv
<1> QED
  BY <1>1, SbiInvariant, ConsoleIsSbi, PTL

-----------------------------------------------------------------------------
(***************************************************************************)
(* After its first byte _putchar finds the UART ready: outside the polling *)
(* loop nothing but a write makes it busy again.                           *)
(***************************************************************************)
Ready == ~tx.busy => tx.state = Idle /\ tx.zero
Polled == printed # <<>> /\ pc # "poll" => ~tx.busy
UartInv == Ready /\ Polled /\ printed \in Seq(0..255) /\ MissesOnlyFirst

\* A clock without a write keeps a ready UART ready.
LEMMA StaysReady ==
  ASSUME Ready, Devices(FALSE, BitsOf(0))
  PROVE  Ready' /\ (~tx.busy => ~tx'.busy)
  BY DEF Ready, Devices, TxClock, NextState, Accepts

LEMMA WriteKeepsReady ==
  ASSUME Ready, NEW c, Devices(TRUE, c)
  PROVE  Ready'
  BY DEF Ready, Devices, TxClock, NextState, Accepts

LEMMA UartInvNext == UartInv /\ [Next]_vars => UartInv'
<1> SUFFICES ASSUME UartInv, [Next]_vars PROVE UartInv'
  OBVIOUS
<1> USE DEF UartInv
<1>1. CASE Quiet /\ Devices(FALSE, BitsOf(0)) /\ UNCHANGED history
  <2>1. pc # "poll"
    BY <1>1 DEF Quiet, Start, Boot, Call, Trap, SaveFrame, SaveStack, Handle, Finish, Restore,
                Return
  <2> QED
    BY <1>1, <2>1, StaysReady DEF Polled, history, MissesOnlyFirst
<1>2. CASE PollUart(tx.busy) /\ Devices(FALSE, BitsOf(0)) /\ UNCHANGED history
  <2>1. pc' # "poll" => ~tx.busy
    BY <1>2 DEF PollUart
  <2> QED
    BY <1>2, <2>1, StaysReady DEF Polled, history, MissesOnlyFirst
<1>3. ASSUME NEW c \in 0..255, WriteUart(c), Devices(TRUE, BitsOf(c)), printed' = Append(printed, c),
             missed' = IF tx.busy THEN missed \cup {Len(printed) + 1} ELSE missed
      PROVE  UartInv'
  <2>1. pc = "print" /\ pc' = "poll"
    BY <1>3 DEF WriteUart
  <2>2. tx.busy => Len(printed) = 0
    BY <2>1 DEF Polled
  <2>3. MissesOnlyFirst'
    <3>1. CASE tx.busy
      <4>1. Len(printed) + 1 = 1
        BY <3>1, <2>2
      <4>2. missed' = missed \cup {1}
        BY <1>3, <3>1, <4>1
      <4> QED
        BY <4>2 DEF MissesOnlyFirst
    <3>2. CASE ~tx.busy
      BY <1>3, <3>2 DEF MissesOnlyFirst
    <3> QED
      BY <3>1, <3>2
  <2>4. printed' \in Seq(0..255)
    BY <1>3
  <2>5. Ready' /\ Polled'
    BY <1>3, <2>1, WriteKeepsReady DEF Polled
  <2> QED
    BY <2>3, <2>4, <2>5
<1>4. CASE Wait
  BY <1>4, StaysReady DEF Wait, Polled, sbiVars, history, MissesOnlyFirst
<1>5. CASE Reset
  BY <1>5 DEF Reset, TxReset, Ready, Polled, MissesOnlyFirst
<1>6. CASE UNCHANGED vars
  BY <1>6 DEF vars, uartVars, sbiVars, history, Ready, Polled, MissesOnlyFirst
<1> QED
  BY <1>1, <1>2, <1>3, <1>4, <1>5, <1>6 DEF Next, Execute

(***************************************************************************)
(* For every baud rate, program and number of resets, the UART takes every *)
(* byte but, perhaps, the first since the last reset.                      *)
(***************************************************************************)
THEOREM OnlyFirstIsMissed == Spec => []MissesOnlyFirst
<1>1. Init => UartInv
  BY DEF Init, UartInv, Ready, Polled, PowerOn, MissesOnlyFirst
<1>2. UartInv => MissesOnlyFirst
  BY DEF UartInv
<1> QED
  BY <1>1, <1>2, UartInvNext, PTL DEF Spec

-----------------------------------------------------------------------------
(***************************************************************************)
(* The far end samples every bit in its middle: the line and the receiver  *)
(* clock by clock, for every rate of at least three clocks per bit.        *)
(***************************************************************************)
LevelsOf(c) == {BitsOf(c)[i] : i \in 1..Bits}
Levels == {0, 1} \cup UNION {LevelsOf(c) : c \in 0..255}
Byte == [1..Bits -> Levels]
Half == Baud \div 2

LinkType ==
  /\ tx \in [state : 0..Idle, busy : BOOLEAN, counter : Nat, zero : BOOLEAN, last : BOOLEAN,
             data : Byte, line : Levels, setup : Nat]
  /\ tx.zero <=> tx.counter = 0
  /\ rx \in [state : {"RXIDLE", "RXDATA"}, counter : Int, busy : 0..FrameBits,
             data : Seq(Levels), changectr : 0..ChangeCap, last : Levels]
  /\ rx.counter <= Baud + Half - 1
  /\ Len(rx.data) = rx.busy
  /\ cut \in BOOLEAN
  /\ sent \in Seq(Byte) /\ received \in Seq(Seq(Levels))

\* The first n bytes of s are in r, behind what a reset tore off.
Arrived(r, torn, s, n) == Len(r) = torn + n /\ \A i \in 1..n : r[torn + i] = s[i]
Torn == IF cut THEN 1 ELSE 0
Delivered(n) == Arrived(received, Torn, sent, n)

\* The first k bits received are those of byte b.
Matches(k, bits, b) == \A i \in 1..Bits : i <= k => bits[i] = b[i]
Holds(n) == Matches(rx.busy, rx.data, sent[n])

\* After a reset the UART waits, longer than a torn frame takes.
Waiting ==
  /\ tx.state = Idle /\ tx.busy /\ tx.line = 1 /\ sent = <<>>
  /\ \/ rx.state = "RXIDLE" /\ Delivered(0)
     \/ /\ cut /\ received = <<>> /\ rx.state = "RXDATA"
        /\ (FrameBits - rx.busy) * Baud <= tx.counter
        /\ (FrameBits - rx.busy) * Baud + rx.counter <= tx.counter

\* The UART is ready; the far end may still wait for the end of a stop bit.
Resting ==
  /\ tx.state = Idle /\ ~tx.busy /\ tx.zero /\ tx.line = 1
  /\ \/ rx.state = "RXIDLE" /\ Delivered(Len(sent))
     \/ /\ rx.state = "RXDATA" /\ rx.busy = FrameBits
        /\ 0 <= rx.counter /\ rx.counter <= Half + 1
        /\ sent # <<>> /\ Delivered(Len(sent) - 1) /\ Holds(Len(sent))

\* Clocks since the level on the line is that of tx.state; the stop bit is one
\* clock short, in which the UART is ready.
Age == (IF tx.state = Idle THEN Baud - 2 ELSE Baud - 1) - tx.counter

\* The edge of the start bit has been seen and its age counted.
EdgeSeen == IF Age = 0 THEN rx.last = 1 ELSE rx.last = 0 /\ rx.changectr = Age - 1

\* Bit k of a frame is on the line with tx.state = k (0 is the start bit), and
\* is sampled when it is Half clocks old.
InFrame ==
  /\ tx.busy /\ tx.setup = Baud /\ 0 <= Age /\ sent # <<>>
  /\ tx.state < Stop => ~tx.last
  /\ tx.state = Stop => (tx.last <=> Age > 0)
  /\ tx.line = IF tx.state = 0 THEN 0
               ELSE IF tx.state = Idle THEN 1 ELSE sent[Len(sent)][tx.state]
  /\ \A i \in 1..Bits : i + tx.state <= Bits => tx.data[i] = sent[Len(sent)][i + tx.state]
  /\ \/ /\ tx.state = 0 /\ rx.state = "RXIDLE" /\ Age <= Half + 1 /\ EdgeSeen
        /\ Delivered(Len(sent) - 1)
     \/ /\ tx.state = 0 /\ rx.state = "RXDATA" /\ EdgeSeen
        /\ rx.busy = FrameBits /\ 0 <= rx.counter /\ rx.counter + Age <= Half
        /\ Len(sent) > 1 /\ Delivered(Len(sent) - 2) /\ Holds(Len(sent) - 1)
     \/ /\ rx.state = "RXDATA" /\ Delivered(Len(sent) - 1) /\ Holds(Len(sent))
        /\ IF tx.state > 0 /\ Age <= Half
           THEN rx.busy = tx.state - 1 /\ rx.counter = Half - Age
           ELSE rx.busy = tx.state /\ rx.counter = Baud + Half - Age

LinkInv == LinkType /\ (Waiting \/ Resting \/ InFrame)

-----------------------------------------------------------------------------
(* One clock of the line: a byte is written, or none. *)
Link(wr, data) ==
  /\ Devices(wr, data)
  /\ sent' = IF Accepts(tx, wr) THEN Append(sent, data) ELSE sent
  /\ cut' = cut

LEMMA HalfBit ==
  /\ Baud \in Nat /\ Baud >= 3 /\ Half \in Nat /\ Half >= 1 /\ Half + 2 <= Baud
  /\ Baud \div 2 = Half /\ Bits \in Nat /\ Bits >= 1 /\ Idle = Bits + 1 /\ FrameBits = Bits + 1
  /\ ChangeCap = 2 * Baud /\ m_baud_counts = Baud /\ m_nbits = Bits
BY BaudAssumption, LinkAssumption DEF Half, Idle, FrameBits, ChangeCap

LEMMA BytesAreSeqs == Byte \subseteq Seq(Levels) /\ \A b \in Byte : Len(b) = Bits
BY HalfBit DEF Byte

LEMMA BitsAreByte == \A c \in 0..255 : BitsOf(c) \in Byte
<1>1. ASSUME NEW c \in 0..255, NEW i \in 1..Bits PROVE BitsOf(c)[i] \in Levels
  <2>1. BitsOf(c)[i] \in LevelsOf(c)
    BY DEF LevelsOf
  <2>2. LevelsOf(c) \in {LevelsOf(b) : b \in 0..255}
    OBVIOUS
  <2> QED
    BY <2>1, <2>2 DEF Levels
<1>2. \A c : BitsOf(c) = [i \in 1..Bits |-> BitsOf(c)[i]]
  BY DEF BitsOf
<1> QED
  BY <1>1, <1>2 DEF Byte

(* The UART, by what it is doing. *)
LEMMA TxFields ==
  ASSUME NEW wr, NEW d, Devices(wr, d)
  PROVE  /\ tx'.state = NextState(tx, wr) /\ tx'.counter = NextCounter(tx, wr)
         /\ tx'.busy = (~(tx.zero /\ tx.state = Idle) \/ Accepts(tx, wr))
         /\ tx'.zero = (IF tx.zero /\ tx.state = Idle THEN ~Accepts(tx, wr) ELSE tx.counter = 1)
         /\ tx'.last = (tx.state = Stop)
         /\ tx'.data = (IF ~tx.busy THEN d ELSE IF tx.zero THEN Shifted(tx.data) ELSE tx.data)
         /\ tx'.line = (IF Accepts(tx, wr) THEN 0
                         ELSE IF tx.zero THEN IF tx.state < Bits THEN tx.data[1] ELSE 1
                         ELSE tx.line)
         /\ tx'.setup = (IF ~tx.busy THEN Baud ELSE tx.setup)
  BY DEF Devices, TxClock

LEMMA TxKeeps ==
  ASSUME LinkType, NEW wr \in BOOLEAN, NEW d \in Byte, Devices(wr, d), tx.busy, ~tx.zero
  PROVE  /\ tx'.state = tx.state /\ tx'.counter = tx.counter - 1 /\ tx'.busy
         /\ tx'.line = tx.line /\ tx'.data = tx.data /\ tx'.setup = tx.setup
         /\ tx'.last = (tx.state = Stop) /\ tx'.zero = (tx.counter = 1)
         /\ ~Accepts(tx, wr)
<1>1. ~Accepts(tx, wr)
  BY DEF Accepts
<1>2. tx'.state = tx.state /\ tx'.counter = tx.counter - 1
  BY <1>1, TxFields DEF NextState, NextCounter
<1>3. tx'.line = tx.line /\ tx'.data = tx.data /\ tx'.setup = tx.setup
  BY <1>1, TxFields
<1>4. tx'.last = (tx.state = Stop) /\ tx'.zero = (tx.counter = 1)
  BY <1>1, TxFields
<1>5. tx'.busy
  BY <1>1, TxFields
<1> QED
  BY <1>1, <1>2, <1>3, <1>4, <1>5

LEMMA TxMoves ==
  ASSUME LinkType, NEW wr \in BOOLEAN, NEW d \in Byte, Devices(wr, d), tx.busy, tx.zero,
         tx.state # Idle
  PROVE  /\ tx'.state = tx.state + 1 /\ tx'.busy /\ ~tx'.zero
         /\ tx'.counter = IF tx.last THEN tx.setup - 2 ELSE tx.setup - 1
         /\ tx'.line = (IF tx.state < Bits THEN tx.data[1] ELSE 1)
         /\ tx'.data = Shifted(tx.data) /\ tx'.setup = tx.setup
         /\ tx'.last = (tx.state = Stop)
         /\ ~Accepts(tx, wr)
<1>1. ~Accepts(tx, wr)
  BY DEF Accepts
<1>2. tx.counter # 1
  BY DEF LinkType
<1> QED
  BY <1>1, <1>2, TxFields DEF NextState, NextCounter

LEMMA ShiftedType == \A b \in Byte : Shifted(b) \in Byte
<1> SUFFICES ASSUME NEW b \in Byte PROVE Shifted(b) \in Byte
  OBVIOUS
<1>1. \A i \in 1..Bits : (IF i < Bits THEN b[i + 1] ELSE 0) \in Levels
  BY HalfBit DEF Byte, Levels
<1> QED
  BY <1>1 DEF Shifted, Byte

LEMMA TxRests ==
  ASSUME LinkType, NEW wr \in BOOLEAN, NEW d \in Byte, Devices(wr, d), tx.zero,
         tx.state = Idle, ~Accepts(tx, wr)
  PROVE  /\ tx'.state = Idle /\ ~tx'.busy /\ tx'.zero /\ tx'.line = 1 /\ tx'.counter = 0
         /\ tx'.data \in Byte /\ tx'.setup \in Nat /\ tx'.last = FALSE
<1>1. tx.data \in Byte /\ Shifted(tx.data) \in Byte /\ tx.setup \in Nat
  BY ShiftedType DEF LinkType
<1>2. ~(tx.state < Bits) /\ tx.state # Stop
  BY HalfBit DEF Stop
<1>3. tx'.state = Idle /\ tx'.counter = 0
  BY <1>1, <1>2, TxFields DEF NextState, NextCounter
<1>4. tx'.line = 1
  BY <1>1, <1>2, TxFields
<1>5. tx'.data \in Byte
  BY <1>1, TxFields
<1>6. tx'.setup \in Nat
  BY <1>1, HalfBit, TxFields
<1>7. tx'.last = FALSE
  BY <1>2, TxFields
<1>8. ~tx'.busy
  BY TxFields
<1>9. tx'.zero
  BY TxFields
<1> QED
  BY <1>3, <1>4, <1>5, <1>6, <1>7, <1>8, <1>9

LEMMA TxStarts ==
  ASSUME LinkType, NEW wr \in BOOLEAN, NEW d \in Byte, Devices(wr, d), tx.zero,
         tx.state = Idle, Accepts(tx, wr)
  PROVE  /\ tx'.state = 0 /\ tx'.busy /\ ~tx'.zero /\ tx'.line = 0 /\ tx'.counter = Baud - 1
         /\ tx'.data = d /\ tx'.setup = Baud /\ tx'.last = FALSE
<1>1. ~tx.busy
  BY DEF Accepts
<1>2. tx.state # Stop
  BY HalfBit DEF Stop
<1>3. tx'.state = 0 /\ tx'.counter = Baud - 1
  BY <1>1, <1>2, TxFields DEF NextState, NextCounter
<1>4. tx'.line = 0 /\ tx'.data = d /\ tx'.setup = Baud
  BY <1>1, TxFields
<1>5. tx'.last = FALSE
  BY <1>2, TxFields
<1>6. tx'.busy
  BY TxFields
<1>7. ~tx'.zero
  BY TxFields
<1> QED
  BY <1>3, <1>4, <1>5, <1>6, <1>7

(* The far end, by what it is doing. *)
LEMMA RxAlways ==
  ASSUME LinkType, NEW wr, NEW d, Devices(wr, d)
  PROVE  /\ rx'.last = tx.line
         /\ rx'.changectr = Changed(rx, tx.line) /\ rx'.changectr \in 0..ChangeCap
<1>1. Changed(rx, tx.line) \in 0..ChangeCap
  BY HalfBit DEF LinkType, Changed
<1> QED
  BY <1>1 DEF LinkType, Devices, RxTick

LEMMA RxFields ==
  ASSUME NEW wr, NEW d, Devices(wr, d)
  PROVE  rx' = RxTick(rx, tx.line) /\ received' = received \o Written(rx)
  BY DEF Devices

LEMMA RxWords ==
  ASSUME LinkType
  PROVE  /\ rx = [state |-> rx.state, counter |-> rx.counter, busy |-> rx.busy, data |-> rx.data,
                  changectr |-> rx.changectr, last |-> rx.last]
         /\ rx.counter \in Int /\ rx.busy \in 0..FrameBits /\ rx.state \in {"RXIDLE", "RXDATA"}
         /\ rx.data \in Seq(Levels) /\ received \in Seq(Seq(Levels))
  BY DEF LinkType

LEMMA RxKeeps ==
  ASSUME LinkType, NEW wr, NEW d, Devices(wr, d),
         ~(rx.state = "RXDATA" /\ rx.counter <= 0 /\ rx.busy >= FrameBits)
  PROVE  received' = received
<1>1. Written(rx) = <<>>
  BY DEF Written
<1> QED
  BY <1>1, RxFields, RxWords

LEMMA RxIdles ==
  ASSUME LinkType, NEW wr, NEW d, Devices(wr, d), rx.state = "RXIDLE", tx.line # 0
  PROVE  /\ rx'.state = "RXIDLE" /\ rx'.busy = rx.busy /\ rx'.data = rx.data
         /\ rx'.counter = rx.counter /\ received' = received
<1>1. RxTick(rx, tx.line) = [rx EXCEPT !.changectr = Changed(rx, tx.line), !.last = tx.line]
  BY DEF RxTick
<1> QED
  BY <1>1, RxFields, RxWords, RxKeeps

LEMMA RxStarts ==
  ASSUME LinkType, NEW wr, NEW d, Devices(wr, d), rx.state = "RXIDLE", tx.line = 0
  PROVE  /\ rx'.state = "RXDATA" /\ rx'.busy = 0 /\ rx'.data = <<>>
         /\ rx'.counter = Baud + Half - 1 - rx'.changectr /\ received' = received
<1>1. RxTick(rx, tx.line) =
        LET seen == [rx EXCEPT !.changectr = Changed(rx, tx.line), !.last = tx.line]
        IN  [seen EXCEPT !.state = "RXDATA", !.busy = 0, !.data = <<>>,
                !.counter = m_baud_counts + m_baud_counts \div 2 - 1 - seen.changectr]
  BY DEF RxTick
<1>2. rx'.state = "RXDATA" /\ rx'.busy = 0 /\ rx'.data = <<>>
  BY <1>1, RxFields, RxWords
<1>3. rx'.counter = m_baud_counts + m_baud_counts \div 2 - 1 - Changed(rx, tx.line)
  BY <1>1, RxFields, RxWords
<1>4. rx'.counter = Baud + Half - 1 - rx'.changectr
  BY <1>3, RxAlways, HalfBit
<1> QED
  BY <1>2, <1>4, RxKeeps

LEMMA RxCounts ==
  ASSUME LinkType, NEW wr, NEW d, Devices(wr, d), rx.state = "RXDATA", rx.counter > 0
  PROVE  /\ rx'.state = "RXDATA" /\ rx'.busy = rx.busy /\ rx'.data = rx.data
         /\ rx'.counter = rx.counter - 1 /\ received' = received
  BY DEF LinkType, Devices, RxTick, Written

LEMMA RxSamples ==
  ASSUME LinkType, NEW wr, NEW d, Devices(wr, d), rx.state = "RXDATA", rx.counter <= 0,
         rx.busy < FrameBits
  PROVE  /\ rx'.state = "RXDATA" /\ rx'.busy = rx.busy + 1
         /\ rx'.data = Append(rx.data, tx.line)
         /\ rx'.counter = Baud - 1 /\ received' = received
<1> ~(rx.busy >= FrameBits) /\ ~(rx.counter > 0)
  BY RxWords, HalfBit
<1>1. RxTick(rx, tx.line) =
        LET seen == [rx EXCEPT !.changectr = Changed(rx, tx.line), !.last = tx.line]
        IN  [seen EXCEPT !.busy = @ + 1, !.data = Append(@, tx.line),
                         !.counter = m_baud_counts - 1]
  BY DEF RxTick
<1>2. rx'.state = "RXDATA" /\ rx'.busy = rx.busy + 1
  BY <1>1, RxFields, RxWords
<1>3. rx'.data = Append(rx.data, tx.line)
  BY <1>1, RxFields, RxWords
<1>4. rx'.counter = Baud - 1
  BY <1>1, RxFields, RxWords, HalfBit
<1> QED
  BY <1>2, <1>3, <1>4, RxKeeps

LEMMA RxWrites ==
  ASSUME LinkType, NEW wr, NEW d, Devices(wr, d), rx.state = "RXDATA", rx.counter <= 0,
         rx.busy = FrameBits
  PROVE  /\ rx'.state = "RXIDLE" /\ rx'.busy = rx.busy /\ rx'.data = rx.data
         /\ rx'.counter = Baud - 1 /\ received' = Append(received, ByteOf(rx.data))
<1> rx.busy >= FrameBits /\ ~(rx.busy < FrameBits) /\ ~(rx.counter > 0)
  BY RxWords, HalfBit
<1>1. RxTick(rx, tx.line) =
        LET seen == [rx EXCEPT !.changectr = Changed(rx, tx.line), !.last = tx.line]
        IN  [seen EXCEPT !.state = "RXIDLE", !.counter = m_baud_counts - 1]
  BY DEF RxTick
<1>2. rx'.state = "RXIDLE"
  BY <1>1, RxFields, RxWords
<1>2a. rx'.busy = rx.busy
  BY <1>1, RxFields, RxWords
<1>2b. rx'.data = rx.data
  BY <1>1, RxFields, RxWords
<1>3. rx'.counter = Baud - 1
  BY <1>1, RxFields, RxWords, HalfBit
<1>4. Written(rx) = <<ByteOf(rx.data)>>
  BY DEF Written
<1>5. received' = received \o <<ByteOf(rx.data)>>
  BY <1>4, RxFields
<1>6. ByteOf(rx.data) \in Seq(Levels)
  BY RxWords, HalfBit DEF ByteOf, LinkType
<1>7. received' = Append(received, ByteOf(rx.data))
  BY <1>5, <1>6, RxWords
<1> QED
  BY <1>2, <1>2a, <1>2b, <1>3, <1>7

(* What has arrived, and the bits of the next byte. *)
LEMMA ArrivedKept ==
  ASSUME NEW r, NEW torn, NEW s \in Seq(Byte), NEW b \in Byte, NEW n \in 0..Len(s),
         Arrived(r, torn, s, n)
  PROVE  Arrived(r, torn, Append(s, b), n)
<1>1. \A i \in 1..n : Append(s, b)[i] = s[i]
  BY AppendProperties
<1> QED
  BY <1>1 DEF Arrived

LEMMA ArrivedMore ==
  ASSUME NEW r \in Seq(Seq(Levels)), NEW torn \in 0..1, NEW s \in Seq(Byte), NEW n \in 1..Len(s),
         NEW b \in Seq(Levels), b = s[n], Arrived(r, torn, s, n - 1)
  PROVE  Arrived(Append(r, b), torn, s, n)
<1>1. Len(r) = torn + n - 1 /\ Len(Append(r, b)) = torn + n
  BY AppendProperties DEF Arrived
<1>2. \A i \in 1..(n - 1) : torn + i \in 1..Len(r) /\ r[torn + i] = s[i]
  BY <1>1 DEF Arrived
<1>3. \A i \in 1..(n - 1) : Append(r, b)[torn + i] = s[i]
  BY <1>2, AppendProperties
<1>4. Append(r, b)[torn + n] = s[n]
  BY <1>1, AppendProperties
<1>5. \A i \in 1..n : i \in 1..(n - 1) \/ i = n
  OBVIOUS
<1> QED
  BY <1>1, <1>3, <1>4, <1>5 DEF Arrived

LEMMA WholeByte ==
  ASSUME NEW bits \in Seq(Levels), Len(bits) = FrameBits, NEW b \in Byte,
         Matches(FrameBits, bits, b)
  PROVE  ByteOf(bits) = b
<1> ByteOf(bits) = SubSeq(bits, 1, Bits)
  BY HalfBit DEF ByteOf
<1>1. /\ SubSeq(bits, 1, Bits) \in Seq(Levels) /\ Len(SubSeq(bits, 1, Bits)) = Bits
      /\ \A i \in 1..Bits : SubSeq(bits, 1, Bits)[i] = bits[i]
  BY SubSeqProperties, HalfBit
<1>2. b \in Seq(Levels) /\ Len(b) = Bits
  BY BytesAreSeqs
<1>3. \A i \in 1..Bits : bits[i] = b[i]
  BY HalfBit DEF Matches
<1> QED
  BY <1>1, <1>2, <1>3, SeqEqual

LEMMA NextBit ==
  ASSUME NEW bits \in Seq(Levels), NEW b, NEW v \in Levels,
         Matches(Len(bits), bits, b), Len(bits) + 1 <= Bits => v = b[Len(bits) + 1]
  PROVE  Matches(Len(bits) + 1, Append(bits, v), b)
<1>1. ASSUME NEW i \in 1..Bits, i <= Len(bits) PROVE Append(bits, v)[i] = b[i]
  BY <1>1, AppendProperties DEF Matches
<1>2. ASSUME NEW i \in 1..Bits, i = Len(bits) + 1 PROVE Append(bits, v)[i] = b[i]
  BY <1>2, AppendProperties
<1> QED
  BY <1>1, <1>2, HalfBit DEF Matches

LEMMA NoBits == \A bits, b : Matches(0, bits, b)
  BY HalfBit DEF Matches

LEMMA TxWords ==
  ASSUME LinkType
  PROVE  /\ tx = [state |-> tx.state, busy |-> tx.busy, counter |-> tx.counter, zero |-> tx.zero,
                  last |-> tx.last, data |-> tx.data, line |-> tx.line, setup |-> tx.setup]
         /\ tx.state \in 0..Idle /\ tx.counter \in Nat /\ tx.setup \in Nat
         /\ tx.data \in Byte /\ tx.line \in Levels
         /\ tx.zero <=> tx.counter = 0
         /\ sent \in Seq(Byte) /\ received \in Seq(Seq(Levels)) /\ Torn \in 0..1
         /\ Len(rx.data) = rx.busy
  BY DEF LinkType, Torn

(* Every register keeps its range. *)
LEMMA RxStays ==
  ASSUME LinkType, rx' = RxTick(rx, tx.line)
  PROVE  /\ rx' \in [state : {"RXIDLE", "RXDATA"}, counter : Int, busy : 0..FrameBits,
                     data : Seq(Levels), changectr : 0..ChangeCap, last : Levels]
         /\ rx'.counter <= Baud + Half - 1 /\ Len(rx'.data) = rx'.busy
<1> DEFINE seen == [rx EXCEPT !.changectr = Changed(rx, tx.line), !.last = tx.line]
           Fields == /\ rx'.state \in {"RXIDLE", "RXDATA"} /\ rx'.counter \in Int
                     /\ rx'.counter <= Baud + Half - 1 /\ rx'.busy \in 0..FrameBits
                     /\ rx'.data \in Seq(Levels) /\ Len(rx'.data) = rx'.busy
                     /\ rx'.changectr = Changed(rx, tx.line) /\ rx'.last = tx.line
<1> USE HalfBit
<1>a. rx.counter \in Int /\ rx.busy \in 0..FrameBits /\ rx.state \in {"RXIDLE", "RXDATA"}
  BY RxWords
<1>b. rx.data \in Seq(Levels) /\ Len(rx.data) = rx.busy /\ tx.line \in Levels
  BY RxWords, TxWords
<1>c. rx.counter <= Baud + Half - 1
  BY DEF LinkType
<1>d. Changed(rx, tx.line) \in 0..ChangeCap
  BY DEF LinkType, Changed
<1>1. ASSUME rx.state = "RXIDLE", tx.line # 0 PROVE Fields
  <2>1. rx' = seen
    BY <1>1 DEF RxTick
  <2>2. /\ rx'.state = rx.state /\ rx'.busy = rx.busy /\ rx'.data = rx.data
        /\ rx'.counter = rx.counter
        /\ rx'.changectr = Changed(rx, tx.line) /\ rx'.last = tx.line
    BY <2>1, RxWords
  <2> QED
    BY <1>a, <1>b, <1>c, <2>2
<1>2. ASSUME rx.state = "RXIDLE", tx.line = 0 PROVE Fields
  <2>1. rx' = [seen EXCEPT !.state = "RXDATA", !.busy = 0, !.data = <<>>,
                 !.counter = m_baud_counts + m_baud_counts \div 2 - 1 - seen.changectr]
    BY <1>2 DEF RxTick
  <2>2. /\ rx'.state = "RXDATA" /\ rx'.busy = 0 /\ rx'.data = <<>>
        /\ rx'.counter = m_baud_counts + m_baud_counts \div 2 - 1 - Changed(rx, tx.line)
        /\ rx'.changectr = Changed(rx, tx.line) /\ rx'.last = tx.line
    BY <2>1, RxWords
  <2>3. rx'.counter \in Int /\ rx'.counter <= Baud + Half - 1
    BY <1>d, <2>2
  <2>4. rx'.data \in Seq(Levels) /\ Len(rx'.data) = rx'.busy
    BY <2>2, EmptySeq
  <2> QED
    BY <2>2, <2>3, <2>4
<1>3. ASSUME rx.state = "RXDATA", rx.counter <= 0, rx.busy >= FrameBits PROVE Fields
  <2>1. rx' = [seen EXCEPT !.state = "RXIDLE", !.counter = m_baud_counts - 1]
    BY <1>a, <1>3 DEF RxTick
  <2>2. /\ rx'.state = "RXIDLE" /\ rx'.busy = rx.busy /\ rx'.data = rx.data
        /\ rx'.counter = Baud - 1
        /\ rx'.changectr = Changed(rx, tx.line) /\ rx'.last = tx.line
    BY <2>1, RxWords
  <2>3. Baud - 1 \in Int /\ Baud - 1 <= Baud + Half - 1
    OBVIOUS
  <2> QED
    BY <1>a, <1>b, <2>2, <2>3
<1>4. ASSUME rx.state = "RXDATA", rx.counter <= 0, rx.busy < FrameBits PROVE Fields
  <2>1. rx' = [seen EXCEPT !.busy = @ + 1, !.data = Append(@, tx.line),
                           !.counter = m_baud_counts - 1]
    BY <1>a, <1>4 DEF RxTick
  <2>2. /\ rx'.state = "RXDATA" /\ rx'.busy = rx.busy + 1 /\ rx'.data = Append(rx.data, tx.line)
        /\ rx'.counter = Baud - 1
        /\ rx'.changectr = Changed(rx, tx.line) /\ rx'.last = tx.line
    BY <1>4, <2>1, RxWords
  <2>3. Append(rx.data, tx.line) \in Seq(Levels) /\ Len(Append(rx.data, tx.line)) = rx.busy + 1
    BY <1>b, AppendProperties
  <2>4. Baud - 1 \in Int /\ Baud - 1 <= Baud + Half - 1 /\ rx.busy + 1 \in 0..FrameBits
    BY <1>a, <1>4
  <2> QED
    BY <2>2, <2>3, <2>4
<1>5. ASSUME rx.state = "RXDATA", rx.counter > 0 PROVE Fields
  <2>1. rx' = [seen EXCEPT !.counter = @ - 1]
    BY <1>a, <1>5 DEF RxTick
  <2>2. /\ rx'.state = "RXDATA" /\ rx'.busy = rx.busy /\ rx'.data = rx.data
        /\ rx'.counter = rx.counter - 1
        /\ rx'.changectr = Changed(rx, tx.line) /\ rx'.last = tx.line
    BY <1>5, <2>1, RxWords
  <2>3. rx.counter - 1 \in Int /\ rx.counter - 1 <= Baud + Half - 1
    BY <1>a, <1>c
  <2> QED
    BY <1>a, <1>b, <2>2, <2>3
<1>6. Fields
  BY <1>1, <1>2, <1>3, <1>4, <1>5, <1>a
<1>7. rx' = [state |-> rx'.state, counter |-> rx'.counter, busy |-> rx'.busy, data |-> rx'.data,
             changectr |-> rx'.changectr, last |-> rx'.last]
  BY RxWords DEF RxTick
<1>8. rx'.changectr \in 0..ChangeCap /\ rx'.last \in Levels
  BY <1>b, <1>d, <1>6
<1> QED
  BY <1>6, <1>7, <1>8

LEMMA RxTyped ==
  ASSUME LinkType, NEW wr, NEW d, Devices(wr, d)
  PROVE  /\ rx' \in [state : {"RXIDLE", "RXDATA"}, counter : Int, busy : 0..FrameBits,
                     data : Seq(Levels), changectr : 0..ChangeCap, last : Levels]
         /\ rx'.counter <= Baud + Half - 1 /\ Len(rx'.data) = rx'.busy
         /\ received' \in Seq(Seq(Levels))
<1>1. received \in Seq(Seq(Levels)) /\ rx.data \in Seq(Levels) /\ Len(rx.data) = rx.busy
      /\ rx.busy \in 0..FrameBits
  BY RxWords, TxWords
<1>2. CASE rx.state = "RXDATA" /\ rx.counter <= 0 /\ rx.busy >= FrameBits
  <2>1. received' = received \o <<ByteOf(rx.data)>>
    BY <1>2, RxFields DEF Written
  <2>2. ByteOf(rx.data) \in Seq(Levels)
    BY <1>1, <1>2, SubSeqProperties, HalfBit DEF ByteOf
  <2>3. received' \in Seq(Seq(Levels))
    BY <1>1, <2>1, <2>2
  <2> QED
    BY <2>3, RxFields, RxStays
<1>3. CASE ~(rx.state = "RXDATA" /\ rx.counter <= 0 /\ rx.busy >= FrameBits)
  BY <1>1, <1>3, RxKeeps, RxFields, RxStays
<1> QED
  BY <1>2, <1>3

LEMMA LinkTyped ==
  ASSUME LinkInv, NEW wr \in BOOLEAN, NEW d \in Byte, Link(wr, d)
  PROVE  LinkType'
<1> USE HalfBit
<1>1. LinkType /\ Devices(wr, d) /\ (tx.state = Idle \/ tx.setup = Baud)
  BY DEF LinkInv, Link, Waiting, Resting, InFrame
<1>2. /\ tx' = [state |-> tx'.state, busy |-> tx'.busy, counter |-> tx'.counter, zero |-> tx'.zero,
                last |-> tx'.last, data |-> tx'.data, line |-> tx'.line, setup |-> tx'.setup]
      /\ tx'.busy \in BOOLEAN /\ tx'.zero \in BOOLEAN /\ tx'.last \in BOOLEAN
  BY <1>1 DEF Devices, TxClock
<1>3. /\ tx'.state \in 0..Idle /\ tx'.counter \in Nat /\ tx'.setup \in Nat
      /\ tx'.data \in Byte /\ tx'.line \in Levels
      /\ tx'.zero <=> tx'.counter = 0
  <2> USE <1>1
  <2>0. /\ tx.state \in 0..Idle /\ tx.counter \in Nat /\ tx.setup \in Nat
        /\ tx.data \in Byte /\ tx.line \in Levels
    BY TxWords
  <2>z. tx.zero <=> tx.counter = 0
    BY TxWords
  <2>1. CASE tx.busy /\ ~tx.zero
    <3>1. /\ tx'.state = tx.state /\ tx'.counter = tx.counter - 1
          /\ tx'.line = tx.line /\ tx'.data = tx.data /\ tx'.setup = tx.setup
      BY <2>1, TxKeeps
    <3>2. tx'.zero <=> tx.counter = 1
      BY <2>1, TxKeeps
    <3>3. tx.counter > 0
      BY <2>0, <2>1, <2>z
    <3>4. tx'.zero <=> tx'.counter = 0
      BY <2>0, <3>1, <3>2
    <3>5. tx'.counter \in Nat
      BY <2>0, <3>1, <3>3
    <3> QED
      BY <2>0, <3>1, <3>4, <3>5
  <2>2. CASE tx.busy /\ tx.zero /\ tx.state # Idle
    <3>1. /\ tx'.state = tx.state + 1 /\ ~tx'.zero
          /\ tx'.counter = IF tx.last THEN tx.setup - 2 ELSE tx.setup - 1
          /\ tx'.line = (IF tx.state < Bits THEN tx.data[1] ELSE 1)
          /\ tx'.data = Shifted(tx.data) /\ tx'.setup = tx.setup
      BY <2>2, TxMoves
    <3>2. tx.data[1] \in Levels /\ 1 \in Levels
      <4>1. 1 \in 1..Bits /\ tx.data \in [1..Bits -> Levels]
        BY <2>0 DEF Byte
      <4> QED
        BY <4>1 DEF Levels
    <3>3. tx'.counter \in Nat /\ tx'.counter # 0
      BY <3>1, <2>2, <2>0
    <3>4. tx'.state \in 0..Idle /\ tx'.setup \in Nat
      BY <3>1, <2>2, <2>0
    <3>5. tx'.data \in Byte /\ tx'.line \in Levels
      BY <3>1, <3>2, <2>0, ShiftedType
    <3> QED
      BY <3>1, <3>3, <3>4, <3>5
  <2>3. CASE ~tx.busy \/ (tx.zero /\ tx.state = Idle)
    <3>0. tx.zero /\ tx.state = Idle
      BY <2>3 DEF LinkInv, Waiting, Resting, InFrame
    <3>1. CASE Accepts(tx, wr)
      <4>1. /\ tx'.state = 0 /\ ~tx'.zero /\ tx'.line = 0 /\ tx'.counter = Baud - 1
            /\ tx'.data = d /\ tx'.setup = Baud
        BY <3>0, <3>1, TxStarts
      <4> QED
        BY <4>1 DEF Levels
    <3>2. CASE ~Accepts(tx, wr)
      <4>1. /\ tx'.state = Idle /\ tx'.zero /\ tx'.line = 1 /\ tx'.counter = 0
            /\ tx'.data \in Byte /\ tx'.setup \in Nat
        BY <3>0, <3>2, TxRests
      <4> QED
        BY <4>1 DEF Levels
    <3> QED
      BY <3>1, <3>2
  <2> QED
    BY <2>1, <2>2, <2>3
<1>4. sent' \in Seq(Byte) /\ cut' \in BOOLEAN
  <2>1. Append(sent, d) \in Seq(Byte) /\ sent \in Seq(Byte)
    BY <1>1, TxWords, AppendProperties
  <2>2. cut \in BOOLEAN /\ cut' = cut
    BY <1>1 DEF LinkType, Link
  <2> QED
    BY <2>1, <2>2 DEF Link
<1>5. /\ rx' \in [state : {"RXIDLE", "RXDATA"}, counter : Int, busy : 0..FrameBits,
                  data : Seq(Levels), changectr : 0..ChangeCap, last : Levels]
      /\ rx'.counter <= Baud + Half - 1 /\ Len(rx'.data) = rx'.busy
      /\ received' \in Seq(Seq(Levels))
  BY <1>1, RxTyped
<1>6. tx' \in [state : 0..Idle, busy : BOOLEAN, counter : Nat, zero : BOOLEAN, last : BOOLEAN,
               data : Byte, line : Levels, setup : Nat]
  BY <1>2, <1>3
<1> QED
  BY <1>3, <1>4, <1>5, <1>6 DEF LinkType

(* The wait after a reset, and the UART at rest. *)
LEMMA SameBytes ==
  ASSUME NEW wr, NEW d, Link(wr, d), ~Accepts(tx, wr)
  PROVE  sent' = sent /\ Torn' = Torn /\ cut' = cut /\ Devices(wr, d)
  BY DEF Link, Torn

LEMMA Product == \A k \in 0..FrameBits : /\ k * Baud \in Nat
                                         /\ k > 0 => k * Baud >= Baud
                                         /\ k > 0 => (k - 1) * Baud = k * Baud - Baud
<1> SUFFICES ASSUME NEW k \in 0..FrameBits
             PROVE  /\ k * Baud \in Nat
                    /\ k > 0 => k * Baud >= Baud
                    /\ k > 0 => (k - 1) * Baud = k * Baud - Baud
  OBVIOUS
<1>1. k \in 0..9 /\ Baud \in Nat
  BY HalfBit, LinkAssumption
<1> QED
  BY <1>1

LEMMA WaitingStep ==
  ASSUME LinkType, NEW wr \in BOOLEAN, NEW d \in Byte, Link(wr, d), Waiting
  PROVE  Waiting' \/ Resting'
<1> USE HalfBit
<1>0. tx.state = Idle /\ tx.busy /\ tx.line = 1 /\ sent = <<>> /\ ~Accepts(tx, wr)
  BY DEF Waiting, Accepts
<1>1. sent' = <<>> /\ Torn' = Torn /\ cut' = cut /\ Devices(wr, d)
  BY <1>0, SameBytes
<1>2. tx.counter \in Nat /\ received \in Seq(Seq(Levels)) /\ rx.counter \in Int
      /\ rx.busy \in 0..FrameBits /\ rx.data \in Seq(Levels) /\ Len(rx.data) = rx.busy
  BY TxWords, RxWords
<1>3. \/ rx.state = "RXIDLE" /\ Delivered(0)
      \/ /\ cut /\ received = <<>> /\ rx.state = "RXDATA"
         /\ (FrameBits - rx.busy) * Baud <= tx.counter
         /\ (FrameBits - rx.busy) * Baud + rx.counter <= tx.counter
  BY DEF Waiting
<1>4. ASSUME rx.state = "RXIDLE", Delivered(0) PROVE rx'.state = "RXIDLE" /\ Delivered(0)'
  <2>1. rx'.state = "RXIDLE" /\ received' = received
    BY <1>0, <1>1, <1>4, RxIdles
  <2> QED
    BY <1>0, <1>1, <1>4, <2>1 DEF Delivered
<1>5. ASSUME cut, received = <<>>, rx.state = "RXDATA", rx.counter <= 0, rx.busy = FrameBits
      PROVE  rx'.state = "RXIDLE" /\ Delivered(0)'
  <2>1. rx'.state = "RXIDLE" /\ received' = Append(received, ByteOf(rx.data))
    BY <1>1, <1>5, RxWrites
  <2>2. Len(received') = 1
    BY <1>5, <2>1
  <2>3. Torn' = 1
    BY <1>1, <1>5 DEF Torn
  <2> QED
    BY <2>1, <2>2, <2>3 DEF Delivered, Arrived
<1>6. CASE ~tx.zero
  <2>1. tx'.state = Idle /\ tx'.counter = tx.counter - 1 /\ tx'.line = 1
    BY <1>0, <1>1, <1>6, TxKeeps
  <2>2. tx'.busy
    BY <1>0, <1>1, <1>6, TxKeeps
  <2>3. CASE rx.state = "RXIDLE"
    BY <1>1, <1>3, <1>4, <2>1, <2>2, <2>3 DEF Waiting
  <2>4. CASE rx.state = "RXDATA" /\ rx.counter > 0
    <3>1. rx'.state = "RXDATA" /\ rx'.busy = rx.busy /\ rx'.counter = rx.counter - 1
          /\ received' = received
      BY <1>1, <2>4, RxCounts
    <3>2. FrameBits - rx.busy \in 0..FrameBits
      BY <1>2
    <3>3. (FrameBits - rx.busy) * Baud \in Nat
      BY <3>2, Product
    <3>4. /\ (FrameBits - rx.busy) * Baud <= tx.counter - 1
          /\ (FrameBits - rx.busy) * Baud + (rx.counter - 1) <= tx.counter - 1
      BY <1>2, <1>3, <2>4, <3>3
    <3>5. /\ (FrameBits - rx'.busy) * Baud <= tx'.counter
          /\ (FrameBits - rx'.busy) * Baud + rx'.counter <= tx'.counter
      BY <2>1, <3>1, <3>4
    <3> QED
      BY <1>1, <1>3, <2>1, <2>2, <2>4, <3>1, <3>5 DEF Waiting
  <2>5. CASE rx.state = "RXDATA" /\ rx.counter <= 0 /\ rx.busy < FrameBits
    <3>1. rx'.state = "RXDATA" /\ rx'.busy = rx.busy + 1 /\ rx'.counter = Baud - 1
          /\ received' = received
      BY <1>1, <2>5, RxSamples
    <3> DEFINE k == FrameBits - rx.busy
    <3>2. k \in 0..FrameBits /\ k > 0 /\ FrameBits - rx'.busy = k - 1
      BY <1>2, <2>5, <3>1
    <3>3. k * Baud \in Nat /\ (k - 1) * Baud = k * Baud - Baud
      BY <3>2, Product
    <3>4. k * Baud <= tx.counter
      BY <1>3, <2>5
    <3> HIDE DEF k
    <3>5. (k - 1) * Baud <= tx.counter - 1 /\ (k - 1) * Baud + (Baud - 1) <= tx.counter - 1
      BY <1>2, <3>3, <3>4
    <3>6. /\ (FrameBits - rx'.busy) * Baud <= tx'.counter
          /\ (FrameBits - rx'.busy) * Baud + rx'.counter <= tx'.counter
      BY <2>1, <3>1, <3>2, <3>5
    <3> QED
      BY <1>1, <1>3, <2>1, <2>2, <2>5, <3>1, <3>6 DEF Waiting
  <2>6. CASE rx.state = "RXDATA" /\ rx.counter <= 0 /\ rx.busy = FrameBits
    BY <1>1, <1>3, <1>5, <2>1, <2>2, <2>6 DEF Waiting
  <2> QED
    BY <1>2, <1>3, <2>3, <2>4, <2>5, <2>6
<1>7. CASE tx.zero
  <2>1. tx'.state = Idle /\ tx'.line = 1
    BY <1>0, <1>1, <1>7, TxRests
  <2>2. ~tx'.busy
    BY <1>0, <1>1, <1>7, TxRests
  <2>3. tx'.zero
    BY <1>0, <1>1, <1>7, TxRests
  <2>4. rx'.state = "RXIDLE" /\ Delivered(0)'
    <3>1. CASE rx.state = "RXIDLE"
      BY <1>3, <1>4, <3>1
    <3>2. CASE rx.state = "RXDATA"
      <4> DEFINE k == FrameBits - rx.busy
      <4>1. tx.counter = 0
        BY <1>7, TxWords
      <4>2. k \in 0..FrameBits /\ k * Baud <= 0 /\ k * Baud + rx.counter <= 0
        BY <1>2, <1>3, <3>2, <4>1
      <4>3. k * Baud \in Nat /\ (k > 0 => k * Baud >= Baud)
        BY <4>2, Product
      <4> HIDE DEF k
      <4>4. k = 0 /\ k * Baud = 0 /\ rx.counter <= 0
        BY <1>2, <4>2, <4>3
      <4>5. rx.busy = FrameBits
        BY <1>2, <4>4 DEF k
      <4> QED
        BY <1>3, <1>5, <3>2, <4>4, <4>5
    <3> QED
      BY <1>3, <3>1, <3>2
  <2>5. Len(sent') = 0
    BY <1>1
  <2>6. Delivered(Len(sent))'
    BY <2>4, <2>5 DEF Delivered
  <2> QED
    BY <2>1, <2>2, <2>3, <2>4, <2>6 DEF Resting
<1> QED
  BY <1>6, <1>7

LEMMA FrameEnds ==
  ASSUME LinkType, NEW wr, NEW d, Devices(wr, d), rx.state = "RXDATA", rx.busy = FrameBits,
         rx.counter <= 0, NEW n \in 1..Len(sent), Delivered(n - 1), Holds(n)
  PROVE  rx'.state = "RXIDLE" /\ Arrived(received', Torn, sent, n)
<1>1. rx'.state = "RXIDLE" /\ received' = Append(received, ByteOf(rx.data))
  BY RxWrites
<1>2. sent \in Seq(Byte) /\ received \in Seq(Seq(Levels)) /\ Torn \in 0..1
      /\ rx.data \in Seq(Levels) /\ Len(rx.data) = FrameBits
  BY TxWords, RxWords
<1>3. sent[n] \in Byte
  BY <1>2, ElementOfSeq
<1>4. ByteOf(rx.data) = sent[n]
  BY <1>2, <1>3, WholeByte DEF Holds
<1>5. ByteOf(rx.data) \in Seq(Levels)
  BY <1>3, <1>4, BytesAreSeqs
<1> QED
  BY <1>1, <1>2, <1>4, <1>5, ArrivedMore DEF Delivered

LEMMA RestingStep ==
  ASSUME LinkType, NEW wr \in BOOLEAN, NEW d \in Byte, Link(wr, d), Resting
  PROVE  Resting' \/ InFrame'
<1> USE HalfBit
<1>0. tx.state = Idle /\ ~tx.busy /\ tx.zero /\ tx.line = 1 /\ Devices(wr, d)
  BY DEF Resting, Link
<1>1. Torn' = Torn /\ sent \in Seq(Byte) /\ rx.counter \in Int /\ Len(sent) \in Nat
  BY TxWords, RxWords DEF Torn, Link
<1>2. rx'.last = 1
  BY <1>0, RxAlways
<1>3. \/ rx.state = "RXIDLE" /\ Delivered(Len(sent))
      \/ /\ rx.state = "RXDATA" /\ rx.busy = FrameBits
         /\ 0 <= rx.counter /\ rx.counter <= Half + 1
         /\ sent # <<>> /\ Delivered(Len(sent) - 1) /\ Holds(Len(sent))
  BY DEF Resting
<1>4. \/ rx'.state = "RXIDLE" /\ Arrived(received', Torn, sent, Len(sent))
      \/ /\ rx'.state = "RXDATA" /\ rx'.busy = FrameBits
         /\ 0 <= rx'.counter /\ rx'.counter <= Half
         /\ Len(sent) > 0 /\ Arrived(received', Torn, sent, Len(sent) - 1)
         /\ Matches(rx'.busy, rx'.data, sent[Len(sent)])
  <2>1. CASE rx.state = "RXIDLE"
    <3>1. rx'.state = "RXIDLE" /\ received' = received
      BY <1>0, <2>1, RxIdles
    <3> QED
      BY <1>3, <2>1, <3>1 DEF Delivered
  <2>2. CASE rx.state = "RXDATA" /\ rx.counter > 0
    <3>1. rx'.state = "RXDATA" /\ rx'.busy = rx.busy /\ rx'.data = rx.data
          /\ rx'.counter = rx.counter - 1 /\ received' = received
      BY <1>0, <2>2, RxCounts
    <3>2. 0 <= rx'.counter /\ rx'.counter <= Half
      BY <1>1, <1>3, <2>2, <3>1
    <3>3. Len(sent) > 0
      BY <1>1, <1>3, <2>2, EmptySeq
    <3> QED
      BY <1>3, <2>2, <3>1, <3>2, <3>3 DEF Delivered, Holds
  <2>3. CASE rx.state = "RXDATA" /\ rx.counter <= 0
    <3>1. Len(sent) \in 1..Len(sent)
      BY <1>1, <1>3, <2>3, EmptySeq
    <3> QED
      BY <1>0, <1>3, <2>3, <3>1, FrameEnds
  <2> QED
    BY <1>1, <1>3, <2>1, <2>2, <2>3
<1>5. CASE ~Accepts(tx, wr)
  <2>1. tx'.state = Idle /\ tx'.line = 1
    BY <1>0, <1>5, TxRests
  <2>2. ~tx'.busy
    BY <1>0, <1>5, TxRests
  <2>3. tx'.zero
    BY <1>0, <1>5, TxRests
  <2>4. sent' = sent
    BY <1>5 DEF Link
  <2>5. Len(sent) > 0 => sent # <<>>
    BY EmptySeq
  <2>6. rx'.counter <= Half => rx'.counter <= Half + 1
    <3>1. rx'.counter \in Int
      BY <1>0, RxTyped
    <3> QED
      BY <3>1
  <2> QED
    BY <1>1, <1>4, <2>1, <2>2, <2>3, <2>4, <2>5, <2>6 DEF Resting, Delivered, Holds
<1>6. CASE Accepts(tx, wr)
  <2>1. /\ tx'.state = 0 /\ tx'.line = 0 /\ tx'.counter = Baud - 1
        /\ tx'.data = d /\ tx'.setup = Baud
    BY <1>0, <1>6, TxStarts
  <2>2. tx'.busy
    BY <1>0, <1>6, TxStarts
  <2>3. ~tx'.last
    BY <1>0, <1>6, TxStarts
  <2>4. sent' = Append(sent, d) /\ sent' \in Seq(Byte) /\ Len(sent') = Len(sent) + 1
        /\ sent'[Len(sent')] = d /\ sent' # <<>>
        /\ (Len(sent) > 0 => sent'[Len(sent)] = sent[Len(sent)])
    BY <1>1, <1>6, AppendProperties DEF Link
  <2>5. Age' = 0
    BY <2>1 DEF Age
  <2>6. EdgeSeen'
    BY <1>2, <2>5 DEF EdgeSeen
  <2>7. \A i \in 1..Bits : i + tx'.state <= Bits => tx'.data[i] = sent'[Len(sent')][i + tx'.state]
    BY <2>1, <2>4
  <2>8. tx'.state < Stop /\ tx'.state # Stop
    BY <2>1 DEF Stop
  <2>9. \/ /\ tx'.state = 0 /\ rx'.state = "RXIDLE" /\ Age' <= Half + 1 /\ EdgeSeen'
           /\ Delivered(Len(sent) - 1)'
        \/ /\ tx'.state = 0 /\ rx'.state = "RXDATA" /\ EdgeSeen'
           /\ rx'.busy = FrameBits /\ 0 <= rx'.counter /\ rx'.counter + Age' <= Half
           /\ Len(sent') > 1 /\ Delivered(Len(sent) - 2)' /\ Holds(Len(sent) - 1)'
    <3>1. CASE rx'.state = "RXIDLE" /\ Arrived(received', Torn, sent, Len(sent))
      <4>1. Arrived(received', Torn, Append(sent, d), Len(sent))
        BY <1>1, <3>1, ArrivedKept
      <4>2. Len(sent') - 1 = Len(sent)
        BY <1>1, <2>4
      <4>3. Delivered(Len(sent) - 1)'
        BY <1>1, <2>4, <4>1, <4>2 DEF Delivered
      <4> QED
        BY <2>1, <2>5, <2>6, <3>1, <4>3
    <3>2. CASE /\ rx'.state = "RXDATA" /\ rx'.busy = FrameBits
               /\ 0 <= rx'.counter /\ rx'.counter <= Half
               /\ Len(sent) > 0 /\ Arrived(received', Torn, sent, Len(sent) - 1)
               /\ Matches(rx'.busy, rx'.data, sent[Len(sent)])
      <4>1. Arrived(received', Torn, Append(sent, d), Len(sent) - 1)
        BY <1>1, <3>2, ArrivedKept
      <4>2. Len(sent') - 2 = Len(sent) - 1 /\ Len(sent') - 1 = Len(sent) /\ Len(sent') > 1
        BY <1>1, <2>4, <3>2
      <4>3. Delivered(Len(sent) - 2)'
        BY <1>1, <2>4, <4>1, <4>2 DEF Delivered
      <4>4. Holds(Len(sent) - 1)'
        BY <2>4, <3>2, <4>2 DEF Holds
      <4>5. rx'.counter + Age' <= Half
        <5>1. rx'.counter \in Int
          BY <1>0, RxTyped
        <5> QED
          BY <2>5, <3>2, <5>1
      <4> QED
        BY <2>1, <2>6, <3>2, <4>2, <4>3, <4>4, <4>5
    <3> QED
      BY <1>4, <3>1, <3>2
  <2>10. tx'.line = IF tx'.state = 0 THEN 0
                    ELSE IF tx'.state = Idle THEN 1 ELSE sent'[Len(sent')][tx'.state]
    BY <2>1
  <2> QED
    BY <2>1, <2>2, <2>3, <2>4, <2>5, <2>7, <2>8, <2>9, <2>10 DEF InFrame
<1> QED
  BY <1>5, <1>6

(* A frame on the line. *)
LEMMA FrameTypes ==
  ASSUME LinkType, InFrame, NEW wr, NEW d, Link(wr, d)
  PROVE  /\ tx.busy /\ ~Accepts(tx, wr) /\ tx.setup = Baud /\ Age \in 0..(Baud - 1)
         /\ Age = (IF tx.state = Idle THEN Baud - 2 ELSE Baud - 1) - tx.counter
         /\ tx.state \in 0..Idle /\ tx.counter \in Nat /\ sent \in Seq(Byte)
         /\ Len(sent) \in Nat /\ Len(sent) >= 1 /\ sent # <<>>
         /\ sent' = sent /\ Torn' = Torn /\ Devices(wr, d)
         /\ rx.counter \in Int /\ rx.busy \in 0..FrameBits
         /\ rx.data \in Seq(Levels) /\ Len(rx.data) = rx.busy /\ tx.line \in Levels
<1>1. tx.busy /\ tx.setup = Baud /\ 0 <= Age /\ sent # <<>>
  BY DEF InFrame
<1>2. ~Accepts(tx, wr)
  BY <1>1 DEF Accepts
<1>3. tx.state \in 0..Idle /\ tx.counter \in Nat /\ sent \in Seq(Byte)
  BY TxWords
<1>4. Age \in 0..(Baud - 1) /\ Age = (IF tx.state = Idle THEN Baud - 2 ELSE Baud - 1) - tx.counter
  BY <1>1, <1>3, HalfBit DEF Age
<1>5. Len(sent) \in Nat /\ Len(sent) >= 1
  BY <1>1, <1>3, EmptySeq
<1> QED
  BY <1>1, <1>2, <1>3, <1>4, <1>5, SameBytes, RxWords, TxWords

LEMMA EdgeAges ==
  ASSUME LinkType, NEW wr, NEW d, Devices(wr, d), tx.line = 0, Age \in 0..(Baud - 1), EdgeSeen
  PROVE  rx'.last = 0 /\ rx'.changectr = Age
<1>1. rx'.last = 0 /\ rx'.changectr = Changed(rx, 0)
  BY RxAlways
<1>2. CASE Age = 0
  BY <1>1, <1>2 DEF EdgeSeen, Changed
<1>3. CASE Age > 0
  <2>1. rx.last # 1 /\ rx.changectr = Age - 1 /\ Age - 1 < ChangeCap /\ Age \in Int
    BY <1>3, HalfBit DEF EdgeSeen
  <2> QED
    BY <1>1, <2>1 DEF Changed
<1> QED
  BY <1>2, <1>3

\* The line while the far end still looks for the start bit, or is within it.
LEMMA FrameStarts ==
  ASSUME LinkType, InFrame, NEW wr, NEW d, Link(wr, d), rx.state = "RXIDLE",
         tx.state = 0, EdgeSeen, Delivered(Len(sent) - 1)
  PROVE  /\ rx'.state = "RXDATA" /\ rx'.busy = 0 /\ rx'.counter = Baud + Half - 1 - Age
         /\ Arrived(received', Torn, sent, Len(sent) - 1)
         /\ Matches(rx'.busy, rx'.data, sent[Len(sent)])
<1>1. tx.line = 0
  BY HalfBit DEF InFrame
<1>2. Devices(wr, d) /\ Age \in 0..(Baud - 1)
  BY FrameTypes
<1>3. rx'.state = "RXDATA" /\ rx'.busy = 0 /\ received' = received
      /\ rx'.counter = Baud + Half - 1 - rx'.changectr
  BY <1>1, <1>2, RxStarts
<1>4. rx'.changectr = Age
  BY <1>1, <1>2, EdgeAges
<1> QED
  BY <1>3, <1>4, NoBits DEF Delivered

\* The line while the far end receives the frame.
LEMMA FrameSampled ==
  ASSUME LinkType, InFrame, NEW wr, NEW d, Link(wr, d), rx.state = "RXDATA",
         Delivered(Len(sent) - 1), Holds(Len(sent)),
         IF tx.state > 0 /\ Age <= Half
         THEN rx.busy = tx.state - 1 /\ rx.counter = Half - Age
         ELSE rx.busy = tx.state /\ rx.counter = Baud + Half - Age
  PROVE  /\ rx'.state = "RXDATA"
         /\ IF tx.state > 0 /\ Age + 1 <= Half
            THEN rx'.busy = tx.state - 1 /\ rx'.counter = Half - (Age + 1)
            ELSE rx'.busy = tx.state /\ rx'.counter = Baud + Half - (Age + 1)
         /\ Arrived(received', Torn, sent, Len(sent) - 1)
         /\ Matches(rx'.busy, rx'.data, sent[Len(sent)])
<1> USE HalfBit
<1>0. Devices(wr, d) /\ Age \in 0..(Baud - 1) /\ tx.state \in 0..Idle /\ rx.counter \in Int
  BY FrameTypes
<1>1. CASE tx.state > 0 /\ Age = Half
  <2>1. rx.busy = tx.state - 1 /\ rx.counter <= 0 /\ rx.busy < FrameBits
    BY <1>0, <1>1
  <2>2. rx'.state = "RXDATA" /\ rx'.busy = rx.busy + 1 /\ rx'.data = Append(rx.data, tx.line)
        /\ rx'.counter = Baud - 1 /\ received' = received
    BY <1>0, <2>1, RxSamples
  <2>3. rx'.busy = tx.state /\ rx'.counter = Baud + Half - (Age + 1) /\ ~(Age + 1 <= Half)
    BY <1>0, <1>1, <2>1, <2>2
  <2>4. tx.state <= Bits => tx.line = sent[Len(sent)][tx.state]
    BY <1>0, <1>1 DEF InFrame
  <2>5. Matches(rx.busy + 1, rx'.data, sent[Len(sent)])
    <3>1. rx.data \in Seq(Levels) /\ Len(rx.data) = rx.busy /\ tx.line \in Levels
      BY FrameTypes
    <3>2. Len(rx.data) + 1 <= Bits => tx.line = sent[Len(sent)][Len(rx.data) + 1]
      BY <1>0, <2>1, <2>4, <3>1
    <3>3. Matches(Len(rx.data), rx.data, sent[Len(sent)])
      BY <3>1 DEF Holds
    <3> QED
      BY <2>2, <3>1, <3>2, <3>3, NextBit
  <2> QED
    BY <2>2, <2>3, <2>5 DEF Delivered
<1>2. CASE ~(tx.state > 0 /\ Age = Half)
  <2>1. rx.counter > 0
    BY <1>0, <1>2
  <2>2. rx'.state = "RXDATA" /\ rx'.busy = rx.busy /\ rx'.data = rx.data
        /\ rx'.counter = rx.counter - 1 /\ received' = received
    BY <1>0, <2>1, RxCounts
  <2>3. IF tx.state > 0 /\ Age + 1 <= Half
        THEN rx'.busy = tx.state - 1 /\ rx'.counter = Half - (Age + 1)
        ELSE rx'.busy = tx.state /\ rx'.counter = Baud + Half - (Age + 1)
    BY <1>0, <1>2, <2>2
  <2> QED
    BY <2>2, <2>3 DEF Delivered, Holds
<1> QED
  BY <1>1, <1>2

LEMMA FrameCounts ==
  ASSUME LinkType, InFrame, NEW wr \in BOOLEAN, NEW d \in Byte, Link(wr, d), ~tx.zero
  PROVE  InFrame'
<1> USE HalfBit
<1>1. /\ Devices(wr, d) /\ tx.setup = Baud /\ Age \in 0..(Baud - 1)
      /\ Age = (IF tx.state = Idle THEN Baud - 2 ELSE Baud - 1) - tx.counter
      /\ tx.state \in 0..Idle /\ tx.counter \in Nat /\ sent \in Seq(Byte)
      /\ Len(sent) \in Nat /\ Len(sent) >= 1 /\ sent # <<>>
      /\ sent' = sent /\ Torn' = Torn /\ rx.counter \in Int
  BY FrameTypes
<1>2. tx.busy /\ tx.counter > 0
  <2>1. tx.counter # 0
    BY TxWords
  <2> QED
    BY <1>1, <2>1, FrameTypes
<1>3. /\ tx'.state = tx.state /\ tx'.counter = tx.counter - 1 /\ tx'.line = tx.line
      /\ tx'.data = tx.data /\ tx'.setup = tx.setup
  BY <1>1, <1>2, TxKeeps
<1>4. tx'.busy /\ (tx'.last <=> tx.state = Stop)
  BY <1>1, <1>2, TxKeeps
<1>5. Age' = Age + 1
  BY <1>1, <1>3 DEF Age
<1>6. tx.line = 0 /\ EdgeSeen => EdgeSeen'
  <2>1. Age' # 0 /\ Age' - 1 = Age
    BY <1>1, <1>5
  <2> QED
    BY <1>1, <2>1, EdgeAges DEF EdgeSeen
<1>7. tx.state = 0 => tx.line = 0
  BY DEF InFrame
<1>8. \/ /\ tx'.state = 0 /\ rx'.state = "RXIDLE" /\ Age' <= Half + 1 /\ EdgeSeen'
         /\ Delivered(Len(sent) - 1)'
      \/ /\ tx'.state = 0 /\ rx'.state = "RXDATA" /\ EdgeSeen'
         /\ rx'.busy = FrameBits /\ 0 <= rx'.counter /\ rx'.counter + Age' <= Half
         /\ Len(sent') > 1 /\ Delivered(Len(sent) - 2)' /\ Holds(Len(sent) - 1)'
      \/ /\ rx'.state = "RXDATA" /\ Delivered(Len(sent) - 1)' /\ Holds(Len(sent))'
         /\ IF tx'.state > 0 /\ Age' <= Half
            THEN rx'.busy = tx'.state - 1 /\ rx'.counter = Half - Age'
            ELSE rx'.busy = tx'.state /\ rx'.counter = Baud + Half - Age'
  <2>1. CASE /\ tx.state = 0 /\ rx.state = "RXIDLE" /\ Age <= Half + 1 /\ EdgeSeen
             /\ Delivered(Len(sent) - 1)
    <3>1. /\ rx'.state = "RXDATA" /\ rx'.busy = 0 /\ rx'.counter = Baud + Half - 1 - Age
          /\ Arrived(received', Torn, sent, Len(sent) - 1)
          /\ Matches(rx'.busy, rx'.data, sent[Len(sent)])
      BY <2>1, FrameStarts
    <3>a. Age \in Int /\ Half \in Int /\ Baud \in Int
      BY <1>1
    <3>b. Baud + Half - 1 - Age = Baud + Half - (Age + 1)
      BY <3>a
    <3>c. tx'.state = 0 /\ ~(tx'.state > 0)
      BY <1>3, <2>1
    <3>2. rx'.busy = tx'.state /\ rx'.counter = Baud + Half - Age' /\ ~(tx'.state > 0)
      BY <1>5, <3>1, <3>b, <3>c
    <3> QED
      BY <1>1, <3>1, <3>2 DEF Delivered, Holds
  <2>2. CASE /\ tx.state = 0 /\ rx.state = "RXDATA" /\ EdgeSeen
             /\ rx.busy = FrameBits /\ 0 <= rx.counter /\ rx.counter + Age <= Half
             /\ Len(sent) > 1 /\ Delivered(Len(sent) - 2) /\ Holds(Len(sent) - 1)
    <3>1. CASE rx.counter > 0
      <4>1. rx'.state = "RXDATA" /\ rx'.busy = rx.busy /\ rx'.data = rx.data
            /\ rx'.counter = rx.counter - 1 /\ received' = received
        BY <1>1, <2>2, <3>1, RxCounts
      <4>2. 0 <= rx'.counter /\ rx'.counter + Age' <= Half
        <5>1. Age \in Int /\ rx.counter \in Int
          BY <1>1
        <5>2. 0 <= rx.counter - 1 /\ (rx.counter - 1) + (Age + 1) <= Half
          BY <2>2, <3>1, <5>1
        <5> QED
          BY <1>5, <4>1, <5>2
      <4> QED
        BY <1>1, <1>3, <1>6, <1>7, <2>2, <4>1, <4>2 DEF Delivered, Holds
    <3>2. CASE rx.counter = 0
      <4>1. Len(sent) - 1 \in 1..Len(sent) /\ Len(sent) - 1 - 1 = Len(sent) - 2 /\ rx.counter <= 0
        BY <1>1, <2>2, <3>2
      <4>2. rx'.state = "RXIDLE" /\ Arrived(received', Torn, sent, Len(sent) - 1)
        BY <1>1, <2>2, <4>1, FrameEnds
      <4>3. Age' <= Half + 1
        BY <1>1, <1>5, <2>2, <3>2
      <4> QED
        BY <1>1, <1>3, <1>6, <1>7, <2>2, <4>2, <4>3 DEF Delivered
    <3> QED
      BY <1>1, <2>2, <3>1, <3>2
  <2>3. CASE /\ rx.state = "RXDATA" /\ Delivered(Len(sent) - 1) /\ Holds(Len(sent))
             /\ IF tx.state > 0 /\ Age <= Half
                THEN rx.busy = tx.state - 1 /\ rx.counter = Half - Age
                ELSE rx.busy = tx.state /\ rx.counter = Baud + Half - Age
    <3>1. /\ rx'.state = "RXDATA"
          /\ IF tx.state > 0 /\ Age + 1 <= Half
             THEN rx'.busy = tx.state - 1 /\ rx'.counter = Half - (Age + 1)
             ELSE rx'.busy = tx.state /\ rx'.counter = Baud + Half - (Age + 1)
          /\ Arrived(received', Torn, sent, Len(sent) - 1)
          /\ Matches(rx'.busy, rx'.data, sent[Len(sent)])
      BY <2>3, FrameSampled
    <3> QED
      BY <1>1, <1>3, <1>5, <3>1 DEF Delivered, Holds
  <2> QED
    BY <2>1, <2>2, <2>3 DEF InFrame
<1>9. /\ 0 <= Age' /\ (tx'.state < Stop => ~tx'.last)
      /\ (tx'.state = Stop => (tx'.last <=> Age' > 0))
  <2>1. Age' > 0 /\ 0 <= Age'
    <3>1. Age \in Nat
      BY <1>1
    <3> QED
      BY <1>5, <3>1
  <2>2. tx.state < Stop => tx.state # Stop
    BY <1>1 DEF Stop
  <2> QED
    BY <1>3, <1>4, <2>1, <2>2
<1>10. /\ tx'.line = IF tx'.state = 0 THEN 0
                     ELSE IF tx'.state = Idle THEN 1 ELSE sent'[Len(sent')][tx'.state]
       /\ \A i \in 1..Bits : i + tx'.state <= Bits =>
            tx'.data[i] = sent'[Len(sent')][i + tx'.state]
  BY <1>1, <1>3 DEF InFrame
<1> QED
  BY <1>1, <1>3, <1>4, <1>8, <1>9, <1>10 DEF InFrame

LEMMA FrameMoves ==
  ASSUME LinkType, InFrame, NEW wr \in BOOLEAN, NEW d \in Byte, Link(wr, d), tx.zero,
         tx.state # Idle
  PROVE  InFrame'
<1> USE HalfBit
<1>1. /\ Devices(wr, d) /\ tx.setup = Baud
      /\ Age = (IF tx.state = Idle THEN Baud - 2 ELSE Baud - 1) - tx.counter
      /\ tx.state \in 0..Idle /\ sent \in Seq(Byte)
      /\ Len(sent) \in Nat /\ Len(sent) >= 1 /\ sent # <<>>
      /\ sent' = sent /\ Torn' = Torn /\ rx.counter \in Int
  BY FrameTypes
<1>2. tx.busy /\ tx.counter = 0 /\ tx.data \in Byte
  BY FrameTypes, TxWords
<1>3. Age = Baud - 1
  BY <1>1, <1>2
<1>4. /\ tx'.state = tx.state + 1
      /\ tx'.counter = IF tx.last THEN tx.setup - 2 ELSE tx.setup - 1
      /\ tx'.line = (IF tx.state < Bits THEN tx.data[1] ELSE 1)
      /\ tx'.data = Shifted(tx.data) /\ tx'.setup = tx.setup
  BY <1>1, <1>2, TxMoves
<1>5. tx'.busy /\ (tx'.last <=> tx.state = Stop)
  BY <1>1, <1>2, TxMoves
<1>6. tx.last <=> tx.state = Stop
  BY <1>1, <1>3 DEF InFrame, Stop
<1>7. Age' = 0
  <2>1. tx.state \in Int
    BY <1>1
  <2>2. CASE tx.state = Stop
    <3>1. tx.last /\ tx.state + 1 = Idle
      BY <1>6, <2>2 DEF Stop
    <3>2. tx'.state = Idle /\ tx'.counter = Baud - 2
      BY <1>1, <1>4, <3>1
    <3> QED
      BY <3>2 DEF Age
  <2>3. CASE tx.state # Stop
    <3>1. ~tx.last /\ tx.state + 1 # Idle
      BY <1>6, <2>1, <2>3 DEF Stop
    <3>2. tx'.state # Idle /\ tx'.counter = Baud - 1
      BY <1>1, <1>4, <3>1
    <3> QED
      BY <3>2 DEF Age
  <2> QED
    BY <2>2, <2>3
<1>8. tx'.state \in 1..Idle
  BY <1>1, <1>4
<1>9. /\ rx'.state = "RXDATA" /\ rx'.busy = tx'.state - 1 /\ rx'.counter = Half - Age'
      /\ Arrived(received', Torn, sent, Len(sent) - 1)
      /\ Matches(rx'.busy, rx'.data, sent[Len(sent)])
  <2>1. CASE /\ tx.state = 0 /\ rx.state = "RXIDLE" /\ Age <= Half + 1 /\ EdgeSeen
             /\ Delivered(Len(sent) - 1)
    <3>1. /\ rx'.state = "RXDATA" /\ rx'.busy = 0 /\ rx'.counter = Baud + Half - 1 - Age
          /\ Arrived(received', Torn, sent, Len(sent) - 1)
          /\ Matches(rx'.busy, rx'.data, sent[Len(sent)])
      BY <2>1, FrameStarts
    <3> QED
      BY <1>3, <1>4, <1>7, <2>1, <3>1
  <2>2. CASE /\ rx.state = "RXDATA" /\ Delivered(Len(sent) - 1) /\ Holds(Len(sent))
             /\ IF tx.state > 0 /\ Age <= Half
                THEN rx.busy = tx.state - 1 /\ rx.counter = Half - Age
                ELSE rx.busy = tx.state /\ rx.counter = Baud + Half - Age
    <3>1. /\ rx'.state = "RXDATA"
          /\ IF tx.state > 0 /\ Age + 1 <= Half
             THEN rx'.busy = tx.state - 1 /\ rx'.counter = Half - (Age + 1)
             ELSE rx'.busy = tx.state /\ rx'.counter = Baud + Half - (Age + 1)
          /\ Arrived(received', Torn, sent, Len(sent) - 1)
          /\ Matches(rx'.busy, rx'.data, sent[Len(sent)])
      BY <2>2, FrameSampled
    <3>2. rx'.busy = tx'.state - 1 /\ rx'.counter = Half - Age'
      <4>1. ~(Age + 1 <= Half) /\ Baud + Half - (Age + 1) = Half
        BY <1>3
      <4>2. rx'.busy = tx.state /\ rx'.counter = Half
        BY <3>1, <4>1
      <4>a. tx.state \in Int /\ Half \in Int
        BY <1>1
      <4>b. \A s \in Int : (s + 1) - 1 = s /\ s - 0 = s
        OBVIOUS
      <4>3. tx'.state - 1 = tx.state /\ Half - Age' = Half
        BY <1>4, <1>7, <4>a, <4>b
      <4> QED
        BY <4>2, <4>3
    <3> QED
      BY <3>1, <3>2
  <2>3. ~(0 <= rx.counter /\ rx.counter + Age <= Half)
    BY <1>1, <1>3
  <2> QED
    BY <2>1, <2>2, <2>3 DEF InFrame
<1>10. /\ (tx'.state < Stop => ~tx'.last)
       /\ (tx'.state = Stop => (tx'.last <=> Age' > 0))
  BY <1>1, <1>4, <1>5, <1>7 DEF Stop
<1>11. \A i \in 1..Bits : i + tx'.state <= Bits => tx'.data[i] = sent'[Len(sent')][i + tx'.state]
  <2> SUFFICES ASSUME NEW i \in 1..Bits, i + tx'.state <= Bits
               PROVE  tx'.data[i] = sent'[Len(sent')][i + tx'.state]
    OBVIOUS
  <2>1. i < Bits /\ i + 1 \in 1..Bits /\ (i + 1) + tx.state <= Bits
        /\ (i + 1) + tx.state = i + tx'.state
    BY <1>1, <1>4
  <2>2. tx.data[i + 1] = sent[Len(sent)][(i + 1) + tx.state]
    BY <2>1 DEF InFrame
  <2>3. Shifted(tx.data)[i] = tx.data[i + 1]
    BY <2>1 DEF Shifted
  <2> QED
    BY <1>1, <1>4, <2>1, <2>2, <2>3
<1>12. tx'.line = IF tx'.state = 0 THEN 0
                  ELSE IF tx'.state = Idle THEN 1 ELSE sent'[Len(sent')][tx'.state]
  <2>1. CASE tx.state < Bits
    <3>1. 1 \in 1..Bits /\ 1 + tx.state <= Bits /\ 1 + tx.state = tx'.state
          /\ tx'.state # 0 /\ tx'.state # Idle
      BY <1>1, <1>4, <2>1
    <3>2. tx.data[1] = sent[Len(sent)][1 + tx.state]
      BY <3>1 DEF InFrame
    <3> QED
      BY <1>1, <1>4, <2>1, <3>1, <3>2
  <2>2. CASE ~(tx.state < Bits)
    <3>1. tx'.state = Idle /\ tx'.state # 0
      BY <1>1, <1>4, <2>2
    <3> QED
      BY <1>4, <2>2, <3>1
  <2> QED
    BY <2>1, <2>2
<1>13. /\ rx'.state = "RXDATA" /\ Delivered(Len(sent) - 1)' /\ Holds(Len(sent))'
       /\ IF tx'.state > 0 /\ Age' <= Half
          THEN rx'.busy = tx'.state - 1 /\ rx'.counter = Half - Age'
          ELSE rx'.busy = tx'.state /\ rx'.counter = Baud + Half - Age'
  <2>1. tx'.state > 0 /\ Age' <= Half
    BY <1>7, <1>8
  <2>2. Delivered(Len(sent) - 1)' /\ Holds(Len(sent))'
    BY <1>1, <1>9 DEF Delivered, Holds
  <2> QED
    BY <1>9, <2>1, <2>2
<1>14. 0 <= Age' /\ tx'.setup = Baud /\ sent' # <<>>
  BY <1>1, <1>4, <1>7
<1> QED
  BY <1>5, <1>10, <1>11, <1>12, <1>13, <1>14 DEF InFrame

LEMMA FrameStops ==
  ASSUME LinkType, InFrame, NEW wr \in BOOLEAN, NEW d \in Byte, Link(wr, d), tx.zero,
         tx.state = Idle
  PROVE  Resting'
<1> USE HalfBit
<1>1. /\ Devices(wr, d) /\ tx.setup = Baud /\ ~Accepts(tx, wr)
      /\ Age = (IF tx.state = Idle THEN Baud - 2 ELSE Baud - 1) - tx.counter
      /\ sent' = sent /\ Torn' = Torn /\ sent # <<>>
  BY FrameTypes
<1>2. tx.counter = 0
  BY TxWords
<1>3. Age = Baud - 2
  BY <1>1, <1>2
<1>4. tx'.state = Idle /\ tx'.line = 1
  BY <1>1, TxRests
<1>5. ~tx'.busy
  BY <1>1, TxRests
<1>6. tx'.zero
  BY <1>1, TxRests
<1>7. /\ rx.state = "RXDATA" /\ Delivered(Len(sent) - 1) /\ Holds(Len(sent))
      /\ IF tx.state > 0 /\ Age <= Half
         THEN rx.busy = tx.state - 1 /\ rx.counter = Half - Age
         ELSE rx.busy = tx.state /\ rx.counter = Baud + Half - Age
  <2>1. tx.state # 0
    OBVIOUS
  <2> QED
    BY <2>1 DEF InFrame
<1>8. /\ rx'.state = "RXDATA"
      /\ IF tx.state > 0 /\ Age + 1 <= Half
         THEN rx'.busy = tx.state - 1 /\ rx'.counter = Half - (Age + 1)
         ELSE rx'.busy = tx.state /\ rx'.counter = Baud + Half - (Age + 1)
      /\ Arrived(received', Torn, sent, Len(sent) - 1)
      /\ Matches(rx'.busy, rx'.data, sent[Len(sent)])
  BY <1>7, FrameSampled
<1>9. rx'.busy = FrameBits /\ rx'.counter = Half + 1
  BY <1>3, <1>8
<1>10. 0 <= rx'.counter /\ rx'.counter <= Half + 1
  BY <1>9
<1> QED
  BY <1>1, <1>4, <1>5, <1>6, <1>8, <1>9, <1>10 DEF Resting, Delivered, Holds

LEMMA LinkStep ==
  ASSUME LinkInv, NEW wr \in BOOLEAN, NEW d \in Byte, Link(wr, d)
  PROVE  LinkInv'
<1>1. LinkType /\ LinkType'
  BY LinkTyped DEF LinkInv
<1>2. CASE Waiting
  BY <1>1, <1>2, WaitingStep DEF LinkInv
<1>3. CASE Resting
  BY <1>1, <1>3, RestingStep DEF LinkInv
<1>4. CASE InFrame
  BY <1>1, <1>4, FrameCounts, FrameMoves, FrameStops DEF LinkInv
<1> QED
  BY <1>2, <1>3, <1>4 DEF LinkInv

LEMMA LinkReset == LinkInv /\ Reset => LinkInv'
<1> SUFFICES ASSUME LinkInv, Reset PROVE LinkInv'
  OBVIOUS
<1> USE HalfBit
<1>1. LinkType /\ tx' = TxReset(tx, BitsOf(0)) /\ rx' = RxTick(rx, tx.line)
      /\ received' = <<>> /\ sent' = <<>> /\ (cut' <=> rx'.state = "RXDATA") /\ cut' \in BOOLEAN
  BY DEF LinkInv, Reset
<1>2. tx.data \in Byte /\ Shifted(tx.data) \in Byte /\ tx.setup \in Nat /\ BitsOf(0) \in Byte
  BY <1>1, TxWords, ShiftedType, BitsAreByte
<1>3. /\ tx'.state = Idle /\ tx'.busy = TRUE /\ tx'.counter = 16 * InitialBaud /\ tx'.zero = FALSE
      /\ tx'.last = FALSE /\ tx'.line = 1
      /\ tx'.data = (IF ~tx.busy THEN BitsOf(0)
                     ELSE IF tx.zero THEN Shifted(tx.data) ELSE tx.data)
      /\ tx'.setup = (IF ~tx.busy THEN Baud ELSE tx.setup)
      /\ tx' = [state |-> tx'.state, busy |-> tx'.busy, counter |-> tx'.counter,
                zero |-> tx'.zero, last |-> tx'.last, data |-> tx'.data, line |-> tx'.line,
                setup |-> tx'.setup]
  BY <1>1, TxWords DEF TxReset
<1>4. tx'.data \in Byte /\ tx'.setup \in Nat
  BY <1>2, <1>3
<1>5. tx'.counter \in Nat /\ tx'.counter >= 16 * Baud /\ tx'.counter # 0
  BY <1>3, BaudAssumption
<1>6. tx' \in [state : 0..Idle, busy : BOOLEAN, counter : Nat, zero : BOOLEAN, last : BOOLEAN,
               data : Byte, line : Levels, setup : Nat]
  <2>1. tx' = [state |-> Idle, busy |-> TRUE, counter |-> 16 * InitialBaud, zero |-> FALSE,
               last |-> FALSE, data |-> tx'.data, line |-> 1, setup |-> tx'.setup]
    BY <1>3
  <2>2. 16 * InitialBaud \in Nat /\ 1 \in Levels
    BY <1>3, <1>5 DEF Levels
  <2>3. ASSUME NEW n \in Nat, NEW bits \in Byte, NEW s \in Nat
        PROVE  [state |-> Idle, busy |-> TRUE, counter |-> n, zero |-> FALSE, last |-> FALSE,
                data |-> bits, line |-> 1, setup |-> s]
                 \in [state : 0..Idle, busy : BOOLEAN, counter : Nat, zero : BOOLEAN,
                      last : BOOLEAN, data : Byte, line : Levels, setup : Nat]
    BY <2>2
  <2> DEFINE n == 16 * InitialBaud
             bits == tx'.data
             s == tx'.setup
  <2>4. n \in Nat /\ bits \in Byte /\ s \in Nat
    BY <1>4, <2>2
  <2>5. tx' = [state |-> Idle, busy |-> TRUE, counter |-> n, zero |-> FALSE, last |-> FALSE,
               data |-> bits, line |-> 1, setup |-> s]
    BY <2>1
  <2> HIDE DEF n, bits, s
  <2> QED
    BY <2>3, <2>4, <2>5, Zenon
<1>7. /\ rx' \in [state : {"RXIDLE", "RXDATA"}, counter : Int, busy : 0..FrameBits,
                  data : Seq(Levels), changectr : 0..ChangeCap, last : Levels]
      /\ rx'.counter <= Baud + Half - 1 /\ Len(rx'.data) = rx'.busy
  BY <1>1, RxStays
<1>8. LinkType'
  BY <1>1, <1>3, <1>5, <1>6, <1>7, EmptySeq DEF LinkType
<1>9. CASE rx'.state = "RXIDLE"
  <2>1. Delivered(0)'
    <3>1. Torn' = 0 /\ Len(received') = 0
      BY <1>1, <1>9 DEF Torn
    <3> QED
      BY <3>1 DEF Delivered, Arrived
  <2> QED
    BY <1>1, <1>3, <1>8, <1>9, <2>1 DEF LinkInv, Waiting
<1>10. CASE rx'.state = "RXDATA"
  <2> DEFINE k == FrameBits - rx'.busy
  <2>1. k \in 0..FrameBits /\ k <= 9 /\ rx'.counter \in Int /\ k \in Nat
    BY <1>7, LinkAssumption
  <2> HIDE DEF k
  <2>2. k * Baud \in Nat /\ k * Baud <= 9 * Baud
    <3>1. k \in 0..9
      BY <2>1
    <3> QED
      BY <3>1
  <2>3. k * Baud <= tx'.counter /\ k * Baud + rx'.counter <= tx'.counter
    BY <1>5, <1>7, <2>1, <2>2
  <2> QED
    BY <1>1, <1>3, <1>8, <1>10, <2>3 DEF LinkInv, Waiting, k
<1> QED
  BY <1>7, <1>9, <1>10

LEMMA LinkInit == Init => LinkInv
<1> SUFFICES ASSUME Init PROVE LinkInv
  OBVIOUS
<1> USE HalfBit
<1>1. PICK c \in 0..2, l \in {0, 1} : rx = Started(c, l)
  BY DEF Init
<1>2. /\ rx.state = "RXIDLE" /\ rx.counter = 0 /\ rx.busy = 0 /\ rx.data = <<>>
      /\ rx.changectr = c /\ rx.last = l
      /\ rx \in [state : {"RXIDLE", "RXDATA"}, counter : Int, busy : 0..FrameBits,
                 data : Seq(Levels), changectr : 0..ChangeCap, last : Levels]
  <2>1. c \in 0..ChangeCap /\ l \in Levels /\ <<>> \in Seq(Levels)
    BY <1>1, EmptySeq DEF Levels
  <2> QED
    BY <1>1, <2>1 DEF Started
<1>3. tx = PowerOn /\ sent = <<>> /\ received = <<>> /\ cut = FALSE
  BY DEF Init
<1>4. PowerOn.data \in Byte /\ InitialBaud \in Nat
  BY BaudAssumption DEF PowerOn, Byte, Levels
<1>5. tx \in [state : 0..Idle, busy : BOOLEAN, counter : Nat, zero : BOOLEAN, last : BOOLEAN,
              data : Byte, line : Levels, setup : Nat]
  <2>1. 1 \in Levels
    BY DEF Levels
  <2> QED
    BY <1>3, <1>4, <2>1 DEF PowerOn
<1>6. LinkType
  <2>1. ~tx.zero /\ tx.counter # 0
    BY <1>3 DEF PowerOn
  <2>2. Len(rx.data) = rx.busy /\ rx.counter <= Baud + Half - 1
    BY <1>2
  <2> QED
    BY <1>2, <1>3, <1>5, <2>1, <2>2, EmptySeq DEF LinkType
<1>7. Delivered(0)
  BY <1>3 DEF Delivered, Arrived, Torn
<1>8. tx.state = Idle /\ tx.busy /\ tx.line = 1
  BY <1>3 DEF PowerOn
<1> QED
  BY <1>2, <1>3, <1>6, <1>7, <1>8 DEF LinkInv, Waiting

(***************************************************************************)
(* The line and the two ends are always in one of these states.            *)
(***************************************************************************)
THEOREM LinkCorrect == Spec => []LinkInv
<1>1. LinkInv /\ [Next]_vars => LinkInv'
  <2> SUFFICES ASSUME LinkInv, [Next]_vars PROVE LinkInv'
    OBVIOUS
  <2>0. BitsOf(0) \in Byte
    BY BitsAreByte
  <2>1. CASE Quiet /\ Devices(FALSE, BitsOf(0)) /\ UNCHANGED history
    <3>1. Link(FALSE, BitsOf(0))
      BY <2>1 DEF Link, history, Accepts
    <3> QED
      BY <2>0, <3>1, LinkStep
  <2>2. CASE PollUart(tx.busy) /\ Devices(FALSE, BitsOf(0)) /\ UNCHANGED history
    <3>1. Link(FALSE, BitsOf(0))
      BY <2>2 DEF Link, history, Accepts
    <3> QED
      BY <2>0, <3>1, LinkStep
  <2>3. ASSUME NEW c \in 0..255, Devices(TRUE, BitsOf(c)), cut' = cut,
               sent' = IF Accepts(tx, TRUE) THEN Append(sent, BitsOf(c)) ELSE sent
        PROVE  LinkInv'
    <3>1. Link(TRUE, BitsOf(c))
      BY <2>3 DEF Link
    <3> QED
      BY <3>1, BitsAreByte, LinkStep
  <2>4. CASE Execute
    BY <2>1, <2>2, <2>3, <2>4 DEF Execute
  <2>5. CASE Wait
    <3>1. Link(FALSE, BitsOf(0))
      BY <2>5 DEF Link, Wait, history, Accepts
    <3> QED
      BY <2>0, <3>1, LinkStep
  <2>6. CASE Reset
    BY <2>6, LinkReset
  <2>7. CASE UNCHANGED vars
    BY <2>7 DEF vars, uartVars, history, LinkInv, LinkType, Waiting, Resting, InFrame, Age,
                EdgeSeen, Delivered, Torn, Holds
  <2> QED
    BY <2>4, <2>5, <2>6, <2>7 DEF Next
<1> QED
  BY <1>1, LinkInit, PTL DEF Spec

(***************************************************************************)
(* tb/uartsim.cpp writes the bytes src/IO.v took, in their order, whatever *)
(* the rate, the program and the times of its writes and of the resets.    *)
(***************************************************************************)
THEOREM BytesArriveInOrder == Spec => []DeliversInOrder
<1>1. LinkInv => DeliversInOrder
  <2> SUFFICES ASSUME LinkInv PROVE DeliversInOrder
    OBVIOUS
  <2>1. sent \in Seq(Byte) /\ received \in Seq(Seq(Levels)) /\ Torn \in 0..1
        /\ Torn \in 0..(IF cut THEN 1 ELSE 0)
    BY TxWords DEF LinkInv, Torn
  <2>2. Len(received) >= Torn => \E n \in 0..Len(sent) : Delivered(n)
    <3>1. Len(sent) \in Nat /\ (sent # <<>> => Len(sent) >= 1)
      BY <2>1, EmptySeq
    <3>2. CASE Waiting
      <4>1. CASE Delivered(0)
        BY <3>1, <4>1
      <4>2. CASE cut /\ received = <<>>
        BY <4>2 DEF Torn
      <4> QED
        BY <3>2, <4>1, <4>2 DEF Waiting
    <3>3. CASE Resting
      BY <3>1, <3>3 DEF Resting
    <3>4. CASE InFrame
      <4>1. Len(sent) >= 1
        BY <3>1, <3>4 DEF InFrame
      <4>2. Delivered(Len(sent) - 1) \/ (Len(sent) > 1 /\ Delivered(Len(sent) - 2))
        BY <3>4 DEF InFrame
      <4> QED
        BY <3>1, <4>1, <4>2
    <3> QED
      BY <3>2, <3>3, <3>4 DEF LinkInv
  <2>3. ASSUME Len(received) >= Torn
        PROVE  IsPrefix(SubSeq(received, Torn + 1, Len(received)), sent)
    <3>1. PICK n \in 0..Len(sent) : Arrived(received, Torn, sent, n)
      BY <2>2, <2>3 DEF Delivered
    <3> DEFINE whole == SubSeq(received, Torn + 1, Len(received))
    <3>2. Len(received) = Torn + n /\ \A i \in 1..n : received[Torn + i] = sent[i]
      BY <3>1 DEF Arrived
    <3>3. /\ whole \in Seq(Seq(Levels)) /\ Len(whole) = n
          /\ \A i \in 1..n : whole[i] = received[Torn + i]
      <4>1. n \in Nat /\ Torn \in Nat
        BY <2>1
      <4>2. \A i \in (Torn + 1)..(Torn + n) : received[i] \in Seq(Levels)
        BY <2>1, <3>2, <4>1, ElementOfSeq
      <4> DEFINE m == Torn + 1
                 k == Torn + n
      <4>3. m \in Int /\ k \in Int /\ \A i \in m..k : received[i] \in Seq(Levels)
        BY <4>1, <4>2
      <4>4. /\ k - m + 1 = n /\ (m <= k <=> n > 0) /\ n \in Nat
            /\ \A i \in 1..n : m + i - 1 = Torn + i
        BY <4>1
      <4>5. whole = SubSeq(received, m, k)
        BY <3>2
      <4> HIDE DEF m, k, whole
      <4>6. /\ SubSeq(received, m, k) \in Seq(Seq(Levels))
            /\ Len(SubSeq(received, m, k)) = IF m <= k THEN k - m + 1 ELSE 0
            /\ \A i \in 1..(k - m + 1) : SubSeq(received, m, k)[i] = received[m + i - 1]
        BY <4>3, SubSeqProperties
      <4> QED
        BY <4>4, <4>5, <4>6
    <3>4. \A i \in 1..n : whole[i] = sent[i]
      BY <3>2, <3>3
    <3> HIDE DEF whole
    <3>5. SubSeq(whole, 1, n) = SubSeq(sent, 1, n)
      <4>1. n \in Nat /\ n <= Len(sent) /\ sent \in Seq(Seq(Levels))
        BY <2>1, BytesAreSeqs
      <4>2. \A i \in 1..n : whole[i] \in Seq(Levels) /\ sent[i] \in Seq(Levels)
        BY <3>3, <4>1, ElementOfSeq
      <4>3. /\ SubSeq(whole, 1, n) \in Seq(Seq(Levels))
            /\ Len(SubSeq(whole, 1, n)) = IF 1 <= n THEN n - 1 + 1 ELSE 0
            /\ \A i \in 1..(n - 1 + 1) : SubSeq(whole, 1, n)[i] = whole[1 + i - 1]
        BY <4>1, <4>2, SubSeqProperties
      <4>4. /\ SubSeq(sent, 1, n) \in Seq(Seq(Levels))
            /\ Len(SubSeq(sent, 1, n)) = IF 1 <= n THEN n - 1 + 1 ELSE 0
            /\ \A i \in 1..(n - 1 + 1) : SubSeq(sent, 1, n)[i] = sent[1 + i - 1]
        BY <4>1, <4>2, SubSeqProperties
      <4>5. (IF 1 <= n THEN n - 1 + 1 ELSE 0) = n /\ n - 1 + 1 = n
            /\ \A i \in 1..n : 1 + i - 1 = i
        BY <4>1
      <4>6. \A i \in 1..n : SubSeq(whole, 1, n)[i] = SubSeq(sent, 1, n)[i]
        BY <3>4, <4>3, <4>4, <4>5
      <4> QED
        BY <4>3, <4>4, <4>5, <4>6, SeqEqual
    <3>6. IsPrefix(whole, sent)
      BY <3>3, <3>5 DEF IsPrefix
    <3> QED
      BY <3>6 DEF whole
  <2> QED
    BY <2>1, <2>3 DEF DeliversInOrder
<1> QED
  BY <1>1, LinkCorrect, PTL
=============================================================================
