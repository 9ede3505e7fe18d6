------------------------------- MODULE Console -------------------------------
(***************************************************************************)
(* The way of a character: the kernel's calls, the BIOS's trap handler and *)
(* _putchar, the UART of the SOC and the receiver at the far end.  One     *)
(* step is one clock: the UART and the receiver always take theirs; the    *)
(* processor executes, or is still busy with the instructions of its step. *)
(***************************************************************************)
EXTENDS Sbi, TxUart, UartSim, SequencesExt

CONSTANT MaxResets       \* presses of the reset button

(* The far end is set up for the transmitter's rate and size of a byte.     *)
ASSUME LinkAssumption == m_baud_counts = Baud /\ m_nbits = Bits /\ Bits <= 8

VARIABLES tx, rx,
          received,      \* the bytes the receiver wrote since the last reset
          printed,       \* what _putchar wrote since the last reset (history)
          sent,          \* the bits of the bytes the UART took of these (history)
          missed,        \* places of the bytes written to a busy UART (history)
          cut,           \* the reset came while a frame was being received (history)
          resets         \* presses so far

uartVars == <<tx, rx, received>>
history == <<printed, sent, missed, cut, resets>>
vars == <<sbiVars, uartVars, history>>

Init ==
  /\ SbiInit
  /\ tx = PowerOn
  /\ \E c \in 0..2, l \in {0, 1} : rx = Started(c, l)
  /\ received = <<>> /\ printed = <<>> /\ sent = <<>> /\ missed = {} /\ cut = FALSE /\ resets = 0

\* One clock of the UART and the receiver.
Devices(wr, data) ==
  /\ tx' = TxClock(tx, wr, data)
  /\ rx' = RxTick(rx, tx.line)
  /\ received' = received \o Written(rx)

Execute ==
  \/ Quiet /\ Devices(FALSE, BitsOf(0)) /\ UNCHANGED history
  \/ PollUart(tx.busy) /\ Devices(FALSE, BitsOf(0)) /\ UNCHANGED history
  \/ \E c \in 0..255 :
       /\ WriteUart(c) /\ Devices(TRUE, BitsOf(c))
       /\ printed' = Append(printed, c)
       /\ sent' = IF Accepts(tx, TRUE) THEN Append(sent, BitsOf(c)) ELSE sent
       /\ missed' = IF tx.busy THEN missed \cup {Len(printed) + 1} ELSE missed
       /\ UNCHANGED <<cut, resets>>

Wait == Devices(FALSE, BitsOf(0)) /\ UNCHANGED <<sbiVars, history>>

Reset ==
  /\ resets < MaxResets /\ resets' = resets + 1
  /\ Restart
  /\ tx' = TxReset(tx, BitsOf(0))
  /\ rx' = RxTick(rx, tx.line)
  /\ received' = <<>> /\ printed' = <<>> /\ sent' = <<>> /\ missed' = {}
  /\ cut' = (rx'.state = "RXDATA")

Next == Execute \/ Wait \/ Reset

\* The processor goes on executing, and the clock running.
Fairness == WF_vars(Execute) /\ WF_vars(Execute \/ Wait)
Spec == Init /\ [][Next]_vars /\ Fairness

-----------------------------------------------------------------------------
(***************************************************************************)
(* The far end receives what the UART took, byte for byte and in order,      *)
(* however the program is timed.  After a reset it may first write the     *)
(* torn frame the reset cut off, and the wait of the UART after a reset is *)
(* long enough for it to find the start of the next frame.                 *)
(***************************************************************************)
DeliversInOrder ==
  \E torn \in 0..(IF cut THEN 1 ELSE 0) :
    LET whole == SubSeq(received, torn + 1, Len(received))
    IN  Len(received) >= torn => IsPrefix(whole, sent)

(***************************************************************************)
(* The UART has no buffer.  Only the first byte since a reset can be       *)
(* written while it is busy, as _putchar waits after a byte, not before:   *)
(* every later one is taken.                                               *)
(***************************************************************************)
MissesOnlyFirst == missed \subseteq {1}

(***************************************************************************)
(* Every program comes to its exit, and all the UART took arrives.         *)
(***************************************************************************)
EverythingArrives ==
  <>[](/\ pc = "halted"
       /\ \/ received = sent
          \/ cut /\ received # <<>> /\ Tail(received) = sent)
=============================================================================
