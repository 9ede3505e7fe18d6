------------------------------- MODULE UartSim -------------------------------
(***************************************************************************)
(* tb/uartsim.cpp: the far end of the serial line.  Its receiver is called *)
(* once per clock with the level of the line (rawtick).                    *)
(***************************************************************************)
EXTENDS Integers, Sequences

CONSTANTS m_baud_counts,   \* clocks per bit
          m_nbits          \* data bits; no parity and one stop bit

\* m_rx_changectr counts on while the line is idle, and is read only within
\* a bit of a falling edge: it is capped here.
ChangeCap == 2 * m_baud_counts

\* UARTSIM(): m_rx_changectr and m_last_tx are not initialised.
Started(changectr, last) ==
  [state |-> "RXIDLE", counter |-> 0, busy |-> 0, data |-> <<>>,
   changectr |-> changectr, last |-> last]

\* m_rx_data is shifted in from the top: the bits received so far, oldest
\* first.  The last one is the stop bit.
FrameBits == m_nbits + 1
ByteOf(bits) == SubSeq(bits, 1, m_nbits)

(* Mistake: the age of the start bit's edge is not counted. *)
ChangedNever(rx, line) == 0

Changed(rx, line) ==
  IF line = 0 /\ rx.last = 1 THEN 0
  ELSE IF rx.changectr < ChangeCap THEN rx.changectr + 1 ELSE ChangeCap

RxTick(rx, line) ==
  LET seen == [rx EXCEPT !.changectr = Changed(rx, line), !.last = line]
  IN  CASE rx.state = "RXIDLE" /\ line = 0 ->
             [seen EXCEPT !.state = "RXDATA", !.busy = 0, !.data = <<>>,
                !.counter = m_baud_counts + m_baud_counts \div 2 - 1 - seen.changectr]
        [] rx.state = "RXDATA" /\ rx.counter <= 0 /\ rx.busy >= FrameBits ->
             [seen EXCEPT !.state = "RXIDLE", !.counter = m_baud_counts - 1]
        [] rx.state = "RXDATA" /\ rx.counter <= 0 /\ rx.busy < FrameBits ->
             [seen EXCEPT !.busy = @ + 1, !.data = Append(@, line),
                          !.counter = m_baud_counts - 1]
        [] rx.state = "RXDATA" /\ rx.counter > 0 -> [seen EXCEPT !.counter = @ - 1]
        [] OTHER -> seen

\* The bytes this call writes to its output, lowest bit first: the data bits
\* of a whole frame, whatever its stop bit.
Written(rx) == IF rx.state = "RXDATA" /\ rx.counter <= 0 /\ rx.busy >= FrameBits
               THEN <<ByteOf(rx.data)>> ELSE <<>>
=============================================================================
