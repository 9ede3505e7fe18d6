-------------------------------- MODULE TxUart --------------------------------
(***************************************************************************)
(* Extern/txuart.v as src/IO.v instantiates it: eight data bits, no parity,*)
(* one stop bit, no break, clear to send.  One operator per clock edge.    *)
(***************************************************************************)
EXTENDS Integers

CONSTANTS Baud,          \* clocks per bit that IO.v asks for (UART_SETUP)
          InitialBaud,   \* clocks per bit until then (INITIAL_SETUP)
          Bits           \* data bits of a frame

ASSUME BaudAssumption == /\ Baud \in Nat /\ Baud >= 3
                         /\ InitialBaud \in Nat /\ InitialBaud >= Baud
                         /\ Bits \in Nat \ {0}

Idle == Bits + 1         \* TXU_IDLE; 0..Bits-1 are the data bits
Stop == Bits             \* TXU_STOP

\* i_data[7:0] and lcl_data: the bits of a byte, lowest first.
BitsOf(c) == [i \in 1..Bits |-> (c \div 2^(i - 1)) % 2]
Shifted(data) == [i \in 1..Bits |-> IF i < Bits THEN data[i + 1] ELSE 0]

\* initial ...: the registers at power-on, six clocks from being ready.
PowerOn == [state |-> Idle, busy |-> TRUE, counter |-> 5, zero |-> FALSE, last |-> FALSE,
            data |-> [i \in 1..Bits |-> 1], line |-> 1, setup |-> InitialBaud]

\* i_reset: a wait of sixteen bits; lcl_data and r_setup go on by themselves.
TxReset(tx, data) ==
  [tx EXCEPT !.state = Idle, !.busy = TRUE, !.counter = 16 * InitialBaud, !.zero = FALSE,
             !.last = FALSE, !.line = 1,
             !.data = IF ~tx.busy THEN data ELSE IF tx.zero THEN Shifted(@) ELSE @,
             !.setup = IF ~tx.busy THEN Baud ELSE @]

Accepts(tx, wr) == wr /\ ~tx.busy

(* Mistake: the stop bit is followed by another stop bit. *)
NextStateStops(tx, wr) ==
  IF ~tx.zero \/ tx.state = Stop THEN tx.state
  ELSE IF tx.state # Idle THEN tx.state + 1
  ELSE IF Accepts(tx, wr) THEN 0 ELSE Idle

NextState(tx, wr) ==
  IF ~tx.zero THEN tx.state
  ELSE IF tx.state # Idle THEN tx.state + 1      \* the bits, the stop bit, idle
  ELSE IF Accepts(tx, wr) THEN 0 ELSE Idle

NextCounter(tx, wr) ==
  IF ~tx.zero THEN tx.counter - 1
  ELSE IF tx.state # Idle THEN IF tx.last THEN tx.setup - 2 ELSE tx.setup - 1
  ELSE IF Accepts(tx, wr) THEN Baud - 1 ELSE 0

TxClock(tx, wr, data) ==
  [state   |-> NextState(tx, wr),
   busy    |-> ~(tx.zero /\ tx.state = Idle) \/ Accepts(tx, wr),
   counter |-> NextCounter(tx, wr),
   zero    |-> IF tx.zero /\ tx.state = Idle THEN ~Accepts(tx, wr) ELSE tx.counter = 1,
   last    |-> tx.state = Stop,
   data    |-> IF ~tx.busy THEN data ELSE IF tx.zero THEN Shifted(tx.data) ELSE tx.data,
   line    |-> IF Accepts(tx, wr) THEN 0
               ELSE IF tx.zero THEN IF tx.state < Bits THEN tx.data[1] ELSE 1
               ELSE tx.line,
   setup   |-> IF ~tx.busy THEN Baud ELSE tx.setup]
=============================================================================
