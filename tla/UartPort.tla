------------------------------ MODULE UartPort ------------------------------
(***************************************************************************)
(* The board's serial port as the rest of the SoC sees it, one step per    *)
(* clock edge: rtl/periph/uart_rx.v with its one-byte holding register and *)
(* sticky error flags, and rtl/periph/uart_tx.v.  The bits of a frame are  *)
(* not modelled: a frame is over FRAME_CYCLES after it starts, and an      *)
(* arrival is what the receiver finds at the stop bit.                     *)
(***************************************************************************)
EXTENDS Integers

CONSTANT FRAME_CYCLES       \* clock cycles of a start bit, 8 data bits, a stop bit

ASSUME UartFrame == FRAME_CYCLES \in Nat \ {0}

NoByte  == -1               \* no frame ends in this cycle
BadStop == -2               \* a frame ends with its stop bit low

VARIABLES
  data_out, data_valid, overrun, framing_error,   \* uart_rx
  tx_left, tx_shift                               \* uart_tx: cycles of the frame left

rxVars == <<data_out, data_valid, overrun, framing_error>>
txVars == <<tx_left, tx_shift>>

RxInit == data_out = 0 /\ data_valid = FALSE /\ overrun = FALSE /\ framing_error = FALSE
TxInit == tx_left = 0 /\ tx_shift = 0

RxReset == data_out' = 0 /\ data_valid' = FALSE /\ overrun' = FALSE
           /\ framing_error' = FALSE
TxReset == tx_left' = 0 /\ tx_shift' = 0

(* e is the arrival of this cycle; ready, clear_overrun and clear_framing  *)
(* are the consumer's pulses.  A byte that finds the register full is lost *)
(* and the older one stays; an error of this cycle beats its clear pulse.  *)
RxClock(e, ready, clear_overrun, clear_framing) ==
  LET full == data_valid /\ ~ready
  IN /\ data_valid' = (full \/ e >= 0)
     /\ data_out' = IF e >= 0 /\ ~full THEN e ELSE data_out
     /\ overrun' = ((overrun /\ ~clear_overrun) \/ (e >= 0 /\ full))
     /\ framing_error' = ((framing_error /\ ~clear_framing) \/ e = BadStop)

tx_ready == tx_left = 0

(* valid is only looked at when the transmitter is idle.                   *)
TxClock(valid, data) ==
  IF tx_ready
  THEN /\ tx_left' = IF valid THEN FRAME_CYCLES ELSE 0
       /\ tx_shift' = IF valid THEN data ELSE tx_shift
  ELSE tx_left' = tx_left - 1 /\ UNCHANGED tx_shift

(* The byte whose frame ends in this cycle.                                *)
TxEnd == IF tx_left = 1 THEN tx_shift ELSE NoByte
=============================================================================
