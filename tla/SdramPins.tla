----------------------------- MODULE SdramPins -----------------------------
(***************************************************************************)
(* What the controller and the SDRAM share: the halfwords on the DQ pins   *)
(* and the CAS latency, which the mode register of the chip is set to.     *)
(***************************************************************************)
EXTENDS Integers

CONSTANTS
  CAS_LATENCY_CYCLES,
  Byte,       \* the values of a byte lane
  ZERO,       \* the byte 8'h00
  X           \* a byte nobody drives: any value at all

ASSUME SdramBytes == ZERO \in Byte /\ X \notin Byte

Lane    == {0, 1}
Half    == [Lane -> Byte]
BusHalf == [Lane -> Byte \cup {X}]
=============================================================================
