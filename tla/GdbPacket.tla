----------------------------- MODULE GdbPacket -----------------------------
(***************************************************************************)
(* firmware/gdb/gdb_packet.c: the framing of the GDB remote protocol,      *)
(* $payload#checksum, and its hex digits.  A character of the payload that *)
(* no property tells apart from its neighbours is lumped with them into    *)
(* one Char, whose Weight is the sum of their codes.                       *)
(***************************************************************************)
EXTENDS Integers, Sequences

CONSTANTS
  Char, Weight,            \* what the line carries, and its character codes
  GDB_PACKET_CAPACITY

hex_digits == <<"0", "1", "2", "3", "4", "5", "6", "7",
                "8", "9", "a", "b", "c", "d", "e", "f">>

ASSUME PacketParams ==
  /\ {"$", "#", "+", "-", "S", "OK", "E01"} \cup {hex_digits[i] : i \in 1 .. 16} \subseteq Char
  /\ Weight \in [Char -> 0 .. 1023] /\ GDB_PACKET_CAPACITY \in Nat \ {0}

VARIABLES parser_state, payload, checksum, received_checksum
parserVars == <<parser_state, payload, checksum, received_checksum>>

ParserStates == {"WAIT_START", "PAYLOAD", "CHECKSUM_HIGH", "CHECKSUM_LOW", "DISCARD"}
Events == {"NONE", "READY", "CHECKSUM_ERROR", "OVERFLOW", "RETRY"}

-----------------------------------------------------------------------------
(* The codec.                                                              *)
IsDigit(c, i) == c = hex_digits[i] \/ (i > 10 /\ c = <<"A", "B", "C", "D", "E", "F">>[i - 10])
IsHex(c) == \E i \in 1 .. 16 : IsDigit(c, i)
Nibble(c) == (CHOOSE i \in 1 .. 16 : IsDigit(c, i)) - 1
TwoDigits(n) == <<hex_digits[(n \div 16) + 1], hex_digits[(n % 16) + 1]>>

(* The checksum as it grows, and that of all characters.                   *)
Sums(text) ==
  LET s[n \in 0 .. Len(text)] ==
        IF n = 0 THEN 0 ELSE (s[n - 1] + Weight[text[n]]) % 256
  IN s
Sum(text) == Sums(text)[Len(text)]
Frame(text) == <<"$">> \o text \o <<"#">> \o TwoDigits(Sum(text))

-----------------------------------------------------------------------------
(* The parser: one action per state, given the byte and the event.         *)
ParserStart(s) ==
  /\ parser_state' = s /\ payload' = <<>> /\ checksum' = 0 /\ received_checksum' = 0
ParserInit == parser_state = "WAIT_START" /\ payload = <<>> /\ checksum = 0
              /\ received_checksum = 0

Goto(s, event, e) ==
  event = e /\ parser_state' = s /\ UNCHANGED <<payload, checksum, received_checksum>>

WaitStart(c, event) ==
  /\ parser_state = "WAIT_START"
  /\ Goto("WAIT_START", event, IF c = "-" THEN "RETRY" ELSE "NONE")

Store(c) == payload' = Append(payload, c) /\ checksum' = (checksum + Weight[c]) % 256

Payload(c, event) ==
  /\ parser_state = "PAYLOAD"
  /\ \/ c = "#" /\ Goto("CHECKSUM_HIGH", event, "NONE")
     \/ c # "#" /\ Len(payload) >= GDB_PACKET_CAPACITY /\ Goto("DISCARD", event, "OVERFLOW")
     \/ /\ c # "#" /\ Len(payload) < GDB_PACKET_CAPACITY
        /\ event = "NONE" /\ Store(c) /\ UNCHANGED <<parser_state, received_checksum>>

ChecksumHigh(c, event) ==
  /\ parser_state = "CHECKSUM_HIGH"
  /\ \/ ~IsHex(c) /\ Goto("WAIT_START", event, "CHECKSUM_ERROR")
     \/ /\ IsHex(c) /\ event = "NONE" /\ parser_state' = "CHECKSUM_LOW"
        /\ received_checksum' = Nibble(c) * 16 /\ UNCHANGED <<payload, checksum>>

(* Variant: the first digit decides.                                       *)
ChecksumLowUnread(c, event) ==
  /\ parser_state = "CHECKSUM_LOW"
  /\ Goto("WAIT_START", event,
          IF received_checksum = (checksum \div 16) * 16 THEN "READY" ELSE "CHECKSUM_ERROR")

ChecksumLow(c, event) ==
  /\ parser_state = "CHECKSUM_LOW"
  /\ Goto("WAIT_START", event,
          IF IsHex(c) /\ received_checksum + Nibble(c) = checksum
          THEN "READY" ELSE "CHECKSUM_ERROR")

Discard(event) == parser_state = "DISCARD" /\ Goto("DISCARD", event, "NONE")

ParserStep(c, event) ==
  WaitStart(c, event) \/ Payload(c, event) \/ ChecksumHigh(c, event)
  \/ ChecksumLow(c, event) \/ Discard(event)

(* Variant: a $ only counts between packets.                               *)
FeedBetween(c, event) ==
  IF c = "$" /\ parser_state = "WAIT_START" THEN event = "NONE" /\ ParserStart("PAYLOAD")
  ELSE ParserStep(c, event)
(* A $ starts over wherever the parser is.                                 *)
Feed(c, event) ==
  IF c = "$" THEN event = "NONE" /\ ParserStart("PAYLOAD") ELSE ParserStep(c, event)
=============================================================================
