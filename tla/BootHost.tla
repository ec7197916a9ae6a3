------------------------------ MODULE BootHost ------------------------------
(***************************************************************************)
(* scripts/uart_loader.py, the host's half of a download: wait for READY,  *)
(* write the packet in chunks, look for a response after each, wait for    *)
(* one at the end, start again on READY or NACK.  Each step happens at any *)
(* moment between two clock edges of the board, so the host may be as slow *)
(* as it likes.                                                            *)
(***************************************************************************)
EXTENDS Integers, Sequences

CONSTANTS
  CHUNK_BYTES,        \* TX_CHUNK_BYTES
  MAX_RETRIES,
  PACKET_BYTES        \* the length of the packet

ASSUME HostParams ==
  CHUNK_BYTES \in Nat \ {0} /\ MAX_RETRIES \in Nat /\ PACKET_BYTES \in Nat \ {0}

VARIABLES
  host,       \* where the loader is
  written,    \* bytes of this attempt handed to the serial port
  wired,      \* bytes of this attempt that have started on the line
  retries,
  inbox       \* received bytes not read yet

hostVars == <<host, written, wired, retries, inbox>>

RESPONSE_READY == 82  RESPONSE_ACK == 121  RESPONSE_NACK == 31

Reading  == {"await_ready", "poll", "wait"}
Finished == {"ok", "exhausted", "bad_code", "timed_out"}
HostStates == Reading \cup Finished \cup {"write", "flush"}

Expected == IF host = "await_ready" THEN {RESPONSE_READY, RESPONSE_NACK}
            ELSE {RESPONSE_READY, RESPONSE_ACK, RESPONSE_NACK}

HostInit == host = "await_ready" /\ written = 0 /\ wired = 0 /\ retries = 0 /\ inbox = <<>>

WriteChunk ==
  /\ host = "write" /\ host' = "flush"
  /\ written' = IF written + CHUNK_BYTES < PACKET_BYTES
                THEN written + CHUNK_BYTES ELSE PACKET_BYTES
  /\ UNCHANGED <<wired, retries, inbox>>

AfterChunk == IF written = PACKET_BYTES THEN "wait" ELSE "write"

(* flush returned: poll_response only reads when two bytes are waiting.    *)
Flushed ==
  /\ host = "flush" /\ wired = written
  /\ host' = IF Len(inbox) >= 2 THEN "poll" ELSE AfterChunk
  /\ UNCHANGED <<written, wired, retries, inbox>>

(* wait_response skips what is not the first byte of a response.           *)
SkipNoise ==
  /\ host \in Reading /\ inbox # <<>> /\ Head(inbox) \notin Expected
  /\ inbox' = Tail(inbox) /\ UNCHANGED <<host, written, wired, retries>>

(* Variant: the retries are not counted.                                   *)
ReadResponseForever ==
  /\ host \in Reading /\ Len(inbox) >= 2 /\ Head(inbox) \in Expected
  /\ inbox' = SubSeq(inbox, 3, Len(inbox))
  /\ \/ /\ host = "await_ready"
        /\ host' = IF inbox[1] = RESPONSE_READY THEN "write" ELSE "bad_code"
        /\ UNCHANGED <<written, wired, retries>>
     \/ /\ host # "await_ready" /\ inbox[1] = RESPONSE_ACK
        /\ host' = "ok" /\ UNCHANGED <<written, wired, retries>>
     \/ /\ host # "await_ready" /\ inbox[1] # RESPONSE_ACK
        /\ host' = "write" /\ written' = 0 /\ wired' = 0 /\ UNCHANGED retries

(* The two bytes of a response, and what transfer_packet makes of them.    *)
ReadResponse ==
  /\ host \in Reading /\ Len(inbox) >= 2 /\ Head(inbox) \in Expected
  /\ inbox' = SubSeq(inbox, 3, Len(inbox))
  /\ LET status == inbox[1]
         code == inbox[2]
     IN \/ /\ host = "await_ready"
           /\ host' = IF status = RESPONSE_READY /\ code = 0 THEN "write" ELSE "bad_code"
           /\ UNCHANGED <<written, wired, retries>>
        \/ /\ host # "await_ready" /\ status = RESPONSE_ACK
           /\ host' = IF code = 0 THEN "ok" ELSE "bad_code"
           /\ UNCHANGED <<written, wired, retries>>
        \/ /\ host # "await_ready" /\ status # RESPONSE_ACK
           /\ IF status = RESPONSE_READY /\ code # 0
              THEN host' = "bad_code" /\ UNCHANGED <<written, wired, retries>>
              ELSE IF retries >= MAX_RETRIES
              THEN host' = "exhausted" /\ UNCHANGED <<written, wired, retries>>
              ELSE /\ host' = "write" /\ written' = 0 /\ wired' = 0
                   /\ retries' = retries + 1

(* The short deadline of poll_response, when no response is complete.      *)
PollTimeout ==
  /\ host = "poll" /\ Len(inbox) < 2 /\ host' = AfterChunk
  /\ UNCHANGED <<written, wired, retries, inbox>>

(* The long deadline of wait_response.                                     *)
WaitTimeout ==
  /\ host \in {"await_ready", "wait"} /\ Len(inbox) < 2 /\ host' = "timed_out"
  /\ UNCHANGED <<written, wired, retries, inbox>>

HostStep == WriteChunk \/ Flushed \/ SkipNoise \/ ReadResponse \/ PollTimeout
=============================================================================
