------------------------------ MODULE BootCtrl ------------------------------
(***************************************************************************)
(* rtl/soc/bootloader_ctrl.v: the FSM that owns UART, BRAM and SDRAM while *)
(* the CPU is held, receives one image packet and releases the CPU.  One   *)
(* step is one clock edge.                                                 *)
(*                                                                         *)
(* An integer of the packet has FIELD bytes (4 in the RTL); `nth' is the   *)
(* number of the byte that is due, so BRAM_LEN with nth = 2 is             *)
(* STATE_BRAM_LEN_2.  CRC32 is an ideal checksum: crc_reg is the sequence  *)
(* of bytes it has absorbed and Crc(s) the trailer that belongs to s.      *)
(***************************************************************************)
EXTENDS UartPort, Sequences

CONSTANTS
  FIELD,                      \* bytes of an integer of the packet
  BRAM_WORDS,                 \* 2^BRAM_ADDR_WIDTH
  INTERBYTE_TIMEOUT_CYCLES,
  SDRAM_BASE_ADDR, SDRAM_LIMIT_ADDR,
  Crc(_)                      \* the FIELD bytes of the checksum of a sequence

ASSUME BootParams ==
  /\ FIELD \in 2 .. 4 /\ BRAM_WORDS \in Nat \ {0}
  /\ INTERBYTE_TIMEOUT_CYCLES \in Nat
  /\ SDRAM_BASE_ADDR \in Nat /\ SDRAM_LIMIT_ADDR \in Nat
  /\ SDRAM_BASE_ADDR % 4 = 0 /\ SDRAM_BASE_ADDR < SDRAM_LIMIT_ADDR

VARIABLES
  state, nth,                 \* the FSM and the byte of a field it waits for
  magic_index, command, bram_len, bram_index,
  image_sdram_addr, sdram_len, sdram_index,
  sdram_word,                 \* the first three bytes of the word being collected
  sdram_write_addr, sdram_write_data,
  received_crc, crc_reg, timeout_count, clear_index,
  response, after_run,        \* the two bytes to send; release the CPU after them
  clear_rx,                   \* both clear pulses of the receiver
  cpu_release, bram

fieldVars == <<command, bram_len, image_sdram_addr, sdram_len>>
indexVars == <<bram_index, sdram_index>>
wordVars  == <<sdram_word, sdram_write_addr, sdram_write_data>>
replyVars == <<response, after_run>>
bootVars  == <<state, nth, magic_index, fieldVars, indexVars, wordVars, received_crc,
               crc_reg, timeout_count, clear_index, replyVars, clear_rx,
               cpu_release, bram>>

READY == 82  ACK == 121  NACK == 31
ERROR_NONE == 0  ERROR_HEADER == 1  ERROR_LENGTH == 2  ERROR_UART == 3
ERROR_CRC == 4  ERROR_TIMEOUT == 5  ERROR_SDRAM == 6
LOAD_AND_RUN == 1  LOAD_IMAGE == 2  PROTOCOL_VERSION == 1
Magic == <<30, 187, 218, 186>>

BRAM_BYTES == 4 * BRAM_WORDS
ZeroBytes  == [i \in 0 .. 3 |-> 0]
ZeroBram   == [i \in 0 .. BRAM_BYTES - 1 |-> 0]

ReceiveStates == {"VERSION", "COMMAND", "BRAM_LEN", "SDRAM_ADDR", "SDRAM_LEN",
                  "BRAM_PAYLOAD", "SDRAM_PAYLOAD", "CRC"}
BootStates == ReceiveStates \cup {"CLEAR", "SEND_0", "SEND_1", "DRAIN_BUSY",
                "DRAIN_IDLE", "MAGIC", "SDRAM_REQ", "SDRAM_RESP", "RUN"}

-----------------------------------------------------------------------------
(* Outputs that depend on the state alone.                                 *)
receive_state == state \in ReceiveStates
rx_ready == state = "MAGIC" \/ receive_state
boot_tx_valid == state \in {"SEND_0", "SEND_1"}
boot_tx_data  == IF state = "SEND_0" THEN response[1] ELSE response[2]
sdram_req_valid == state = "SDRAM_REQ"

(* Variant: payload bytes are stored one lane too high.                    *)
BramPortShifted ==
  bram' = IF state = "CLEAR"
          THEN [i \in DOMAIN bram |-> IF i \div 4 = clear_index THEN 0 ELSE bram[i]]
          ELSE IF state = "BRAM_PAYLOAD" /\ data_valid
          THEN [bram EXCEPT ![(bram_index + 1) % BRAM_BYTES] = data_out]
          ELSE bram

(* The BRAM port: CLEAR zeroes a word, and a payload byte is stored in the *)
(* cycle it is taken, even one that comes with an error flag raised.       *)
BramPort ==
  bram' = IF state = "CLEAR"
          THEN [i \in DOMAIN bram |-> IF i \div 4 = clear_index THEN 0 ELSE bram[i]]
          ELSE IF state = "BRAM_PAYLOAD" /\ data_valid
          THEN [bram EXCEPT ![bram_index % BRAM_BYTES] = data_out]
          ELSE bram

InReset ==
  /\ state = "CLEAR" /\ nth = 0 /\ magic_index = 0 /\ command = 0
  /\ bram_len = 0 /\ bram_index = 0 /\ image_sdram_addr = 0
  /\ sdram_len = 0 /\ sdram_index = 0
  /\ sdram_word = [i \in 0 .. 2 |-> 0] /\ sdram_write_addr = 0
  /\ sdram_write_data = ZeroBytes
  /\ received_crc = <<>> /\ crc_reg = <<>>
  /\ timeout_count = 0 /\ clear_index = 0
  /\ response = <<READY, ERROR_NONE>> /\ after_run = FALSE
  /\ clear_rx = FALSE /\ cpu_release = FALSE

Reset ==
  /\ state' = "CLEAR" /\ nth' = 0 /\ magic_index' = 0 /\ command' = 0
  /\ bram_len' = 0 /\ bram_index' = 0 /\ image_sdram_addr' = 0
  /\ sdram_len' = 0 /\ sdram_index' = 0
  /\ sdram_word' = [i \in 0 .. 2 |-> 0] /\ sdram_write_addr' = 0
  /\ sdram_write_data' = ZeroBytes
  /\ received_crc' = <<>> /\ crc_reg' = <<>>
  /\ timeout_count' = 0 /\ clear_index' = 0
  /\ response' = <<READY, ERROR_NONE>> /\ after_run' = FALSE
  /\ clear_rx' = FALSE /\ cpu_release' = FALSE

-----------------------------------------------------------------------------
(* Variant: a failure answers NACK without wiping the BRAM.                *)
FailNoClear(err) ==
  /\ state' = "SEND_0" /\ nth' = 0 /\ clear_index' = 0
  /\ response' = <<NACK, err>> /\ after_run' = FALSE

(* Every failure: wipe the BRAM, answer NACK, listen again.                *)
Fail(err) ==
  /\ state' = "CLEAR" /\ nth' = 0 /\ clear_index' = 0
  /\ response' = <<NACK, err>> /\ after_run' = FALSE

(* The branch every cycle takes first: a receiver error, then a silence.   *)
Garbled == receive_state /\ (overrun \/ framing_error)
Silent  == /\ receive_state /\ ~data_valid /\ INTERBYTE_TIMEOUT_CYCLES > 0
           /\ timeout_count >= INTERBYTE_TIMEOUT_CYCLES - 1

NoFieldWritten == UNCHANGED <<magic_index, fieldVars, indexVars, wordVars,
                              received_crc, crc_reg>>

UartError ==
  /\ Garbled /\ Fail(ERROR_UART) /\ clear_rx' = TRUE /\ timeout_count' = 0
  /\ NoFieldWritten /\ UNCHANGED cpu_release

Timeout ==
  /\ ~Garbled /\ Silent /\ Fail(ERROR_TIMEOUT) /\ clear_rx' = FALSE
  /\ timeout_count' = 0
  /\ NoFieldWritten /\ UNCHANGED cpu_release

(* Variant: the silence of the line is never counted.                      *)
NormalNoTimer == ~Garbled /\ ~Silent /\ clear_rx' = FALSE /\ timeout_count' = 0

(* The rest of a cycle without error: the timer, and the clear pulses.     *)
Normal ==
  /\ ~Garbled /\ ~Silent /\ clear_rx' = FALSE
  /\ timeout_count' = IF receive_state /\ ~data_valid /\ INTERBYTE_TIMEOUT_CYCLES > 0
                      THEN timeout_count + 1 ELSE 0

KeepReply == UNCHANGED <<clear_index, replyVars, cpu_release>>

-----------------------------------------------------------------------------
(* States that do not listen.                                              *)
Clear ==
  /\ state = "CLEAR" /\ cpu_release' = FALSE
  /\ IF clear_index = BRAM_WORDS - 1
     THEN clear_index' = 0 /\ state' = "SEND_0"
     ELSE clear_index' = clear_index + 1 /\ UNCHANGED state
  /\ NoFieldWritten /\ UNCHANGED <<nth, replyVars>>

Send(s, t) ==
  /\ state = s /\ state' = IF tx_ready THEN t ELSE s
  /\ NoFieldWritten /\ KeepReply /\ UNCHANGED nth

DrainBusy ==
  /\ state = "DRAIN_BUSY" /\ state' = IF tx_ready THEN state ELSE "DRAIN_IDLE"
  /\ NoFieldWritten /\ KeepReply /\ UNCHANGED nth

DrainIdle ==
  /\ state = "DRAIN_IDLE"
  /\ IF ~tx_ready THEN UNCHANGED <<state, magic_index, cpu_release>>
     ELSE IF after_run
     THEN state' = "RUN" /\ cpu_release' = TRUE /\ UNCHANGED magic_index
     ELSE state' = "MAGIC" /\ magic_index' = 0 /\ UNCHANGED cpu_release
  /\ UNCHANGED <<nth, fieldVars, indexVars, wordVars, received_crc, crc_reg,
                 clear_index, replyVars>>

Run ==
  /\ state = "RUN" /\ cpu_release' = TRUE
  /\ NoFieldWritten /\ UNCHANGED <<state, nth, clear_index, replyVars>>

-----------------------------------------------------------------------------
(* States that listen and have no byte yet.                                *)
Listen ==
  /\ rx_ready /\ ~data_valid
  /\ NoFieldWritten /\ KeepReply /\ UNCHANGED <<state, nth>>

(* The magic is found by sliding: a wrong byte may be its first one.       *)
MagicByte ==
  /\ state = "MAGIC" /\ data_valid
  /\ IF data_out # Magic[magic_index + 1]
     THEN /\ magic_index' = IF data_out = Magic[1] THEN 1 ELSE 0
          /\ UNCHANGED <<state, nth, bram_len, image_sdram_addr, sdram_len, indexVars,
                         received_crc, crc_reg>>
     ELSE IF magic_index < 3
     THEN /\ magic_index' = magic_index + 1
          /\ UNCHANGED <<state, nth, bram_len, image_sdram_addr, sdram_len, indexVars,
                         received_crc, crc_reg>>
     ELSE /\ magic_index' = 0 /\ state' = "VERSION" /\ nth' = 0
          /\ bram_len' = 0 /\ image_sdram_addr' = 0 /\ sdram_len' = 0
          /\ bram_index' = 0 /\ sdram_index' = 0
          /\ received_crc' = <<>> /\ crc_reg' = <<>>
  /\ UNCHANGED <<command, wordVars>> /\ KeepReply

(* A byte taken in state s that the checksum covers.                       *)
Take(s) ==
  /\ state = s /\ data_valid /\ crc_reg' = Append(crc_reg, data_out)
  /\ UNCHANGED <<magic_index, received_crc, cpu_release>>

VersionByte ==
  /\ Take("VERSION")
  /\ IF data_out = PROTOCOL_VERSION
     THEN state' = "COMMAND" /\ UNCHANGED <<nth, clear_index, replyVars>>
     ELSE Fail(ERROR_HEADER)
  /\ UNCHANGED <<fieldVars, indexVars, wordVars>>

CommandByte ==
  /\ Take("COMMAND") /\ command' = data_out
  /\ IF data_out \in {LOAD_AND_RUN, LOAD_IMAGE}
     THEN state' = "BRAM_LEN" /\ nth' = 0 /\ UNCHANGED <<clear_index, replyVars>>
     ELSE Fail(ERROR_HEADER)
  /\ UNCHANGED <<bram_len, image_sdram_addr, sdram_len, indexVars, wordVars>>

(* A little-endian field that gets its next byte.                          *)
Weight == <<1, 256, 65536, 16777216>>

(* Variant: the bytes of a field are shifted by one place.                 *)
WidenHigh(value) == value + data_out * 256 * Weight[nth + 1]

Widen(value) == value + data_out * Weight[nth + 1]
LastOfField  == nth = FIELD - 1
NextOfField(t) == IF LastOfField THEN state' = t /\ nth' = 0
                  ELSE nth' = nth + 1 /\ UNCHANGED state

BramLenByte ==
  /\ Take("BRAM_LEN") /\ bram_len' = Widen(bram_len)
  /\ bram_index' = IF LastOfField THEN 0 ELSE bram_index
  /\ IF LastOfField /\ bram_len' \notin 1 .. BRAM_BYTES
     THEN Fail(ERROR_LENGTH)
     ELSE /\ NextOfField(IF command = LOAD_IMAGE THEN "SDRAM_ADDR" ELSE "BRAM_PAYLOAD")
          /\ UNCHANGED <<clear_index, replyVars>>
  /\ UNCHANGED <<command, image_sdram_addr, sdram_len, sdram_index, wordVars>>

SdramAddrByte ==
  /\ Take("SDRAM_ADDR") /\ image_sdram_addr' = Widen(image_sdram_addr)
  /\ NextOfField("SDRAM_LEN")
  /\ UNCHANGED <<command, bram_len, sdram_len, indexVars, wordVars, clear_index, replyVars>>

(* Variant: the alignment of the address is not looked at.                 *)
BadSegmentAligned(addr, len) ==
  \/ len = 0 \/ len % 4 # 0
  \/ addr < SDRAM_BASE_ADDR \/ addr >= SDRAM_LIMIT_ADDR
  \/ len > SDRAM_LIMIT_ADDR - addr

(* The window and the alignment of the SDRAM segment.                      *)
BadSegment(addr, len) ==
  \/ len = 0 \/ len % 4 # 0 \/ addr % 4 # 0
  \/ addr < SDRAM_BASE_ADDR \/ addr >= SDRAM_LIMIT_ADDR
  \/ len > SDRAM_LIMIT_ADDR - addr

(* The code looks at the low bits of the length registered so far.  With   *)
(* FIELD > 1 they are those of the whole length.                           *)
SdramLenByte ==
  /\ Take("SDRAM_LEN") /\ sdram_len' = Widen(sdram_len)
  /\ sdram_index' = IF LastOfField THEN 0 ELSE sdram_index
  /\ IF LastOfField /\ BadSegment(image_sdram_addr, sdram_len')
     THEN Fail(ERROR_LENGTH)
     ELSE NextOfField("BRAM_PAYLOAD") /\ UNCHANGED <<clear_index, replyVars>>
  /\ UNCHANGED <<command, bram_len, image_sdram_addr, bram_index, wordVars>>

BramPayloadByte ==
  /\ Take("BRAM_PAYLOAD") /\ bram_index' = bram_index + 1
  /\ state' = IF bram_index + 1 # bram_len THEN state
              ELSE IF command = LOAD_IMAGE THEN "SDRAM_PAYLOAD" ELSE "CRC"
  /\ UNCHANGED <<nth, fieldVars, sdram_index, wordVars, clear_index, replyVars>>

(* Every fourth byte completes a word, which is written before the next.   *)
SdramPayloadByte ==
  /\ Take("SDRAM_PAYLOAD") /\ sdram_index' = sdram_index + 1
  /\ IF sdram_index % 4 = 3
     THEN /\ sdram_write_data' = [i \in 0 .. 3 |-> IF i = 3 THEN data_out ELSE sdram_word[i]]
          /\ sdram_write_addr' = image_sdram_addr + sdram_index - 3
          /\ state' = "SDRAM_REQ" /\ UNCHANGED sdram_word
     ELSE /\ sdram_word' = [sdram_word EXCEPT ![sdram_index % 4] = data_out]
          /\ UNCHANGED <<state, sdram_write_addr, sdram_write_data>>
  /\ UNCHANGED <<nth, fieldVars, bram_index, clear_index, replyVars>>

(* The SDRAM write: rdy, answered and err are the controller's pins.       *)
SdramReq(rdy) ==
  /\ state = "SDRAM_REQ" /\ state' = IF rdy THEN "SDRAM_RESP" ELSE state
  /\ NoFieldWritten /\ KeepReply /\ UNCHANGED nth

SdramResp(answered, err) ==
  /\ state = "SDRAM_RESP"
  /\ IF answered /\ err THEN Fail(ERROR_SDRAM)
     ELSE /\ state' = IF ~answered THEN state
                      ELSE IF sdram_index = sdram_len THEN "CRC" ELSE "SDRAM_PAYLOAD"
          /\ UNCHANGED <<nth, clear_index, replyVars>>
  /\ NoFieldWritten /\ UNCHANGED cpu_release

(* Variant: ACK whatever the trailer says.                                 *)
CrcByteUnchecked ==
  /\ state = "CRC" /\ data_valid /\ received_crc' = Append(received_crc, data_out)
  /\ IF ~LastOfField
     THEN nth' = nth + 1 /\ UNCHANGED <<state, clear_index, replyVars>>
     ELSE /\ state' = "SEND_0" /\ nth' = 0 /\ UNCHANGED clear_index
          /\ response' = <<ACK, ERROR_NONE>> /\ after_run' = TRUE
  /\ UNCHANGED <<magic_index, fieldVars, indexVars, wordVars, crc_reg, cpu_release>>

(* The trailer: ACK and no clearing when it is the checksum of the packet. *)
CrcByte ==
  /\ state = "CRC" /\ data_valid /\ received_crc' = Append(received_crc, data_out)
  /\ IF ~LastOfField
     THEN nth' = nth + 1 /\ UNCHANGED <<state, clear_index, replyVars>>
     ELSE IF received_crc' = Crc(crc_reg)
     THEN /\ state' = "SEND_0" /\ nth' = 0 /\ UNCHANGED clear_index
          /\ response' = <<ACK, ERROR_NONE>> /\ after_run' = TRUE
     ELSE Fail(ERROR_CRC)
  /\ UNCHANGED <<magic_index, fieldVars, indexVars, wordVars, crc_reg, cpu_release>>

-----------------------------------------------------------------------------
(* One clock edge with reset low.                                          *)
BootClock(rdy, answered, err) ==
  /\ BramPort
  /\ \/ UartError \/ Timeout
     \/ /\ Normal
        /\ \/ Clear \/ Send("SEND_0", "SEND_1") \/ Send("SEND_1", "DRAIN_BUSY")
           \/ DrainBusy \/ DrainIdle \/ Run \/ Listen \/ MagicByte
           \/ VersionByte \/ CommandByte \/ BramLenByte \/ SdramAddrByte
           \/ SdramLenByte \/ BramPayloadByte \/ SdramPayloadByte
           \/ SdramReq(rdy) \/ SdramResp(answered, err) \/ CrcByte
=============================================================================
