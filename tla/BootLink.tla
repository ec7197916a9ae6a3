------------------------------ MODULE BootLink ------------------------------
(***************************************************************************)
(* A download from end to end: the loader on the host, two serial lines,   *)
(* the receiver, the bootloader, the memories and the reset button.        *)
(*                                                                         *)
(* The bytes of a chunk follow each other without a gap; between chunks    *)
(* the host takes any time.  A frame may be garbled, at most MAX_FAULTS    *)
(* times, and the button may be pressed at most MAX_RESETS times.          *)
(***************************************************************************)
EXTENDS BootCtrl, BootHost

CONSTANTS
  Packet,             \* the bytes the host sends
  FIRMWARE, ASSET, ASSET_ADDR,   \* and the image it carries
  Junk,               \* bytes a garbled frame may turn into
  SDRAM_CYCLES,       \* the longest a word write takes
  MAX_FAULTS, MAX_RESETS

VARIABLES
  line_left, line_byte,       \* the frame on the line to the board
  sdram, sdram_busy,          \* what the SDRAM holds; cycles spent on this word
  faults, resets,
  accepted                    \* history: an ACK was due for this very image

linkVars == <<line_left, line_byte, sdram, sdram_busy, faults, resets, accepted>>
vars == <<rxVars, txVars, bootVars, hostVars, linkVars>>

ASSUME LinkParams ==
  /\ PACKET_BYTES = Len(Packet) /\ Len(FIRMWARE) \in 1 .. BRAM_BYTES
  /\ Packet \in Seq(Nat) /\ Junk \subseteq Nat
  /\ MAX_FAULTS \in Nat /\ MAX_RESETS \in Nat /\ SDRAM_CYCLES \in Nat \ {0}

(* What build_packet and build_image_packet put between the magic and the  *)
(* checksum: version, command, the length of the firmware, for an image    *)
(* the address and length of the asset, and the payloads.                  *)
Body == SubSeq(Packet, 5, PACKET_BYTES - FIELD)

FieldByte(s, k, at) == IF k < FIELD /\ at + k <= Len(s) THEN s[at + k] ELSE 0
FieldValue(s, at) == FieldByte(s, 0, at) + 256 * FieldByte(s, 1, at)
                     + 65536 * FieldByte(s, 2, at) + 16777216 * FieldByte(s, 3, at)

PayloadAt(cmd) == IF cmd = LOAD_IMAGE THEN 3 + 3 * FIELD ELSE 3 + FIELD

ASSUME PacketCarriesImage ==
  /\ Body[1] = PROTOCOL_VERSION /\ Body[2] \in {LOAD_AND_RUN, LOAD_IMAGE}
  /\ FieldValue(Body, 3) = Len(FIRMWARE)
  /\ IF Body[2] = LOAD_IMAGE
     THEN /\ FieldValue(Body, 3 + FIELD) = ASSET_ADDR
          /\ FieldValue(Body, 3 + 2 * FIELD) = Len(ASSET)
     ELSE ASSET = <<>>
  /\ \A i \in 1 .. Len(FIRMWARE) : FIRMWARE[i] = Body[PayloadAt(Body[2]) + i - 1]
  /\ \A i \in 1 .. Len(ASSET) :
       ASSET[i] = Body[PayloadAt(Body[2]) + Len(FIRMWARE) + i - 1]

(* And the rest of what they check or put there: the magic in front, the   *)
(* checksum behind, nothing in between but the payloads, a segment that    *)
(* fits the window.                                                        *)
BuiltPacket ==
  /\ \A i \in 1 .. 4 : Packet[i] = Magic[i]
  /\ SubSeq(Packet, PACKET_BYTES - FIELD + 1, PACKET_BYTES) = Crc(Body)
  /\ Len(Body) = PayloadAt(Body[2]) - 1 + Len(FIRMWARE) + Len(ASSET)
  /\ Body[2] = LOAD_IMAGE => ~BadSegment(ASSET_ADDR, Len(ASSET))

(* The receiver holds one byte while a word is written: there is time for  *)
(* two frames, but for the cycles that take the fourth byte and the next.  *)
(* A frame has 4340 cycles on the board, a write a few dozen.              *)
WordInTwoFrames == SDRAM_CYCLES < 2 * FRAME_CYCLES - 2

(* What the memories hold when the image is loaded, and nothing else is.   *)
ImageBram == [i \in 0 .. BRAM_BYTES - 1 |->
                IF i < Len(FIRMWARE) THEN FIRMWARE[i + 1] ELSE 0]
SdramAddrs == SDRAM_BASE_ADDR .. SDRAM_LIMIT_ADDR - 1
AssetLoaded == \A i \in 1 .. Len(ASSET) : sdram[ASSET_ADDR + i - 1] = ASSET[i]

Init ==
  /\ InReset /\ RxInit /\ TxInit /\ HostInit
  /\ bram = [i \in 0 .. BRAM_BYTES - 1 |-> 255]
  /\ line_left = 0 /\ line_byte = NoByte
  /\ sdram = [a \in SdramAddrs |-> 255] /\ sdram_busy = 0
  /\ faults = 0 /\ resets = 0 /\ accepted = FALSE

-----------------------------------------------------------------------------
(* The line: a frame ends, and the next waiting byte starts at once.       *)
LineClock ==
  IF line_left <= 1 /\ wired < written
  THEN line_left' = FRAME_CYCLES /\ line_byte' = Packet[wired + 1] /\ wired' = wired + 1
  ELSE /\ line_left' = IF line_left = 0 THEN 0 ELSE line_left - 1
       /\ UNCHANGED <<line_byte, wired>>

(* What the receiver makes of the end of a frame.                          *)
Arrival(e) ==
  IF line_left # 1 THEN e = NoByte /\ UNCHANGED faults
  ELSE \/ e = line_byte /\ UNCHANGED faults
       \/ /\ faults < MAX_FAULTS /\ faults' = faults + 1
          /\ e \in Junk \cup {BadStop, NoByte}

(* The SDRAM takes a word and answers it within SDRAM_CYCLES.              *)
SdramPins(rdy, answered, err) ==
  /\ rdy => state = "SDRAM_REQ"
  /\ answered => state = "SDRAM_RESP"
  /\ err = (sdram_write_addr % 4 # 0)
  /\ state = "SDRAM_REQ" /\ sdram_busy >= SDRAM_CYCLES - 1 => rdy
  /\ state = "SDRAM_RESP" /\ sdram_busy >= SDRAM_CYCLES => answered
  /\ sdram_busy' = IF state = "SDRAM_REQ" \/ (state = "SDRAM_RESP" /\ ~answered)
                   THEN sdram_busy + 1 ELSE 0
  /\ sdram' = IF ~rdy THEN sdram
              ELSE [a \in SdramAddrs |->
                      IF a - sdram_write_addr \in 0 .. 3
                      THEN sdram_write_data[a - sdram_write_addr] ELSE sdram[a]]

Tick(e, rdy, answered, err) ==
  /\ Arrival(e) /\ LineClock /\ SdramPins(rdy, answered, err)
  /\ BootClock(rdy, answered, err)
  /\ RxClock(e, rx_ready, clear_rx, clear_rx)
  /\ TxClock(boot_tx_valid, boot_tx_data)
  /\ inbox' = IF TxEnd = NoByte THEN inbox ELSE Append(inbox, TxEnd)
  /\ accepted' = (accepted \/ (after_run' /\ ~after_run
                               /\ bram' = ImageBram /\ AssetLoaded))
  /\ UNCHANGED <<host, written, retries, resets>>

Arrivals == {NoByte, BadStop} \cup Junk \cup {Packet[i] : i \in 1 .. PACKET_BYTES}
ClockTick == \E e \in Arrivals, rdy, answered, err \in BOOLEAN : Tick(e, rdy, answered, err)

(* The button: the board starts over, and misses the frame on the line.    *)
PressReset ==
  /\ resets < MAX_RESETS /\ resets' = resets + 1
  /\ Reset /\ RxReset /\ TxReset /\ sdram_busy' = 0 /\ line_byte' = NoByte
  /\ UNCHANGED <<bram, hostVars, line_left, sdram, faults, accepted>>

(* The released CPU uses the memory as its own.                            *)
CpuStores ==
  /\ cpu_release /\ bram' = [i \in DOMAIN bram |-> 255]
  /\ UNCHANGED <<rxVars, txVars, hostVars, linkVars, state, nth, magic_index, fieldVars,
                 indexVars, wordVars, received_crc, crc_reg, timeout_count, clear_index,
                 replyVars, clear_rx, cpu_release>>

HostSteps == HostStep /\ UNCHANGED <<rxVars, txVars, bootVars, linkVars>>

(* The long deadline of the host is longer than anything the board does:   *)
(* it only passes when the board has nothing left to say.                  *)
BoardQuiet == /\ state \in {"MAGIC", "RUN"} /\ ~data_valid /\ tx_ready
              /\ line_left = 0 /\ wired = written
HostTimesOut == BoardQuiet /\ WaitTimeout /\ UNCHANGED <<rxVars, txVars, bootVars, linkVars>>

Next == ClockTick \/ PressReset \/ CpuStores \/ HostSteps \/ HostTimesOut

Spec == Init /\ [][Next]_vars

(* The clock runs, and the loader is not stopped by its user.              *)
FairSpec == Spec /\ WF_vars(ClockTick) /\ WF_vars(HostSteps) /\ WF_vars(HostTimesOut)

-----------------------------------------------------------------------------
(* READY or NACK has been sent, so the host may send a new packet: nothing *)
(* of an earlier packet or program is left in the BRAM.                    *)
OffersClearedBram == state = "MAGIC" => \A i \in DOMAIN bram : bram[i] = 0

(* However the stream was cut, garbled or restarted, a payload byte lands  *)
(* inside the BRAM and inside the announced length, and a word is written, *)
(* aligned, inside the announced segment of the SDRAM window.              *)
WritesStayInside ==
  /\ state = "BRAM_PAYLOAD" => bram_index < bram_len /\ bram_len <= BRAM_BYTES
  /\ sdram_req_valid =>
       /\ sdram_write_addr % 4 = 0 /\ sdram_write_addr \in SdramAddrs
       /\ sdram_write_addr + 3 \in SdramAddrs
       /\ sdram_write_addr - image_sdram_addr \in 0 .. sdram_len - 4

(* The CPU is released on a complete image and nothing else, after the     *)
(* whole of ACK is on the line.                                            *)
RunsOnlyTheImage ==
  [][~cpu_release /\ cpu_release'
       => bram = ImageBram /\ AssetLoaded /\ tx_ready /\ after_run]_vars

(* The loader reports success only if the board accepted the image.        *)
SuccessIsReal == host = "ok" => accepted

(* On a clean line no retry is needed: no word write, wipe or response of  *)
(* the board takes so long that a byte is lost.                            *)
CleanLineNeedsNoRetry == faults = 0 /\ resets = 0 => retries = 0 /\ host # "exhausted"

(* A board that waits in the middle of a packet comes back to listen.      *)
BoardListensAgain == receive_state ~> state \in {"MAGIC", "RUN"}

(* The loader always ends, and never hangs on a response.                  *)
LoaderEnds == <>(host \in Finished)

(* docs/BOOTLOADER_PROTOCOL.md: after a NACK the host may send the packet  *)
(* again at once, so only failures of the line use up the retries.         *)
RetryRecovers == host = "exhausted" => faults + resets > MAX_RETRIES
=============================================================================
