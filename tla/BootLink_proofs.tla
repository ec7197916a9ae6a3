--------------------------- MODULE BootLink_proofs ---------------------------
(***************************************************************************)
(* The bootloader, for every BRAM and window size, packet, line fault and  *)
(* reset: it only asks for a packet when the whole BRAM is zero; payload   *)
(* bytes land inside the announced segments; and, for an ideal checksum,   *)
(* the CPU starts on the image of the host and on nothing else, the loader *)
(* reports success only if the board has accepted it, and on a clean line  *)
(* a good packet is taken at the first attempt.                            *)
(***************************************************************************)
EXTENDS BootLink, TLAPS

Bytes == 0 .. BRAM_BYTES - 1
Wiped(n) == \A i \in Bytes : i \div 4 < n => bram[i] = 0

(* Where a response is on its way to the host.                             *)
Replying == {"SEND_0", "SEND_1", "DRAIN_BUSY", "DRAIN_IDLE"}

(* CLEAR has wiped the words below clear_index; a response other than ACK, *)
(* whose end leads to MAGIC, leaves with all of them wiped; the CPU, which *)
(* writes what it likes, only runs in RUN.                                 *)
WipeInv ==
  /\ bram = [i \in Bytes |-> bram[i]]
  /\ clear_index \in 0 .. BRAM_WORDS - 1
  /\ state = "CLEAR" => after_run = FALSE /\ Wiped(clear_index)
  /\ state \in Replying => after_run \/ Wiped(BRAM_WORDS)
  /\ state = "MAGIC" => Wiped(BRAM_WORDS)
  /\ cpu_release => state = "RUN"

LEMMA WordsOfBytes == \A i \in Bytes : i \div 4 \in 0 .. BRAM_WORDS - 1
BY BootParams DEF Bytes, BRAM_BYTES

(***************************************************************************)
(* What happens to the BRAM in one clock edge.                             *)
(***************************************************************************)
LEMMA PortShape ==
  ASSUME WipeInv, BramPort
  PROVE  bram' = [i \in Bytes |-> bram'[i]]
<1>1. DOMAIN bram = Bytes
  BY DEF WipeInv
<1>2. CASE state = "CLEAR"
  BY <1>1, <1>2 DEF BramPort
<1>3. CASE state # "CLEAR" /\ state = "BRAM_PAYLOAD" /\ data_valid
  BY <1>3 DEF BramPort, WipeInv
<1>4. CASE state # "CLEAR" /\ ~(state = "BRAM_PAYLOAD" /\ data_valid)
  BY <1>4 DEF BramPort, WipeInv
<1> QED BY <1>2, <1>3, <1>4

(* Nothing is written outside of CLEAR and BRAM_PAYLOAD.                   *)
LEMMA PortIdle == BramPort /\ state \notin {"CLEAR", "BRAM_PAYLOAD"} => UNCHANGED bram
BY DEF BramPort

LEMMA PortClears ==
  ASSUME WipeInv, BramPort, state = "CLEAR"
  PROVE  \A i \in Bytes : i \div 4 <= clear_index => bram'[i] = 0
<1> SUFFICES ASSUME NEW i \in Bytes, i \div 4 <= clear_index
             PROVE  bram'[i] = 0
  OBVIOUS
<1>1. DOMAIN bram = Bytes
  BY DEF WipeInv
<1>2. bram'[i] = IF i \div 4 = clear_index THEN 0 ELSE bram[i]
  BY <1>1 DEF BramPort
<1>3. clear_index \in Int /\ i \div 4 \in Int
  BY WordsOfBytes DEF WipeInv
<1>4. i \div 4 # clear_index => bram[i] = 0
  BY <1>3 DEF WipeInv, Wiped
<1> QED BY <1>2, <1>4

(***************************************************************************)
(* The kinds of steps of the FSM.                                          *)
(***************************************************************************)
LEMMA BramWordsPositive == BRAM_WORDS \in Nat \ {0}
BY BootParams

(* A failure starts the wiping over.                                       *)
LEMMA WipeFail ==
  ASSUME WipeInv, BramPort, NEW err, Fail(err), UNCHANGED cpu_release, state # "RUN"
  PROVE  WipeInv'
<1>1. bram' = [i \in Bytes |-> bram'[i]]
  BY PortShape
<1>2. clear_index' = 0 /\ state' = "CLEAR" /\ after_run' = FALSE
  BY DEF Fail
<1>3. \A i \in Bytes : ~(i \div 4 < 0)
  BY WordsOfBytes
<1>4. ~cpu_release'
  BY DEF WipeInv
<1> QED BY <1>1, <1>2, <1>3, <1>4, BramWordsPositive DEF WipeInv, Wiped, Bytes, BRAM_BYTES, Replying

(* A step from one listening state to another, or to the SDRAM.            *)
Busy == ReceiveStates \cup {"SDRAM_REQ", "SDRAM_RESP"}

LEMMA WipeOnward ==
  ASSUME WipeInv, BramPort, state' \in Busy, UNCHANGED <<clear_index, cpu_release>>,
         state # "RUN"
  PROVE  WipeInv'
<1>1. bram' = [i \in Bytes |-> bram'[i]]
  BY PortShape
<1>2. state' \notin Replying \cup {"CLEAR", "MAGIC", "RUN"}
  BY DEF Busy, ReceiveStates, Replying
<1>3. ~cpu_release' /\ clear_index' \in 0 .. BRAM_WORDS - 1
  BY DEF WipeInv
<1> QED BY <1>1, <1>2, <1>3 DEF WipeInv, Wiped, Bytes, BRAM_BYTES

(* A step that leaves the BRAM and all that is said about it alone.        *)
LEMMA WipeFrame ==
  WipeInv /\ UNCHANGED <<bram, clear_index, state, after_run, cpu_release>> => WipeInv'
BY DEF WipeInv, Wiped, Bytes, BRAM_BYTES

LEMMA WipeClear == ASSUME WipeInv, BramPort, Clear PROVE WipeInv'
<1>1. bram' = [i \in Bytes |-> bram'[i]]
  BY PortShape
<1>2. state = "CLEAR" /\ after_run' = FALSE /\ cpu_release' = FALSE
  BY DEF Clear, replyVars, WipeInv
<1>3. \A i \in Bytes : i \div 4 <= clear_index => bram'[i] = 0
  BY <1>2, PortClears
<1>4. clear_index \in 0 .. BRAM_WORDS - 1
  BY DEF WipeInv
<1>5. CASE clear_index = BRAM_WORDS - 1
  <2>1. clear_index' = 0 /\ state' = "SEND_0"
    BY <1>5 DEF Clear
  <2>2. \A i \in Bytes : bram'[i] = 0
    BY <1>3, <1>5, WordsOfBytes
  <2> QED BY <1>1, <1>2, <2>1, <2>2, BramWordsPositive
          DEF WipeInv, Wiped, Bytes, BRAM_BYTES, Replying
<1>6. CASE clear_index # BRAM_WORDS - 1
  <2>1. clear_index' = clear_index + 1 /\ state' = "CLEAR"
    BY <1>2, <1>6 DEF Clear
  <2>2. clear_index' \in 0 .. BRAM_WORDS - 1
    BY <1>4, <1>6, <2>1, BramWordsPositive
  <2>3. \A i \in Bytes : i \div 4 < clear_index' => bram'[i] = 0
    BY <1>3, <1>4, <2>1, WordsOfBytes
  <2> QED BY <1>1, <1>2, <2>1, <2>2, <2>3 DEF WipeInv, Wiped, Bytes, BRAM_BYTES, Replying
<1> QED BY <1>5, <1>6

(* The response is sent and the line drained.                              *)
LEMMA WipeReply ==
  ASSUME WipeInv, BramPort, state \in Replying, state' \in Replying,
         UNCHANGED <<clear_index, after_run, cpu_release>>
  PROVE  WipeInv'
<1>1. UNCHANGED bram
  BY PortIdle DEF Replying
<1>2. state' \notin {"CLEAR", "MAGIC"} /\ ~cpu_release'
  BY DEF Replying, WipeInv
<1> QED BY <1>1, <1>2 DEF WipeInv, Wiped, Bytes, BRAM_BYTES, Replying

LEMMA WipeDrained == ASSUME WipeInv, BramPort, DrainIdle PROVE WipeInv'
<1>1. state = "DRAIN_IDLE" /\ UNCHANGED <<clear_index, after_run>>
  BY DEF DrainIdle, replyVars
<1>2. UNCHANGED bram
  BY <1>1, PortIdle
<1>3. CASE ~tx_ready
  <2>1. UNCHANGED <<state, cpu_release>>
    BY <1>3 DEF DrainIdle
  <2> QED BY <1>1, <1>2, <2>1, WipeFrame
<1>4. CASE tx_ready /\ after_run
  <2>1. state' = "RUN"
    BY <1>4 DEF DrainIdle
  <2> QED BY <1>1, <1>2, <2>1 DEF WipeInv, Wiped, Bytes, BRAM_BYTES, Replying
<1>5. CASE tx_ready /\ ~after_run
  <2>1. state' = "MAGIC" /\ UNCHANGED cpu_release
    BY <1>5 DEF DrainIdle
  <2>2. Wiped(BRAM_WORDS) /\ ~cpu_release
    BY <1>1, <1>5 DEF WipeInv, Replying
  <2> QED BY <1>1, <1>2, <2>1, <2>2 DEF WipeInv, Wiped, Bytes, BRAM_BYTES, Replying
<1> QED BY <1>3, <1>4, <1>5

LEMMA WipeCrc == ASSUME WipeInv, BramPort, CrcByte PROVE WipeInv'
<1>1. state = "CRC" /\ UNCHANGED cpu_release
  BY DEF CrcByte
<1>2. CASE ~LastOfField
  <2>1. state' = "CRC" /\ UNCHANGED clear_index
    BY <1>1, <1>2 DEF CrcByte
  <2> QED BY <1>1, <2>1, WipeOnward DEF Busy, ReceiveStates
<1>3. CASE LastOfField /\ received_crc' # Crc(crc_reg)
  <2>1. Fail(ERROR_CRC)
    BY <1>3 DEF CrcByte
  <2> QED BY <1>1, <2>1, WipeFail
<1>4. CASE LastOfField /\ received_crc' = Crc(crc_reg)
  <2>1. state' = "SEND_0" /\ after_run' = TRUE /\ UNCHANGED clear_index
    BY <1>4 DEF CrcByte
  <2>2. UNCHANGED bram /\ ~cpu_release'
    BY <1>1, PortIdle DEF WipeInv
  <2> QED BY <2>1, <2>2 DEF WipeInv, Wiped, Bytes, BRAM_BYTES, Replying
<1> QED BY <1>2, <1>3, <1>4

(* A byte of the magic: in the middle of it the BRAM stays wiped.          *)
LEMMA WipeMagic == ASSUME WipeInv, BramPort, MagicByte PROVE WipeInv'
<1>1. state = "MAGIC" /\ UNCHANGED <<clear_index, after_run, cpu_release>>
  BY DEF MagicByte, KeepReply, replyVars
<1>2. UNCHANGED bram
  BY <1>1, PortIdle
<1>3. UNCHANGED state \/ state' = "VERSION"
  BY DEF MagicByte
<1> QED BY <1>1, <1>2, <1>3, WipeFrame, WipeOnward DEF Busy, ReceiveStates

(* The bytes of the header and the two payloads.                           *)
LEMMA PacketStep ==
  ASSUME \/ VersionByte \/ CommandByte \/ BramLenByte \/ SdramAddrByte
         \/ SdramLenByte \/ BramPayloadByte \/ SdramPayloadByte
  PROVE  /\ state \in ReceiveStates /\ UNCHANGED cpu_release
         /\ \/ \E err : Fail(err)
            \/ state' \in Busy /\ UNCHANGED clear_index
<1>1. VersionByte =>
        /\ state = "VERSION" /\ UNCHANGED cpu_release
        /\ \/ Fail(ERROR_HEADER)
           \/ /\ state' = "COMMAND"
              /\ UNCHANGED clear_index
  BY DEF VersionByte, Take, replyVars
<1>2. CommandByte =>
        /\ state = "COMMAND" /\ UNCHANGED cpu_release
        /\ \/ Fail(ERROR_HEADER)
           \/ /\ state' = "BRAM_LEN"
              /\ UNCHANGED clear_index
  BY DEF CommandByte, Take, replyVars
<1>3. BramLenByte =>
        /\ state = "BRAM_LEN" /\ UNCHANGED cpu_release
        /\ \/ Fail(ERROR_LENGTH)
           \/ /\ state' \in {"BRAM_LEN", "SDRAM_ADDR", "BRAM_PAYLOAD"}
              /\ UNCHANGED clear_index
  BY DEF BramLenByte, Take, NextOfField, replyVars
<1>4. SdramAddrByte =>
        /\ state = "SDRAM_ADDR" /\ UNCHANGED cpu_release
        /\ state' \in {"SDRAM_ADDR", "SDRAM_LEN"} /\ UNCHANGED clear_index
  BY DEF SdramAddrByte, Take, NextOfField
<1>5. SdramLenByte =>
        /\ state = "SDRAM_LEN" /\ UNCHANGED cpu_release
        /\ \/ Fail(ERROR_LENGTH)
           \/ /\ state' \in {"SDRAM_LEN", "BRAM_PAYLOAD"}
              /\ UNCHANGED clear_index
  BY DEF SdramLenByte, Take, NextOfField, replyVars
<1>6. BramPayloadByte =>
        /\ state = "BRAM_PAYLOAD" /\ UNCHANGED <<cpu_release, clear_index>>
        /\ state' \in {"BRAM_PAYLOAD", "SDRAM_PAYLOAD", "CRC"}
  BY DEF BramPayloadByte, Take
<1>7. SdramPayloadByte =>
        /\ state = "SDRAM_PAYLOAD" /\ UNCHANGED <<cpu_release, clear_index>>
        /\ state' \in {"SDRAM_PAYLOAD", "SDRAM_REQ"}
  BY DEF SdramPayloadByte, Take
<1> QED BY <1>1, <1>2, <1>3, <1>4, <1>5, <1>6, <1>7 DEF Busy, ReceiveStates

(* The SDRAM write of a word.                                              *)
LEMMA WordStep ==
  ASSUME NEW rdy, NEW answered, NEW err, SdramReq(rdy) \/ SdramResp(answered, err)
  PROVE  /\ state \in Busy /\ UNCHANGED cpu_release
         /\ \/ Fail(ERROR_SDRAM)
            \/ state' \in Busy /\ UNCHANGED clear_index
<1>1. SdramReq(rdy) =>
        /\ state = "SDRAM_REQ" /\ UNCHANGED <<cpu_release, clear_index>>
        /\ state' \in {"SDRAM_REQ", "SDRAM_RESP"}
  BY DEF SdramReq, KeepReply
<1>2. SdramResp(answered, err) =>
        /\ state = "SDRAM_RESP" /\ UNCHANGED cpu_release
        /\ \/ Fail(ERROR_SDRAM)
           \/ /\ state' \in {"SDRAM_RESP", "CRC", "SDRAM_PAYLOAD"}
              /\ UNCHANGED clear_index
  BY DEF SdramResp, replyVars
<1> QED BY <1>1, <1>2 DEF Busy, ReceiveStates

-----------------------------------------------------------------------------
(* One clock edge of the bootloader.                                       *)
LEMMA WipeClock ==
  ASSUME WipeInv, NEW rdy, NEW answered, NEW err, BootClock(rdy, answered, err)
  PROVE  WipeInv'
<1>1. BramPort
  BY DEF BootClock
<1>2. CASE UartError \/ Timeout
  <2>1. receive_state /\ UNCHANGED cpu_release /\ \E code : Fail(code)
    BY <1>2 DEF UartError, Timeout, Garbled, Silent
  <2> QED BY <1>1, <2>1, WipeFail DEF receive_state, ReceiveStates
<1>3. CASE Clear
  BY <1>1, <1>3, WipeClear
<1>4. CASE Send("SEND_0", "SEND_1") \/ Send("SEND_1", "DRAIN_BUSY") \/ DrainBusy
  <2>1. state \in Replying /\ state' \in Replying
        /\ UNCHANGED <<clear_index, after_run, cpu_release>>
    BY <1>4 DEF Send, DrainBusy, KeepReply, replyVars, Replying
  <2> QED BY <1>1, <2>1, WipeReply
<1>5. CASE DrainIdle
  BY <1>1, <1>5, WipeDrained
<1>6. CASE Run
  <2>1. state = "RUN" /\ UNCHANGED <<state, clear_index, after_run>>
    BY <1>6 DEF Run, replyVars
  <2>2. UNCHANGED bram
    BY <1>1, <2>1, PortIdle
  <2> QED BY <2>1, <2>2 DEF WipeInv, Wiped, Bytes, BRAM_BYTES, Replying
<1>7. CASE Listen
  <2>1. UNCHANGED <<state, clear_index, after_run, cpu_release>>
    BY <1>7 DEF Listen, KeepReply, replyVars
  <2>2. rx_ready /\ ~data_valid
    BY <1>7 DEF Listen
  <2>3. UNCHANGED bram
    BY <1>1, <2>2 DEF BramPort, rx_ready, receive_state, ReceiveStates
  <2> QED BY <2>1, <2>3, WipeFrame
<1>8. CASE MagicByte
  BY <1>1, <1>8, WipeMagic
<1>9. CASE \/ VersionByte \/ CommandByte \/ BramLenByte \/ SdramAddrByte
           \/ SdramLenByte \/ BramPayloadByte \/ SdramPayloadByte
  BY <1>1, <1>9, PacketStep, WipeFail, WipeOnward DEF ReceiveStates
<1>10. CASE SdramReq(rdy) \/ SdramResp(answered, err)
  BY <1>1, <1>10, WordStep, WipeFail, WipeOnward DEF Busy, ReceiveStates
<1>11. CASE CrcByte
  BY <1>1, <1>11, WipeCrc
<1> QED BY <1>2, <1>3, <1>4, <1>5, <1>6, <1>7, <1>8, <1>9, <1>10, <1>11 DEF BootClock

(* A reset starts the wiping over, at any moment.                          *)
LEMMA WipeReset == ASSUME WipeInv, PressReset PROVE WipeInv'
<1>1. UNCHANGED bram /\ state' = "CLEAR" /\ clear_index' = 0
      /\ after_run' = FALSE /\ cpu_release' = FALSE
  BY DEF PressReset, Reset
<1>2. \A i \in Bytes : ~(i \div 4 < 0)
  BY WordsOfBytes
<1> QED BY <1>1, <1>2, BramWordsPositive DEF WipeInv, Wiped, Bytes, BRAM_BYTES, Replying

LEMMA WipeCpu == ASSUME WipeInv, CpuStores PROVE WipeInv'
<1>1. bram' = [i \in Bytes |-> 255]
  BY DEF CpuStores, WipeInv
<1>2. state = "RUN" /\ UNCHANGED <<state, clear_index, after_run, cpu_release>>
  BY DEF CpuStores, WipeInv, replyVars
<1>3. bram' = [i \in Bytes |-> bram'[i]]
  BY <1>1
<1> QED BY <1>2, <1>3 DEF WipeInv, Wiped, Bytes, BRAM_BYTES, Replying

LEMMA WipeStep == WipeInv /\ [Next]_vars => WipeInv'
<1> SUFFICES ASSUME WipeInv, [Next]_vars PROVE WipeInv'
  OBVIOUS
<1>1. CASE ClockTick
  BY <1>1, WipeClock DEF ClockTick, Tick
<1>2. CASE PressReset
  BY <1>2, WipeReset
<1>3. CASE CpuStores
  BY <1>3, WipeCpu
<1>4. CASE HostSteps \/ HostTimesOut \/ UNCHANGED vars
  <2>1. UNCHANGED bootVars
    BY <1>4 DEF HostSteps, HostTimesOut, vars
  <2>2. UNCHANGED <<bram, clear_index, state, after_run, cpu_release>>
    BY <2>1 DEF bootVars, replyVars
  <2> QED BY <2>2, WipeFrame
<1> QED BY <1>1, <1>2, <1>3, <1>4 DEF Next

LEMMA WipeInit == Init => WipeInv
<1> SUFFICES ASSUME Init PROVE WipeInv
  OBVIOUS
<1>1. bram = [i \in Bytes |-> 255] /\ state = "CLEAR" /\ clear_index = 0
      /\ after_run = FALSE /\ cpu_release = FALSE
  BY DEF Init, InReset, Bytes
<1>2. bram = [i \in Bytes |-> bram[i]]
  BY <1>1
<1>3. \A i \in Bytes : ~(i \div 4 < 0)
  BY WordsOfBytes
<1> QED BY <1>1, <1>2, <1>3, BramWordsPositive DEF WipeInv, Wiped, Replying

(* How far the wiping has come is known in every state of the bootloader.  *)
THEOREM WipeInvariance == Spec => []WipeInv
<1> QED BY WipeInit, WipeStep, PTL DEF Spec

(* docs/BOOTLOADER_PROTOCOL.md: READY or NACK is only out when the BRAM is *)
(* zero again.                                                             *)
THEOREM BramOfferedClear == Spec => []OffersClearedBram
<1>1. WipeInv => OffersClearedBram
  <2> SUFFICES ASSUME WipeInv, state = "MAGIC", NEW i \in DOMAIN bram
               PROVE  bram[i] = 0
    BY DEF OffersClearedBram
  <2>1. i \in Bytes /\ Wiped(BRAM_WORDS)
    BY DEF WipeInv
  <2>2. i \div 4 \in 0 .. BRAM_WORDS - 1
    BY <2>1, WordsOfBytes
  <2>3. i \div 4 < BRAM_WORDS
    BY <2>2, BootParams
  <2> QED BY <2>1, <2>3 DEF Wiped
<1> QED BY <1>1, WipeInvariance, PTL

-----------------------------------------------------------------------------
(***************************************************************************)
(* Where the payload bytes go.  The fields of a header are only read when  *)
(* they are complete, so the invariant says, state by state, what has been *)
(* checked of them and how far the two indices have come.                  *)
(***************************************************************************)
FieldsTyped ==
  /\ bram_len \in Nat /\ bram_index \in Nat
  /\ image_sdram_addr \in Nat /\ sdram_len \in Nat /\ sdram_index \in Nat
  /\ nth \in 0 .. FIELD - 1

GoodSegment == ~BadSegment(image_sdram_addr, sdram_len)
BeforeSdram == {"VERSION", "COMMAND", "BRAM_LEN", "SDRAM_ADDR", "SDRAM_LEN", "BRAM_PAYLOAD"}
WordStates  == {"SDRAM_REQ", "SDRAM_RESP"}

Placed ==
  /\ state \in {"SDRAM_ADDR", "SDRAM_LEN", "BRAM_PAYLOAD"} => bram_len \in 1 .. BRAM_BYTES
  /\ state \in {"SDRAM_ADDR", "SDRAM_LEN"} => bram_index = 0
  /\ state \in BeforeSdram => sdram_index = 0
  /\ state = "BRAM_PAYLOAD" => bram_index < bram_len
  /\ state = "BRAM_PAYLOAD" /\ command = LOAD_IMAGE => GoodSegment
  /\ state \in {"SDRAM_PAYLOAD"} \cup WordStates => GoodSegment
  /\ state = "SDRAM_PAYLOAD" => sdram_index < sdram_len
  /\ state \in WordStates =>
       /\ sdram_index % 4 = 0 /\ sdram_index \in 4 .. sdram_len
       /\ sdram_write_addr = image_sdram_addr + sdram_index - 4

PlaceInv == data_out \in Nat /\ FieldsTyped /\ Placed

LEMMA ReceivedIsNat ==
  ASSUME data_out \in Nat, NEW e \in Arrivals, NEW r, NEW o, NEW f, RxClock(e, r, o, f)
  PROVE  data_out' \in Nat
<1>1. \A i \in 1 .. PACKET_BYTES : Packet[i] \in Nat
  BY LinkParams
<1>2. e \in Int
  BY <1>1, LinkParams DEF Arrivals, NoByte, BadStop
<1> QED BY <1>2 DEF RxClock

LEMMA WidenIsNat == ASSUME PlaceInv, NEW v \in Nat PROVE Widen(v) \in Nat
<1>1. nth + 1 \in 1 .. 4
  BY BootParams DEF PlaceInv, FieldsTyped
<1>2. \A k \in 1 .. 4 : Weight[k] \in Nat
  BY DEF Weight
<1>3. Weight[nth + 1] \in Nat /\ data_out \in Nat
  BY <1>1, <1>2 DEF PlaceInv
<1>4. \A a, b \in Nat : a * b \in Nat
  OBVIOUS
<1> QED BY <1>3, <1>4 DEF Widen

(* The next byte of a field moves nth within the field.                    *)
LEMMA NthMoves ==
  ASSUME FieldsTyped, NEW t, NextOfField(t)
  PROVE  /\ nth' \in 0 .. FIELD - 1
         /\ state' = IF LastOfField THEN t ELSE state
BY BootParams DEF FieldsTyped, NextOfField, LastOfField

(* Nothing is said of the states that neither receive nor write.           *)
Elsewhere == {"CLEAR", "SEND_0", "SEND_1", "DRAIN_BUSY", "DRAIN_IDLE", "MAGIC", "RUN"}

LEMMA PlaceElsewhere == state \in Elsewhere => Placed
BY DEF Elsewhere, Placed, BeforeSdram, WordStates

(* A step that leaves the fields alone and the state too, or ends up       *)
(* elsewhere, as every failure does.                                       *)
placeVars == <<bram_len, bram_index, image_sdram_addr, sdram_len, sdram_index>>

LEMMA PlaceFrame ==
  ASSUME PlaceInv, UNCHANGED <<placeVars, sdram_write_addr, command, state, nth>>
  PROVE  FieldsTyped' /\ Placed'
BY DEF PlaceInv, FieldsTyped, Placed, placeVars, GoodSegment, BadSegment

LEMMA PlaceLeave ==
  ASSUME PlaceInv, UNCHANGED placeVars, state' \in Elsewhere, nth' = nth \/ nth' = 0
  PROVE  FieldsTyped' /\ Placed'
<1>1. FieldsTyped'
  BY BootParams DEF PlaceInv, FieldsTyped, placeVars
<1>2. Placed'
  BY DEF Elsewhere, Placed, BeforeSdram, WordStates
<1> QED BY <1>1, <1>2

LEMMA FailLeaves == ASSUME NEW err, Fail(err) PROVE state' \in Elsewhere /\ nth' = 0
BY DEF Fail, Elsewhere

LEMMA PlaceMagic ==
  ASSUME PlaceInv, MagicByte
  PROVE  FieldsTyped' /\ Placed'
<1>1. CASE UNCHANGED <<state, nth, bram_len, image_sdram_addr, sdram_len, indexVars>>
  <2>1. UNCHANGED placeVars /\ state' \in Elsewhere /\ nth' = nth
    BY <1>1 DEF MagicByte, placeVars, indexVars, Elsewhere
  <2> QED BY <2>1, PlaceLeave
<1>2. CASE /\ state' = "VERSION" /\ nth' = 0 /\ bram_len' = 0 /\ image_sdram_addr' = 0
           /\ sdram_len' = 0 /\ bram_index' = 0 /\ sdram_index' = 0
  <2>1. FieldsTyped'
    BY <1>2, BootParams DEF FieldsTyped
  <2>2. Placed'
    BY <1>2 DEF Placed, BeforeSdram, WordStates
  <2> QED BY <2>1, <2>2
<1> QED BY <1>1, <1>2 DEF MagicByte

LEMMA PlaceHeader ==
  ASSUME PlaceInv, VersionByte \/ CommandByte
  PROVE  FieldsTyped' /\ Placed'
<1>1. UNCHANGED placeVars
  BY DEF VersionByte, CommandByte, fieldVars, indexVars, placeVars
<1>2. CASE \E err : Fail(err)
  BY <1>1, <1>2, FailLeaves, PlaceLeave
<1>3. CASE ~\E err : Fail(err)
  <2>1. state \in {"VERSION", "COMMAND"} /\ state' \in {"COMMAND", "BRAM_LEN"}
        /\ (nth' = nth \/ nth' = 0)
    BY <1>3 DEF VersionByte, CommandByte, Take
  <2>2. FieldsTyped'
    BY <1>1, <2>1, BootParams DEF PlaceInv, FieldsTyped, placeVars
  <2>3. sdram_index' = 0
    BY <1>1, <2>1 DEF PlaceInv, Placed, BeforeSdram, placeVars
  <2>4. Placed'
    BY <2>1, <2>3 DEF Placed, BeforeSdram, WordStates
  <2> QED BY <2>2, <2>4
<1> QED BY <1>2, <1>3

LEMMA PlaceBramLen ==
  ASSUME PlaceInv, BramLenByte
  PROVE  FieldsTyped' /\ Placed'
<1>1. /\ bram_len' \in Nat /\ bram_index' \in Nat
      /\ UNCHANGED <<command, image_sdram_addr, sdram_len, sdram_index>>
  BY WidenIsNat DEF BramLenByte, PlaceInv, FieldsTyped
<1>2. state = "BRAM_LEN" /\ sdram_index' = 0
  BY DEF BramLenByte, Take, PlaceInv, Placed, BeforeSdram
<1>3. CASE \E err : Fail(err)
  <2>1. FieldsTyped'
    BY <1>1, <1>3, FailLeaves, BootParams DEF PlaceInv, FieldsTyped
  <2>2. Placed'
    BY <1>3, FailLeaves DEF Elsewhere, Placed, BeforeSdram, WordStates
  <2> QED BY <2>1, <2>2
<1>4. CASE ~\E err : Fail(err)
  <2> DEFINE next == IF command = LOAD_IMAGE THEN "SDRAM_ADDR" ELSE "BRAM_PAYLOAD"
  <2>1. NextOfField(next) /\ ~(LastOfField /\ bram_len' \notin 1 .. BRAM_BYTES)
    BY <1>4 DEF BramLenByte
  <2>2. nth' \in 0 .. FIELD - 1 /\ state' = IF LastOfField THEN next ELSE "BRAM_LEN"
    BY <1>2, <2>1, NthMoves DEF PlaceInv
  <2>3. FieldsTyped'
    BY <1>1, <2>2 DEF PlaceInv, FieldsTyped
  <2>4. CASE ~LastOfField
    BY <1>2, <2>2, <2>3, <2>4 DEF Placed, BeforeSdram, WordStates
  <2>5. CASE LastOfField
    <3>1. bram_len' \in 1 .. BRAM_BYTES /\ bram_index' = 0 /\ state' = next
      BY <2>1, <2>2, <2>5 DEF BramLenByte
    <3>2. bram_index' < bram_len'
      BY <3>1 DEF BRAM_BYTES
    <3> QED BY <1>1, <1>2, <2>3, <3>1, <3>2 DEF Placed, BeforeSdram, WordStates
  <2> QED BY <2>3, <2>4, <2>5
<1> QED BY <1>3, <1>4

LEMMA PlaceSdramAddr ==
  ASSUME PlaceInv, SdramAddrByte
  PROVE  FieldsTyped' /\ Placed'
<1>1. /\ image_sdram_addr' \in Nat
      /\ UNCHANGED <<command, bram_len, sdram_len, bram_index, sdram_index>>
  BY WidenIsNat DEF SdramAddrByte, PlaceInv, FieldsTyped, indexVars
<1>2. state = "SDRAM_ADDR" /\ NextOfField("SDRAM_LEN")
  BY DEF SdramAddrByte, Take
<1>3. nth' \in 0 .. FIELD - 1 /\ state' \in {"SDRAM_ADDR", "SDRAM_LEN"}
  BY <1>2, NthMoves DEF PlaceInv
<1>4. FieldsTyped'
  BY <1>1, <1>3 DEF PlaceInv, FieldsTyped
<1>5. bram_len' \in 1 .. BRAM_BYTES /\ bram_index' = 0 /\ sdram_index' = 0
  BY <1>1, <1>2 DEF PlaceInv, Placed, BeforeSdram, BRAM_BYTES
<1>6. Placed'
  BY <1>3, <1>5 DEF Placed, BeforeSdram, WordStates, BRAM_BYTES
<1> QED BY <1>4, <1>6

LEMMA PlaceSdramLen ==
  ASSUME PlaceInv, SdramLenByte
  PROVE  FieldsTyped' /\ Placed'
<1>1. /\ sdram_len' \in Nat /\ sdram_index' = 0
      /\ UNCHANGED <<command, image_sdram_addr, bram_len, bram_index>>
  BY WidenIsNat DEF SdramLenByte, Take, PlaceInv, FieldsTyped, Placed, BeforeSdram
<1>2. state = "SDRAM_LEN" /\ bram_len' \in 1 .. BRAM_BYTES /\ bram_index' = 0
  BY <1>1 DEF SdramLenByte, Take, PlaceInv, Placed, BRAM_BYTES
<1>3. CASE \E err : Fail(err)
  <2>1. FieldsTyped'
    BY <1>1, <1>3, FailLeaves, BootParams DEF PlaceInv, FieldsTyped
  <2>2. Placed'
    BY <1>3, FailLeaves DEF Elsewhere, Placed, BeforeSdram, WordStates
  <2> QED BY <2>1, <2>2
<1>4. CASE ~\E err : Fail(err)
  <2>1. /\ NextOfField("BRAM_PAYLOAD")
        /\ LastOfField => ~BadSegment(image_sdram_addr, sdram_len')
    BY <1>4 DEF SdramLenByte
  <2>2. nth' \in 0 .. FIELD - 1 /\ state' = IF LastOfField THEN "BRAM_PAYLOAD" ELSE "SDRAM_LEN"
    BY <1>2, <2>1, NthMoves DEF PlaceInv
  <2>3. FieldsTyped'
    BY <1>1, <2>2 DEF PlaceInv, FieldsTyped
  <2>4. state' = "BRAM_PAYLOAD" => GoodSegment'
    BY <1>1, <2>1, <2>2 DEF GoodSegment, BadSegment
  <2>5. bram_index' < bram_len'
    BY <1>2 DEF BRAM_BYTES
  <2>6. Placed'
    BY <1>1, <1>2, <2>2, <2>4, <2>5 DEF Placed, BeforeSdram, WordStates, BRAM_BYTES
  <2> QED BY <2>3, <2>6
<1> QED BY <1>3, <1>4

LEMMA PlaceBramPayload ==
  ASSUME PlaceInv, BramPayloadByte
  PROVE  FieldsTyped' /\ Placed'
<1>1. /\ state = "BRAM_PAYLOAD" /\ bram_index' = bram_index + 1
      /\ UNCHANGED <<nth, command, bram_len, image_sdram_addr, sdram_len, sdram_index>>
      /\ state' = IF bram_index + 1 # bram_len THEN state
                  ELSE IF command = LOAD_IMAGE THEN "SDRAM_PAYLOAD" ELSE "CRC"
  BY DEF BramPayloadByte, Take, fieldVars
<1>2. FieldsTyped'
  BY <1>1 DEF PlaceInv, FieldsTyped
<1>3. /\ bram_len \in 1 .. BRAM_BYTES /\ sdram_index = 0 /\ bram_index < bram_len
      /\ command = LOAD_IMAGE => GoodSegment
  BY <1>1 DEF PlaceInv, Placed, BeforeSdram, BRAM_BYTES
<1>4. GoodSegment => GoodSegment' /\ 0 < sdram_len'
  BY <1>1 DEF GoodSegment, BadSegment, PlaceInv, FieldsTyped
<1>5. CASE bram_index + 1 # bram_len
  <2>1. bram_index' < bram_len'
    BY <1>1, <1>3, <1>5 DEF PlaceInv, FieldsTyped
  <2> QED BY <1>1, <1>2, <1>3, <1>4, <1>5, <2>1
          DEF Placed, BeforeSdram, WordStates, BRAM_BYTES
<1>6. CASE bram_index + 1 = bram_len
  BY <1>1, <1>2, <1>3, <1>4, <1>6 DEF Placed, BeforeSdram, WordStates
<1> QED BY <1>5, <1>6

(* Length and index are both multiples of four when a word is complete.    *)
LEMMA PlaceSdramPayload ==
  ASSUME PlaceInv, SdramPayloadByte
  PROVE  FieldsTyped' /\ Placed'
<1>1. /\ state = "SDRAM_PAYLOAD" /\ sdram_index' = sdram_index + 1
      /\ UNCHANGED <<nth, command, bram_len, bram_index, image_sdram_addr, sdram_len>>
  BY DEF SdramPayloadByte, Take, fieldVars
<1>2. FieldsTyped'
  BY <1>1 DEF PlaceInv, FieldsTyped
<1>3. GoodSegment /\ GoodSegment' /\ sdram_index < sdram_len
  BY <1>1 DEF PlaceInv, Placed, GoodSegment, BadSegment
<1>4. sdram_len \in Nat /\ sdram_index \in Nat /\ sdram_len % 4 = 0
  BY <1>3 DEF PlaceInv, FieldsTyped, GoodSegment, BadSegment
<1>5. CASE sdram_index % 4 = 3
  <2>1. sdram_write_addr' = image_sdram_addr + sdram_index - 3 /\ state' = "SDRAM_REQ"
    BY <1>5 DEF SdramPayloadByte
  <2>2. image_sdram_addr \in Nat
    BY DEF PlaceInv, FieldsTyped
  <2>3. sdram_write_addr' = image_sdram_addr' + sdram_index' - 4
    BY <1>1, <1>4, <2>1, <2>2
  <2>4. sdram_index' % 4 = 0 /\ sdram_index' \in 4 .. sdram_len'
    BY <1>1, <1>3, <1>4, <1>5
  <2> QED BY <1>2, <1>3, <2>1, <2>3, <2>4 DEF Placed, BeforeSdram, WordStates
<1>6. CASE sdram_index % 4 # 3
  <2>1. state' = "SDRAM_PAYLOAD"
    BY <1>1, <1>6 DEF SdramPayloadByte
  <2>2. sdram_index' < sdram_len'
    BY <1>1, <1>3, <1>4, <1>6
  <2> QED BY <1>2, <1>3, <2>1, <2>2 DEF Placed, BeforeSdram, WordStates
<1> QED BY <1>5, <1>6

LEMMA PlaceWord ==
  ASSUME PlaceInv, NEW rdy, NEW answered, NEW err, SdramReq(rdy) \/ SdramResp(answered, err)
  PROVE  FieldsTyped' /\ Placed'
<1>1. UNCHANGED <<placeVars, sdram_write_addr, command>>
  BY DEF SdramReq, SdramResp, NoFieldWritten, fieldVars, indexVars, wordVars, placeVars
<1>2. CASE \E code : Fail(code)
  BY <1>1, <1>2, FailLeaves, PlaceLeave
<1>3. CASE ~\E code : Fail(code)
  <2>1. /\ state \in WordStates /\ nth' = nth
        /\ \/ state' \in WordStates
           \/ state' = "CRC"
           \/ state' = "SDRAM_PAYLOAD" /\ sdram_index # sdram_len
    BY <1>3 DEF SdramReq, SdramResp, WordStates
  <2>2. FieldsTyped'
    BY <1>1, <2>1 DEF PlaceInv, FieldsTyped, placeVars
  <2>3. /\ GoodSegment /\ sdram_index % 4 = 0 /\ sdram_index \in 4 .. sdram_len
        /\ sdram_write_addr = image_sdram_addr + sdram_index - 4
    BY <2>1 DEF PlaceInv, Placed, WordStates
  <2>4. /\ GoodSegment' /\ sdram_index' % 4 = 0 /\ sdram_index' \in 4 .. sdram_len'
        /\ sdram_write_addr' = image_sdram_addr' + sdram_index' - 4
        /\ sdram_index # sdram_len => sdram_index' < sdram_len'
    BY <1>1, <2>3 DEF placeVars, GoodSegment, BadSegment, PlaceInv, FieldsTyped
  <2> QED BY <2>1, <2>2, <2>4 DEF Placed, BeforeSdram, WordStates
<1> QED BY <1>2, <1>3

LEMMA PlaceCrc ==
  ASSUME PlaceInv, CrcByte
  PROVE  FieldsTyped' /\ Placed'
<1>1. UNCHANGED placeVars
  BY DEF CrcByte, fieldVars, indexVars, placeVars
<1>2. CASE ~LastOfField
  <2>1. nth' = nth + 1 /\ state' = "CRC"
    BY <1>2 DEF CrcByte
  <2>2. FieldsTyped'
    BY <1>1, <1>2, <2>1, BootParams DEF PlaceInv, FieldsTyped, placeVars, LastOfField
  <2> QED BY <2>1, <2>2 DEF Placed, BeforeSdram, WordStates
<1>3. CASE LastOfField
  <2>1. state' \in Elsewhere /\ nth' = 0
    BY <1>3 DEF CrcByte, Fail, Elsewhere
  <2> QED BY <1>1, <2>1, PlaceLeave
<1> QED BY <1>2, <1>3

(* One clock edge of the bootloader.                                       *)
LEMMA PlaceClock ==
  ASSUME PlaceInv, NEW rdy, NEW answered, NEW err, BootClock(rdy, answered, err)
  PROVE  FieldsTyped' /\ Placed'
<1>1. CASE UartError \/ Timeout
  <2>1. UNCHANGED placeVars /\ \E code : Fail(code)
    BY <1>1 DEF UartError, Timeout, NoFieldWritten, fieldVars, indexVars, placeVars
  <2> QED BY <2>1, FailLeaves, PlaceLeave
<1>2. CASE Clear \/ Send("SEND_0", "SEND_1") \/ Send("SEND_1", "DRAIN_BUSY")
           \/ DrainBusy \/ DrainIdle \/ Run
  <2>1. UNCHANGED placeVars /\ nth' = nth
    BY <1>2 DEF Clear, Send, DrainBusy, DrainIdle, Run, NoFieldWritten, fieldVars,
                indexVars, placeVars
  <2>2. state' \in Elsewhere
    BY <1>2 DEF Clear, Send, DrainBusy, DrainIdle, Run, Elsewhere
  <2> QED BY <2>1, <2>2, PlaceLeave
<1>3. CASE Listen
  <2>1. UNCHANGED <<placeVars, sdram_write_addr, command, state, nth>>
    BY <1>3 DEF Listen, NoFieldWritten, fieldVars, indexVars, wordVars, placeVars
  <2> QED BY <2>1, PlaceFrame
<1>4. CASE MagicByte
  BY <1>4, PlaceMagic
<1>5. CASE VersionByte \/ CommandByte
  BY <1>5, PlaceHeader
<1>6. CASE BramLenByte
  BY <1>6, PlaceBramLen
<1>7. CASE SdramAddrByte
  BY <1>7, PlaceSdramAddr
<1>8. CASE SdramLenByte
  BY <1>8, PlaceSdramLen
<1>9. CASE BramPayloadByte
  BY <1>9, PlaceBramPayload
<1>10. CASE SdramPayloadByte
  BY <1>10, PlaceSdramPayload
<1>11. CASE SdramReq(rdy) \/ SdramResp(answered, err)
  BY <1>11, PlaceWord
<1>12. CASE CrcByte
  BY <1>12, PlaceCrc
<1> QED BY <1>1, <1>2, <1>3, <1>4, <1>5, <1>6, <1>7, <1>8, <1>9, <1>10, <1>11, <1>12
        DEF BootClock

LEMMA PlaceStep == PlaceInv /\ [Next]_vars => PlaceInv'
<1> SUFFICES ASSUME PlaceInv, [Next]_vars PROVE PlaceInv'
  OBVIOUS
<1>1. CASE ClockTick
  <2>1. PICK e \in Arrivals, rdy \in BOOLEAN, answered \in BOOLEAN, err \in BOOLEAN :
          Tick(e, rdy, answered, err)
    BY <1>1 DEF ClockTick
  <2>2. RxClock(e, rx_ready, clear_rx, clear_rx) /\ BootClock(rdy, answered, err)
    BY <2>1 DEF Tick
  <2>3. data_out' \in Nat
    BY <2>2, ReceivedIsNat DEF PlaceInv
  <2> QED BY <2>2, <2>3, PlaceClock DEF PlaceInv
<1>2. CASE PressReset
  <2>1. FieldsTyped' /\ state' = "CLEAR" /\ data_out' \in Nat
    BY <1>2, BootParams DEF PressReset, Reset, RxReset, FieldsTyped
  <2>2. Placed'
    BY <2>1 DEF Placed, BeforeSdram, WordStates
  <2> QED BY <2>1, <2>2 DEF PlaceInv
<1>3. CASE CpuStores
  <2>1. UNCHANGED <<placeVars, sdram_write_addr, command, state, nth, data_out>>
    BY <1>3 DEF CpuStores, rxVars, fieldVars, indexVars, wordVars, placeVars
  <2> QED BY <2>1, PlaceFrame DEF PlaceInv
<1>4. CASE HostSteps \/ HostTimesOut \/ UNCHANGED vars
  <2>1. UNCHANGED <<rxVars, bootVars>>
    BY <1>4 DEF HostSteps, HostTimesOut, vars
  <2>2. UNCHANGED <<placeVars, sdram_write_addr, command, state, nth, data_out>>
    BY <2>1 DEF bootVars, rxVars, fieldVars, indexVars, wordVars, placeVars
  <2> QED BY <2>2, PlaceFrame DEF PlaceInv
<1> QED BY <1>1, <1>2, <1>3, <1>4 DEF Next

LEMMA PlaceInit == Init => PlaceInv
<1> SUFFICES ASSUME Init PROVE PlaceInv
  OBVIOUS
<1>1. FieldsTyped /\ state = "CLEAR" /\ data_out \in Nat
  BY BootParams DEF Init, InReset, RxInit, FieldsTyped
<1> QED BY <1>1 DEF PlaceInv, Placed, BeforeSdram, WordStates

(* Which lengths have been checked, and how far the indices have come, is  *)
(* known in every state of the bootloader.                                 *)
THEOREM PlaceInvariance == Spec => []PlaceInv
<1> QED BY PlaceInit, PlaceStep, PTL DEF Spec

(* docs/BOOTLOADER_PROTOCOL.md: the segments of a packet stay inside of    *)
(* the BRAM and of the SDRAM window, for every packet and every stream of  *)
(* bytes that faults of the line make of it.                               *)
THEOREM WritesInsideTheSegments == Spec => []WritesStayInside
<1>1. PlaceInv => WritesStayInside
  <2> SUFFICES ASSUME PlaceInv PROVE WritesStayInside
    OBVIOUS
  <2>1. state = "BRAM_PAYLOAD" => bram_index < bram_len /\ bram_len <= BRAM_BYTES
    BY BootParams DEF PlaceInv, Placed, BRAM_BYTES
  <2>2. ASSUME sdram_req_valid
        PROVE  /\ sdram_write_addr % 4 = 0 /\ sdram_write_addr \in SdramAddrs
               /\ sdram_write_addr + 3 \in SdramAddrs
               /\ sdram_write_addr - image_sdram_addr \in 0 .. sdram_len - 4
    <3>1. /\ GoodSegment /\ sdram_index % 4 = 0 /\ sdram_index \in 4 .. sdram_len
          /\ sdram_write_addr = image_sdram_addr + sdram_index - 4
      BY <2>2 DEF sdram_req_valid, PlaceInv, Placed, WordStates
    <3>2. /\ image_sdram_addr % 4 = 0 /\ sdram_len <= SDRAM_LIMIT_ADDR - image_sdram_addr
          /\ image_sdram_addr >= SDRAM_BASE_ADDR
      BY <3>1, BootParams DEF GoodSegment, BadSegment, PlaceInv, FieldsTyped
    <3>3. image_sdram_addr \in Nat /\ sdram_len \in Nat /\ sdram_index \in Nat
      BY DEF PlaceInv, FieldsTyped
    <3> QED BY <3>1, <3>2, <3>3, BootParams DEF SdramAddrs
  <2> QED BY <2>1, <2>2 DEF WritesStayInside
<1> QED BY <1>1, PlaceInvariance, PTL

-----------------------------------------------------------------------------
(***************************************************************************)
(* The image.  crc_reg is the stream of bytes behind the magic, as far as  *)
(* it came; the invariant says that the registers and both memories are    *)
(* what this stream describes.                                             *)
(***************************************************************************)
SdramShape == sdram = [a \in SdramAddrs |-> sdram[a]]

(* How much of the stream a state has absorbed.                            *)
Position ==
  /\ state = "VERSION" => Len(crc_reg) = 0
  /\ state = "COMMAND" => Len(crc_reg) = 1
  /\ state = "BRAM_LEN" => Len(crc_reg) = 2 + nth
  /\ state = "SDRAM_ADDR" => Len(crc_reg) = 2 + FIELD + nth
  /\ state = "SDRAM_LEN" => Len(crc_reg) = 2 + 2 * FIELD + nth
  /\ state = "BRAM_PAYLOAD" => Len(crc_reg) = PayloadAt(command) - 1 + bram_index
  /\ state \in {"SDRAM_PAYLOAD"} \cup WordStates =>
       Len(crc_reg) = PayloadAt(command) - 1 + bram_len + sdram_index
  /\ state \in {"VERSION", "COMMAND", "BRAM_PAYLOAD"} => nth = 0
  /\ state \in {"SDRAM_PAYLOAD"} \cup WordStates => nth = 0

(* The header that the registers hold is the one of the stream.            *)
HeaderRead ==
  /\ Len(crc_reg) > 1 => command = crc_reg[2]
  /\ bram_len = FieldValue(crc_reg, 3)
  /\ Len(crc_reg) <= 2 + FIELD \/ command = LOAD_IMAGE =>
       /\ image_sdram_addr = FieldValue(crc_reg, 3 + FIELD)
       /\ sdram_len = FieldValue(crc_reg, 3 + 2 * FIELD)
  /\ state \in {"SDRAM_ADDR", "SDRAM_LEN", "SDRAM_PAYLOAD"} \cup WordStates =>
       command = LOAD_IMAGE

(* The BRAM holds the first bytes of the firmware, and zero behind them.   *)
BramRead ==
  /\ \A i \in Bytes :
       bram[i] = IF i < bram_index THEN crc_reg[PayloadAt(command) + i] ELSE 0
  /\ state \in {"VERSION", "COMMAND", "BRAM_LEN"} => bram_index = 0
  /\ state \in {"SDRAM_PAYLOAD", "CRC"} \cup WordStates => bram_index = bram_len

(* The SDRAM holds the words of the asset that are written, and the next   *)
(* one is being collected or on its way.                                   *)
AssetByte(j) == crc_reg[PayloadAt(command) + bram_len + j]
SdramHolds(n) == \A j \in 0 .. n - 1 : sdram[image_sdram_addr + j] = AssetByte(j)
WordBase == sdram_index - (sdram_index % 4)

SdramRead ==
  /\ state = "SDRAM_PAYLOAD" =>
       /\ SdramHolds(WordBase)
       /\ \A k \in 0 .. 2 : k < sdram_index % 4 => sdram_word[k] = AssetByte(WordBase + k)
  /\ state = "SDRAM_REQ" =>
       /\ SdramHolds(sdram_index - 4)
       /\ \A k \in 0 .. 3 : sdram_write_data[k] = AssetByte(sdram_index - 4 + k)
  /\ state = "SDRAM_RESP" => SdramHolds(sdram_index)
  /\ state = "CRC" /\ command = LOAD_IMAGE => SdramHolds(sdram_len)

(* The trailer, and what follows an ACK.                                   *)
TrailerRead ==
  /\ received_crc \in Seq(Nat)
  /\ state \in Busy \ {"CRC"} => received_crc = <<>>
  /\ state = "CRC" => Len(received_crc) = nth /\ Len(crc_reg) > 1

Loaded == bram = ImageBram /\ AssetLoaded

ParseInv ==
  /\ crc_reg \in Seq(Nat) /\ SdramShape
  /\ sdram_word = [k \in 0 .. 2 |-> sdram_word[k]]
  /\ state \in Busy => Position /\ HeaderRead /\ BramRead /\ SdramRead /\ TrailerRead
  /\ after_run => state \in Replying \cup {"RUN"}
  /\ after_run /\ state \in Replying => Loaded
  /\ state = "RUN" => cpu_release

(* The checksum is ideal: of all streams only the one the host sends has   *)
(* a trailer.                                                              *)
IdealChecksum == \A s \in Seq(Nat) : Len(Crc(s)) = FIELD => s = Body

(***************************************************************************)
(* Fields of a growing stream.                                             *)
(***************************************************************************)
LEMMA ByteAppended ==
  ASSUME NEW s \in Seq(Nat), NEW x \in Nat, NEW at \in Nat \ {0}, NEW k \in 0 .. 3
  PROVE  /\ FieldByte(s, k, at) \in Nat
         /\ FieldByte(Append(s, x), k, at) = IF k < FIELD /\ at + k = Len(s) + 1 THEN x
                                             ELSE FieldByte(s, k, at)
BY BootParams DEF FieldByte

LEMMA ValueAppended ==
  ASSUME NEW s \in Seq(Nat), NEW x \in Nat, NEW at \in Nat \ {0}
  PROVE  /\ Len(s) + 1 < at \/ Len(s) >= at + FIELD - 1 =>
              FieldValue(Append(s, x), at) = FieldValue(s, at)
         /\ \A n \in 0 .. FIELD - 1 : Len(s) = at - 1 + n =>
              FieldValue(Append(s, x), at) = FieldValue(s, at) + x * Weight[n + 1]
<1>1. Len(s) \in Nat /\ FIELD \in 2 .. 4
  BY BootParams
<1>2. ASSUME Len(s) + 1 < at \/ Len(s) >= at + FIELD - 1
      PROVE  FieldValue(Append(s, x), at) = FieldValue(s, at)
  <2>1. ASSUME NEW k \in 0 .. 3
        PROVE  FieldByte(Append(s, x), k, at) = FieldByte(s, k, at)
    <3>1. ~(k < FIELD /\ at + k = Len(s) + 1)
      BY <1>1, <1>2
    <3> QED BY ZenonT(60), <3>1, ByteAppended
  <2> QED BY <2>1 DEF FieldValue
<1>3. ASSUME NEW n \in 0 .. FIELD - 1, Len(s) = at - 1 + n
      PROVE  FieldValue(Append(s, x), at) = FieldValue(s, at) + x * Weight[n + 1]
  <2>1. ASSUME NEW k \in 0 .. 3
        PROVE  /\ FieldByte(s, k, at) \in Nat
               /\ FieldByte(Append(s, x), k, at) = IF k = n THEN x ELSE FieldByte(s, k, at)
    <3>1. (k < FIELD /\ at + k = Len(s) + 1) <=> k = n
      BY <1>1, <1>3
    <3> QED BY ZenonT(60), <3>1, ByteAppended
  <2>2. FieldByte(s, n, at) = 0
    BY <1>1, <1>3 DEF FieldByte
  <2>3. n \in 0 .. 3
    BY <1>1
  <2>4. Weight[1] = 1 /\ Weight[2] = 256 /\ Weight[3] = 65536 /\ Weight[4] = 16777216
    BY DEF Weight
  <2>5. /\ FieldValue(s, at) = FieldByte(s, 0, at) + 256 * FieldByte(s, 1, at)
              + 65536 * FieldByte(s, 2, at) + 16777216 * FieldByte(s, 3, at)
        /\ FieldValue(Append(s, x), at) =
              FieldByte(Append(s, x), 0, at) + 256 * FieldByte(Append(s, x), 1, at)
              + 65536 * FieldByte(Append(s, x), 2, at)
              + 16777216 * FieldByte(Append(s, x), 3, at)
    BY DEF FieldValue
  <2>6. CASE n = 0
    <3>1. Weight[n + 1] = 1
      BY <2>4, <2>6
    <3>2. /\ FieldByte(s, 0, at) = 0 /\ FieldByte(Append(s, x), 0, at) = x
          /\ FieldByte(s, 1, at) \in Nat
          /\ FieldByte(Append(s, x), 1, at) = FieldByte(s, 1, at)
          /\ FieldByte(s, 2, at) \in Nat
          /\ FieldByte(Append(s, x), 2, at) = FieldByte(s, 2, at)
          /\ FieldByte(s, 3, at) \in Nat
          /\ FieldByte(Append(s, x), 3, at) = FieldByte(s, 3, at)
      BY <2>1, <2>2, <2>6
    <3>3. FieldValue(Append(s, x), at) = FieldValue(s, at) + 1 * x
      BY SMTT(30), <2>5, <3>2
    <3> QED BY <3>1, <3>3
  <2>7. CASE n = 1
    <3>1. Weight[n + 1] = 256
      BY <2>4, <2>7
    <3>2. /\ FieldByte(s, 1, at) = 0 /\ FieldByte(Append(s, x), 1, at) = x
          /\ FieldByte(s, 0, at) \in Nat
          /\ FieldByte(Append(s, x), 0, at) = FieldByte(s, 0, at)
          /\ FieldByte(s, 2, at) \in Nat
          /\ FieldByte(Append(s, x), 2, at) = FieldByte(s, 2, at)
          /\ FieldByte(s, 3, at) \in Nat
          /\ FieldByte(Append(s, x), 3, at) = FieldByte(s, 3, at)
      BY <2>1, <2>2, <2>7
    <3>3. FieldValue(Append(s, x), at) = FieldValue(s, at) + 256 * x
      BY SMTT(30), <2>5, <3>2
    <3> QED BY <3>1, <3>3
  <2>8. CASE n = 2
    <3>1. Weight[n + 1] = 65536
      BY <2>4, <2>8
    <3>2. /\ FieldByte(s, 2, at) = 0 /\ FieldByte(Append(s, x), 2, at) = x
          /\ FieldByte(s, 0, at) \in Nat
          /\ FieldByte(Append(s, x), 0, at) = FieldByte(s, 0, at)
          /\ FieldByte(s, 1, at) \in Nat
          /\ FieldByte(Append(s, x), 1, at) = FieldByte(s, 1, at)
          /\ FieldByte(s, 3, at) \in Nat
          /\ FieldByte(Append(s, x), 3, at) = FieldByte(s, 3, at)
      BY <2>1, <2>2, <2>8
    <3>3. FieldValue(Append(s, x), at) = FieldValue(s, at) + 65536 * x
      BY SMTT(30), <2>5, <3>2
    <3> QED BY <3>1, <3>3
  <2>9. CASE n = 3
    <3>1. Weight[n + 1] = 16777216
      BY <2>4, <2>9
    <3>2. /\ FieldByte(s, 3, at) = 0 /\ FieldByte(Append(s, x), 3, at) = x
          /\ FieldByte(s, 0, at) \in Nat
          /\ FieldByte(Append(s, x), 0, at) = FieldByte(s, 0, at)
          /\ FieldByte(s, 1, at) \in Nat
          /\ FieldByte(Append(s, x), 1, at) = FieldByte(s, 1, at)
          /\ FieldByte(s, 2, at) \in Nat
          /\ FieldByte(Append(s, x), 2, at) = FieldByte(s, 2, at)
      BY <2>1, <2>2, <2>9
    <3> QED BY SMTT(30), <2>5, <3>1, <3>2
  <2> QED BY <2>3, <2>6, <2>7, <2>8, <2>9
<1> QED BY <1>2, <1>3

LEMMA ValueOfNothing == \A at \in Nat \ {0} : FieldValue(<<>>, at) = 0
BY BootParams DEF FieldValue, FieldByte

(* What a byte that the checksum covers does to the stream.                *)
LEMMA Absorb ==
  ASSUME PlaceInv, crc_reg \in Seq(Nat), NEW s, Take(s)
  PROVE  /\ state = s /\ data_valid /\ UNCHANGED <<received_crc, cpu_release>>
         /\ crc_reg' \in Seq(Nat) /\ Len(crc_reg') = Len(crc_reg) + 1
         /\ \A i \in 1 .. Len(crc_reg) : crc_reg'[i] = crc_reg[i]
         /\ crc_reg'[Len(crc_reg) + 1] = data_out
         /\ \A at \in Nat \ {0} :
              Len(crc_reg) + 1 < at \/ Len(crc_reg) >= at + FIELD - 1 =>
                FieldValue(crc_reg', at) = FieldValue(crc_reg, at)
         /\ \A at \in Nat \ {0} : Len(crc_reg) = at - 1 + nth =>
              FieldValue(crc_reg', at) = Widen(FieldValue(crc_reg, at))
<1>1. /\ state = s /\ data_valid /\ UNCHANGED <<received_crc, cpu_release>>
      /\ crc_reg' = Append(crc_reg, data_out)
  BY DEF Take
<1>2. data_out \in Nat /\ nth \in 0 .. FIELD - 1
  BY DEF PlaceInv, FieldsTyped
<1>3. /\ crc_reg' \in Seq(Nat) /\ Len(crc_reg') = Len(crc_reg) + 1
      /\ \A i \in 1 .. Len(crc_reg) : crc_reg'[i] = crc_reg[i]
      /\ crc_reg'[Len(crc_reg) + 1] = data_out
  BY <1>1, <1>2
<1>4. /\ \A at \in Nat \ {0} :
           Len(crc_reg) + 1 < at \/ Len(crc_reg) >= at + FIELD - 1 =>
             FieldValue(crc_reg', at) = FieldValue(crc_reg, at)
      /\ \A at \in Nat \ {0} : Len(crc_reg) = at - 1 + nth =>
           FieldValue(crc_reg', at) = FieldValue(crc_reg, at) + data_out * Weight[nth + 1]
  BY <1>1, <1>2, ValueAppended
<1> QED BY <1>1, <1>3, <1>4 DEF Widen

(***************************************************************************)
(* One clock edge inside of a packet, one lemma per kind of byte.          *)
(***************************************************************************)
StreamInv == Position /\ HeaderRead /\ BramRead /\ SdramRead /\ TrailerRead

Edge(rdy, answered, err) ==
  PlaceInv /\ WipeInv /\ ParseInv /\ BramPort /\ SdramPins(rdy, answered, err)

LEMMA MemoriesIdle ==
  ASSUME NEW rdy, NEW answered, NEW err, Edge(rdy, answered, err)
  PROVE  /\ state \notin {"CLEAR", "BRAM_PAYLOAD"} => UNCHANGED bram
         /\ state # "SDRAM_REQ" => UNCHANGED sdram
BY PortIdle DEF Edge, SdramPins

LEMMA StreamVersion ==
  ASSUME NEW rdy, NEW answered, NEW err, Edge(rdy, answered, err), VersionByte, state' \in Busy
  PROVE  StreamInv'
<1>1. Take("VERSION") /\ PlaceInv /\ crc_reg \in Seq(Nat)
  BY DEF VersionByte, Edge, ParseInv
<1>2. StreamInv
  BY <1>1 DEF Edge, ParseInv, StreamInv, Busy, ReceiveStates, Take
<1>3. state = "VERSION" /\ Len(crc_reg) = 0 /\ received_crc = <<>> /\ nth = 0 /\ bram_index = 0
  BY <1>1, <1>2 DEF Take, StreamInv, Position, BramRead, TrailerRead, Busy, ReceiveStates
<1>4. /\ state' = "COMMAND"
      /\ UNCHANGED <<nth, received_crc, bram, command, bram_len, image_sdram_addr, sdram_len, bram_index>>
  BY <1>1, <1>3, MemoriesIdle
     DEF VersionByte, Take, Fail, Busy, ReceiveStates, WordStates, fieldVars, indexVars
<1>5. Len(crc_reg') = 1 /\ \A at \in Nat \ {0} : 1 < at => FieldValue(crc_reg', at) = FieldValue(crc_reg, at)
  BY <1>1, <1>3, Absorb
<1>6. 3 + FIELD \in Nat \ {0} /\ 3 + 2 * FIELD \in Nat \ {0} /\ 3 + FIELD > 1 /\ 3 + 2 * FIELD > 1
  BY BootParams
<1>7. Position'
  BY <1>3, <1>4, <1>5 DEF Position, WordStates
<1>8. HeaderRead'
  BY <1>2, <1>3, <1>4, <1>5, <1>6, BootParams DEF StreamInv, HeaderRead, WordStates
<1>9. BramRead' /\ SdramRead' /\ TrailerRead'
  BY <1>2, <1>3, <1>4 DEF StreamInv, BramRead, SdramRead, TrailerRead, WordStates, Bytes, BRAM_BYTES
<1> QED BY <1>7, <1>8, <1>9 DEF StreamInv

LEMMA StreamCommand ==
  ASSUME NEW rdy, NEW answered, NEW err, Edge(rdy, answered, err), CommandByte, state' \in Busy
  PROVE  StreamInv'
<1>1. Take("COMMAND") /\ PlaceInv /\ crc_reg \in Seq(Nat)
  BY DEF CommandByte, Edge, ParseInv
<1>2. StreamInv
  BY <1>1 DEF Edge, ParseInv, StreamInv, Busy, ReceiveStates, Take
<1>3. state = "COMMAND" /\ Len(crc_reg) = 1 /\ received_crc = <<>> /\ bram_index = 0
  BY <1>1, <1>2 DEF Take, StreamInv, Position, BramRead, TrailerRead, Busy, ReceiveStates
<1>4. /\ state' = "BRAM_LEN" /\ nth' = 0 /\ command' = data_out
      /\ UNCHANGED <<received_crc, bram, bram_len, image_sdram_addr, sdram_len, bram_index>>
  BY <1>1, <1>3, MemoriesIdle
     DEF CommandByte, Take, Fail, Busy, ReceiveStates, WordStates, indexVars
<1>5. /\ Len(crc_reg') = 2 /\ crc_reg'[2] = data_out
      /\ \A at \in Nat \ {0} : 2 < at => FieldValue(crc_reg', at) = FieldValue(crc_reg, at)
  BY <1>1, <1>3, Absorb
<1>6. 3 + FIELD \in Nat \ {0} /\ 3 + 2 * FIELD \in Nat \ {0} /\ 3 + FIELD > 2 /\ 3 + 2 * FIELD > 2
  BY BootParams
<1>7. Position'
  BY <1>3, <1>4, <1>5 DEF Position, WordStates
<1>8. HeaderRead'
  BY <1>2, <1>3, <1>4, <1>5, <1>6, BootParams DEF StreamInv, HeaderRead, WordStates
<1>9. BramRead' /\ SdramRead' /\ TrailerRead'
  BY <1>2, <1>3, <1>4 DEF StreamInv, BramRead, SdramRead, TrailerRead, WordStates, Bytes, BRAM_BYTES
<1> QED BY <1>7, <1>8, <1>9 DEF StreamInv

(* The three fields: each is only written while the stream is inside it.   *)
LEMMA FieldPlaces ==
  /\ 3 \in Nat \ {0} /\ 3 + FIELD \in Nat \ {0} /\ 3 + 2 * FIELD \in Nat \ {0}
  /\ FIELD \in 2 .. 4
BY BootParams

LEMMA StreamBramLen ==
  ASSUME NEW rdy, NEW answered, NEW err, Edge(rdy, answered, err), BramLenByte, state' \in Busy
  PROVE  StreamInv'
<1>1. Take("BRAM_LEN") /\ PlaceInv /\ crc_reg \in Seq(Nat)
  BY DEF BramLenByte, Edge, ParseInv
<1>2. StreamInv
  BY <1>1 DEF Edge, ParseInv, StreamInv, Busy, ReceiveStates, Take
<1>3. /\ state = "BRAM_LEN" /\ Len(crc_reg) = 2 + nth /\ received_crc = <<>> /\ bram_index = 0
      /\ nth \in 0 .. FIELD - 1 /\ FieldsTyped
  BY <1>1, <1>2 DEF Take, StreamInv, Position, BramRead, TrailerRead, Busy, ReceiveStates,
                    PlaceInv, FieldsTyped
<1>4. /\ NextOfField(IF command = LOAD_IMAGE THEN "SDRAM_ADDR" ELSE "BRAM_PAYLOAD")
      /\ bram_len' = Widen(bram_len) /\ bram_index' = 0
      /\ UNCHANGED <<received_crc, bram, command, image_sdram_addr, sdram_len>>
  BY <1>1, <1>3, MemoriesIdle DEF BramLenByte, Take, Fail, Busy, ReceiveStates, WordStates
<1>5. /\ Len(crc_reg') = 3 + nth /\ crc_reg'[2] = crc_reg[2]
      /\ FieldValue(crc_reg', 3) = Widen(FieldValue(crc_reg, 3))
      /\ FieldValue(crc_reg', 3 + FIELD) = FieldValue(crc_reg, 3 + FIELD)
      /\ FieldValue(crc_reg', 3 + 2 * FIELD) = FieldValue(crc_reg, 3 + 2 * FIELD)
  <2>1. Len(crc_reg') = 3 + nth /\ crc_reg'[2] = crc_reg[2]
    BY <1>1, <1>3, Absorb
  <2>2. Len(crc_reg) = 3 - 1 + nth /\ Len(crc_reg) + 1 < 3 + FIELD /\ Len(crc_reg) + 1 < 3 + 2 * FIELD
    BY <1>3, FieldPlaces
  <2> QED BY <1>1, <2>1, <2>2, FieldPlaces, Absorb
<1>6. /\ LastOfField => nth' = 0 /\ state' = IF command = LOAD_IMAGE THEN "SDRAM_ADDR" ELSE "BRAM_PAYLOAD"
      /\ ~LastOfField => nth' = nth + 1 /\ state' = "BRAM_LEN"
  BY <1>3, <1>4 DEF NextOfField
<1>7. Position'
  BY <1>3, <1>4, <1>5, <1>6, FieldPlaces DEF Position, WordStates, LastOfField, PayloadAt
<1>8. HeaderRead'
  <2>1. Len(crc_reg) > 1 /\ Len(crc_reg) <= 2 + FIELD
    BY <1>3, FieldPlaces
  <2>2. /\ command = crc_reg[2] /\ bram_len = FieldValue(crc_reg, 3)
        /\ image_sdram_addr = FieldValue(crc_reg, 3 + FIELD)
        /\ sdram_len = FieldValue(crc_reg, 3 + 2 * FIELD)
    BY <1>2, <2>1 DEF StreamInv, HeaderRead
  <2>3. state' \in {"SDRAM_ADDR", "SDRAM_LEN", "SDRAM_PAYLOAD"} \cup WordStates => command' = LOAD_IMAGE
    BY <1>4, <1>6 DEF WordStates, LastOfField
  <2> QED BY <1>4, <1>5, <2>2, <2>3 DEF HeaderRead
<1>9. BramRead' /\ SdramRead' /\ TrailerRead'
  <2>1. state' \in {"BRAM_LEN", "SDRAM_ADDR", "BRAM_PAYLOAD"}
    BY <1>6 DEF LastOfField
  <2> QED BY <1>2, <1>3, <1>4, <2>1
          DEF StreamInv, BramRead, SdramRead, TrailerRead, WordStates, Bytes, BRAM_BYTES
<1> QED BY <1>7, <1>8, <1>9 DEF StreamInv

LEMMA StreamSdramAddr ==
  ASSUME NEW rdy, NEW answered, NEW err, Edge(rdy, answered, err), SdramAddrByte, state' \in Busy
  PROVE  StreamInv'
<1>1. Take("SDRAM_ADDR") /\ PlaceInv /\ crc_reg \in Seq(Nat)
  BY DEF SdramAddrByte, Edge, ParseInv
<1>2. StreamInv
  BY <1>1 DEF Edge, ParseInv, StreamInv, Busy, ReceiveStates, Take
<1>3. /\ state = "SDRAM_ADDR" /\ Len(crc_reg) = 2 + FIELD + nth /\ received_crc = <<>>
      /\ bram_index = 0 /\ command = LOAD_IMAGE /\ nth \in 0 .. FIELD - 1 /\ FieldsTyped
  BY <1>1, <1>2 DEF Take, StreamInv, Position, HeaderRead, TrailerRead, Busy, ReceiveStates,
                    PlaceInv, FieldsTyped, Placed
<1>4. /\ NextOfField("SDRAM_LEN")
      /\ image_sdram_addr' = Widen(image_sdram_addr)
      /\ UNCHANGED <<received_crc, bram, command, bram_len, bram_index, sdram_len>>
  BY <1>1, <1>3, MemoriesIdle DEF SdramAddrByte, Take, indexVars
<1>5. /\ Len(crc_reg') = 3 + FIELD + nth /\ crc_reg'[2] = crc_reg[2]
      /\ FieldValue(crc_reg', 3) = FieldValue(crc_reg, 3)
      /\ FieldValue(crc_reg', 3 + FIELD) = Widen(FieldValue(crc_reg, 3 + FIELD))
      /\ FieldValue(crc_reg', 3 + 2 * FIELD) = FieldValue(crc_reg, 3 + 2 * FIELD)
  <2>1. Len(crc_reg') = 3 + FIELD + nth /\ crc_reg'[2] = crc_reg[2]
    BY SMTT(30), <1>1, <1>3, FieldPlaces, Absorb
  <2>2. /\ Len(crc_reg) >= 3 + FIELD - 1 /\ Len(crc_reg) = (3 + FIELD) - 1 + nth
        /\ Len(crc_reg) + 1 < 3 + 2 * FIELD
    BY <1>3, FieldPlaces
  <2> QED BY <1>1, <2>1, <2>2, FieldPlaces, Absorb
<1>6. /\ LastOfField => nth' = 0 /\ state' = "SDRAM_LEN"
      /\ ~LastOfField => nth' = nth + 1 /\ state' = "SDRAM_ADDR"
  BY <1>3, <1>4 DEF NextOfField
<1>7. Position'
  BY <1>3, <1>4, <1>5, <1>6, FieldPlaces DEF Position, WordStates, LastOfField
<1>8. HeaderRead'
  <2>1. Len(crc_reg) > 1
    BY <1>3, FieldPlaces
  <2>2. /\ command = crc_reg[2] /\ bram_len = FieldValue(crc_reg, 3)
        /\ image_sdram_addr = FieldValue(crc_reg, 3 + FIELD)
        /\ sdram_len = FieldValue(crc_reg, 3 + 2 * FIELD)
    BY <1>2, <1>3, <2>1 DEF StreamInv, HeaderRead
  <2> QED BY <1>3, <1>4, <1>5, <2>2 DEF HeaderRead
<1>9. BramRead' /\ SdramRead' /\ TrailerRead'
  <2>1. state' \in {"SDRAM_ADDR", "SDRAM_LEN"}
    BY <1>6 DEF LastOfField
  <2> QED BY <1>2, <1>3, <1>4, <2>1
          DEF StreamInv, BramRead, SdramRead, TrailerRead, WordStates, Bytes, BRAM_BYTES
<1> QED BY <1>7, <1>8, <1>9 DEF StreamInv

LEMMA StreamSdramLen ==
  ASSUME NEW rdy, NEW answered, NEW err, Edge(rdy, answered, err), SdramLenByte, state' \in Busy
  PROVE  StreamInv'
<1>1. Take("SDRAM_LEN") /\ PlaceInv /\ crc_reg \in Seq(Nat)
  BY DEF SdramLenByte, Edge, ParseInv
<1>2. StreamInv
  BY <1>1 DEF Edge, ParseInv, StreamInv, Busy, ReceiveStates, Take
<1>3. /\ state = "SDRAM_LEN" /\ Len(crc_reg) = 2 + 2 * FIELD + nth /\ received_crc = <<>>
      /\ bram_index = 0 /\ command = LOAD_IMAGE /\ nth \in 0 .. FIELD - 1 /\ FieldsTyped
  BY <1>1, <1>2 DEF Take, StreamInv, Position, HeaderRead, TrailerRead, Busy, ReceiveStates,
                    PlaceInv, FieldsTyped, Placed
<1>4. /\ NextOfField("BRAM_PAYLOAD")
      /\ sdram_len' = Widen(sdram_len)
      /\ UNCHANGED <<received_crc, bram, command, bram_len, bram_index, image_sdram_addr>>
  BY <1>1, <1>3, MemoriesIdle DEF SdramLenByte, Take, Fail, Busy, ReceiveStates, WordStates
<1>5. /\ Len(crc_reg') = 3 + 2 * FIELD + nth /\ crc_reg'[2] = crc_reg[2]
      /\ FieldValue(crc_reg', 3) = FieldValue(crc_reg, 3)
      /\ FieldValue(crc_reg', 3 + FIELD) = FieldValue(crc_reg, 3 + FIELD)
      /\ FieldValue(crc_reg', 3 + 2 * FIELD) = Widen(FieldValue(crc_reg, 3 + 2 * FIELD))
  <2>1. Len(crc_reg') = 3 + 2 * FIELD + nth /\ crc_reg'[2] = crc_reg[2]
    BY SMTT(30), <1>1, <1>3, FieldPlaces, Absorb
  <2>2. /\ Len(crc_reg) >= 3 + FIELD - 1 /\ Len(crc_reg) >= (3 + FIELD) + FIELD - 1
        /\ Len(crc_reg) = (3 + 2 * FIELD) - 1 + nth
    BY <1>3, FieldPlaces
  <2> QED BY <1>1, <2>1, <2>2, FieldPlaces, Absorb
<1>6. /\ LastOfField => nth' = 0 /\ state' = "BRAM_PAYLOAD"
      /\ ~LastOfField => nth' = nth + 1 /\ state' = "SDRAM_LEN"
  BY <1>3, <1>4 DEF NextOfField
<1>7. Position'
  BY <1>3, <1>4, <1>5, <1>6, FieldPlaces DEF Position, WordStates, LastOfField, PayloadAt
<1>8. HeaderRead'
  <2>1. Len(crc_reg) > 1
    BY <1>3, FieldPlaces
  <2>2. /\ command = crc_reg[2] /\ bram_len = FieldValue(crc_reg, 3)
        /\ image_sdram_addr = FieldValue(crc_reg, 3 + FIELD)
        /\ sdram_len = FieldValue(crc_reg, 3 + 2 * FIELD)
    BY <1>2, <1>3, <2>1 DEF StreamInv, HeaderRead
  <2> QED BY <1>3, <1>4, <1>5, <2>2 DEF HeaderRead
<1>9. BramRead' /\ SdramRead' /\ TrailerRead'
  <2>1. state' \in {"SDRAM_LEN", "BRAM_PAYLOAD"}
    BY <1>6 DEF LastOfField
  <2> QED BY <1>2, <1>3, <1>4, <2>1
          DEF StreamInv, BramRead, SdramRead, TrailerRead, WordStates, Bytes, BRAM_BYTES
<1> QED BY <1>7, <1>8, <1>9 DEF StreamInv

(* A payload byte leaves the header as it was read.                        *)
LEMMA HeaderKept ==
  ASSUME PlaceInv, HeaderRead, crc_reg \in Seq(Nat), NEW s, Take(s),
         Len(crc_reg) >= PayloadAt(command) - 1,
         UNCHANGED <<command, bram_len, image_sdram_addr, sdram_len>>,
         state' \in {"SDRAM_PAYLOAD"} \cup WordStates => command = LOAD_IMAGE,
         state' \notin {"SDRAM_ADDR", "SDRAM_LEN"}
  PROVE  HeaderRead'
<1>1. Len(crc_reg) >= 2 + FIELD /\ (command = LOAD_IMAGE => Len(crc_reg) >= 2 + 3 * FIELD)
  BY FieldPlaces DEF PayloadAt
<1>2. /\ Len(crc_reg) \in Nat /\ Len(crc_reg') = Len(crc_reg) + 1
      /\ Len(crc_reg) > 1 /\ crc_reg'[2] = crc_reg[2]
  BY SMTT(30), <1>1, FieldPlaces, Absorb
<1>3. Len(crc_reg) >= 3 + FIELD - 1
  BY <1>1, <1>2, FieldPlaces
<1>4. FieldValue(crc_reg', 3) = FieldValue(crc_reg, 3)
  BY <1>3, FieldPlaces, Absorb
<1>5. command = LOAD_IMAGE =>
        /\ FieldValue(crc_reg', 3 + FIELD) = FieldValue(crc_reg, 3 + FIELD)
        /\ FieldValue(crc_reg', 3 + 2 * FIELD) = FieldValue(crc_reg, 3 + 2 * FIELD)
  <2> SUFFICES ASSUME command = LOAD_IMAGE
               PROVE  /\ FieldValue(crc_reg', 3 + FIELD) = FieldValue(crc_reg, 3 + FIELD)
                      /\ FieldValue(crc_reg', 3 + 2 * FIELD) = FieldValue(crc_reg, 3 + 2 * FIELD)
    OBVIOUS
  <2>1. /\ Len(crc_reg) >= (3 + FIELD) + FIELD - 1
        /\ Len(crc_reg) >= (3 + 2 * FIELD) + FIELD - 1
    BY <1>1, <1>2, FieldPlaces
  <2> QED BY <2>1, FieldPlaces, Absorb
<1>6. ~(Len(crc_reg') <= 2 + FIELD)
  BY <1>1, <1>2, FieldPlaces
<1>7. /\ command = crc_reg[2] /\ bram_len = FieldValue(crc_reg, 3)
      /\ command = LOAD_IMAGE =>
           /\ image_sdram_addr = FieldValue(crc_reg, 3 + FIELD)
           /\ sdram_len = FieldValue(crc_reg, 3 + 2 * FIELD)
  BY <1>2 DEF HeaderRead
<1> QED BY <1>2, <1>4, <1>5, <1>6, <1>7 DEF HeaderRead, WordStates

LEMMA StreamBramPayload ==
  ASSUME NEW rdy, NEW answered, NEW err, Edge(rdy, answered, err), BramPayloadByte,
         state' \in Busy
  PROVE  StreamInv'
<1>1. Take("BRAM_PAYLOAD") /\ PlaceInv /\ crc_reg \in Seq(Nat)
  BY DEF BramPayloadByte, Edge, ParseInv
<1>2. StreamInv
  BY <1>1 DEF Edge, ParseInv, StreamInv, Busy, ReceiveStates, Take
<1>3. /\ state = "BRAM_PAYLOAD" /\ Len(crc_reg) = PayloadAt(command) - 1 + bram_index
      /\ received_crc = <<>> /\ nth = 0 /\ data_valid
  BY <1>1, <1>2 DEF Take, StreamInv, Position, TrailerRead, Busy, ReceiveStates
<1>4. /\ bram_index \in Nat /\ bram_len \in 1 .. BRAM_BYTES /\ bram_index < bram_len
      /\ sdram_index = 0
  BY <1>1, <1>3 DEF PlaceInv, FieldsTyped, Placed, BeforeSdram, BRAM_BYTES
<1>5. /\ bram_index' = bram_index + 1
      /\ state' = IF bram_index + 1 # bram_len THEN state
                  ELSE IF command = LOAD_IMAGE THEN "SDRAM_PAYLOAD" ELSE "CRC"
      /\ UNCHANGED <<nth, received_crc, command, bram_len, image_sdram_addr, sdram_len,
                     sdram_index>>
  BY <1>1 DEF BramPayloadByte, Take, fieldVars
<1>6. PayloadAt(command) \in Nat /\ PayloadAt(command) >= 5
  BY FieldPlaces DEF PayloadAt
<1>7. /\ Len(crc_reg') = Len(crc_reg) + 1 /\ crc_reg'[Len(crc_reg) + 1] = data_out
      /\ \A i \in 1 .. Len(crc_reg) : crc_reg'[i] = crc_reg[i]
  BY <1>1, Absorb
<1>8. Position'
  <2>1. Len(crc_reg') = PayloadAt(command') - 1 + bram_index'
    BY <1>3, <1>4, <1>5, <1>6, <1>7
  <2> QED BY <1>3, <1>4, <1>5, <1>6, <2>1 DEF Position, WordStates
<1>9. HeaderRead'
  <2>1. state' \in {"BRAM_PAYLOAD", "SDRAM_PAYLOAD", "CRC"}
        /\ (state' = "SDRAM_PAYLOAD" => command = LOAD_IMAGE)
    BY <1>3, <1>5
  <2>2. Len(crc_reg) >= PayloadAt(command) - 1
    BY <1>3, <1>4, <1>6
  <2> QED BY <1>1, <1>2, <1>5, <2>1, <2>2, HeaderKept DEF StreamInv, WordStates
<1>10. BramRead'
  <2>1. bram_index % BRAM_BYTES = bram_index /\ bram_index \in Bytes
    BY <1>4, BramWordsPositive DEF Bytes, BRAM_BYTES
  <2>2. bram' = [bram EXCEPT ![bram_index] = data_out]
    BY <1>3, <2>1 DEF Edge, BramPort
  <2>3. \A i \in Bytes : bram'[i] = IF i = bram_index THEN data_out ELSE bram[i]
    BY <2>2 DEF Edge, WipeInv
  <2>4. ASSUME NEW i \in Bytes
        PROVE  bram'[i] = IF i < bram_index' THEN crc_reg'[PayloadAt(command') + i] ELSE 0
    <3>1. i \in Int /\ i >= 0
      BY DEF Bytes
    <3>2. CASE i = bram_index
      <4>1. PayloadAt(command) + i = Len(crc_reg) + 1
        BY <1>3, <1>4, <1>6, <3>2
      <4> QED BY <1>4, <1>5, <1>7, <2>3, <3>2, <4>1
    <3>3. CASE i < bram_index
      <4>1. PayloadAt(command) + i \in 1 .. Len(crc_reg)
        BY <1>3, <1>4, <1>6, <3>1, <3>3
      <4> QED BY <1>2, <1>4, <1>5, <1>7, <2>3, <3>1, <3>3, <4>1 DEF StreamInv, BramRead
    <3>4. CASE i > bram_index
      BY <1>2, <1>4, <1>5, <2>3, <3>1, <3>4 DEF StreamInv, BramRead
    <3> QED BY <1>4, <3>1, <3>2, <3>3, <3>4
  <2>5. /\ state' \notin {"VERSION", "COMMAND", "BRAM_LEN"}
        /\ state' \in {"SDRAM_PAYLOAD", "CRC"} \cup WordStates => bram_index' = bram_len'
    BY <1>3, <1>5 DEF WordStates
  <2> QED BY <2>4, <2>5 DEF BramRead, Bytes, BRAM_BYTES
<1>11. SdramRead' /\ TrailerRead'
  <2>1. Len(crc_reg') > 1
    BY <1>3, <1>4, <1>6, <1>7
  <2>2. state' = "SDRAM_PAYLOAD" => sdram_index' % 4 = 0 /\ WordBase' = 0
    BY <1>4, <1>5 DEF WordBase
  <2>3. state' \in {"BRAM_PAYLOAD", "SDRAM_PAYLOAD", "CRC"}
        /\ (state' = "CRC" => command' # LOAD_IMAGE)
    BY <1>3, <1>5
  <2>4. SdramRead'
    BY <2>2, <2>3 DEF SdramRead, SdramHolds
  <2>5. TrailerRead'
    BY <1>3, <1>5, <2>1, <2>3 DEF TrailerRead
  <2> QED BY <2>4, <2>5
<1> QED BY <1>8, <1>9, <1>10, <1>11 DEF StreamInv

(* What has been absorbed of the asset stays where it is.                  *)
NewAssetByte(j) == crc_reg'[PayloadAt(command) + bram_len + j]

LEMMA AssetKept ==
  ASSUME NEW n \in Nat, PlaceInv, crc_reg \in Seq(Nat), NEW s, Take(s),
         PayloadAt(command) + bram_len + n <= Len(crc_reg) + 1,
         UNCHANGED <<command, bram_len, image_sdram_addr>>
  PROVE  \A j \in 0 .. n - 1 : NewAssetByte(j) = AssetByte(j)
<1> SUFFICES ASSUME NEW j \in 0 .. n - 1 PROVE NewAssetByte(j) = AssetByte(j)
  OBVIOUS
<1>1. PayloadAt(command) \in Nat /\ PayloadAt(command) >= 5 /\ bram_len \in Nat
  BY FieldPlaces DEF PayloadAt, PlaceInv, FieldsTyped
<1>2. PayloadAt(command) + bram_len + j \in 1 .. Len(crc_reg)
  BY SMTT(30), <1>1
<1>3. crc_reg'[PayloadAt(command) + bram_len + j] = crc_reg[PayloadAt(command) + bram_len + j]
  BY <1>2, Absorb
<1> QED BY <1>3 DEF AssetByte, NewAssetByte

LEMMA StreamSdramPayload ==
  ASSUME NEW rdy, NEW answered, NEW err, Edge(rdy, answered, err), SdramPayloadByte,
         state' \in Busy
  PROVE  StreamInv'
<1>1. Take("SDRAM_PAYLOAD") /\ PlaceInv /\ crc_reg \in Seq(Nat)
  BY DEF SdramPayloadByte, Edge, ParseInv
<1>2. StreamInv
  BY <1>1 DEF Edge, ParseInv, StreamInv, Busy, ReceiveStates, Take
<1>3. /\ state = "SDRAM_PAYLOAD" /\ received_crc = <<>> /\ nth = 0 /\ command = LOAD_IMAGE
      /\ Len(crc_reg) = PayloadAt(command) - 1 + bram_len + sdram_index
      /\ bram_index = bram_len
  BY <1>1, <1>2 DEF Take, StreamInv, Position, HeaderRead, BramRead, TrailerRead, Busy,
                    ReceiveStates
<1>4. sdram_index \in Nat /\ bram_len \in Nat
  BY <1>1 DEF PlaceInv, FieldsTyped
<1>5. /\ sdram_index' = sdram_index + 1
      /\ UNCHANGED <<nth, received_crc, command, bram_len, bram_index, image_sdram_addr,
                     sdram_len, bram, sdram>>
  BY <1>1, <1>3, MemoriesIdle DEF SdramPayloadByte, Take, fieldVars
<1>6. state' = IF sdram_index % 4 = 3 THEN "SDRAM_REQ" ELSE "SDRAM_PAYLOAD"
  BY <1>3 DEF SdramPayloadByte
<1>7. PayloadAt(command) \in Nat /\ PayloadAt(command) >= 5
  BY FieldPlaces DEF PayloadAt
<1>8. /\ Len(crc_reg') = Len(crc_reg) + 1 /\ crc_reg'[Len(crc_reg) + 1] = data_out
      /\ \A i \in 1 .. Len(crc_reg) : crc_reg'[i] = crc_reg[i]
  BY <1>1, Absorb
<1>9. Position'
  <2>1. state' \in {"SDRAM_REQ", "SDRAM_PAYLOAD"} /\ nth' = 0
    BY <1>3, <1>5, <1>6
  <2>2. PayloadAt(command') = PayloadAt(command)
    BY <1>5
  <2>3. Len(crc_reg') = PayloadAt(command') - 1 + bram_len' + sdram_index'
    BY SMTT(30), <1>3, <1>4, <1>5, <1>7, <1>8, <2>2
  <2> QED BY <2>1, <2>3 DEF Position
<1>10. HeaderRead'
  <2>1. Len(crc_reg) >= PayloadAt(command) - 1
    BY <1>3, <1>4, <1>7
  <2> QED BY <1>1, <1>2, <1>3, <1>5, <1>6, <2>1, HeaderKept DEF StreamInv
<1>11. BramRead'
  <2>1. \A i \in Bytes : i < bram_index => crc_reg'[PayloadAt(command) + i] = crc_reg[PayloadAt(command) + i]
    <3> SUFFICES ASSUME NEW i \in Bytes, i < bram_index
                 PROVE  PayloadAt(command) + i \in 1 .. Len(crc_reg)
      BY <1>8
    <3>1. i \in Int /\ i >= 0
      BY DEF Bytes
    <3> QED BY <1>3, <1>4, <1>7, <3>1
  <2>2. state' \in {"SDRAM_PAYLOAD", "SDRAM_REQ"}
    BY <1>6
  <2> QED BY <1>2, <1>3, <1>5, <2>1, <2>2 DEF StreamInv, BramRead, WordStates, Bytes, BRAM_BYTES
<1>12. \A j \in 0 .. sdram_index - 1 : NewAssetByte(j) = AssetByte(j)
  <2>1. PayloadAt(command) + bram_len + sdram_index <= Len(crc_reg) + 1
    BY <1>3, <1>4, <1>7
  <2>2. UNCHANGED <<command, bram_len, image_sdram_addr>>
    BY <1>5
  <2> QED BY <1>1, <1>4, <2>1, <2>2, AssetKept
<1>13. NewAssetByte(sdram_index) = data_out
  <2>1. PayloadAt(command) + bram_len + sdram_index = Len(crc_reg) + 1
    BY <1>3, <1>4, <1>7
  <2> QED BY <1>8, <2>1 DEF NewAssetByte
<1>14. /\ SdramHolds(WordBase)
       /\ \A k \in 0 .. 2 : k < sdram_index % 4 => sdram_word[k] = AssetByte(WordBase + k)
  BY <1>2, <1>3 DEF StreamInv, SdramRead
<1>15. /\ WordBase \in Nat /\ WordBase <= sdram_index /\ sdram_index % 4 \in 0 .. 3
       /\ sdram_index = WordBase + (sdram_index % 4)
  BY <1>4 DEF WordBase
<1>16. \A j \in 0 .. WordBase - 1 : sdram[image_sdram_addr + j] = NewAssetByte(j)
  <2> SUFFICES ASSUME NEW j \in 0 .. WordBase - 1
               PROVE  sdram[image_sdram_addr + j] = NewAssetByte(j)
    OBVIOUS
  <2>1. sdram[image_sdram_addr + j] = AssetByte(j)
    BY <1>14 DEF SdramHolds
  <2> QED BY <1>4, <1>12, <1>15, <2>1
<1>17. CASE sdram_index % 4 = 3
  <2>1. sdram_index' - 4 = WordBase
    BY <1>4, <1>5, <1>15, <1>17
  <2>2. sdram_write_data' = [i \in 0 .. 3 |-> IF i = 3 THEN data_out ELSE sdram_word[i]]
    BY <1>17 DEF SdramPayloadByte
  <2>3. ASSUME NEW k \in 0 .. 3
        PROVE  sdram_write_data'[k] = NewAssetByte(WordBase + k)
    <3>1. CASE k = 3
      BY <1>13, <1>15, <1>17, <2>2, <3>1
    <3>2. CASE k # 3
      <4>1. k \in 0 .. 2 /\ k < sdram_index % 4 /\ WordBase + k \in 0 .. sdram_index - 1
        BY <1>4, <1>15, <1>17, <3>2
      <4> QED BY <1>12, <1>14, <2>2, <3>2, <4>1
    <3> QED BY <3>1, <3>2
  <2>4. SdramHolds(sdram_index - 4)'
    BY <1>5, <1>16, <2>1 DEF SdramHolds, AssetByte, NewAssetByte
  <2>5. SdramRead'
    <3>1. \A k \in 0 .. 3 : sdram_write_data'[k] = AssetByte(sdram_index - 4 + k)'
      BY <1>5, <2>1, <2>3 DEF AssetByte, NewAssetByte
    <3> QED BY <1>6, <1>17, <2>4, <3>1 DEF SdramRead
  <2>6. TrailerRead'
    BY <1>3, <1>5, <1>6, <1>17 DEF TrailerRead
  <2> QED BY <1>9, <1>10, <1>11, <2>5, <2>6 DEF StreamInv
<1>18. CASE sdram_index % 4 # 3
  <2>1. WordBase' = WordBase /\ sdram_index' % 4 = (sdram_index % 4) + 1 /\ sdram_index % 4 \in 0 .. 2
    BY <1>4, <1>5, <1>15, <1>18 DEF WordBase
  <2>2. sdram_word' = [sdram_word EXCEPT ![sdram_index % 4] = data_out]
    BY <1>18 DEF SdramPayloadByte
  <2>3. \A k \in 0 .. 2 : sdram_word'[k] = IF k = sdram_index % 4 THEN data_out ELSE sdram_word[k]
    BY <2>1, <2>2 DEF Edge, ParseInv
  <2>4. ASSUME NEW k \in 0 .. 2, k < sdram_index' % 4
        PROVE  sdram_word'[k] = NewAssetByte(WordBase + k)
    <3>1. CASE k = sdram_index % 4
      BY <1>13, <1>15, <2>3, <3>1
    <3>2. CASE k # sdram_index % 4
      <4>1. k < sdram_index % 4 /\ WordBase + k \in 0 .. sdram_index - 1
        BY <1>4, <1>15, <2>1, <2>4, <3>2
      <4> QED BY <1>12, <1>14, <2>3, <3>2, <4>1
    <3> QED BY <3>1, <3>2
  <2>5. SdramHolds(WordBase)'
    BY <1>5, <1>16, <2>1 DEF SdramHolds, AssetByte, NewAssetByte
  <2>6. SdramRead'
    <3>1. \A k \in 0 .. 2 : k < sdram_index' % 4 => sdram_word'[k] = AssetByte(WordBase + k)'
      BY <1>5, <2>1, <2>4 DEF AssetByte, NewAssetByte
    <3> QED BY <1>6, <1>18, <2>5, <3>1 DEF SdramRead
  <2>7. TrailerRead'
    BY <1>3, <1>5, <1>6, <1>18 DEF TrailerRead
  <2> QED BY <1>9, <1>10, <1>11, <2>6, <2>7 DEF StreamInv
<1> QED BY <1>17, <1>18

(* The word that was collected is written behind those already there.      *)
LEMMA WordStored ==
  ASSUME PlaceInv, ParseInv, state = "SDRAM_REQ",
         SdramHolds(sdram_index - 4),
         \A k \in 0 .. 3 : sdram_write_data[k] = AssetByte(sdram_index - 4 + k),
         NEW s,
         s = [a \in SdramAddrs |-> IF a - sdram_write_addr \in 0 .. 3
                                   THEN sdram_write_data[a - sdram_write_addr] ELSE sdram[a]]
  PROVE  \A j \in 0 .. sdram_index - 1 : s[image_sdram_addr + j] = AssetByte(j)
<1>1. /\ GoodSegment /\ sdram_index \in 4 .. sdram_len
      /\ sdram_write_addr = image_sdram_addr + sdram_index - 4
  BY DEF PlaceInv, Placed, WordStates
<1>2. /\ image_sdram_addr >= SDRAM_BASE_ADDR
      /\ sdram_len <= SDRAM_LIMIT_ADDR - image_sdram_addr
      /\ image_sdram_addr \in Nat /\ sdram_len \in Nat
  BY <1>1, BootParams DEF GoodSegment, BadSegment, PlaceInv, FieldsTyped
<1> SUFFICES ASSUME NEW j \in 0 .. sdram_index - 1
             PROVE  s[image_sdram_addr + j] = AssetByte(j)
  OBVIOUS
<1>3. image_sdram_addr + j \in SdramAddrs
  BY <1>1, <1>2, BootParams DEF SdramAddrs
<1>4. (image_sdram_addr + j) - sdram_write_addr = j - (sdram_index - 4)
  BY <1>1, <1>2
<1>5. s[image_sdram_addr + j] = IF j - (sdram_index - 4) \in 0 .. 3
                                THEN sdram_write_data[j - (sdram_index - 4)]
                                ELSE sdram[image_sdram_addr + j]
  BY <1>3, <1>4
<1>6. CASE j < sdram_index - 4
  <2>1. ~(j - (sdram_index - 4) \in 0 .. 3) /\ j \in 0 .. (sdram_index - 4) - 1
    BY <1>1, <1>6
  <2> QED BY <1>5, <2>1 DEF SdramHolds
<1>7. CASE ~(j < sdram_index - 4)
  <2>1. /\ j - (sdram_index - 4) \in 0 .. 3
        /\ sdram_index - 4 + (j - (sdram_index - 4)) = j
    BY <1>1, <1>7
  <2> QED BY <1>5, <2>1
<1> QED BY <1>6, <1>7

(* A step that leaves stream, header and firmware alone.                   *)
streamVars == <<crc_reg, command, bram_len, bram_index, image_sdram_addr, sdram_len,
                sdram_index, nth>>

LEMMA ReadFrame ==
  ASSUME HeaderRead, BramRead, UNCHANGED <<streamVars, bram>>,
         state' \in {"SDRAM_ADDR", "SDRAM_LEN", "SDRAM_PAYLOAD"} \cup WordStates =>
           command = LOAD_IMAGE,
         state' \in {"VERSION", "COMMAND", "BRAM_LEN"} => bram_index = 0,
         state' \in {"SDRAM_PAYLOAD", "CRC"} \cup WordStates => bram_index = bram_len
  PROVE  HeaderRead' /\ BramRead'
<1>1. HeaderRead'
  BY DEF HeaderRead, streamVars, WordStates
<1>2. BramRead'
  BY DEF BramRead, streamVars, WordStates, Bytes, BRAM_BYTES
<1> QED BY <1>1, <1>2

LEMMA StreamWord ==
  ASSUME NEW rdy, NEW answered, NEW err, Edge(rdy, answered, err),
         SdramReq(rdy) \/ SdramResp(answered, err), state' \in Busy
  PROVE  StreamInv'
<1>1. /\ state \in WordStates /\ UNCHANGED <<streamVars, received_crc, sdram_write_data>>
      /\ state' \in WordStates \cup {"CRC", "SDRAM_PAYLOAD"}
  BY DEF SdramReq, SdramResp, KeepReply, NoFieldWritten, fieldVars, indexVars, wordVars,
         streamVars, WordStates, Fail, Busy, ReceiveStates
<1>2. StreamInv /\ PlaceInv /\ ParseInv
  BY <1>1 DEF Edge, ParseInv, StreamInv, Busy, WordStates
<1>3. /\ received_crc = <<>> /\ nth = 0 /\ command = LOAD_IMAGE /\ bram_index = bram_len
      /\ Len(crc_reg) = PayloadAt(command) - 1 + bram_len + sdram_index
  BY <1>1, <1>2 DEF StreamInv, Position, HeaderRead, BramRead, TrailerRead, Busy,
                    ReceiveStates, WordStates
<1>4. /\ sdram_index \in 4 .. sdram_len /\ sdram_index % 4 = 0 /\ sdram_len \in Nat
      /\ bram_len \in Nat
  BY <1>1, <1>2 DEF PlaceInv, Placed, FieldsTyped
<1>5. HeaderRead' /\ BramRead'
  <2>1. UNCHANGED bram
    BY <1>1, MemoriesIdle DEF WordStates
  <2> QED BY <1>1, <1>2, <1>3, <2>1, ReadFrame DEF StreamInv, WordStates
<1>6. Position'
  BY <1>1, <1>3 DEF Position, WordStates, streamVars
<1>7. TrailerRead'
  <2>1. PayloadAt(command) >= 5
    BY FieldPlaces DEF PayloadAt
  <2>2. PayloadAt(command) \in Nat
    BY FieldPlaces DEF PayloadAt
  <2>3. Len(crc_reg) > 1
    BY <1>3, <1>4, <2>1, <2>2
  <2> QED BY <1>1, <1>3, <2>3 DEF TrailerRead, streamVars, WordStates, Busy, ReceiveStates
<1>8. SdramRead'
  <2>1. CASE state = "SDRAM_REQ" /\ rdy
    <3>1. state' = "SDRAM_RESP"
      BY <2>1 DEF SdramReq, SdramResp
    <3>2. sdram' = [a \in SdramAddrs |-> IF a - sdram_write_addr \in 0 .. 3
                                   THEN sdram_write_data[a - sdram_write_addr] ELSE sdram[a]]
      BY <2>1 DEF Edge, SdramPins
    <3>3. /\ SdramHolds(sdram_index - 4)
          /\ \A k \in 0 .. 3 : sdram_write_data[k] = AssetByte(sdram_index - 4 + k)
      BY <1>2, <2>1 DEF StreamInv, SdramRead
    <3>4. \A j \in 0 .. sdram_index - 1 : sdram'[image_sdram_addr + j] = AssetByte(j)
      BY <1>2, <2>1, <3>2, <3>3, WordStored
    <3>5. SdramHolds(sdram_index)'
      BY <1>1, <3>4 DEF SdramHolds, AssetByte, streamVars
    <3> QED BY <3>1, <3>5 DEF SdramRead
  <2>2. CASE state = "SDRAM_REQ" /\ ~rdy
    <3>1. state' = "SDRAM_REQ"
      BY <2>2 DEF SdramReq, SdramResp
    <3>2. UNCHANGED sdram
      BY <2>2 DEF Edge, SdramPins
    <3>3. /\ SdramHolds(sdram_index - 4)
          /\ \A k \in 0 .. 3 : sdram_write_data[k] = AssetByte(sdram_index - 4 + k)
      BY <1>2, <2>2 DEF StreamInv, SdramRead
    <3> QED BY <1>1, <3>1, <3>2, <3>3 DEF SdramRead, SdramHolds, AssetByte, streamVars
  <2>3. CASE state = "SDRAM_RESP"
    <3>1. UNCHANGED sdram /\ SdramHolds(sdram_index)
      BY <1>2, <2>3, MemoriesIdle DEF StreamInv, SdramRead
    <3>2. SdramHolds(sdram_index)'
      BY <1>1, <3>1 DEF SdramHolds, AssetByte, streamVars
    <3>3. /\ state' \in {"SDRAM_RESP", "CRC", "SDRAM_PAYLOAD"}
          /\ state' = "CRC" => sdram_index = sdram_len
      BY <2>3 DEF SdramReq, SdramResp, Fail, Busy, ReceiveStates, WordStates
    <3>4. CASE state' = "SDRAM_RESP"
      BY <3>2, <3>4 DEF SdramRead
    <3>5. CASE state' = "CRC"
      BY <1>1, <3>2, <3>3, <3>5 DEF SdramRead, SdramHolds, AssetByte, streamVars
    <3>6. CASE state' = "SDRAM_PAYLOAD"
      <4>1. WordBase' = sdram_index' /\ sdram_index' % 4 = 0
        BY <1>1, <1>4 DEF WordBase, streamVars
      <4>2. SdramHolds(WordBase)'
        BY <3>2, <4>1 DEF SdramHolds
      <4> QED BY <3>6, <4>1, <4>2 DEF SdramRead
    <3> QED BY <3>3, <3>4, <3>5, <3>6
  <2> QED BY <1>1, <2>1, <2>2, <2>3 DEF WordStates
<1> QED BY <1>5, <1>6, <1>7, <1>8 DEF StreamInv

LEMMA StreamCrc ==
  ASSUME NEW rdy, NEW answered, NEW err, Edge(rdy, answered, err), CrcByte, state' \in Busy
  PROVE  StreamInv'
<1>1. /\ state = "CRC" /\ state' = "CRC" /\ ~LastOfField /\ nth' = nth + 1
      /\ received_crc' = Append(received_crc, data_out)
      /\ UNCHANGED <<crc_reg, command, bram_len, bram_index, image_sdram_addr, sdram_len,
                     sdram_index>>
  BY DEF CrcByte, Fail, Busy, ReceiveStates, WordStates, fieldVars, indexVars
<1>2. StreamInv /\ data_out \in Nat
  BY <1>1 DEF Edge, ParseInv, StreamInv, Busy, ReceiveStates, PlaceInv
<1>3. UNCHANGED <<bram, sdram>>
  BY <1>1, MemoriesIdle
<1>4. HeaderRead' /\ SdramRead'
  BY <1>1, <1>2, <1>3 DEF StreamInv, HeaderRead, SdramRead, SdramHolds, AssetByte, WordStates
<1>5. BramRead'
  BY <1>1, <1>2, <1>3 DEF StreamInv, BramRead, WordStates, Bytes, BRAM_BYTES
<1>6. Position'
  BY <1>1 DEF Position, WordStates
<1>7. TrailerRead'
  BY <1>1, <1>2 DEF StreamInv, TrailerRead
<1> QED BY <1>4, <1>5, <1>6, <1>7 DEF StreamInv

(* The end of the magic: an empty stream, and a wiped BRAM.                *)
LEMMA StreamMagic ==
  ASSUME NEW rdy, NEW answered, NEW err, Edge(rdy, answered, err), MagicByte, state' \in Busy
  PROVE  StreamInv'
<1>1. /\ state = "MAGIC" /\ state' = "VERSION" /\ nth' = 0 /\ bram_len' = 0
      /\ image_sdram_addr' = 0 /\ sdram_len' = 0 /\ bram_index' = 0
      /\ received_crc' = <<>> /\ crc_reg' = <<>>
  BY DEF MagicByte, Busy, ReceiveStates, WordStates
<1>2. \A i \in Bytes : bram'[i] = 0
  <2>1. UNCHANGED bram /\ Wiped(BRAM_WORDS)
    BY <1>1, MemoriesIdle DEF Edge, WipeInv
  <2>2. \A i \in Bytes : i \div 4 < BRAM_WORDS
    BY WordsOfBytes, BootParams
  <2> QED BY <2>1, <2>2 DEF Wiped
<1>3. Position' /\ SdramRead' /\ TrailerRead'
  BY <1>1 DEF Position, SdramRead, TrailerRead, WordStates
<1>4. HeaderRead'
  <2>1. Len(crc_reg') = 0 /\ \A at \in Nat \ {0} : FieldValue(crc_reg', at) = 0
    BY <1>1, ValueOfNothing
  <2> QED BY <1>1, <2>1, FieldPlaces DEF HeaderRead, WordStates
<1>5. BramRead'
  <2>1. \A i \in Bytes : ~(i < 0)
    BY DEF Bytes
  <2> QED BY <1>1, <1>2, <2>1 DEF BramRead, WordStates, Bytes, BRAM_BYTES
<1> QED BY <1>3, <1>4, <1>5 DEF StreamInv

LEMMA StreamFrame ==
  ASSUME StreamInv,
         UNCHANGED <<streamVars, state, received_crc, bram, sdram, sdram_word, sdram_write_data>>
  PROVE  StreamInv'
<1>1. HeaderRead' /\ BramRead'
  BY ReadFrame DEF StreamInv, HeaderRead, BramRead, WordStates, streamVars
<1>2. Position'
  BY DEF StreamInv, Position, streamVars
<1>3. SdramRead'
  BY DEF StreamInv, SdramRead, SdramHolds, AssetByte, WordBase, streamVars
<1>4. TrailerRead'
  BY DEF StreamInv, TrailerRead, streamVars
<1> QED BY <1>1, <1>2, <1>3, <1>4 DEF StreamInv

LEMMA StreamClock ==
  ASSUME NEW rdy, NEW answered, NEW err, Edge(rdy, answered, err),
         BootClock(rdy, answered, err), state' \in Busy
  PROVE  StreamInv'
<1>1. CASE UartError \/ Timeout
  BY <1>1 DEF UartError, Timeout, Fail, Busy, ReceiveStates, WordStates
<1>2. CASE Clear \/ Send("SEND_0", "SEND_1") \/ Send("SEND_1", "DRAIN_BUSY")
           \/ DrainBusy \/ DrainIdle \/ Run
  BY <1>2 DEF Clear, Send, DrainBusy, DrainIdle, Run, Busy, ReceiveStates, WordStates
<1>3. CASE Listen
  <2>1. /\ state' = state /\ state \in Busy /\ rx_ready /\ ~data_valid
        /\ UNCHANGED <<streamVars, received_crc, sdram_word, sdram_write_data>>
    BY <1>3 DEF Listen, NoFieldWritten, fieldVars, indexVars, wordVars, streamVars
  <2>2. UNCHANGED <<bram, sdram>>
    <3>1. state \notin {"CLEAR", "SDRAM_REQ"}
      BY <2>1 DEF rx_ready, receive_state, ReceiveStates
    <3> QED BY <2>1, <3>1, MemoriesIdle DEF Edge, BramPort
  <2>3. StreamInv
    BY <2>1 DEF Edge, ParseInv, StreamInv
  <2> QED BY <2>1, <2>2, <2>3, StreamFrame
<1>4. CASE MagicByte
  BY <1>4, StreamMagic
<1>5. CASE VersionByte
  BY <1>5, StreamVersion
<1>6. CASE CommandByte
  BY <1>6, StreamCommand
<1>7. CASE BramLenByte
  BY <1>7, StreamBramLen
<1>8. CASE SdramAddrByte
  BY <1>8, StreamSdramAddr
<1>9. CASE SdramLenByte
  BY <1>9, StreamSdramLen
<1>10. CASE BramPayloadByte
  BY <1>10, StreamBramPayload
<1>11. CASE SdramPayloadByte
  BY <1>11, StreamSdramPayload
<1>12. CASE SdramReq(rdy) \/ SdramResp(answered, err)
  BY <1>12, StreamWord
<1>13. CASE CrcByte
  BY <1>13, StreamCrc
<1> QED BY <1>1, <1>2, <1>3, <1>4, <1>5, <1>6, <1>7, <1>8, <1>9, <1>10, <1>11, <1>12,
           <1>13 DEF BootClock

-----------------------------------------------------------------------------
(***************************************************************************)
(* An accepted packet is the image.                                        *)
(***************************************************************************)
LEMMA StreamIsImage ==
  ASSUME IdealChecksum, PlaceInv, WipeInv, ParseInv, state = "CRC", Len(Crc(crc_reg)) = FIELD
  PROVE  Loaded
<1>1. /\ crc_reg = Body /\ HeaderRead /\ BramRead /\ SdramRead /\ Len(crc_reg) > 1
  BY DEF IdealChecksum, ParseInv, Busy, ReceiveStates, TrailerRead
<1>2. /\ command = Body[2] /\ bram_len = Len(FIRMWARE) /\ bram_index = bram_len
  BY <1>1, PacketCarriesImage DEF HeaderRead, BramRead
<1>3. Len(FIRMWARE) \in 1 .. BRAM_BYTES
  BY LinkParams
<1>4. bram = ImageBram
  <2>1. ASSUME NEW i \in Bytes
        PROVE  bram[i] = IF i < Len(FIRMWARE) THEN FIRMWARE[i + 1] ELSE 0
    <3>1. bram[i] = IF i < Len(FIRMWARE) THEN Body[PayloadAt(Body[2]) + i] ELSE 0
      BY <1>1, <1>2 DEF BramRead
    <3>2. CASE i < Len(FIRMWARE)
      <4>1. i + 1 \in 1 .. Len(FIRMWARE)
        BY <1>3, <3>2 DEF Bytes
      <4>2. PayloadAt(Body[2]) \in Nat
        BY FieldPlaces DEF PayloadAt
      <4>3. PayloadAt(Body[2]) + (i + 1) - 1 = PayloadAt(Body[2]) + i
        BY <4>2 DEF Bytes
      <4>4. FIRMWARE[i + 1] = Body[PayloadAt(Body[2]) + (i + 1) - 1]
        BY <4>1, PacketCarriesImage
      <4> QED BY <3>1, <3>2, <4>3, <4>4
    <3>3. CASE ~(i < Len(FIRMWARE))
      BY <3>1, <3>3
    <3> QED BY <3>2, <3>3
  <2>2. bram = [i \in Bytes |-> bram[i]]
    BY DEF WipeInv
  <2> QED BY <2>1, <2>2 DEF ImageBram, Bytes
<1>5. AssetLoaded
  <2>1. CASE Body[2] = LOAD_IMAGE
    <3>1. /\ image_sdram_addr = ASSET_ADDR /\ sdram_len = Len(ASSET)
          /\ SdramHolds(sdram_len)
      BY <1>1, <1>2, <2>1, PacketCarriesImage DEF HeaderRead, SdramRead
    <3>2. Len(ASSET) \in Nat /\ ASSET_ADDR \in Nat
      BY <3>1 DEF PlaceInv, FieldsTyped
    <3>3. ASSUME NEW i \in 1 .. Len(ASSET)
          PROVE  sdram[ASSET_ADDR + i - 1] = ASSET[i]
      <4>1. i - 1 \in 0 .. sdram_len - 1
        BY <3>1, <3>2
      <4>2. sdram[ASSET_ADDR + (i - 1)] = Body[PayloadAt(Body[2]) + Len(FIRMWARE) + (i - 1)]
        BY <1>1, <1>2, <3>1, <4>1 DEF SdramHolds, AssetByte
      <4>3. PayloadAt(Body[2]) \in Nat
        BY FieldPlaces DEF PayloadAt
      <4>4. /\ ASSET_ADDR + (i - 1) = ASSET_ADDR + i - 1
            /\ PayloadAt(Body[2]) + Len(FIRMWARE) + (i - 1)
                 = PayloadAt(Body[2]) + Len(FIRMWARE) + i - 1
        BY <1>3, <3>2, <4>3
      <4>5. ASSET[i] = Body[PayloadAt(Body[2]) + Len(FIRMWARE) + i - 1]
        BY PacketCarriesImage
      <4> QED BY <4>2, <4>4, <4>5
    <3> QED BY <3>3 DEF AssetLoaded
  <2>2. CASE Body[2] # LOAD_IMAGE
    <3>1. Len(ASSET) = 0
      BY <2>2, PacketCarriesImage
    <3> QED BY <3>1 DEF AssetLoaded
  <2> QED BY <2>1, <2>2
<1> QED BY <1>4, <1>5 DEF Loaded

(* Only the trailer that belongs to the stream is answered with ACK.       *)
LEMMA Accepted ==
  ASSUME IdealChecksum, NEW rdy, NEW answered, NEW err, Edge(rdy, answered, err), CrcByte,
         after_run'
  PROVE  /\ Loaded /\ Loaded' /\ UNCHANGED <<bram, sdram>> /\ state' = "SEND_0" /\ ~after_run
         /\ response' = <<ACK, ERROR_NONE>>
<1>1. state = "CRC" /\ PlaceInv /\ WipeInv /\ ParseInv
  BY DEF CrcByte, Edge
<1>2. ~after_run
  BY <1>1 DEF ParseInv, Replying
<1>3. /\ received_crc' = Append(received_crc, data_out) /\ LastOfField
      /\ received_crc' = Crc(crc_reg) /\ state' = "SEND_0"
      /\ response' = <<ACK, ERROR_NONE>>
  BY <1>2 DEF CrcByte, Fail, replyVars
<1>4. Len(received_crc) = nth /\ received_crc \in Seq(Nat) /\ data_out \in Nat
  BY <1>1 DEF ParseInv, PlaceInv, TrailerRead, Busy, ReceiveStates
<1>5. Len(Crc(crc_reg)) = FIELD
  <2>1. Len(Append(received_crc, data_out)) = nth + 1
    BY <1>4
  <2>2. nth + 1 = FIELD
    BY <1>3, FieldPlaces DEF LastOfField
  <2> QED BY <1>3, <2>1, <2>2
<1>6. Loaded
  BY <1>1, <1>5, StreamIsImage
<1>7. UNCHANGED <<bram, sdram>>
  BY <1>1, MemoriesIdle
<1> QED BY <1>2, <1>3, <1>6, <1>7 DEF Loaded, AssetLoaded

(* What follows an ACK on the board: it is sent, and the CPU released.     *)
LEMMA AfterRun ==
  ASSUME IdealChecksum, NEW rdy, NEW answered, NEW err, Edge(rdy, answered, err),
         BootClock(rdy, answered, err)
  PROVE  /\ after_run' => state' \in Replying \cup {"RUN"}
         /\ after_run' /\ state' \in Replying => Loaded'
         /\ state' = "RUN" => cpu_release'
<1>1. /\ after_run => state \in Replying \cup {"RUN"}
      /\ after_run /\ state \in Replying => Loaded
  BY DEF Edge, ParseInv
<1>2. CASE \E code : Fail(code)
  BY <1>2 DEF Fail, Replying
<1>3. CASE Clear \/ Listen \/ MagicByte \/ SdramReq(rdy)
  <2>1. state \notin Replying \cup {"RUN"} /\ UNCHANGED after_run /\ state' # "RUN"
    BY <1>3 DEF Clear, Listen, MagicByte, SdramReq, KeepReply, replyVars, Replying, rx_ready,
                receive_state, ReceiveStates
  <2> QED BY <1>1, <2>1
<1>4. CASE Send("SEND_0", "SEND_1") \/ Send("SEND_1", "DRAIN_BUSY") \/ DrainBusy \/ DrainIdle
  <2>1. /\ state \in Replying /\ UNCHANGED after_run
        /\ state' \in Replying \cup {"MAGIC", "RUN"}
        /\ state' = "MAGIC" => ~after_run
        /\ state' = "RUN" => cpu_release'
    BY <1>4 DEF Send, DrainBusy, DrainIdle, KeepReply, replyVars, Replying
  <2>2. UNCHANGED <<bram, sdram>>
    BY <2>1, MemoriesIdle DEF Replying
  <2> QED BY <1>1, <2>1, <2>2 DEF Loaded, AssetLoaded
<1>5. CASE Run
  BY <1>5 DEF Run, Replying
<1>6. CASE \/ VersionByte \/ CommandByte \/ BramLenByte \/ SdramAddrByte
           \/ SdramLenByte \/ BramPayloadByte \/ SdramPayloadByte
  <2>1. CASE \E code : Fail(code)
    BY <2>1, <1>2
  <2>2. CASE ~\E code : Fail(code)
    <3>1. state \in ReceiveStates /\ state' \in Busy
      BY <1>6, <2>2, PacketStep
    <3>2. UNCHANGED after_run
      BY <1>6, <2>2 DEF VersionByte, CommandByte, BramLenByte, SdramAddrByte, SdramLenByte,
                        BramPayloadByte, SdramPayloadByte, replyVars
    <3> QED BY <1>1, <3>1, <3>2 DEF ReceiveStates, Busy, Replying
  <2> QED BY <2>1, <2>2
<1>7. CASE SdramResp(answered, err) /\ ~\E code : Fail(code)
  <2>1. state = "SDRAM_RESP" /\ UNCHANGED after_run /\ state' # "RUN"
    BY <1>7 DEF SdramResp, replyVars
  <2> QED BY <1>1, <2>1 DEF Replying
<1>8. CASE CrcByte
  <2>1. CASE after_run'
    BY <1>8, <2>1, Accepted DEF Replying
  <2>2. CASE ~after_run'
    BY <1>8, <2>2 DEF CrcByte, Fail
  <2> QED BY <2>1, <2>2
<1>9. UartError \/ Timeout => \E code : Fail(code)
  BY DEF UartError, Timeout
<1> QED BY <1>2, <1>3, <1>4, <1>5, <1>6, <1>7, <1>8, <1>9 DEF BootClock

(* The stream, and the shapes of the functions that hold data.             *)
LEMMA StreamShapes ==
  ASSUME NEW rdy, NEW answered, NEW err, Edge(rdy, answered, err),
         BootClock(rdy, answered, err)
  PROVE  /\ crc_reg' \in Seq(Nat) /\ SdramShape'
         /\ sdram_word' = [k \in 0 .. 2 |-> sdram_word'[k]]
<1>1. crc_reg \in Seq(Nat) /\ SdramShape /\ data_out \in Nat
      /\ sdram_word = [k \in 0 .. 2 |-> sdram_word[k]]
  BY DEF Edge, ParseInv, PlaceInv
<1>2. UNCHANGED crc_reg \/ crc_reg' = <<>> \/ crc_reg' = Append(crc_reg, data_out)
  BY DEF BootClock, UartError, Timeout, Clear, Send, DrainBusy, DrainIdle, Run, Listen,
         MagicByte, VersionByte, CommandByte, BramLenByte, SdramAddrByte, SdramLenByte,
         BramPayloadByte, SdramPayloadByte, SdramReq, SdramResp, CrcByte, Take, NoFieldWritten
<1>3. crc_reg' \in Seq(Nat)
  <2>1. crc_reg \in Seq(Nat) /\ data_out \in Nat
    BY <1>1
  <2>2. <<>> \in Seq(Nat) /\ Append(crc_reg, data_out) \in Seq(Nat)
    BY <2>1
  <2> QED BY <1>2, <2>1, <2>2
<1>4. SdramShape'
  BY <1>1 DEF Edge, SdramPins, SdramShape, SdramAddrs
<1>5. \/ UNCHANGED sdram_word
      \/ sdram_word' = [sdram_word EXCEPT ![sdram_index % 4] = data_out]
  BY DEF BootClock, UartError, Timeout, Clear, Send, DrainBusy, DrainIdle, Run, Listen,
         MagicByte, VersionByte, CommandByte, BramLenByte, SdramAddrByte, SdramLenByte,
         BramPayloadByte, SdramPayloadByte, SdramReq, SdramResp, CrcByte, NoFieldWritten,
         wordVars
<1> QED BY <1>1, <1>3, <1>4, <1>5

LEMMA ParseClock ==
  ASSUME IdealChecksum, PlaceInv, WipeInv, ParseInv, ClockTick
  PROVE  ParseInv'
<1>1. PICK e \in Arrivals, rdy \in BOOLEAN, answered \in BOOLEAN, err \in BOOLEAN :
        Tick(e, rdy, answered, err)
  BY DEF ClockTick
<1>2. Edge(rdy, answered, err) /\ BootClock(rdy, answered, err)
  BY <1>1 DEF Tick, Edge, BootClock
<1>3. state' \in Busy => StreamInv'
  BY <1>2, StreamClock
<1> QED BY <1>2, <1>3, AfterRun, StreamShapes DEF ParseInv, StreamInv

LEMMA ParseStep ==
  ASSUME IdealChecksum, PlaceInv, WipeInv, ParseInv, [Next]_vars
  PROVE  ParseInv'
<1>1. CASE ClockTick
  BY <1>1, ParseClock
<1>2. CASE PressReset
  <2>1. /\ state' = "CLEAR" /\ after_run' = FALSE /\ crc_reg' = <<>> /\ UNCHANGED sdram
        /\ sdram_word' = [i \in 0 .. 2 |-> 0]
    BY <1>2 DEF PressReset, Reset
  <2>2. state' \notin Busy
    BY <2>1 DEF Busy, ReceiveStates
  <2> QED BY <2>1, <2>2 DEF ParseInv, SdramShape, SdramAddrs
<1>3. CASE CpuStores
  <2>1. state = "RUN" /\ UNCHANGED <<state, after_run, cpu_release, crc_reg, sdram, sdram_word>>
    BY <1>3 DEF CpuStores, WipeInv, replyVars, wordVars, linkVars
  <2>2. state' \notin Busy \cup Replying
    BY <2>1 DEF Busy, ReceiveStates, Replying
  <2> QED BY <2>1, <2>2 DEF ParseInv, SdramShape, SdramAddrs
<1>4. CASE HostSteps \/ HostTimesOut \/ UNCHANGED vars
  <2>1. UNCHANGED <<bootVars, sdram>>
    BY <1>4 DEF HostSteps, HostTimesOut, vars, linkVars
  <2>2. UNCHANGED <<streamVars, state, received_crc, bram, sdram, sdram_word, sdram_write_data,
                    after_run, cpu_release>>
    BY <2>1 DEF bootVars, fieldVars, indexVars, wordVars, replyVars, streamVars
  <2>3. StreamInv => StreamInv'
    BY <2>2, StreamFrame
  <2>4. Loaded => Loaded'
    BY <2>2 DEF Loaded, AssetLoaded
  <2> QED BY <2>2, <2>3, <2>4 DEF ParseInv, StreamInv, SdramShape, SdramAddrs, streamVars
<1> QED BY <1>1, <1>2, <1>3, <1>4 DEF Next

LEMMA ParseInit == Init => ParseInv
<1> SUFFICES ASSUME Init PROVE ParseInv
  OBVIOUS
<1>1. /\ state = "CLEAR" /\ after_run = FALSE /\ crc_reg = <<>>
      /\ sdram_word = [i \in 0 .. 2 |-> 0] /\ sdram = [a \in SdramAddrs |-> 255]
  BY DEF Init, InReset
<1>2. state \notin Busy
  BY <1>1 DEF Busy, ReceiveStates
<1> QED BY <1>1, <1>2 DEF ParseInv, SdramShape

(* Registers and memories are what the stream of bytes so far describes.   *)
THEOREM ParseInvariance ==
  ASSUME IdealChecksum
  PROVE  Spec => [](PlaceInv /\ WipeInv /\ ParseInv)
<1>1. ParseInv /\ PlaceInv /\ WipeInv /\ [Next]_vars => ParseInv'
  BY ParseStep
<1> QED BY <1>1, ParseInit, PlaceInvariance, WipeInvariance, PTL DEF Spec

(* docs/BOOTLOADER_PROTOCOL.md: the CPU only ever starts on the complete   *)
(* image, after the whole of ACK, whatever the line did to the packet.     *)
THEOREM OnlyTheImageRuns ==
  ASSUME IdealChecksum
  PROVE  Spec => RunsOnlyTheImage
<1>1. ASSUME PlaceInv, WipeInv, ParseInv, [Next]_vars, ~cpu_release, cpu_release'
      PROVE  bram = ImageBram /\ AssetLoaded /\ tx_ready /\ after_run
  <2>1. ClockTick
    BY <1>1 DEF Next, PressReset, Reset, CpuStores, HostSteps, HostTimesOut, vars, bootVars
  <2>2. PICK e \in Arrivals, rdy \in BOOLEAN, answered \in BOOLEAN, err \in BOOLEAN :
          BootClock(rdy, answered, err)
    BY <2>1 DEF ClockTick, Tick
  <2>3. state # "RUN"
    BY <1>1 DEF ParseInv
  <2>4. DrainIdle
    BY <1>1, <2>2, <2>3
       DEF BootClock, UartError, Timeout, Clear, Send, DrainBusy, Run, Listen,
         MagicByte, VersionByte, CommandByte, BramLenByte, SdramAddrByte, SdramLenByte,
         BramPayloadByte, SdramPayloadByte, SdramReq, SdramResp, CrcByte, Take, KeepReply
  <2>5. tx_ready /\ after_run /\ state = "DRAIN_IDLE"
    BY <1>1, <2>4 DEF DrainIdle
  <2> QED BY <1>1, <2>5 DEF ParseInv, Replying, Loaded
<1>2. PlaceInv /\ WipeInv /\ ParseInv /\ [Next]_vars =>
        [~cpu_release /\ cpu_release' => bram = ImageBram /\ AssetLoaded /\ tx_ready /\ after_run]_vars
  BY <1>1
<1> QED BY <1>2, ParseInvariance, PTL DEF Spec, RunsOnlyTheImage
AckInv ==
  /\ response[1] = ACK \/ tx_shift = ACK \/ host = "ok" => accepted
  /\ response[2] # ACK
  /\ response[1] \in Int /\ response[2] \in Int /\ tx_shift \in Int /\ inbox \in Seq(Int)
  /\ (\E i \in 1 .. Len(inbox) : inbox[i] = ACK) => accepted

(***************************************************************************)
(* The byte ACK on its way to the loader: it exists nowhere, neither in    *)
(* the response nor on the line nor in the inbox, before the board has     *)
(* accepted the image.                                                     *)
(***************************************************************************)
LEMMA ReplyBytes ==
  ASSUME NEW rdy, NEW answered, NEW err, BootClock(rdy, answered, err)
  PROVE  \/ UNCHANGED response
         \/ /\ response'[1] # ACK /\ response'[2] # ACK
            /\ response'[1] \in Int /\ response'[2] \in Int
         \/ CrcByte /\ after_run' /\ response' = <<ACK, ERROR_NONE>>
<1>1. CASE \E code \in {ERROR_HEADER, ERROR_LENGTH, ERROR_UART, ERROR_CRC, ERROR_TIMEOUT,
                        ERROR_SDRAM} : Fail(code)
  BY <1>1 DEF Fail, NACK, ACK, ERROR_HEADER, ERROR_LENGTH, ERROR_UART, ERROR_CRC,
              ERROR_TIMEOUT, ERROR_SDRAM
<1>2. CASE ~\E code \in {ERROR_HEADER, ERROR_LENGTH, ERROR_UART, ERROR_CRC, ERROR_TIMEOUT,
                         ERROR_SDRAM} : Fail(code)
  BY <1>2 DEF BootClock, UartError, Timeout, Clear, Send, DrainBusy, DrainIdle, Run, Listen,
         MagicByte, VersionByte, CommandByte, BramLenByte, SdramAddrByte, SdramLenByte,
         BramPayloadByte, SdramPayloadByte, SdramReq, SdramResp, CrcByte, KeepReply, replyVars
<1> QED BY <1>1, <1>2

(* What is left of the inbox was in it.                                    *)
LEMMA TailOfInbox ==
  ASSUME NEW s \in Seq(Int), s # <<>>
  PROVE  /\ Tail(s) \in Seq(Int)
         /\ \A i \in 1 .. Len(Tail(s)) : \E k \in 1 .. Len(s) : Tail(s)[i] = s[k]
<1>1. Len(s) \in Nat /\ Len(s) >= 1 /\ Len(Tail(s)) = Len(s) - 1 /\ Tail(s) \in Seq(Int)
  OBVIOUS
<1>2. ASSUME NEW i \in 1 .. Len(Tail(s))
      PROVE  i + 1 \in 1 .. Len(s) /\ Tail(s)[i] = s[i + 1]
  BY <1>1
<1> QED BY <1>1, <1>2

LEMMA RestOfInbox ==
  ASSUME NEW s \in Seq(Int), Len(s) >= 2
  PROVE  /\ SubSeq(s, 3, Len(s)) \in Seq(Int)
         /\ \A i \in 1 .. Len(SubSeq(s, 3, Len(s))) :
              \E k \in 1 .. Len(s) : SubSeq(s, 3, Len(s))[i] = s[k]
<1>1. \A m \in Nat : m >= 2 /\ m <= Len(s) => Len(SubSeq(s, 3, m)) = m - 2
  OBVIOUS
<1>2. ASSUME NEW i \in 1 .. Len(SubSeq(s, 3, Len(s)))
      PROVE  i + 2 \in 1 .. Len(s) /\ SubSeq(s, 3, Len(s))[i] = s[i + 2]
  BY <1>1
<1>3. SubSeq(s, 3, Len(s)) \in Seq(Int)
  OBVIOUS
<1> QED BY <1>2, <1>3

LEMMA AckClock ==
  ASSUME IdealChecksum, PlaceInv, WipeInv, ParseInv, AckInv, ClockTick
  PROVE  AckInv'
<1>1. PICK e \in Arrivals, rdy \in BOOLEAN, answered \in BOOLEAN, err \in BOOLEAN :
        Tick(e, rdy, answered, err)
  BY DEF ClockTick
<1>2. Edge(rdy, answered, err) /\ BootClock(rdy, answered, err)
  BY <1>1 DEF Tick, Edge, BootClock
<1>3. accepted => accepted'
  BY <1>1 DEF Tick
<1>4. response'[1] = ACK => accepted'
  <2>1. CASE CrcByte /\ after_run'
    <3>1. Loaded /\ Loaded' /\ ~after_run
      BY <1>2, <2>1, Accepted
    <3> QED BY <1>1, <2>1, <3>1 DEF Tick, Loaded
  <2>2. CASE ~(CrcByte /\ after_run')
    BY <1>2, <1>3, <2>2, ReplyBytes DEF AckInv
  <2> QED BY <2>1, <2>2
<1>5. response'[2] # ACK /\ response'[1] \in Int /\ response'[2] \in Int
  BY <1>2, ReplyBytes DEF AckInv, ACK, ERROR_NONE
<1>6. tx_shift' \in Int /\ (tx_shift' = ACK => accepted')
  BY <1>1, <1>3 DEF Tick, TxClock, boot_tx_data, AckInv
<1>7. /\ inbox' \in Seq(Int)
      /\ (\E i \in 1 .. Len(inbox') : inbox'[i] = ACK) => accepted'
  <2>1. CASE TxEnd = NoByte
    BY <1>1, <1>3, <2>1 DEF Tick, AckInv
  <2>2. CASE TxEnd # NoByte
    <3>1. inbox' = Append(inbox, tx_shift)
      BY <1>1, <2>2 DEF Tick, TxEnd
    <3>2. inbox \in Seq(Int) /\ tx_shift \in Int /\ (tx_shift = ACK => accepted)
          /\ ((\E i \in 1 .. Len(inbox) : inbox[i] = ACK) => accepted)
      BY DEF AckInv
    <3>3. /\ inbox' \in Seq(Int) /\ Len(inbox') = Len(inbox) + 1
          /\ \A i \in 1 .. Len(inbox) : inbox'[i] = inbox[i]
          /\ inbox'[Len(inbox) + 1] = tx_shift
      BY <3>1, <3>2
    <3>4. \A i \in 1 .. Len(inbox') : i \in 1 .. Len(inbox) \/ i = Len(inbox) + 1
      BY <3>2, <3>3
    <3> QED BY <1>3, <3>2, <3>3, <3>4
  <2> QED BY <2>1, <2>2
<1>8. host' = "ok" => accepted'
  BY <1>1, <1>3 DEF Tick, AckInv
<1> QED BY <1>4, <1>5, <1>6, <1>7, <1>8 DEF AckInv

LEMMA AckHost ==
  ASSUME AckInv, HostStep \/ WaitTimeout, UNCHANGED <<response, tx_shift, accepted>>
  PROVE  AckInv'
<1>1. inbox \in Seq(Int) /\ ((\E i \in 1 .. Len(inbox) : inbox[i] = ACK) => accepted)
  BY DEF AckInv
<1>2. CASE WriteChunk \/ Flushed \/ PollTimeout \/ WaitTimeout
  <2>1. UNCHANGED inbox /\ host' # "ok"
    BY <1>2 DEF WriteChunk, Flushed, PollTimeout, WaitTimeout, AfterChunk
  <2> QED BY <2>1 DEF AckInv
<1>3. CASE SkipNoise
  <2>1. inbox # <<>> /\ inbox' = Tail(inbox) /\ UNCHANGED host
    BY <1>3 DEF SkipNoise
  <2>2. /\ inbox' \in Seq(Int)
        /\ \A i \in 1 .. Len(inbox') : \E k \in 1 .. Len(inbox) : inbox'[i] = inbox[k]
    BY <1>1, <2>1, TailOfInbox
  <2> QED BY <1>1, <2>1, <2>2 DEF AckInv
<1>4. CASE ReadResponse
  <2>1. Len(inbox) >= 2 /\ inbox' = SubSeq(inbox, 3, Len(inbox))
    BY <1>4 DEF ReadResponse
  <2>2. /\ inbox' \in Seq(Int)
        /\ \A i \in 1 .. Len(inbox') : \E k \in 1 .. Len(inbox) : inbox'[i] = inbox[k]
    BY <1>1, <2>1, RestOfInbox
  <2>3. host' = "ok" => inbox[1] = ACK
    BY <1>4 DEF ReadResponse, RESPONSE_ACK, ACK
  <2>4. host' = "ok" => accepted
    BY <1>1, <2>1, <2>3
  <2> QED BY <1>1, <2>2, <2>4 DEF AckInv
<1> QED BY <1>2, <1>3, <1>4 DEF HostStep

LEMMA AckStep ==
  ASSUME IdealChecksum, PlaceInv, WipeInv, ParseInv, AckInv, [Next]_vars
  PROVE  AckInv'
<1>1. CASE ClockTick
  BY <1>1, AckClock
<1>2. CASE PressReset
  <2>1. /\ response' = <<READY, ERROR_NONE>> /\ tx_shift' = 0
        /\ UNCHANGED <<host, inbox, accepted>>
    BY <1>2 DEF PressReset, Reset, TxReset, hostVars
  <2> QED BY <2>1 DEF AckInv, READY, ERROR_NONE, ACK
<1>3. CASE CpuStores \/ UNCHANGED vars
  <2>1. UNCHANGED <<response, tx_shift, host, inbox, accepted>>
    BY <1>3 DEF CpuStores, vars, bootVars, replyVars, txVars, hostVars, linkVars
  <2> QED BY <2>1 DEF AckInv
<1>4. CASE HostSteps \/ HostTimesOut
  <2>1. (HostStep \/ WaitTimeout) /\ UNCHANGED <<response, tx_shift, accepted>>
    BY <1>4 DEF HostSteps, HostTimesOut, bootVars, replyVars, txVars, linkVars
  <2> QED BY <2>1, AckHost
<1> QED BY <1>1, <1>2, <1>3, <1>4 DEF Next

LEMMA AckInit == Init => AckInv
BY DEF Init, InReset, TxInit, HostInit, AckInv, READY, ERROR_NONE, ACK

(* scripts/uart_loader.py: the loader reports success only if the board    *)
(* holds the image it was given.                                           *)
THEOREM SuccessMeansLoaded ==
  ASSUME IdealChecksum
  PROVE  Spec => []SuccessIsReal
<1>1. PlaceInv /\ WipeInv /\ ParseInv /\ AckInv /\ [Next]_vars => AckInv'
  BY AckStep
<1>2. AckInv => SuccessIsReal
  BY DEF AckInv, SuccessIsReal
<1> QED BY <1>1, <1>2, AckInit, ParseInvariance, PTL DEF Spec

-----------------------------------------------------------------------------
(***************************************************************************)
(* A clean line.  The packet is one that build_packet or                   *)
(* build_image_packet makes; BoardRead is how much of it the board has     *)
(* taken, OnLine where the rest is: one byte at most in the holding        *)
(* register, one at most on the line, nothing lost and nothing left over.  *)
(***************************************************************************)
Trying == {"await_ready", "write", "flush", "poll", "wait"}
Pending(b) == IF b THEN 1 ELSE 0

OnLine(n) ==
  /\ n \in Nat /\ data_valid \in BOOLEAN /\ line_left \in 0 .. FRAME_CYCLES
  /\ wired = n + Pending(data_valid) + Pending(line_left > 0)
  /\ data_valid => data_out = Packet[n + 1]
  /\ line_left > 0 => line_byte = Packet[wired]
  /\ written \in wired .. PACKET_BYTES
  /\ ~overrun /\ ~framing_error

(* What has been absorbed is the beginning of the body, all of it before   *)
(* the trailer; what has been received of the trailer is its beginning.    *)
Begins(s) == Len(s) <= Len(Body) /\ \A i \in 1 .. Len(s) : s[i] = Body[i]

BoardRead == 4 + Len(crc_reg) + Len(received_crc)

Absorbed ==
  /\ Begins(crc_reg)
  /\ state = "CRC" => /\ Len(crc_reg) = Len(Body)
                      /\ \A i \in 1 .. Len(received_crc) : received_crc[i] = Crc(Body)[i]

Taking == state \in Busy /\ Absorbed /\ OnLine(BoardRead)

(* The fourth byte of a word is taken in the cycle behind its arrival, so  *)
(* the write that follows starts with a whole frame before the next one.   *)
InTime ==
  /\ sdram_busy \in Nat /\ (state \notin WordStates => sdram_busy = 0)
  /\ state = "SDRAM_PAYLOAD" /\ sdram_index % 4 = 3 /\ data_valid =>
       line_left \in {0, FRAME_CYCLES}
  /\ state \in WordStates =>
       /\ sdram_busy < SDRAM_CYCLES \/ (state = "SDRAM_RESP" /\ sdram_busy = SDRAM_CYCLES)
       /\ data_valid => sdram_busy >= FRAME_CYCLES - 1
       /\ line_left > 0 => line_left + sdram_busy >=
                             (FRAME_CYCLES - 1) + (IF data_valid THEN FRAME_CYCLES ELSE 0)

(* A response on its way: what the transmitter holds, what has arrived.    *)
Talk(a, b) ==
  /\ response = <<a, b>> /\ tx_left \in Nat
  /\ state \in {"CLEAR", "SEND_0"} => tx_left = 0 /\ inbox = <<>>
  /\ state = "SEND_1" => \/ tx_left > 0 /\ tx_shift = a /\ inbox = <<>>
                         \/ tx_left = 0 /\ inbox = <<a>>
  /\ state = "DRAIN_BUSY" => tx_left > 0 /\ tx_shift = b /\ inbox = <<a>>
  /\ state = "DRAIN_IDLE" => \/ tx_left > 0 /\ tx_shift = b /\ inbox = <<a>>
                             \/ tx_left = 0 /\ inbox = <<a, b>>
  /\ state \in {"MAGIC", "RUN"} => tx_left = 0 /\ inbox = <<a, b>>

Greeting ==
  /\ host = "await_ready" /\ ~after_run /\ state \in Replying \cup {"CLEAR", "MAGIC"}
  /\ Talk(READY, ERROR_NONE) /\ OnLine(0) /\ written = 0
  /\ state = "MAGIC" => magic_index = 0

Sending ==
  /\ host \in Trying \ {"await_ready"} /\ ~after_run /\ inbox = <<>> /\ tx_left = 0
  /\ \/ state = "DRAIN_IDLE" /\ OnLine(0) /\ wired = 0
     \/ state = "MAGIC" /\ magic_index \in 0 .. 3 /\ OnLine(magic_index)
     \/ Taking

Answered ==
  /\ host \in Trying \ {"await_ready"} /\ after_run /\ state \in Replying \cup {"RUN"}
  /\ Talk(ACK, ERROR_NONE)

CleanInv ==
  /\ faults \in Nat /\ resets \in Nat
  /\ faults = 0 /\ resets = 0 =>
       /\ retries = 0
       /\ \/ host \in {"ok", "bad_code", "timed_out"}
          \/ InTime /\ (Greeting \/ Sending \/ Answered)

(***************************************************************************)
(* The packet, byte by byte.                                               *)
(***************************************************************************)
LEMMA SameBytes ==
  ASSUME NEW s \in Seq(Nat), NEW t \in Seq(Nat), Len(s) = Len(t),
         \A i \in 1 .. Len(s) : s[i] = t[i]
  PROVE  s = t
OBVIOUS

LEMMA WeightedSum ==
  ASSUME NEW a \in Nat, NEW b \in Nat, NEW c \in Nat, NEW d \in Nat
  PROVE  a + 256 * b + 65536 * c + 16777216 * d \in Nat
OBVIOUS

LEMMA FieldIsNat ==
  ASSUME NEW s \in Seq(Nat), NEW at \in Nat \ {0}
  PROVE  FieldValue(s, at) \in Nat
<1>1. ASSUME NEW k \in 0 .. 3
      PROVE  FieldByte(s, k, at) \in Nat
  <2>1. CASE k < FIELD /\ at + k <= Len(s)
    <3>1. at + k \in 1 .. Len(s)
      BY <2>1
    <3>2. s[at + k] \in Nat
      BY <3>1
    <3> QED BY <2>1, <3>2 DEF FieldByte
  <2>2. CASE ~(k < FIELD /\ at + k <= Len(s))
    BY <2>2 DEF FieldByte
  <2> QED BY <2>1, <2>2
<1>2. /\ FieldByte(s, 0, at) \in Nat /\ FieldByte(s, 1, at) \in Nat
      /\ FieldByte(s, 2, at) \in Nat /\ FieldByte(s, 3, at) \in Nat
  <2>1. 0 \in 0 .. 3 /\ 1 \in 0 .. 3 /\ 2 \in 0 .. 3 /\ 3 \in 0 .. 3
    OBVIOUS
  <2> QED BY ONLY <1>1, <2>1, Zenon
<1>3. ASSUME NEW a \in Nat, NEW b \in Nat, NEW c \in Nat, NEW d \in Nat,
             FieldByte(s, 0, at) = a, FieldByte(s, 1, at) = b,
             FieldByte(s, 2, at) = c, FieldByte(s, 3, at) = d
      PROVE  FieldValue(s, at) \in Nat
  <2>1. FieldValue(s, at) = a + 256 * b + 65536 * c + 16777216 * d
    BY ONLY <1>3 DEF FieldValue
  <2> QED BY <2>1, WeightedSum
<1> QED BY <1>2, <1>3

LEMMA PacketParts ==
  ASSUME BuiltPacket
  PROVE  /\ Len(Body) \in Nat /\ PACKET_BYTES = 4 + Len(Body) + FIELD
         /\ Body \in Seq(Nat) /\ Crc(Body) \in Seq(Nat) /\ Len(Crc(Body)) = FIELD
         /\ \A i \in 1 .. 4 : Packet[i] = Magic[i]
         /\ \A i \in 1 .. Len(Body) : Packet[4 + i] = Body[i]
         /\ \A i \in 1 .. FIELD : Packet[4 + Len(Body) + i] = Crc(Body)[i]
         /\ \A i \in 1 .. PACKET_BYTES : Packet[i] \in Nat
<1>1. /\ Packet \in Seq(Nat) /\ PACKET_BYTES = Len(Packet) /\ FIELD \in 2 .. 4
      /\ PACKET_BYTES \in Nat \ {0} /\ Len(FIRMWARE) \in Nat \ {0}
  BY LinkParams, BootParams, HostParams DEF BRAM_BYTES
<1>2. Body \in Seq(Nat) /\ Len(Body) \in Nat
  BY <1>1 DEF Body
<1>3. PACKET_BYTES = 4 + Len(Body) + FIELD
  <2>1. Body[2] \in {1, 2}
    BY PacketCarriesImage DEF LOAD_AND_RUN, LOAD_IMAGE
  <2>2. Len(ASSET) \in Nat
    <3>1. Body[2] = LOAD_IMAGE => Len(ASSET) = FieldValue(Body, 3 + 2 * FIELD)
      BY PacketCarriesImage
    <3>2. FieldValue(Body, 3 + 2 * FIELD) \in Nat
      BY <1>2, FieldPlaces, FieldIsNat
    <3>3. Body[2] # LOAD_IMAGE => ASSET = <<>>
      BY PacketCarriesImage
    <3> QED BY <3>1, <3>2, <3>3
  <2>3. Len(Body) > 0
    BY <1>1, <2>2 DEF BuiltPacket, PayloadAt
  <2>4. Len(Body) = IF 5 <= PACKET_BYTES - FIELD THEN (PACKET_BYTES - FIELD) - 5 + 1 ELSE 0
    BY <1>1 DEF Body
  <2> QED BY <1>1, <2>3, <2>4
<1>4. \A i \in 1 .. Len(Body) : Packet[4 + i] = Body[i]
  <2> SUFFICES ASSUME NEW i \in 1 .. Len(Body) PROVE Packet[4 + i] = Body[i]
    OBVIOUS
  <2>1. PACKET_BYTES - FIELD = 4 + Len(Body)
    BY <1>1, <1>2, <1>3
  <2>2. Body = SubSeq(Packet, 5, 4 + Len(Body))
    BY <2>1 DEF Body
  <2>3. \A m \in Nat : i <= m => SubSeq(Packet, 5, 4 + m)[i] = Packet[5 + i - 1]
    BY <1>1
  <2>4. SubSeq(Packet, 5, 4 + Len(Body))[i] = Packet[5 + i - 1] /\ 5 + i - 1 = 4 + i
    BY <1>2, <2>3
  <2> QED BY <2>2, <2>4
<1>5. /\ Crc(Body) \in Seq(Nat) /\ Len(Crc(Body)) = FIELD
      /\ \A i \in 1 .. FIELD : Packet[4 + Len(Body) + i] = Crc(Body)[i]
  <2>1. PACKET_BYTES - FIELD + 1 = 5 + Len(Body)
    BY <1>1, <1>2, <1>3
  <2>2. SubSeq(Packet, 5 + Len(Body), PACKET_BYTES) = Crc(Body)
    BY <2>1 DEF BuiltPacket
  <2>3. ASSUME NEW m \in Nat, NEW n \in Nat, m <= n
        PROVE  /\ Len(SubSeq(Packet, m, n)) = n - m + 1
               /\ \A i \in 1 .. n - m + 1 : SubSeq(Packet, m, n)[i] = Packet[m + i - 1]
    <3>1. Len(SubSeq(Packet, m, n)) = n - m + 1
      BY <1>1, <2>3
    <3>2. \A i \in 1 .. n - m + 1 : SubSeq(Packet, m, n)[i] = Packet[m + i - 1]
      BY <1>1, <2>3
    <3> QED BY <3>1, <3>2
  <2>4. /\ 5 + Len(Body) \in Nat /\ PACKET_BYTES \in Nat /\ 5 + Len(Body) <= PACKET_BYTES
        /\ PACKET_BYTES - (5 + Len(Body)) + 1 = FIELD
    BY <1>1, <1>2, <1>3
  <2>5. /\ Len(Crc(Body)) = FIELD
        /\ \A i \in 1 .. FIELD : Crc(Body)[i] = Packet[5 + Len(Body) + i - 1]
    BY <2>2, <2>3, <2>4
  <2>6. \A i \in 1 .. FIELD : 5 + Len(Body) + i - 1 = 4 + Len(Body) + i
    BY <1>1, <1>2
  <2>7. Crc(Body) \in Seq(Nat)
    <3>1. \A m, n \in Nat : m >= 1 /\ n <= Len(Packet) => SubSeq(Packet, m, n) \in Seq(Nat)
      BY <1>1
    <3>2. 5 + Len(Body) >= 1 /\ PACKET_BYTES <= Len(Packet)
      BY <1>1, <1>2
    <3>3. SubSeq(Packet, 5 + Len(Body), PACKET_BYTES) \in Seq(Nat)
      BY <2>4, <3>1, <3>2
    <3> QED BY <2>2, <3>3
  <2> QED BY <2>5, <2>6, <2>7
<1>6. \A i \in 1 .. 4 : Packet[i] = Magic[i]
  BY DEF BuiltPacket
<1>7. \A i \in 1 .. PACKET_BYTES : Packet[i] \in Nat
  BY <1>1
<1> QED BY <1>2, <1>3, <1>4, <1>5, <1>6, <1>7

(***************************************************************************)
(* The line and the receiver in one clock edge: a byte that is taken makes *)
(* room for the one that arrives; nothing is lost as long as no byte       *)
(* arrives while the register is full.                                     *)
(***************************************************************************)
LEMMA NextArrival ==
  ASSUME BuiltPacket, NEW n, OnLine(n), NEW e, Arrival(e), faults \in Nat, UNCHANGED faults
  PROVE  IF line_left = 1 THEN e = Packet[wired] /\ e \in Nat ELSE e = -1
<1>1. line_left # 1 => e = -1
  BY DEF Arrival, NoByte
<1>2. ASSUME line_left = 1 PROVE e = Packet[wired] /\ e \in Nat
  <2>1. e = Packet[wired]
    BY <1>2 DEF Arrival, OnLine
  <2>2. wired \in 1 .. PACKET_BYTES
    BY <1>2, HostParams DEF OnLine, Pending
  <2> QED BY <2>1, <2>2, PacketParts
<1> QED BY <1>1, <1>2

LEMMA LineStep ==
  ASSUME BuiltPacket, NEW n, OnLine(n), NEW e, Arrival(e), faults \in Nat,
         UNCHANGED <<faults, written>>, LineClock, NEW ready \in BOOLEAN,
         RxClock(e, ready, clear_rx, clear_rx),
         data_valid /\ line_left = 1 => ready,
         NEW m, m = n + Pending(data_valid /\ ready)
  PROVE  /\ OnLine(m)'
         /\ ready => (data_valid' => line_left' \in {0, FRAME_CYCLES})
         /\ data_valid' <=> (line_left = 1 \/ (data_valid /\ ~ready))
         /\ line_left > 1 => line_left' = line_left - 1
         /\ line_left <= 1 => line_left' \in {0, FRAME_CYCLES}
<1> DEFINE full == data_valid /\ ~ready
<1>1. /\ n \in Nat /\ data_valid \in BOOLEAN /\ line_left \in 0 .. FRAME_CYCLES
      /\ FRAME_CYCLES \in Nat \ {0} /\ PACKET_BYTES \in Nat
      /\ wired = n + Pending(data_valid) + Pending(line_left > 0)
      /\ written \in wired .. PACKET_BYTES /\ ~overrun /\ ~framing_error
  BY UartFrame, HostParams DEF OnLine
<1>2. IF line_left = 1 THEN e = Packet[wired] /\ e \in Nat ELSE e = -1
  BY NextArrival
<1>3. /\ data_valid' <=> (line_left = 1 \/ full)
      /\ data_valid' \in BOOLEAN
      /\ data_out' = IF line_left = 1 /\ ~full THEN e ELSE data_out
      /\ ~overrun' /\ ~framing_error'
  <2>1. (e >= 0) <=> line_left = 1
    BY <1>2
  <2>2. e # BadStop
    BY <1>2 DEF BadStop
  <2>3. line_left = 1 => ~full
    OBVIOUS
  <2> QED BY <1>1, <2>1, <2>2, <2>3 DEF RxClock
<1>4. \/ /\ line_left <= 1 /\ wired < written
         /\ line_left' = FRAME_CYCLES /\ line_byte' = Packet[wired + 1] /\ wired' = wired + 1
      \/ /\ ~(line_left <= 1 /\ wired < written) /\ UNCHANGED <<line_byte, wired>>
         /\ line_left' = IF line_left = 0 THEN 0 ELSE line_left - 1
  BY DEF LineClock
<1>5. /\ line_left > 1 => line_left' = line_left - 1
      /\ line_left <= 1 => line_left' \in {0, FRAME_CYCLES}
      /\ line_left' \in 0 .. FRAME_CYCLES
  BY <1>1, <1>4
<1>6. wired' = m + Pending(data_valid') + Pending(line_left' > 0)
  BY <1>1, <1>3, <1>4 DEF Pending
<1>7. data_valid' => data_out' = Packet[m + 1]
  <2>1. CASE line_left = 1
    <3>1. ~full /\ data_out' = Packet[wired]
      BY <1>1, <1>2, <1>3, <2>1
    <3>2. m + 1 = wired
      BY <1>1, <2>1, <3>1 DEF Pending
    <3> QED BY <3>1, <3>2
  <2>2. CASE line_left # 1
    <3>1. data_valid' => full /\ data_out' = data_out /\ m = n
      BY <1>1, <1>3, <2>2 DEF Pending
    <3> QED BY <3>1 DEF OnLine
  <2> QED BY <2>1, <2>2
<1>8. line_left' > 0 => line_byte' = Packet[wired']
  BY <1>1, <1>4 DEF OnLine
<1>9. written' \in wired' .. PACKET_BYTES
  BY <1>1, <1>4 DEF Pending
<1>10. m \in Nat
  BY <1>1 DEF Pending
<1>11. OnLine(m)'
  BY <1>3, <1>5, <1>6, <1>7, <1>8, <1>9, <1>10 DEF OnLine
<1> QED BY <1>3, <1>5, <1>11

(***************************************************************************)
(* What the board has read of a good packet.                               *)
(***************************************************************************)
LEMMA BodyLength ==
  ASSUME BuiltPacket
  PROVE  /\ Len(FIRMWARE) \in 1 .. BRAM_BYTES /\ Len(ASSET) \in Nat
         /\ Body[1] = PROTOCOL_VERSION /\ Body[2] \in {LOAD_AND_RUN, LOAD_IMAGE}
         /\ Body[2] # LOAD_IMAGE => Len(ASSET) = 0
         /\ PayloadAt(Body[2]) \in Nat
         /\ Len(Body) = PayloadAt(Body[2]) - 1 + Len(FIRMWARE) + Len(ASSET)
<1>1. Len(FIRMWARE) \in 1 .. BRAM_BYTES
  BY LinkParams
<1>2. Len(ASSET) \in Nat
  <2>1. FieldValue(Body, 3 + 2 * FIELD) \in Nat
    BY PacketParts, FieldPlaces, FieldIsNat
  <2> QED BY <2>1, PacketCarriesImage
<1>3. PayloadAt(Body[2]) \in Nat
  BY FieldPlaces DEF PayloadAt
<1>4. Body[2] # LOAD_IMAGE => Len(ASSET) = 0
  <2>1. Body[2] # LOAD_IMAGE => ASSET = <<>>
    BY PacketCarriesImage
  <2> QED BY <2>1
<1>5. Body[1] = PROTOCOL_VERSION /\ Body[2] \in {LOAD_AND_RUN, LOAD_IMAGE}
  BY PacketCarriesImage
<1>6. Len(Body) = PayloadAt(Body[2]) - 1 + Len(FIRMWARE) + Len(ASSET)
  BY DEF BuiltPacket
<1> QED BY <1>1, <1>2, <1>3, <1>4, <1>5, <1>6

LEMMA ValueOfPrefix ==
  ASSUME BuiltPacket, NEW s \in Seq(Nat), Begins(s),
         NEW at \in Nat \ {0}, at + FIELD - 1 <= Len(s)
  PROVE  FieldValue(s, at) = FieldValue(Body, at)
<1>1. Len(s) \in Nat /\ Len(Body) \in Nat /\ Len(s) <= Len(Body) /\ FIELD \in 2 .. 4
  BY PacketParts, BootParams DEF Begins
<1>2. ASSUME NEW k \in 0 .. 3 PROVE FieldByte(s, k, at) = FieldByte(Body, k, at)
  <2>1. CASE k < FIELD
    <3>1. at + k \in 1 .. Len(s) /\ at + k <= Len(Body)
      BY <1>1, <2>1
    <3> QED BY <1>1, <2>1, <3>1 DEF FieldByte, Begins
  <2>2. CASE ~(k < FIELD)
    BY <2>2 DEF FieldByte
  <2> QED BY <2>1, <2>2
<1> QED BY <1>2 DEF FieldValue

LEMMA KnownHeader ==
  ASSUME BuiltPacket, PlaceInv, ParseInv, state \in Busy, Begins(crc_reg)
  PROVE  /\ Len(crc_reg) >= 2 => command = Body[2]
         /\ Len(crc_reg) >= 2 + FIELD => bram_len = Len(FIRMWARE)
         /\ Len(crc_reg) >= 2 + 2 * FIELD /\ command = LOAD_IMAGE =>
              image_sdram_addr = ASSET_ADDR
         /\ Len(crc_reg) >= 2 + 3 * FIELD /\ command = LOAD_IMAGE => sdram_len = Len(ASSET)
<1>1. crc_reg \in Seq(Nat) /\ HeaderRead /\ Len(crc_reg) \in Nat /\ FIELD \in 2 .. 4
  BY BootParams DEF ParseInv
<1>2. Len(crc_reg) >= 2 => command = Body[2]
  BY <1>1 DEF HeaderRead, Begins
<1>3. ASSUME NEW at \in Nat \ {0}, at + FIELD - 1 <= Len(crc_reg)
      PROVE  FieldValue(crc_reg, at) = FieldValue(Body, at)
  BY <1>1, <1>3, ValueOfPrefix
<1>4. Len(crc_reg) >= 2 + FIELD => bram_len = Len(FIRMWARE)
  BY <1>1, <1>3, PacketCarriesImage DEF HeaderRead
<1>5. ASSUME Len(crc_reg) >= 2 + 2 * FIELD, command = LOAD_IMAGE
      PROVE  image_sdram_addr = ASSET_ADDR
  <2>1. FieldValue(crc_reg, 3 + FIELD) = FieldValue(Body, 3 + FIELD)
    BY <1>1, <1>3, <1>5
  <2>2. Body[2] = LOAD_IMAGE
    BY <1>1, <1>2, <1>5
  <2> QED BY <1>1, <1>5, <2>1, <2>2, PacketCarriesImage DEF HeaderRead
<1>6. ASSUME Len(crc_reg) >= 2 + 3 * FIELD, command = LOAD_IMAGE
      PROVE  sdram_len = Len(ASSET)
  <2>1. FieldValue(crc_reg, 3 + 2 * FIELD) = FieldValue(Body, 3 + 2 * FIELD)
    BY <1>1, <1>3, <1>6
  <2>2. Body[2] = LOAD_IMAGE
    BY <1>1, <1>2, <1>6
  <2> QED BY <1>1, <1>6, <2>1, <2>2, PacketCarriesImage DEF HeaderRead
<1> QED BY <1>2, <1>4, <1>5, <1>6

(* In every state that waits for a byte of the body there is one to come.  *)
LEMMA BodyGoesOn ==
  ASSUME BuiltPacket, PlaceInv, ParseInv, state \in ReceiveStates \ {"CRC"}, Begins(crc_reg)
  PROVE  Len(crc_reg) < Len(Body)
<1>1. /\ Position /\ HeaderRead /\ BramRead /\ Placed /\ FieldsTyped /\ FIELD \in 2 .. 4
      /\ state \in Busy /\ Len(crc_reg) \in Nat
  BY BootParams DEF ParseInv, PlaceInv, Busy
<1>2. /\ Len(FIRMWARE) \in Nat \ {0} /\ Len(ASSET) \in Nat /\ PayloadAt(Body[2]) \in Nat
      /\ Len(Body) = PayloadAt(Body[2]) - 1 + Len(FIRMWARE) + Len(ASSET)
      /\ PayloadAt(Body[2]) = IF Body[2] = LOAD_IMAGE THEN 3 + 3 * FIELD ELSE 3 + FIELD
  BY BodyLength, BootParams DEF PayloadAt, BRAM_BYTES
<1>3. CASE state \in {"VERSION", "COMMAND", "BRAM_LEN"}
  <2>1. Len(crc_reg) < 2 + FIELD
    BY <1>1, <1>3 DEF Position, FieldsTyped
  <2>2. Len(Body) >= 2 + FIELD
    BY <1>1, <1>2
  <2> QED BY <1>1, <1>2, <2>1, <2>2
<1>4. CASE state \in {"SDRAM_ADDR", "SDRAM_LEN"}
  <2>1. command = LOAD_IMAGE /\ Len(crc_reg) >= 2 /\ Len(crc_reg) < 2 + 3 * FIELD
    BY <1>1, <1>4 DEF Position, HeaderRead, FieldsTyped
  <2>2. Body[2] = LOAD_IMAGE
    BY <1>1, <2>1, KnownHeader
  <2> QED BY <1>1, <1>2, <2>1, <2>2
<1>5. CASE state = "BRAM_PAYLOAD"
  <2>1. Len(crc_reg) = PayloadAt(command) - 1 + bram_index /\ bram_index < bram_len
        /\ bram_index \in Nat /\ bram_len \in Nat
    BY <1>1, <1>5 DEF Position, Placed, FieldsTyped
  <2>2. PayloadAt(command) \in Nat /\ PayloadAt(command) >= 3 + FIELD
    BY <1>1 DEF PayloadAt
  <2>3. Len(crc_reg) >= 2 + FIELD
    BY <1>1, <2>1, <2>2
  <2>4. command = Body[2] /\ bram_len = Len(FIRMWARE)
    BY <1>1, <2>3, KnownHeader
  <2> QED BY <1>1, <1>2, <2>1, <2>2, <2>4
<1>6. CASE state = "SDRAM_PAYLOAD"
  <2>1. /\ Len(crc_reg) = PayloadAt(command) - 1 + bram_len + sdram_index
        /\ sdram_index < sdram_len /\ command = LOAD_IMAGE
        /\ bram_len \in Nat /\ sdram_index \in Nat /\ sdram_len \in Nat
    BY <1>1, <1>6 DEF Position, Placed, FieldsTyped, HeaderRead
  <2>2. PayloadAt(command) = 3 + 3 * FIELD
    BY <2>1 DEF PayloadAt
  <2>3. Len(crc_reg) >= 2 + 3 * FIELD
    BY <1>1, <2>1, <2>2
  <2>4. command = Body[2] /\ bram_len = Len(FIRMWARE) /\ sdram_len = Len(ASSET)
    BY <1>1, <2>1, <2>3, KnownHeader
  <2> QED BY <1>1, <1>2, <2>1, <2>2, <2>4
<1> QED BY <1>3, <1>4, <1>5, <1>6 DEF ReceiveStates

(* A byte of the body: it is the next one, whatever becomes of it.         *)
LEMMA BodyByte ==
  ASSUME BuiltPacket, PlaceInv, ParseInv, Taking, NEW s \in ReceiveStates \ {"CRC"}, Take(s)
  PROVE  /\ Begins(crc_reg') /\ crc_reg' \in Seq(Nat) /\ Len(crc_reg') = Len(crc_reg) + 1
         /\ data_out = Body[Len(crc_reg) + 1] /\ received_crc' = <<>>
         /\ BoardRead' = BoardRead + 1 /\ BoardRead \in Nat
<1>1. /\ state = s /\ data_valid /\ UNCHANGED received_crc
      /\ crc_reg' \in Seq(Nat) /\ Len(crc_reg') = Len(crc_reg) + 1
      /\ \A i \in 1 .. Len(crc_reg) : crc_reg'[i] = crc_reg[i]
      /\ crc_reg'[Len(crc_reg) + 1] = data_out
  BY Absorb DEF ParseInv
<1>2. state \in Busy \ {"CRC"} /\ crc_reg \in Seq(Nat) /\ Len(crc_reg) \in Nat
  BY <1>1 DEF Busy, ParseInv
<1>3. received_crc = <<>>
  BY <1>2 DEF ParseInv, TrailerRead
<1>4. Len(crc_reg) < Len(Body) /\ Begins(crc_reg) /\ Len(Body) \in Nat
  BY <1>1, BodyGoesOn, PacketParts DEF Taking, Absorbed
<1>5. data_out = Body[Len(crc_reg) + 1]
  <2>1. data_out = Packet[BoardRead + 1] /\ BoardRead = 4 + Len(crc_reg)
    BY <1>1, <1>2, <1>3 DEF Taking, OnLine, BoardRead
  <2>2. Len(crc_reg) + 1 \in 1 .. Len(Body)
    BY <1>2, <1>4
  <2>3. Packet[4 + (Len(crc_reg) + 1)] = Body[Len(crc_reg) + 1]
    BY <2>2, PacketParts
  <2>4. BoardRead + 1 = 4 + (Len(crc_reg) + 1)
    BY <1>2, <2>1
  <2> QED BY <2>1, <2>3, <2>4
<1>6. Begins(crc_reg')
  <2>1. ASSUME NEW i \in 1 .. Len(crc_reg') PROVE crc_reg'[i] = Body[i]
    <3>1. i \in 1 .. Len(crc_reg) \/ i = Len(crc_reg) + 1
      BY <1>1, <1>2
    <3> QED BY <1>1, <1>4, <1>5, <3>1 DEF Begins
  <2> QED BY <1>1, <1>2, <1>4, <2>1 DEF Begins
<1>7. BoardRead' = BoardRead + 1 /\ BoardRead \in Nat
  BY <1>1, <1>2, <1>3 DEF BoardRead
<1> QED BY <1>1, <1>3, <1>5, <1>6, <1>7

(***************************************************************************)
(* No byte of a good packet is refused.                                    *)
(***************************************************************************)
Onward == state' \in Busy /\ UNCHANGED after_run /\ Absorbed' /\ BoardRead' = BoardRead + 1

LEMMA CleanHeader ==
  ASSUME BuiltPacket, PlaceInv, ParseInv, Taking, VersionByte \/ CommandByte
  PROVE  Onward /\ state' \notin WordStates \cup {"SDRAM_PAYLOAD"}
<1>1. CASE VersionByte
  <2>1. Take("VERSION") /\ state = "VERSION" /\ Len(crc_reg) = 0
    BY <1>1 DEF VersionByte, Take, ParseInv, Position, Busy, ReceiveStates
  <2>2. Begins(crc_reg') /\ data_out = Body[1] /\ BoardRead' = BoardRead + 1
    BY <2>1, BodyByte DEF ReceiveStates
  <2>3. state' = "COMMAND" /\ UNCHANGED after_run
    BY <1>1, <2>2, BodyLength DEF VersionByte, replyVars
  <2> QED BY <2>2, <2>3 DEF Onward, Absorbed, Busy, ReceiveStates, WordStates
<1>2. CASE CommandByte
  <2>1. Take("COMMAND") /\ state = "COMMAND" /\ Len(crc_reg) = 1
    BY <1>2 DEF CommandByte, Take, ParseInv, Position, Busy, ReceiveStates
  <2>2. Begins(crc_reg') /\ data_out = Body[2] /\ BoardRead' = BoardRead + 1
    BY <2>1, BodyByte DEF ReceiveStates
  <2>3. state' = "BRAM_LEN" /\ UNCHANGED after_run
    BY <1>2, <2>2, BodyLength DEF CommandByte, replyVars
  <2> QED BY <2>2, <2>3 DEF Onward, Absorbed, Busy, ReceiveStates, WordStates
<1> QED BY <1>1, <1>2

(* The length is that of the firmware, which fits.                         *)
LEMMA CleanBramLen ==
  ASSUME BuiltPacket, PlaceInv, ParseInv, Taking, BramLenByte
  PROVE  Onward /\ state' \notin WordStates \cup {"SDRAM_PAYLOAD"}
<1>1. /\ Take("BRAM_LEN") /\ state = "BRAM_LEN" /\ Len(crc_reg) = 2 + nth
      /\ bram_len = FieldValue(crc_reg, 3) /\ crc_reg \in Seq(Nat) /\ nth \in 0 .. FIELD - 1
  BY DEF BramLenByte, Take, ParseInv, Position, HeaderRead, Busy, ReceiveStates, PlaceInv,
         FieldsTyped
<1>2. /\ Begins(crc_reg') /\ BoardRead' = BoardRead + 1 /\ crc_reg' \in Seq(Nat)
      /\ Len(crc_reg') = Len(crc_reg) + 1
  BY <1>1, BodyByte DEF ReceiveStates
<1>3. LastOfField => bram_len' \in 1 .. BRAM_BYTES
  <2> SUFFICES ASSUME LastOfField PROVE bram_len' \in 1 .. BRAM_BYTES
    OBVIOUS
  <2>1. bram_len' = FieldValue(crc_reg', 3)
    <3>1. FieldValue(crc_reg', 3) = Widen(FieldValue(crc_reg, 3))
      <4>1. Len(crc_reg) = 3 - 1 + nth
        BY <1>1
      <4> QED BY <1>1, <4>1, Absorb, FieldPlaces
    <3> QED BY <1>1, <3>1 DEF BramLenByte, Widen
  <2>2. 3 + FIELD - 1 <= Len(crc_reg')
    BY <1>1, <1>2, BootParams DEF LastOfField
  <2>3. FieldValue(crc_reg', 3) = FieldValue(Body, 3)
    BY <1>2, <2>2, ValueOfPrefix, FieldPlaces
  <2> QED BY <2>1, <2>3, BodyLength, PacketCarriesImage
<1>4. /\ state' \in {"BRAM_LEN", "SDRAM_ADDR", "BRAM_PAYLOAD"} /\ UNCHANGED after_run
  BY <1>1, <1>3 DEF BramLenByte, NextOfField, replyVars
<1> QED BY <1>2, <1>4 DEF Onward, Absorbed, Busy, ReceiveStates, WordStates

LEMMA CleanSdramAddr ==
  ASSUME BuiltPacket, PlaceInv, ParseInv, Taking, SdramAddrByte
  PROVE  Onward /\ state' \notin WordStates \cup {"SDRAM_PAYLOAD"}
<1>1. Take("SDRAM_ADDR") /\ state = "SDRAM_ADDR"
  BY DEF SdramAddrByte, Take
<1>2. Begins(crc_reg') /\ BoardRead' = BoardRead + 1
  BY <1>1, BodyByte DEF ReceiveStates
<1>3. state' \in {"SDRAM_ADDR", "SDRAM_LEN"} /\ UNCHANGED after_run
  BY <1>1 DEF SdramAddrByte, NextOfField, replyVars
<1> QED BY <1>2, <1>3 DEF Onward, Absorbed, Busy, ReceiveStates, WordStates

(* The segment is that of the asset, which fits the window.                *)
LEMMA CleanSdramLen ==
  ASSUME BuiltPacket, PlaceInv, ParseInv, Taking, SdramLenByte
  PROVE  Onward /\ state' \notin WordStates \cup {"SDRAM_PAYLOAD"}
<1>1. /\ Take("SDRAM_LEN") /\ state = "SDRAM_LEN" /\ Len(crc_reg) = 2 + 2 * FIELD + nth
      /\ crc_reg \in Seq(Nat) /\ nth \in 0 .. FIELD - 1 /\ command = LOAD_IMAGE
      /\ sdram_len = FieldValue(crc_reg, 3 + 2 * FIELD) /\ state \in Busy /\ Begins(crc_reg)
  BY DEF SdramLenByte, Take, ParseInv, Position, HeaderRead, Busy, ReceiveStates, PlaceInv,
         FieldsTyped, Taking, Absorbed
<1>2. /\ Begins(crc_reg') /\ BoardRead' = BoardRead + 1 /\ crc_reg' \in Seq(Nat)
      /\ Len(crc_reg') = Len(crc_reg) + 1
  BY <1>1, BodyByte DEF ReceiveStates
<1>3. LastOfField => ~BadSegment(image_sdram_addr, sdram_len')
  <2> SUFFICES ASSUME LastOfField PROVE ~BadSegment(image_sdram_addr, sdram_len')
    OBVIOUS
  <2>1. sdram_len' = FieldValue(crc_reg', 3 + 2 * FIELD)
    <3>1. Len(crc_reg) = (3 + 2 * FIELD) - 1 + nth
      BY <1>1, FieldPlaces
    <3>2. FieldValue(crc_reg', 3 + 2 * FIELD) = Widen(FieldValue(crc_reg, 3 + 2 * FIELD))
      BY <1>1, <3>1, Absorb, FieldPlaces
    <3> QED BY <1>1, <3>2 DEF SdramLenByte, Widen
  <2>2. (3 + 2 * FIELD) + FIELD - 1 <= Len(crc_reg')
    BY <1>1, <1>2, BootParams DEF LastOfField
  <2>3. FieldValue(crc_reg', 3 + 2 * FIELD) = FieldValue(Body, 3 + 2 * FIELD)
    BY <1>2, <2>2, ValueOfPrefix, FieldPlaces
  <2>4. Len(crc_reg) >= 2 /\ Len(crc_reg) >= 2 + 2 * FIELD
    BY <1>1, BootParams
  <2>5. Body[2] = LOAD_IMAGE /\ image_sdram_addr = ASSET_ADDR
    BY <1>1, <2>4, KnownHeader
  <2>6. sdram_len' = Len(ASSET)
    BY <2>1, <2>3, <2>5, PacketCarriesImage
  <2> QED BY <2>5, <2>6 DEF BuiltPacket
<1>4. state' \in {"SDRAM_LEN", "BRAM_PAYLOAD"} /\ UNCHANGED after_run
  BY <1>1, <1>3 DEF SdramLenByte, NextOfField, replyVars
<1> QED BY <1>2, <1>4 DEF Onward, Absorbed, Busy, ReceiveStates, WordStates

(* Behind the last byte of the firmware comes the asset or the trailer.    *)
LEMMA CleanBramPayload ==
  ASSUME BuiltPacket, PlaceInv, ParseInv, Taking, BramPayloadByte
  PROVE  Onward /\ state' \notin WordStates
<1>1. /\ Take("BRAM_PAYLOAD") /\ state = "BRAM_PAYLOAD" /\ state \in Busy /\ Begins(crc_reg)
      /\ Len(crc_reg) = PayloadAt(command) - 1 + bram_index
      /\ bram_index \in Nat /\ Len(crc_reg) \in Nat
  BY DEF BramPayloadByte, Take, ParseInv, Position, Busy, ReceiveStates, PlaceInv,
         FieldsTyped, Taking, Absorbed
<1>2. /\ Begins(crc_reg') /\ BoardRead' = BoardRead + 1 /\ received_crc' = <<>>
      /\ Len(crc_reg') = Len(crc_reg) + 1
  BY <1>1, BodyByte DEF ReceiveStates
<1>3. /\ state' = IF bram_index + 1 # bram_len THEN "BRAM_PAYLOAD"
                  ELSE IF command = LOAD_IMAGE THEN "SDRAM_PAYLOAD" ELSE "CRC"
      /\ UNCHANGED after_run
  BY <1>1 DEF BramPayloadByte, replyVars
<1>4. state' = "CRC" => Len(crc_reg') = Len(Body)
  <2> SUFFICES ASSUME state' = "CRC" PROVE Len(crc_reg') = Len(Body)
    OBVIOUS
  <2>1. PayloadAt(command) = 3 + FIELD /\ command # LOAD_IMAGE /\ bram_index + 1 = bram_len
    BY <1>3 DEF PayloadAt
  <2>2. Len(crc_reg) >= 2 + FIELD /\ Len(crc_reg) >= 2 /\ FIELD \in 2 .. 4
    BY <1>1, <2>1, BootParams
  <2>3. Body[2] = command /\ bram_len = Len(FIRMWARE)
    BY <1>1, <2>2, KnownHeader
  <2>4. Len(Body) = PayloadAt(command) - 1 + bram_len + 0
    BY <2>1, <2>3, BodyLength
  <2> QED BY <1>1, <1>2, <2>1, <2>2, <2>4
<1> QED BY <1>2, <1>3, <1>4 DEF Onward, Absorbed, Busy, ReceiveStates, WordStates

(* Four bytes of the asset are a word to write.                            *)
LEMMA CleanSdramPayload ==
  ASSUME BuiltPacket, PlaceInv, ParseInv, Taking, SdramPayloadByte
  PROVE  /\ Onward /\ state' \in {"SDRAM_PAYLOAD", "SDRAM_REQ"}
         /\ state' = "SDRAM_REQ" <=> sdram_index % 4 = 3
<1>1. Take("SDRAM_PAYLOAD") /\ state = "SDRAM_PAYLOAD"
  BY DEF SdramPayloadByte, Take
<1>2. Begins(crc_reg') /\ BoardRead' = BoardRead + 1
  BY <1>1, BodyByte DEF ReceiveStates
<1>3. /\ state' = IF sdram_index % 4 = 3 THEN "SDRAM_REQ" ELSE "SDRAM_PAYLOAD"
      /\ UNCHANGED after_run
  BY <1>1 DEF SdramPayloadByte, replyVars
<1> QED BY <1>2, <1>3 DEF Onward, Absorbed, Busy, ReceiveStates

(* The SDRAM takes the word without an error, as its address is aligned.   *)
LEMMA CleanWord ==
  ASSUME BuiltPacket, PlaceInv, ParseInv, Taking, NEW rdy, NEW answered, NEW err,
         SdramPins(rdy, answered, err), SdramReq(rdy) \/ SdramResp(answered, err)
  PROVE  /\ state' \in Busy /\ UNCHANGED <<after_run, sdram_index>> /\ Absorbed'
         /\ BoardRead' = BoardRead /\ state \in WordStates
         /\ state' \in WordStates \/ sdram_index % 4 = 0
         /\ state' \in WordStates =>
              state' = IF state = "SDRAM_REQ" /\ ~rdy THEN "SDRAM_REQ" ELSE "SDRAM_RESP"
         /\ state' \in WordStates /\ state = "SDRAM_RESP" => ~answered
         /\ state' \notin WordStates => state = "SDRAM_RESP" /\ answered
<1>1. /\ state \in WordStates /\ state \in Busy
      /\ UNCHANGED <<crc_reg, received_crc, bram_len, sdram_index, sdram_len, command>>
  BY DEF SdramReq, SdramResp, WordStates, NoFieldWritten, fieldVars, indexVars, Busy
<1>2. /\ sdram_index % 4 = 0 /\ GoodSegment /\ sdram_index \in Nat
      /\ sdram_write_addr = image_sdram_addr + sdram_index - 4
      /\ image_sdram_addr \in Nat /\ sdram_len \in Nat
  BY <1>1 DEF PlaceInv, Placed, FieldsTyped
<1>3. ~err
  <2>1. image_sdram_addr % 4 = 0
    BY <1>2 DEF GoodSegment, BadSegment
  <2>2. sdram_write_addr % 4 = 0
    BY <1>2, <2>1
  <2> QED BY <2>2 DEF SdramPins
<1>4. /\ UNCHANGED after_run
      /\ state' = IF state = "SDRAM_REQ" THEN (IF rdy THEN "SDRAM_RESP" ELSE "SDRAM_REQ")
                  ELSE IF ~answered THEN "SDRAM_RESP"
                  ELSE IF sdram_index = sdram_len THEN "CRC" ELSE "SDRAM_PAYLOAD"
  BY <1>3 DEF SdramReq, SdramResp, KeepReply, replyVars
<1>5. received_crc = <<>> /\ Begins(crc_reg) /\ crc_reg \in Seq(Nat) /\ Len(crc_reg) \in Nat
  BY <1>1 DEF ParseInv, TrailerRead, Taking, Absorbed, WordStates
<1>6. state' = "CRC" => Len(crc_reg) = Len(Body)
  <2> SUFFICES ASSUME state' = "CRC" PROVE Len(crc_reg) = Len(Body)
    OBVIOUS
  <2>1. sdram_index = sdram_len
    BY <1>1, <1>4 DEF WordStates
  <2>2. /\ Len(crc_reg) = PayloadAt(command) - 1 + bram_len + sdram_index
        /\ command = LOAD_IMAGE /\ bram_len \in Nat
    BY <1>1 DEF ParseInv, Position, HeaderRead, PlaceInv, FieldsTyped
  <2>3. PayloadAt(command) = 3 + 3 * FIELD /\ FIELD \in 2 .. 4
    BY <2>2, BootParams DEF PayloadAt
  <2>4. Len(crc_reg) >= 2 /\ Len(crc_reg) >= 2 + FIELD /\ Len(crc_reg) >= 2 + 3 * FIELD
    BY <1>2, <2>2, <2>3
  <2>5. Body[2] = command /\ bram_len = Len(FIRMWARE) /\ sdram_len = Len(ASSET)
    BY <1>1, <1>5, <2>2, <2>4, KnownHeader
  <2> QED BY <2>1, <2>2, <2>5, BodyLength
<1>7. Absorbed' /\ BoardRead' = BoardRead
  BY <1>1, <1>5, <1>6 DEF Absorbed, Begins, BoardRead
<1> QED BY <1>1, <1>2, <1>4, <1>7 DEF WordStates, Busy, ReceiveStates

(* The trailer is the checksum of the stream, so its last byte is answered *)
(* with ACK.                                                               *)
LEMMA CleanCrc ==
  ASSUME BuiltPacket, PlaceInv, ParseInv, Taking, CrcByte
  PROVE  \/ Onward /\ state' = "CRC"
         \/ /\ state' = "SEND_0" /\ after_run' /\ response' = <<ACK, ERROR_NONE>>
<1>1. /\ state = "CRC" /\ state \in Busy /\ data_valid /\ UNCHANGED crc_reg
      /\ received_crc' = Append(received_crc, data_out)
  BY DEF CrcByte, Busy, ReceiveStates
<1>2. /\ Begins(crc_reg) /\ Len(crc_reg) = Len(Body) /\ crc_reg \in Seq(Nat)
      /\ \A i \in 1 .. Len(received_crc) : received_crc[i] = Crc(Body)[i]
      /\ received_crc \in Seq(Nat) /\ Len(received_crc) = nth /\ nth \in 0 .. FIELD - 1
      /\ data_out \in Nat /\ FIELD \in 2 .. 4 /\ Len(Body) \in Nat
  BY <1>1, PacketParts, BootParams
     DEF Taking, Absorbed, ParseInv, TrailerRead, PlaceInv, FieldsTyped
<1>3. data_out = Crc(Body)[nth + 1]
  <2>1. data_out = Packet[BoardRead + 1] /\ BoardRead + 1 = 4 + Len(Body) + (nth + 1)
    BY <1>1, <1>2 DEF Taking, OnLine, BoardRead
  <2>2. nth + 1 \in 1 .. FIELD
    BY <1>2
  <2>3. Packet[4 + Len(Body) + (nth + 1)] = Crc(Body)[nth + 1]
    BY <2>2, PacketParts
  <2> QED BY <2>1, <2>3
<1>4. /\ Len(received_crc') = nth + 1 /\ received_crc' \in Seq(Nat)
      /\ \A i \in 1 .. nth + 1 : received_crc'[i] = Crc(Body)[i]
  <2>1. ASSUME NEW i \in 1 .. nth + 1 PROVE received_crc'[i] = Crc(Body)[i]
    <3>1. i \in 1 .. nth \/ i = nth + 1
      BY <1>2
    <3> QED BY <1>1, <1>2, <1>3, <3>1
  <2> QED BY <1>1, <1>2, <2>1
<1>5. CASE ~LastOfField
  <2>1. state' = "CRC" /\ UNCHANGED after_run
    BY <1>1, <1>5 DEF CrcByte, replyVars
  <2>2. Absorbed'
    BY <1>1, <1>2, <1>4 DEF Absorbed, Begins
  <2>3. BoardRead' = BoardRead + 1
    BY <1>1, <1>2, <1>4 DEF BoardRead
  <2> QED BY <2>1, <2>2, <2>3 DEF Onward, Busy, ReceiveStates
<1>6. CASE LastOfField
  <2>1. crc_reg = Body
    <3>1. Body \in Seq(Nat)
      BY PacketParts
    <3>2. \A i \in 1 .. Len(crc_reg) : crc_reg[i] = Body[i]
      BY <1>2 DEF Begins
    <3>3. crc_reg \in Seq(Nat) /\ Len(crc_reg) = Len(Body)
      BY <1>2
    <3> QED BY ONLY <3>1, <3>2, <3>3, SameBytes, Zenon
  <2>2. received_crc' = Crc(Body)
    <3>1. nth + 1 = FIELD
      BY <1>2, <1>6 DEF LastOfField
    <3>2. Crc(Body) \in Seq(Nat) /\ Len(Crc(Body)) = FIELD
      BY PacketParts
    <3> QED BY <1>4, <3>1, <3>2
  <2>3. received_crc' = Crc(crc_reg)
    BY <2>1, <2>2
  <2> QED BY <1>1, <1>6, <2>3 DEF CrcByte
<1> QED BY <1>5, <1>6

(***************************************************************************)
(* The cycles.  A write starts right behind the fourth byte of a word: one *)
(* byte may arrive before it is over, and there is room for it.            *)
(***************************************************************************)
LEMMA FrameIsLong == WordInTwoFrames => FRAME_CYCLES >= 2 /\ SDRAM_CYCLES \in Nat \ {0}
BY UartFrame, LinkParams DEF WordInTwoFrames

LEMMA RoomInTime ==
  ASSUME WordInTwoFrames, InTime, state \in WordStates, NEW n, OnLine(n)
  PROVE  ~(data_valid /\ line_left = 1)
BY FrameIsLong, UartFrame DEF InTime, OnLine, WordInTwoFrames

LEMMA TimeListening ==
  ASSUME WordInTwoFrames, InTime, state \in ReceiveStates, NEW n, OnLine(n),
         NEW rdy, NEW answered, NEW err, SdramPins(rdy, answered, err),
         data_valid' => line_left' \in {0, FRAME_CYCLES},
         data_valid' <=> line_left = 1,
         line_left > 1 => line_left' = line_left - 1,
         line_left <= 1 => line_left' \in {0, FRAME_CYCLES},
         state' \in WordStates =>
           /\ state' = "SDRAM_REQ" /\ state = "SDRAM_PAYLOAD"
           /\ sdram_index % 4 = 3 /\ data_valid
  PROVE  InTime'
<1>1. sdram_busy' = 0
  BY DEF SdramPins, ReceiveStates
<1>2. CASE state' \notin WordStates
  BY <1>1, <1>2 DEF InTime
<1>3. CASE state' \in WordStates
  <2>1. line_left \in {0, FRAME_CYCLES} /\ FRAME_CYCLES \in Nat /\ FRAME_CYCLES >= 2
        /\ SDRAM_CYCLES \in Nat \ {0}
    BY <1>3, FrameIsLong, UartFrame DEF InTime
  <2>2. ~data_valid'
    BY <2>1
  <2>3. line_left' > 0 => line_left' >= FRAME_CYCLES - 1
    BY <2>1
  <2>4. line_left' \in Nat
    BY <2>1
  <2>5. state' = "SDRAM_REQ" /\ state' \in WordStates
    BY <1>3
  <2>6. 0 \in Nat /\ 0 < SDRAM_CYCLES
    BY <2>1
  <2>7. line_left' > 0 => line_left' + 0 >= (FRAME_CYCLES - 1) + 0
    <3>1. \A x \in Nat : x >= FRAME_CYCLES - 1 => x + 0 >= (FRAME_CYCLES - 1) + 0
      BY <2>1
    <3> QED BY <2>3, <2>4, <3>1
  <2> QED BY <1>1, <2>2, <2>5, <2>6, <2>7 DEF InTime
<1> QED BY <1>2, <1>3

LEMMA TimeWriting ==
  ASSUME WordInTwoFrames, InTime, state \in WordStates, NEW n, OnLine(n),
         NEW rdy, NEW answered, NEW err, SdramPins(rdy, answered, err),
         data_valid' <=> (line_left = 1 \/ data_valid),
         line_left > 1 => line_left' = line_left - 1,
         line_left <= 1 => line_left' \in {0, FRAME_CYCLES},
         UNCHANGED sdram_index, state' \in WordStates \/ sdram_index % 4 = 0,
         state' \in WordStates =>
           state' = IF state = "SDRAM_REQ" /\ ~rdy THEN "SDRAM_REQ" ELSE "SDRAM_RESP",
         state' \in WordStates /\ state = "SDRAM_RESP" => ~answered,
         state' \notin WordStates => state = "SDRAM_RESP" /\ answered
  PROVE  InTime'
<1>1. /\ FRAME_CYCLES \in Nat /\ FRAME_CYCLES >= 2 /\ SDRAM_CYCLES \in Nat \ {0}
      /\ sdram_busy \in Nat /\ line_left \in 0 .. FRAME_CYCLES
  BY FrameIsLong, UartFrame DEF InTime, OnLine
<1>2. CASE state' \notin WordStates
  <2>1. sdram_busy' = 0
    BY <1>2 DEF SdramPins
  <2>2. sdram_index' % 4 # 3
    BY <1>2
  <2> QED BY <1>2, <2>1, <2>2 DEF InTime
<1>3. CASE state' \in WordStates
  <2>1. sdram_busy' = sdram_busy + 1
    BY <1>3 DEF SdramPins, WordStates
  <2>2. sdram_busy' < SDRAM_CYCLES \/ (state' = "SDRAM_RESP" /\ sdram_busy' = SDRAM_CYCLES)
    <3>1. CASE state = "SDRAM_REQ"
      <4>1. sdram_busy < SDRAM_CYCLES
        BY <3>1 DEF InTime, WordStates
      <4>2. ~rdy => sdram_busy < SDRAM_CYCLES - 1
        BY <1>1, <3>1 DEF SdramPins
      <4> QED BY <1>1, <1>3, <2>1, <3>1, <4>1, <4>2
    <3>2. CASE state = "SDRAM_RESP"
      <4>1. sdram_busy < SDRAM_CYCLES
        BY <1>1, <1>3, <3>2 DEF SdramPins
      <4> QED BY <1>1, <1>3, <2>1, <3>2, <4>1
    <3> QED BY <3>1, <3>2 DEF WordStates
  <2>3. data_valid' => sdram_busy' >= FRAME_CYCLES - 1
    <3>1. data_valid => sdram_busy >= FRAME_CYCLES - 1
      BY DEF InTime
    <3>2. line_left = 1 /\ ~data_valid => 1 + sdram_busy >= FRAME_CYCLES - 1
      <4> SUFFICES ASSUME line_left = 1, ~data_valid
                   PROVE  1 + sdram_busy >= FRAME_CYCLES - 1
        OBVIOUS
      <4>1. line_left > 0
        OBVIOUS
      <4>2. line_left + sdram_busy >= (FRAME_CYCLES - 1) + 0
        BY <4>1 DEF InTime
      <4> QED BY <1>1, <4>2
    <3> QED BY <1>1, <2>1, <3>1, <3>2
  <2>4. line_left' > 0 => line_left' + sdram_busy' >=
                            (FRAME_CYCLES - 1) + (IF data_valid' THEN FRAME_CYCLES ELSE 0)
    <3>1. CASE line_left > 1
      <4>1. line_left + sdram_busy >=
              (FRAME_CYCLES - 1) + (IF data_valid THEN FRAME_CYCLES ELSE 0)
        BY <1>1, <3>1 DEF InTime
      <4>2. data_valid' <=> data_valid
        BY <3>1
      <4> QED BY <1>1, <2>1, <3>1, <4>1, <4>2
    <3>2. CASE line_left <= 1
      <4>1. line_left' > 0 => line_left' = FRAME_CYCLES
        BY <3>2
      <4> QED BY <1>1, <2>1, <2>3, <4>1
    <3> QED BY <1>1, <3>1, <3>2
  <2>5. sdram_busy' \in Nat
    BY <1>1, <2>1
  <2> QED BY <1>3, <2>2, <2>3, <2>4, <2>5 DEF InTime, WordStates
<1> QED BY <1>2, <1>3

(* Away from the payload of the SDRAM there is nothing to be late for.     *)
LEMMA TimeIdle ==
  ASSUME InTime, state \notin WordStates, NEW rdy, NEW answered, NEW err,
         SdramPins(rdy, answered, err), state' \notin WordStates \cup {"SDRAM_PAYLOAD"}
  PROVE  InTime'
BY DEF InTime, SdramPins, WordStates

-----------------------------------------------------------------------------
(***************************************************************************)
(* One clock edge, in each part of a download.                             *)
(***************************************************************************)
LEMMA Undisturbed ==
  ASSUME NEW rdy, NEW answered, NEW err, BootClock(rdy, answered, err), ~Silent,
         receive_state => ~overrun /\ ~framing_error
  PROVE  \/ Clear \/ Send("SEND_0", "SEND_1") \/ Send("SEND_1", "DRAIN_BUSY")
         \/ DrainBusy \/ DrainIdle \/ Run \/ Listen \/ MagicByte
         \/ VersionByte \/ CommandByte \/ BramLenByte \/ SdramAddrByte
         \/ SdramLenByte \/ BramPayloadByte \/ SdramPayloadByte
         \/ SdramReq(rdy) \/ SdramResp(answered, err) \/ CrcByte
BY DEF BootClock, UartError, Timeout, Garbled

LEMMA TakingClock ==
  ASSUME BuiltPacket, WordInTwoFrames, PlaceInv, ParseInv, InTime, Taking, ~after_run, ~Silent,
         faults \in Nat, UNCHANGED faults,
         NEW e, NEW rdy, NEW answered, NEW err, Tick(e, rdy, answered, err)
  PROVE  /\ InTime'
         /\ \/ Taking' /\ ~after_run'
            \/ state' = "SEND_0" /\ after_run' /\ response' = <<ACK, ERROR_NONE>>
<1>1. PICK n : n = BoardRead
  OBVIOUS
<1>2. PICK m : m = n + Pending(data_valid /\ rx_ready)
  OBVIOUS
<1>3. /\ OnLine(n) /\ state \in Busy /\ n \in Nat /\ data_valid \in BOOLEAN
      /\ rx_ready \in BOOLEAN /\ (rx_ready <=> state \in ReceiveStates)
      /\ (state \in ReceiveStates \/ state \in WordStates)
  BY <1>1 DEF Taking, OnLine, rx_ready, receive_state, Busy, WordStates, ReceiveStates
<1>4. /\ Arrival(e) /\ LineClock /\ SdramPins(rdy, answered, err) /\ UNCHANGED written
      /\ BootClock(rdy, answered, err) /\ RxClock(e, rx_ready, clear_rx, clear_rx)
  BY DEF Tick
<1>5. data_valid /\ line_left = 1 => rx_ready
  BY <1>3, RoomInTime
<1>6. /\ OnLine(m)'
      /\ rx_ready => (data_valid' => line_left' \in {0, FRAME_CYCLES})
      /\ data_valid' <=> (line_left = 1 \/ (data_valid /\ ~rx_ready))
      /\ line_left > 1 => line_left' = line_left - 1
      /\ line_left <= 1 => line_left' \in {0, FRAME_CYCLES}
  BY <1>2, <1>3, <1>4, <1>5, LineStep
<1>7. ASSUME state \in ReceiveStates,
             state' \in WordStates =>
               /\ state' = "SDRAM_REQ" /\ state = "SDRAM_PAYLOAD"
               /\ sdram_index % 4 = 3 /\ data_valid
      PROVE  InTime'
  BY <1>3, <1>4, <1>6, <1>7, TimeListening
<1>8. \A k : k = BoardRead' /\ k = m => OnLine(BoardRead)'
  BY <1>6 DEF OnLine
<1>9. ASSUME Onward, state \in ReceiveStates, data_valid,
             state' \in WordStates =>
               state' = "SDRAM_REQ" /\ state = "SDRAM_PAYLOAD" /\ sdram_index % 4 = 3
      PROVE  InTime' /\ Taking' /\ ~after_run'
  <2>1. m = BoardRead'
    BY <1>1, <1>2, <1>3, <1>9 DEF Onward, Pending
  <2> QED BY <1>7, <1>8, <1>9, <2>1 DEF Onward, Taking
<1>10. CASE Listen
  <2>1. /\ state' = state /\ state \in ReceiveStates /\ ~data_valid
        /\ UNCHANGED <<crc_reg, received_crc, after_run>>
    BY <1>3, <1>10 DEF Listen, NoFieldWritten, KeepReply, replyVars
  <2>2. Absorbed' /\ BoardRead' = BoardRead
    BY <2>1 DEF Taking, Absorbed, Begins, BoardRead
  <2>3. m = BoardRead'
    BY <1>1, <1>2, <1>3, <2>1, <2>2 DEF Pending
  <2>4. state' \notin WordStates
    BY <2>1 DEF ReceiveStates, WordStates
  <2> QED BY <1>3, <1>7, <1>8, <2>1, <2>2, <2>3, <2>4 DEF Taking
<1>11. CASE \/ VersionByte \/ CommandByte \/ BramLenByte \/ SdramAddrByte
            \/ SdramLenByte \/ BramPayloadByte
  <2>1. state \in ReceiveStates /\ data_valid
    BY <1>11 DEF VersionByte, CommandByte, BramLenByte, SdramAddrByte, SdramLenByte,
                 BramPayloadByte, Take, ReceiveStates
  <2>2. Onward /\ state' \notin WordStates
    BY <1>11, CleanHeader, CleanBramLen, CleanSdramAddr, CleanSdramLen, CleanBramPayload
  <2> QED BY <1>9, <2>1, <2>2
<1>12. CASE SdramPayloadByte
  <2>1. state = "SDRAM_PAYLOAD" /\ data_valid
    BY <1>12 DEF SdramPayloadByte, Take
  <2> QED BY <1>9, <1>12, <2>1, CleanSdramPayload DEF ReceiveStates, WordStates
<1>13. CASE SdramReq(rdy) \/ SdramResp(answered, err)
  <2>1. /\ state' \in Busy /\ UNCHANGED <<after_run, sdram_index>> /\ Absorbed'
        /\ BoardRead' = BoardRead /\ state \in WordStates
        /\ state' \in WordStates \/ sdram_index % 4 = 0
        /\ state' \in WordStates =>
             state' = IF state = "SDRAM_REQ" /\ ~rdy THEN "SDRAM_REQ" ELSE "SDRAM_RESP"
        /\ state' \in WordStates /\ state = "SDRAM_RESP" => ~answered
        /\ state' \notin WordStates => state = "SDRAM_RESP" /\ answered
    BY <1>4, <1>13, CleanWord
  <2>2. ~rx_ready
    BY <1>3, <2>1 DEF WordStates, ReceiveStates
  <2>3. InTime'
    BY <1>3, <1>4, <1>6, <2>1, <2>2, TimeWriting
  <2>4. m = BoardRead'
    BY <1>1, <1>2, <1>3, <2>1, <2>2 DEF Pending
  <2> QED BY <1>8, <2>1, <2>3, <2>4 DEF Taking
<1>14. CASE CrcByte
  <2>1. state = "CRC" /\ state \in ReceiveStates /\ data_valid
    BY <1>14 DEF CrcByte, ReceiveStates
  <2>2. CASE Onward /\ state' = "CRC"
    BY <1>9, <2>1, <2>2 DEF WordStates
  <2>3. CASE state' = "SEND_0" /\ after_run' /\ response' = <<ACK, ERROR_NONE>>
    BY <1>7, <2>1, <2>3 DEF WordStates
  <2> QED BY <1>14, <2>2, <2>3, CleanCrc
<1>15. ~(Clear \/ Send("SEND_0", "SEND_1") \/ Send("SEND_1", "DRAIN_BUSY") \/ DrainBusy
         \/ DrainIdle \/ Run \/ MagicByte)
  BY <1>3 DEF Clear, Send, DrainBusy, DrainIdle, Run, MagicByte, ReceiveStates, WordStates
<1>16. ~overrun /\ ~framing_error
  BY <1>3 DEF OnLine
<1> QED BY <1>4, <1>10, <1>11, <1>12, <1>13, <1>14, <1>15, <1>16, Undisturbed

(***************************************************************************)
(* A response on its way to the loader.                                    *)
(***************************************************************************)
LEMMA ReplyMoves ==
  ASSUME NEW rdy, NEW answered, NEW err, BootClock(rdy, answered, err), ~Silent,
         state \in Replying \cup {"CLEAR", "RUN"}
  PROVE  /\ UNCHANGED <<response, after_run>>
         /\ state = "CLEAR" => state' \in {"CLEAR", "SEND_0"}
         /\ state = "SEND_0" => state' = IF tx_ready THEN "SEND_1" ELSE "SEND_0"
         /\ state = "SEND_1" => state' = IF tx_ready THEN "DRAIN_BUSY" ELSE "SEND_1"
         /\ state = "DRAIN_BUSY" => state' = IF tx_ready THEN "DRAIN_BUSY" ELSE "DRAIN_IDLE"
         /\ state = "DRAIN_IDLE" => state' = IF ~tx_ready THEN "DRAIN_IDLE"
                                             ELSE IF after_run THEN "RUN" ELSE "MAGIC"
         /\ state = "RUN" => state' = "RUN"
         /\ state' = "MAGIC" => magic_index' = 0
<1>1. ~receive_state
  BY DEF receive_state, Replying, ReceiveStates
<1>2. Clear \/ Send("SEND_0", "SEND_1") \/ Send("SEND_1", "DRAIN_BUSY") \/ DrainBusy
      \/ DrainIdle \/ Run
  <2>1. ~(Listen \/ MagicByte \/ VersionByte \/ CommandByte \/ BramLenByte \/ SdramAddrByte
          \/ SdramLenByte \/ BramPayloadByte \/ SdramPayloadByte
          \/ SdramReq(rdy) \/ SdramResp(answered, err) \/ CrcByte)
    BY <1>1 DEF Listen, MagicByte, VersionByte, CommandByte, BramLenByte, SdramAddrByte,
         SdramLenByte, BramPayloadByte, SdramPayloadByte, SdramReq, SdramResp, CrcByte, Take,
         rx_ready, Replying
  <2> QED BY <1>1, <2>1, Undisturbed
<1>3. CASE Clear
  BY <1>3 DEF Clear, replyVars
<1>4. CASE Send("SEND_0", "SEND_1") \/ Send("SEND_1", "DRAIN_BUSY") \/ DrainBusy
  BY <1>4 DEF Send, DrainBusy, KeepReply, replyVars
<1>5. CASE DrainIdle
  BY <1>5 DEF DrainIdle, replyVars
<1>6. CASE Run
  BY <1>6 DEF Run, replyVars
<1> QED BY <1>2, <1>3, <1>4, <1>5, <1>6

LEMMA Appended ==
  ASSUME NEW a \in Nat, NEW b \in Nat
  PROVE  Append(<<>>, a) = <<a>> /\ Append(<<a>>, b) = <<a, b>>
<1>1. Append(<<>>, a) = <<a>>
  OBVIOUS
<1>2. <<a>> \in Seq(Nat) /\ Len(<<a>>) = 1 /\ <<a>>[1] = a
  OBVIOUS
<1>3. /\ Append(<<a>>, b) \in Seq(Nat) /\ Len(Append(<<a>>, b)) = 2
      /\ Append(<<a>>, b)[1] = a /\ Append(<<a>>, b)[2] = b
  BY <1>2
<1>4. <<a, b>> \in Seq(Nat) /\ Len(<<a, b>>) = 2 /\ <<a, b>>[1] = a /\ <<a, b>>[2] = b
  OBVIOUS
<1>5. \A s, t \in Seq(Nat) :
        Len(s) = 2 /\ Len(t) = 2 /\ s[1] = t[1] /\ s[2] = t[2] => s = t
  <2>1. \A s, t \in Seq(Nat) : Len(s) = Len(t) /\ (\A i \in 1 .. Len(s) : s[i] = t[i]) => s = t
    OBVIOUS
  <2> SUFFICES ASSUME NEW s \in Seq(Nat), NEW t \in Seq(Nat), Len(s) = 2, Len(t) = 2,
                      s[1] = t[1], s[2] = t[2]
               PROVE  s = t
    OBVIOUS
  <2>2. \A i \in 1 .. Len(s) : i = 1 \/ i = 2
    OBVIOUS
  <2>3. Len(s) = Len(t) /\ \A i \in 1 .. Len(s) : s[i] = t[i]
    BY <2>2
  <2> QED BY <2>1, <2>3
<1> QED BY ZenonT(30), <1>1, <1>3, <1>4, <1>5

LEMMA TalkClock ==
  ASSUME NEW a \in Nat, NEW b \in Nat, Talk(a, b), UNCHANGED response,
         TxClock(boot_tx_valid, boot_tx_data),
         inbox' = (IF TxEnd = NoByte THEN inbox ELSE Append(inbox, TxEnd)),
         state \in Replying \cup {"CLEAR", "MAGIC", "RUN"},
         state = "CLEAR" => state' \in {"CLEAR", "SEND_0"},
         state = "SEND_0" => state' = IF tx_ready THEN "SEND_1" ELSE "SEND_0",
         state = "SEND_1" => state' = IF tx_ready THEN "DRAIN_BUSY" ELSE "SEND_1",
         state = "DRAIN_BUSY" => state' = IF tx_ready THEN "DRAIN_BUSY" ELSE "DRAIN_IDLE",
         state = "DRAIN_IDLE" => state' = IF ~tx_ready THEN "DRAIN_IDLE"
                                          ELSE IF after_run THEN "RUN" ELSE "MAGIC",
         state \in {"MAGIC", "RUN"} => UNCHANGED state
  PROVE  Talk(a, b)'
<1>1. /\ response = <<a, b>> /\ response' = <<a, b>> /\ tx_left \in Nat
      /\ <<a, b>>[1] = a /\ <<a, b>>[2] = b /\ FRAME_CYCLES \in Nat \ {0}
  BY UartFrame DEF Talk
<1>2. CASE state \in {"CLEAR", "MAGIC", "RUN"}
  <2>1. tx_left = 0 /\ ~boot_tx_valid /\ TxEnd = NoByte
    BY <1>2 DEF Talk, boot_tx_valid, TxEnd
  <2>2. tx_left' = 0 /\ UNCHANGED inbox
    BY <2>1 DEF TxClock, tx_ready
  <2>3. state' \in {"CLEAR", "SEND_0", "MAGIC", "RUN"} /\ (state = "CLEAR" <=> state' \in {"CLEAR", "SEND_0"})
    BY <1>2
  <2> QED BY <1>1, <1>2, <2>2, <2>3 DEF Talk
<1>3. CASE state = "SEND_0"
  <2>1. tx_left = 0 /\ boot_tx_valid /\ TxEnd = NoByte /\ inbox = <<>> /\ tx_ready
    BY <1>3 DEF Talk, boot_tx_valid, TxEnd, tx_ready
  <2>2. tx_left' = FRAME_CYCLES /\ tx_shift' = a /\ inbox' = <<>> /\ state' = "SEND_1"
    BY <1>1, <1>3, <2>1 DEF TxClock, boot_tx_data
  <2>3. tx_left' \in Nat /\ tx_left' > 0 /\ tx_shift' = a
    BY <1>1, <2>2
  <2> QED BY <1>1, <2>2, <2>3 DEF Talk
<1>4. CASE state = "SEND_1" /\ tx_left > 0
  <2>1. tx_shift = a /\ inbox = <<>> /\ ~tx_ready
    BY <1>1, <1>4 DEF Talk, tx_ready
  <2>2. tx_left' = tx_left - 1 /\ tx_shift' = a /\ state' = "SEND_1"
    BY <1>4, <2>1 DEF TxClock
  <2>3. tx_left' \in Nat /\ tx_shift' = a /\ (tx_left = 1 <=> tx_left' = 0)
    BY <1>1, <1>4, <2>2
  <2>4. CASE tx_left = 1
    <3>1. inbox' = Append(<<>>, a)
      BY <2>1, <2>4 DEF TxEnd, NoByte
    <3>2. inbox' = <<a>>
      BY <3>1, Appended
    <3> QED BY <1>1, <2>2, <2>3, <2>4, <3>2 DEF Talk
  <2>5. CASE tx_left # 1
    <3>1. inbox' = <<>> /\ tx_left' > 0
      BY <1>1, <2>1, <2>3, <2>5 DEF TxEnd
    <3> QED BY <1>1, <2>2, <2>3, <3>1 DEF Talk
  <2> QED BY <2>4, <2>5
<1>5. CASE state = "SEND_1" /\ ~(tx_left > 0)
  <2>1. tx_left = 0 /\ boot_tx_valid /\ TxEnd = NoByte /\ inbox = <<a>> /\ tx_ready
    BY <1>1, <1>5 DEF Talk, boot_tx_valid, TxEnd, tx_ready
  <2>2. tx_left' = FRAME_CYCLES /\ tx_shift' = b /\ inbox' = <<a>> /\ state' = "DRAIN_BUSY"
    BY <1>1, <1>5, <2>1 DEF TxClock, boot_tx_data
  <2>3. tx_left' \in Nat /\ tx_left' > 0
    BY <1>1, <2>2
  <2> QED BY <1>1, <2>2, <2>3 DEF Talk
<1>6. CASE state \in {"DRAIN_BUSY", "DRAIN_IDLE"} /\ tx_left > 0
  <2>1. tx_shift = b /\ inbox = <<a>> /\ ~tx_ready
    BY <1>1, <1>6 DEF Talk, tx_ready
  <2>2. tx_left' = tx_left - 1 /\ tx_shift' = b /\ state' = "DRAIN_IDLE"
    BY <1>6, <2>1 DEF TxClock
  <2>3. tx_left' \in Nat /\ tx_shift' = b /\ (tx_left = 1 <=> tx_left' = 0)
    BY <1>1, <1>6, <2>2
  <2>4. CASE tx_left = 1
    <3>1. inbox' = Append(<<a>>, b)
      BY <2>1, <2>4 DEF TxEnd, NoByte
    <3>2. inbox' = <<a, b>>
      BY <3>1, Appended
    <3> QED BY <1>1, <2>2, <2>3, <2>4, <3>2 DEF Talk
  <2>5. CASE tx_left # 1
    <3>1. inbox' = <<a>> /\ tx_left' > 0
      BY <1>1, <2>1, <2>3, <2>5 DEF TxEnd
    <3> QED BY <1>1, <2>2, <2>3, <3>1 DEF Talk
  <2> QED BY <2>4, <2>5
<1>7. CASE state \in {"DRAIN_BUSY", "DRAIN_IDLE"} /\ ~(tx_left > 0)
  <2>1. /\ state = "DRAIN_IDLE" /\ tx_left = 0 /\ inbox = <<a, b>> /\ tx_ready
        /\ ~boot_tx_valid /\ TxEnd = NoByte
    BY <1>1, <1>7 DEF Talk, boot_tx_valid, TxEnd, tx_ready
  <2>2. tx_left' = 0 /\ UNCHANGED inbox /\ state' \in {"RUN", "MAGIC"}
    BY <2>1 DEF TxClock
  <2> QED BY <1>1, <2>1, <2>2 DEF Talk
<1> QED BY <1>2, <1>3, <1>4, <1>5, <1>6, <1>7 DEF Replying

(***************************************************************************)
(* One clock edge of each part of a download.                              *)
(***************************************************************************)
LEMMA GreetingClock ==
  ASSUME BuiltPacket, InTime, Greeting, ~Silent, faults \in Nat, UNCHANGED faults,
         NEW e, NEW rdy, NEW answered, NEW err, Tick(e, rdy, answered, err)
  PROVE  InTime' /\ Greeting'
<1>1. /\ Arrival(e) /\ LineClock /\ SdramPins(rdy, answered, err) /\ UNCHANGED <<host, written>>
      /\ BootClock(rdy, answered, err) /\ RxClock(e, rx_ready, clear_rx, clear_rx)
      /\ TxClock(boot_tx_valid, boot_tx_data)
      /\ inbox' = IF TxEnd = NoByte THEN inbox ELSE Append(inbox, TxEnd)
  BY DEF Tick
<1>2. /\ OnLine(0) /\ written = 0 /\ ~data_valid /\ line_left = 0 /\ wired = 0
  BY DEF Greeting, OnLine, Pending
<1>3. OnLine(0)'
  <2>1. PICK m : m = 0 + Pending(data_valid /\ rx_ready)
    OBVIOUS
  <2>2. m = 0
    BY <1>2, <2>1 DEF Pending
  <2>3. rx_ready \in BOOLEAN
    BY DEF rx_ready, receive_state
  <2>4. OnLine(m)'
    BY <1>1, <1>2, <2>1, <2>3, LineStep
  <2> QED BY <2>2, <2>4
<1>4. CASE state = "MAGIC"
  <2>1. ~receive_state
    BY <1>4 DEF receive_state, ReceiveStates
  <2>2. Listen
    BY <1>1, <1>2, <1>4, <2>1, Undisturbed
       DEF Clear, Send, DrainBusy, DrainIdle, Run, MagicByte, VersionByte, CommandByte,
         BramLenByte, SdramAddrByte, SdramLenByte, BramPayloadByte, SdramPayloadByte, SdramReq,
         SdramResp, CrcByte, Take
  <2>3. UNCHANGED <<state, magic_index, response, after_run>>
    BY <2>2 DEF Listen, NoFieldWritten, KeepReply, replyVars
  <2>4. Talk(READY, ERROR_NONE)'
    BY <1>1, <1>4, <2>3, TalkClock DEF Greeting, READY, ERROR_NONE
  <2>5. InTime'
    BY <1>1, <1>4, <2>3, TimeIdle DEF WordStates
  <2> QED BY <1>1, <1>2, <1>3, <2>3, <2>4, <2>5 DEF Greeting
<1>5. CASE state # "MAGIC"
  <2>1. state \in Replying \cup {"CLEAR"} /\ ~after_run
    BY <1>5 DEF Greeting
  <2>2. /\ UNCHANGED <<response, after_run>>
        /\ state = "CLEAR" => state' \in {"CLEAR", "SEND_0"}
        /\ state = "SEND_0" => state' = IF tx_ready THEN "SEND_1" ELSE "SEND_0"
        /\ state = "SEND_1" => state' = IF tx_ready THEN "DRAIN_BUSY" ELSE "SEND_1"
        /\ state = "DRAIN_BUSY" => state' = IF tx_ready THEN "DRAIN_BUSY" ELSE "DRAIN_IDLE"
        /\ state = "DRAIN_IDLE" => state' = IF ~tx_ready THEN "DRAIN_IDLE"
                                            ELSE IF after_run THEN "RUN" ELSE "MAGIC"
        /\ state' = "MAGIC" => magic_index' = 0
    BY <1>1, <2>1, ReplyMoves
  <2>3. state \notin {"MAGIC", "RUN"}
    BY <2>1 DEF Replying
  <2>4. Talk(READY, ERROR_NONE)'
    BY <1>1, <2>1, <2>2, <2>3, TalkClock DEF Greeting, READY, ERROR_NONE
  <2>5. state' \in Replying \cup {"CLEAR", "MAGIC"}
    BY <2>1, <2>2 DEF Replying
  <2>6. InTime'
    BY <1>1, <2>1, <2>5, TimeIdle DEF WordStates, Replying
  <2> QED BY <1>1, <1>2, <1>3, <2>1, <2>2, <2>4, <2>5, <2>6 DEF Greeting
<1> QED BY <1>4, <1>5

LEMMA AnsweredClock ==
  ASSUME InTime, Answered, ~Silent,
         NEW e, NEW rdy, NEW answered, NEW err, Tick(e, rdy, answered, err)
  PROVE  InTime' /\ Answered'
<1>1. /\ SdramPins(rdy, answered, err) /\ UNCHANGED host /\ BootClock(rdy, answered, err)
      /\ TxClock(boot_tx_valid, boot_tx_data)
      /\ inbox' = IF TxEnd = NoByte THEN inbox ELSE Append(inbox, TxEnd)
  BY DEF Tick
<1>2. state \in Replying \cup {"RUN"} /\ after_run
  BY DEF Answered
<1>3. /\ UNCHANGED <<response, after_run>>
      /\ state = "CLEAR" => state' \in {"CLEAR", "SEND_0"}
      /\ state = "SEND_0" => state' = IF tx_ready THEN "SEND_1" ELSE "SEND_0"
      /\ state = "SEND_1" => state' = IF tx_ready THEN "DRAIN_BUSY" ELSE "SEND_1"
      /\ state = "DRAIN_BUSY" => state' = IF tx_ready THEN "DRAIN_BUSY" ELSE "DRAIN_IDLE"
      /\ state = "DRAIN_IDLE" => state' = IF ~tx_ready THEN "DRAIN_IDLE"
                                          ELSE IF after_run THEN "RUN" ELSE "MAGIC"
      /\ state = "RUN" => state' = "RUN"
  BY <1>1, <1>2, ReplyMoves
<1>4. state \in {"MAGIC", "RUN"} => UNCHANGED state
  BY <1>2, <1>3 DEF Replying
<1>5. Talk(ACK, ERROR_NONE)'
  BY <1>1, <1>2, <1>3, <1>4, TalkClock DEF Answered, ACK, ERROR_NONE
<1>6. state' \in Replying \cup {"RUN"}
  BY <1>2, <1>3 DEF Replying
<1>7. InTime'
  BY <1>1, <1>2, <1>6, TimeIdle DEF WordStates, Replying
<1> QED BY <1>1, <1>2, <1>3, <1>5, <1>6, <1>7 DEF Answered

(* The last cycle of the greeting, and the magic.                          *)
LEMMA MagicClock ==
  ASSUME BuiltPacket, InTime, ~after_run, ~Silent, tx_left = 0,
         \/ state = "DRAIN_IDLE" /\ OnLine(0) /\ wired = 0
         \/ state = "MAGIC" /\ magic_index \in 0 .. 3 /\ OnLine(magic_index),
         faults \in Nat, UNCHANGED faults,
         NEW e, NEW rdy, NEW answered, NEW err, Tick(e, rdy, answered, err)
  PROVE  /\ InTime' /\ ~after_run'
         /\ \/ state' = "MAGIC" /\ magic_index' \in 0 .. 3 /\ OnLine(magic_index)'
            \/ Taking'
<1>1. /\ Arrival(e) /\ LineClock /\ SdramPins(rdy, answered, err) /\ UNCHANGED written
      /\ BootClock(rdy, answered, err) /\ RxClock(e, rx_ready, clear_rx, clear_rx)
  BY DEF Tick
<1>2. ~receive_state /\ (rx_ready <=> state = "MAGIC") /\ rx_ready \in BOOLEAN
  BY DEF receive_state, ReceiveStates, rx_ready
<1>3. PICK n : n = IF state = "MAGIC" THEN magic_index ELSE 0
  OBVIOUS
<1>4. PICK m : m = n + Pending(data_valid /\ rx_ready)
  OBVIOUS
<1>5. OnLine(n) /\ n \in 0 .. 3
  BY <1>3 DEF OnLine
<1>6. data_valid /\ line_left = 1 => rx_ready
  BY <1>2, <1>3, <1>5 DEF OnLine, Pending
<1>7. OnLine(m)'
  BY <1>1, <1>2, <1>4, <1>5, <1>6, LineStep
<1>8. ASSUME state' = "MAGIC", magic_index' = m, m \in 0 .. 3, UNCHANGED after_run
      PROVE  /\ InTime' /\ ~after_run'
             /\ state' = "MAGIC" /\ magic_index' \in 0 .. 3 /\ OnLine(magic_index)'
  <2>1. InTime'
    BY <1>1, <1>8, TimeIdle DEF WordStates
  <2> QED BY <1>7, <1>8, <2>1 DEF OnLine
<1>9. CASE state = "DRAIN_IDLE"
  <2>1. tx_ready
    BY DEF tx_ready
  <2>2. state' = "MAGIC" /\ magic_index' = 0 /\ UNCHANGED after_run
    BY <1>1, <1>9, <2>1, ReplyMoves DEF Replying
  <2>3. m = 0
    BY <1>2, <1>3, <1>4, <1>9 DEF Pending
  <2> QED BY <1>8, <2>2, <2>3
<1>10. CASE state = "MAGIC" /\ ~data_valid
  <2>1. Listen
    BY <1>1, <1>2, <1>10, Undisturbed
       DEF Clear, Send, DrainBusy, DrainIdle, Run, MagicByte, VersionByte, CommandByte,
         BramLenByte, SdramAddrByte, SdramLenByte, BramPayloadByte, SdramPayloadByte, SdramReq,
         SdramResp, CrcByte, Take
  <2>2. state' = "MAGIC" /\ UNCHANGED <<magic_index, after_run>>
    BY <1>10, <2>1 DEF Listen, NoFieldWritten, KeepReply, replyVars
  <2>3. m = magic_index /\ m \in 0 .. 3
    BY <1>3, <1>4, <1>5, <1>10 DEF Pending
  <2> QED BY <1>8, <2>2, <2>3
<1>11. CASE state = "MAGIC" /\ data_valid
  <2>1. MagicByte
    BY <1>1, <1>2, <1>11, Undisturbed
       DEF Clear, Send, DrainBusy, DrainIdle, Run, Listen, VersionByte, CommandByte,
         BramLenByte, SdramAddrByte, SdramLenByte, BramPayloadByte, SdramPayloadByte, SdramReq,
         SdramResp, CrcByte, Take
  <2>2. data_out = Magic[magic_index + 1]
    <3>1. data_out = Packet[magic_index + 1] /\ magic_index + 1 \in 1 .. 4
      BY <1>3, <1>5, <1>11 DEF OnLine
    <3> QED BY <3>1, PacketParts
  <2>3. m = magic_index + 1 /\ magic_index \in 0 .. 3
    BY <1>2, <1>3, <1>4, <1>5, <1>11 DEF Pending
  <2>4. UNCHANGED after_run
    BY <2>1 DEF MagicByte, KeepReply, replyVars
  <2>5. CASE magic_index < 3
    <3>1. state' = "MAGIC" /\ magic_index' = magic_index + 1
      BY <1>11, <2>1, <2>2, <2>5 DEF MagicByte
    <3> QED BY <1>8, <2>3, <2>4, <2>5, <3>1
  <2>6. CASE ~(magic_index < 3)
    <3>1. state' = "VERSION" /\ received_crc' = <<>> /\ crc_reg' = <<>>
      BY <2>1, <2>2, <2>6 DEF MagicByte
    <3>2. BoardRead' = m /\ Absorbed'
      <4>1. BoardRead' = 4 /\ m = 4
        BY <2>3, <2>6, <3>1 DEF BoardRead
      <4>2. Begins(<<>>)
        BY PacketParts DEF Begins
      <4> QED BY <3>1, <4>1, <4>2 DEF Absorbed
    <3>3. Taking'
      BY <1>7, <3>1, <3>2 DEF Taking, OnLine, Busy, ReceiveStates
    <3>4. InTime'
      BY <1>1, <1>11, <3>1, TimeIdle DEF WordStates
    <3> QED BY <2>4, <3>3, <3>4
  <2> QED BY <2>5, <2>6
<1> QED BY <1>9, <1>10, <1>11

LEMMA SendingClock ==
  ASSUME BuiltPacket, WordInTwoFrames, PlaceInv, ParseInv, InTime, Sending, ~Silent,
         faults \in Nat, UNCHANGED faults,
         NEW e, NEW rdy, NEW answered, NEW err, Tick(e, rdy, answered, err)
  PROVE  InTime' /\ (Sending' \/ Answered')
<1>1. /\ UNCHANGED host /\ TxClock(boot_tx_valid, boot_tx_data)
      /\ inbox' = IF TxEnd = NoByte THEN inbox ELSE Append(inbox, TxEnd)
  BY DEF Tick
<1>2. /\ host \in Trying \ {"await_ready"} /\ ~after_run /\ inbox = <<>> /\ tx_left = 0
      /\ state \notin {"SEND_0", "SEND_1"}
  BY DEF Sending, Taking, Busy, ReceiveStates
<1>3. inbox' = <<>> /\ tx_left' = 0 /\ host' \in Trying \ {"await_ready"}
  BY <1>1, <1>2 DEF TxClock, boot_tx_valid, TxEnd, tx_ready
<1>4. CASE Taking
  <2>1. /\ InTime'
        /\ \/ Taking' /\ ~after_run'
           \/ state' = "SEND_0" /\ after_run' /\ response' = <<ACK, ERROR_NONE>>
    BY <1>2, <1>4, TakingClock
  <2>2. CASE Taking' /\ ~after_run'
    BY <1>3, <2>1, <2>2 DEF Sending
  <2>3. CASE state' = "SEND_0" /\ after_run' /\ response' = <<ACK, ERROR_NONE>>
    BY <1>3, <2>1, <2>3 DEF Answered, Talk, Replying
  <2> QED BY <2>1, <2>2, <2>3
<1>5. CASE ~Taking
  <2>1. \/ state = "DRAIN_IDLE" /\ OnLine(0) /\ wired = 0
        \/ state = "MAGIC" /\ magic_index \in 0 .. 3 /\ OnLine(magic_index)
    BY <1>5 DEF Sending
  <2>2. /\ InTime' /\ ~after_run'
        /\ \/ state' = "MAGIC" /\ magic_index' \in 0 .. 3 /\ OnLine(magic_index)'
           \/ Taking'
    BY <1>2, <2>1, MagicClock
  <2> QED BY <1>3, <2>2 DEF Sending
<1> QED BY <1>4, <1>5

(***************************************************************************)
(* The loader.                                                             *)
(***************************************************************************)
hostRest == <<rxVars, txVars, state, magic_index, crc_reg, received_crc, response, after_run,
              sdram_index, line_left, line_byte, sdram_busy>>

LEMMA TimeFrame ==
  ASSUME InTime, UNCHANGED <<state, sdram_index, data_valid, line_left, sdram_busy>>
  PROVE  InTime'
BY DEF InTime

LEMMA LineFrame ==
  ASSUME NEW n, OnLine(n), UNCHANGED <<rxVars, line_left, line_byte, wired>>,
         written' \in wired .. PACKET_BYTES
  PROVE  OnLine(n)'
BY DEF OnLine, rxVars

(* The response that is complete in the inbox.                             *)
LEMMA WholeResponse ==
  ASSUME NEW a \in Nat, NEW b \in Nat,
         inbox \in {<<>>, <<a>>, <<a, b>>}
  PROVE  /\ inbox # <<>> => Head(inbox) = a
         /\ Len(inbox) >= 2 => /\ inbox = <<a, b>> /\ inbox[1] = a /\ inbox[2] = b
                               /\ SubSeq(inbox, 3, Len(inbox)) = <<>>
<1>1. CASE inbox = <<>>
  BY <1>1
<1>2. CASE inbox = <<a>>
  BY <1>2
<1>3. CASE inbox = <<a, b>>
  <2>1. inbox \in Seq(Nat) /\ Len(inbox) = 2 /\ inbox[1] = a /\ inbox[2] = b
    BY <1>3
  <2>2. Head(inbox) = a
    BY <2>1
  <2>3. SubSeq(inbox, 3, 2) = <<>>
    BY <2>1
  <2> QED BY <1>3, <2>1, <2>2, <2>3
<1> QED BY <1>1, <1>2, <1>3

LEMMA TalkInbox ==
  ASSUME NEW a, NEW b, Talk(a, b), state \in Replying \cup {"CLEAR", "MAGIC", "RUN"}
  PROVE  /\ inbox \in {<<>>, <<a>>, <<a, b>>}
         /\ inbox = <<a, b>> => /\ tx_left = 0 /\ state \in {"DRAIN_IDLE", "MAGIC", "RUN"}
BY DEF Talk, Replying

LEMMA GreetingHost ==
  ASSUME Greeting, HostStep \/ WaitTimeout, UNCHANGED hostRest
  PROVE  UNCHANGED retries /\ (host' = "timed_out" \/ Greeting' \/ Sending')
<1>1. /\ host = "await_ready" /\ ~after_run /\ state \in Replying \cup {"CLEAR", "MAGIC"}
      /\ Talk(READY, ERROR_NONE) /\ OnLine(0) /\ written = 0
      /\ state = "MAGIC" => magic_index = 0
  BY DEF Greeting
<1>2. /\ inbox \in {<<>>, <<READY>>, <<READY, ERROR_NONE>>}
      /\ inbox = <<READY, ERROR_NONE>> =>
           tx_left = 0 /\ state \in {"DRAIN_IDLE", "MAGIC", "RUN"}
  BY <1>1, TalkInbox
<1>3. /\ inbox # <<>> => Head(inbox) = READY
      /\ Len(inbox) >= 2 => /\ inbox = <<READY, ERROR_NONE>> /\ inbox[1] = READY
                            /\ inbox[2] = ERROR_NONE
                            /\ SubSeq(inbox, 3, Len(inbox)) = <<>>
  BY <1>2, WholeResponse DEF READY, ERROR_NONE
<1>4. ~(WriteChunk \/ Flushed \/ PollTimeout \/ SkipNoise)
  BY <1>1, <1>3 DEF WriteChunk, Flushed, PollTimeout, SkipNoise, Expected, RESPONSE_READY, READY
<1>5. CASE ReadResponse
  <2>1. /\ inbox = <<READY, ERROR_NONE>> /\ inbox' = <<>>
        /\ host' = "write" /\ UNCHANGED <<written, wired, retries>>
    BY <1>1, <1>3, <1>5 DEF ReadResponse, RESPONSE_READY, READY, ERROR_NONE
  <2>2. tx_left = 0 /\ state \in {"DRAIN_IDLE", "MAGIC"} /\ wired = 0
    BY <1>1, <1>2, <2>1 DEF Replying, OnLine, Pending
  <2>3. OnLine(0)'
    BY <1>1, <2>1, LineFrame DEF OnLine, hostRest
  <2>4. UNCHANGED <<tx_left, state, after_run, magic_index>>
    BY DEF hostRest, txVars
  <2>5. state' = "MAGIC" => magic_index' \in 0 .. 3 /\ OnLine(magic_index)'
    BY <1>1, <2>3, <2>4 DEF OnLine
  <2> QED BY <1>1, <2>1, <2>2, <2>3, <2>4, <2>5 DEF Sending, Trying
<1>6. CASE WaitTimeout
  BY <1>6 DEF WaitTimeout
<1> QED BY <1>4, <1>5, <1>6 DEF HostStep

LEMMA SendingHost ==
  ASSUME Sending, HostStep \/ WaitTimeout, UNCHANGED hostRest
  PROVE  UNCHANGED retries /\ (host' = "timed_out" \/ Sending')
<1>1. host \in Trying \ {"await_ready"} /\ ~after_run /\ inbox = <<>> /\ tx_left = 0
  BY DEF Sending
<1>2. Len(inbox) = 0
  BY <1>1
<1>3. ~(SkipNoise \/ ReadResponse)
  BY <1>1, <1>2 DEF SkipNoise, ReadResponse
<1>4. CASE WaitTimeout
  BY <1>4 DEF WaitTimeout
<1>5. CASE WriteChunk \/ Flushed \/ PollTimeout
  <2>1. /\ UNCHANGED <<wired, retries, inbox>> /\ host' \in Trying \ {"await_ready"}
    BY <1>1, <1>5 DEF WriteChunk, Flushed, PollTimeout, AfterChunk, Trying
  <2>2. ASSUME NEW n, OnLine(n) PROVE OnLine(n)'
    <3>1. written' \in wired .. PACKET_BYTES
      <4>1. written \in wired .. PACKET_BYTES /\ wired \in Nat
        BY <2>2 DEF OnLine, Pending
      <4>2. CHUNK_BYTES \in Nat /\ PACKET_BYTES \in Nat
        BY HostParams
      <4> QED BY <1>5, <4>1, <4>2 DEF WriteChunk, Flushed, PollTimeout
    <3> QED BY <2>1, <2>2, <3>1, LineFrame DEF hostRest
  <2>3. UNCHANGED <<tx_left, state, after_run, magic_index, crc_reg, received_crc>>
    BY DEF hostRest, txVars
  <2>4. CASE state = "DRAIN_IDLE" /\ OnLine(0) /\ wired = 0
    BY <1>1, <2>1, <2>2, <2>3, <2>4 DEF Sending
  <2>5. CASE state = "MAGIC" /\ magic_index \in 0 .. 3 /\ OnLine(magic_index)
    <3>1. PICK n : n = magic_index
      OBVIOUS
    <3>2. OnLine(n)' /\ magic_index' = n
      BY <2>2, <2>3, <2>5, <3>1
    <3> QED BY <1>1, <2>1, <2>3, <2>5, <3>2 DEF Sending, OnLine
  <2>6. CASE Taking
    <3>1. PICK n : n = BoardRead
      OBVIOUS
    <3>2. OnLine(n)' /\ BoardRead' = n
      BY <2>2, <2>3, <2>6, <3>1 DEF Taking, BoardRead
    <3>3. Taking'
      BY <2>3, <2>6, <3>2 DEF Taking, Absorbed, Begins, OnLine
    <3> QED BY <1>1, <2>1, <2>3, <3>3 DEF Sending
  <2> QED BY <2>1, <2>4, <2>5, <2>6 DEF Sending
<1> QED BY <1>3, <1>4, <1>5 DEF HostStep

LEMMA AnsweredHost ==
  ASSUME Answered, HostStep \/ WaitTimeout, UNCHANGED hostRest
  PROVE  UNCHANGED retries /\ (host' \in {"timed_out", "ok"} \/ Answered')
<1>1. /\ host \in Trying \ {"await_ready"} /\ after_run /\ state \in Replying \cup {"RUN"}
      /\ Talk(ACK, ERROR_NONE)
  BY DEF Answered
<1>2. inbox \in {<<>>, <<ACK>>, <<ACK, ERROR_NONE>>}
  BY <1>1, TalkInbox
<1>3. /\ inbox # <<>> => Head(inbox) = ACK
      /\ Len(inbox) >= 2 => /\ inbox = <<ACK, ERROR_NONE>> /\ inbox[1] = ACK
                            /\ inbox[2] = ERROR_NONE
  BY <1>2, WholeResponse DEF ACK, ERROR_NONE
<1>4. ~SkipNoise
  BY <1>1, <1>3 DEF SkipNoise, Expected, RESPONSE_ACK, ACK
<1>5. CASE ReadResponse
  BY <1>1, <1>3, <1>5 DEF ReadResponse, RESPONSE_ACK, ACK, ERROR_NONE
<1>6. CASE WaitTimeout
  BY <1>6 DEF WaitTimeout
<1>7. CASE WriteChunk \/ Flushed \/ PollTimeout
  <2>1. /\ UNCHANGED <<retries, inbox>> /\ host' \in Trying \ {"await_ready"}
    BY <1>1, <1>7 DEF WriteChunk, Flushed, PollTimeout, AfterChunk, Trying
  <2>2. UNCHANGED <<response, tx_left, tx_shift, state, after_run>>
    BY DEF hostRest, txVars
  <2>3. Talk(ACK, ERROR_NONE)'
    BY <1>1, <2>1, <2>2 DEF Talk
  <2> QED BY <1>1, <2>1, <2>2, <2>3 DEF Answered
<1> QED BY <1>4, <1>5, <1>6, <1>7 DEF HostStep

-----------------------------------------------------------------------------
(***************************************************************************)
(* All steps.                                                              *)
(***************************************************************************)
LEMMA CleanClock ==
  ASSUME BuiltPacket, WordInTwoFrames, PlaceInv, ParseInv, CleanInv, ~Silent, ClockTick
  PROVE  CleanInv'
<1>1. PICK e \in Arrivals, rdy \in BOOLEAN, answered \in BOOLEAN, err \in BOOLEAN :
        Tick(e, rdy, answered, err)
  BY DEF ClockTick
<1>2. /\ UNCHANGED <<host, retries, resets>> /\ faults \in Nat /\ resets \in Nat
      /\ faults' \in {faults, faults + 1}
  BY <1>1 DEF Tick, Arrival, CleanInv
<1>3. faults' \in Nat /\ (faults' = 0 => faults = 0)
  BY <1>2
<1>4. ASSUME faults' = 0, resets' = 0, host \notin {"ok", "bad_code", "timed_out"}
      PROVE  InTime' /\ (Greeting' \/ Sending' \/ Answered')
  <2>1. /\ faults = 0 /\ UNCHANGED faults
        /\ InTime /\ (Greeting \/ Sending \/ Answered)
    BY <1>2, <1>3, <1>4 DEF CleanInv
  <2> QED BY <1>1, <1>2, <2>1, GreetingClock, SendingClock, AnsweredClock
<1> QED BY <1>2, <1>3, <1>4 DEF CleanInv

LEMMA CleanHost ==
  ASSUME CleanInv, HostStep \/ WaitTimeout, UNCHANGED <<hostRest, faults, resets>>
  PROVE  CleanInv'
<1>1. ASSUME host \in {"ok", "bad_code", "timed_out"}
      PROVE  FALSE
  BY <1>1 DEF HostStep, WriteChunk, Flushed, PollTimeout, SkipNoise, ReadResponse, WaitTimeout,
              Reading
<1>2. ASSUME faults = 0, resets = 0
      PROVE  /\ retries' = 0
             /\ \/ host' \in {"ok", "bad_code", "timed_out"}
                \/ InTime' /\ (Greeting' \/ Sending' \/ Answered')
  <2>1. retries = 0 /\ InTime /\ (Greeting \/ Sending \/ Answered)
    BY <1>1, <1>2 DEF CleanInv
  <2>2. InTime'
    BY <2>1, TimeFrame DEF hostRest, rxVars
  <2> QED BY <2>1, <2>2, GreetingHost, SendingHost, AnsweredHost
<1> QED BY <1>2 DEF CleanInv

(* A step that changes the memory only, or nothing.                        *)
LEMMA CleanFrame ==
  ASSUME CleanInv, UNCHANGED <<hostRest, hostVars, faults, resets>>
  PROVE  CleanInv'
<1>1. InTime => InTime'
  BY TimeFrame DEF hostRest, rxVars
<1>2. \A n : OnLine(n) => OnLine(n)'
  BY DEF OnLine, hostRest, rxVars, hostVars
<1>3. \A a, b : Talk(a, b) => Talk(a, b)'
  BY DEF Talk, hostRest, txVars, hostVars
<1>4. Greeting => Greeting'
  BY <1>2, <1>3 DEF Greeting, hostRest, hostVars
<1>5. Answered => Answered'
  BY <1>3 DEF Answered, hostRest, hostVars
<1>6. Sending => Sending'
  <2>1. UNCHANGED <<host, inbox, wired, state, after_run, tx_left, magic_index, crc_reg,
                    received_crc>>
    BY DEF hostRest, txVars, hostVars
  <2>2. Taking => Taking'
    <3>1. PICK n : n = BoardRead
      OBVIOUS
    <3>2. BoardRead' = n
      BY <2>1, <3>1 DEF BoardRead
    <3>3. OnLine(BoardRead) => OnLine(n)'
      BY <1>2, <3>1
    <3> QED BY <2>1, <3>2, <3>3 DEF Taking, Absorbed, Begins, OnLine
  <2>3. OnLine(magic_index) => OnLine(magic_index)'
    <3>1. PICK n : n = magic_index
      OBVIOUS
    <3> QED BY <1>2, <2>1, <3>1 DEF OnLine
  <2> QED BY <1>2, <2>1, <2>2, <2>3 DEF Sending
<1> QED BY <1>1, <1>4, <1>5, <1>6 DEF CleanInv, hostVars

LEMMA CleanStep ==
  ASSUME BuiltPacket, WordInTwoFrames, PlaceInv, WipeInv, ParseInv, CleanInv, ~Silent,
         [Next]_vars
  PROVE  CleanInv'
<1>1. CASE ClockTick
  BY <1>1, CleanClock
<1>2. CASE PressReset
  <2>1. faults' \in Nat /\ resets' \in Nat /\ resets' # 0
    BY <1>2 DEF PressReset, CleanInv
  <2> QED BY <2>1 DEF CleanInv
<1>3. CASE CpuStores \/ UNCHANGED vars
  <2>1. UNCHANGED <<hostRest, hostVars, faults, resets>>
    BY <1>3 DEF CpuStores, vars, hostRest, hostVars, linkVars, bootVars, replyVars, indexVars
  <2> QED BY <2>1, CleanFrame
<1>4. CASE HostSteps \/ HostTimesOut
  <2>1. (HostStep \/ WaitTimeout) /\ UNCHANGED <<hostRest, faults, resets>>
    BY <1>4 DEF HostSteps, HostTimesOut, hostRest, linkVars, bootVars, replyVars, indexVars
  <2> QED BY <2>1, CleanHost
<1> QED BY <1>1, <1>2, <1>3, <1>4 DEF Next

LEMMA CleanInit == Init => CleanInv
<1> SUFFICES ASSUME Init PROVE CleanInv
  OBVIOUS
<1>1. /\ state = "CLEAR" /\ after_run = FALSE /\ response = <<READY, ERROR_NONE>>
      /\ data_valid = FALSE /\ overrun = FALSE /\ framing_error = FALSE /\ tx_left = 0
      /\ host = "await_ready" /\ written = 0 /\ wired = 0 /\ retries = 0 /\ inbox = <<>>
      /\ line_left = 0 /\ sdram_busy = 0 /\ faults = 0 /\ resets = 0
  BY DEF Init, InReset, RxInit, TxInit, HostInit
<1>2. InTime
  BY <1>1 DEF InTime, WordStates
<1>3. OnLine(0)
  <2>1. 0 \in Nat /\ data_valid \in BOOLEAN /\ line_left \in 0 .. FRAME_CYCLES
        /\ ~(line_left > 0) /\ ~data_valid
    <3>1. data_valid \in BOOLEAN /\ ~data_valid
      BY <1>1
    <3>2. 0 \in Nat /\ line_left \in 0 .. FRAME_CYCLES /\ ~(line_left > 0)
      BY <1>1, UartFrame
    <3> QED BY <3>1, <3>2
  <2>2. wired = 0 + Pending(data_valid) + Pending(line_left > 0)
    <3>1. Pending(data_valid) = 0 /\ Pending(line_left > 0) = 0
      BY <2>1 DEF Pending
    <3> QED BY <1>1, <3>1
  <2>3. written \in wired .. PACKET_BYTES
    BY <1>1, HostParams
  <2> QED BY <1>1, <2>1, <2>2, <2>3 DEF OnLine
<1>4. Talk(READY, ERROR_NONE)
  BY <1>1 DEF Talk
<1>5. Greeting
  BY <1>1, <1>3, <1>4 DEF Greeting
<1> QED BY <1>1, <1>2, <1>5 DEF CleanInv

LEMMA CleanIsOneAttempt == CleanInv => CleanLineNeedsNoRetry
BY DEF CleanInv, CleanLineNeedsNoRetry, Greeting, Sending, Answered, Trying

(* rtl/periph/uart_rx.v, rtl/soc/bootloader_ctrl.v: the receiver holds one *)
(* byte, and nothing tells the loader to wait.  If a word is written       *)
(* before two more bytes can arrive, and the loader does not pause for as  *)
(* long as the timer between two bytes runs, a good packet on a clean line *)
(* is taken at the first attempt, however large it is.                     *)
THEOREM OneAttemptIsEnough ==
  ASSUME IdealChecksum, BuiltPacket, WordInTwoFrames
  PROVE  Spec /\ []~Silent => []CleanLineNeedsNoRetry
<1>1. PlaceInv /\ WipeInv /\ ParseInv /\ CleanInv /\ ~Silent /\ [Next]_vars => CleanInv'
  BY CleanStep
<1> QED BY <1>1, CleanInit, CleanIsOneAttempt, ParseInvariance, PTL DEF Spec

(* rtl/soc/bootloader_ctrl.v: a timer between two bytes of 0 is off, and   *)
(* then the loader may pause for as long as it likes.                      *)
THEOREM PausesNeedNoRetry ==
  ASSUME IdealChecksum, BuiltPacket, WordInTwoFrames, INTERBYTE_TIMEOUT_CYCLES = 0
  PROVE  Spec => []CleanLineNeedsNoRetry
<1>1. ~Silent
  BY DEF Silent
<1> QED BY <1>1, OneAttemptIsEnough, PTL
=============================================================================
