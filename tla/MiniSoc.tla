------------------------------ MODULE MiniSoc ------------------------------
(***************************************************************************)
(* The bus between a core and what it talks to: the data BRAM, the SDRAM   *)
(* controller as its host sees it, and the serial port.                    *)
(*                                                                         *)
(* The core is given by its pins.  DarkRISCV has a fetch port of its own   *)
(* (idreq) and moves on when both acknowledges meet; its next access may   *)
(* follow at once.  PicoRV32 fetches over the data bus and lowers          *)
(* mem_valid after each acknowledge.                                       *)
(***************************************************************************)
EXTENDS MiniSocBus

CONSTANTS
  Cores,          \* which cores there are, by whether they have a fetch port
  Adjacent,       \* pairs of accesses that may follow without a gap
  Arriving,       \* bytes that may come in on the serial line
  SDRAM_CYCLES    \* the longest the SDRAM keeps a request or a ready waiting

VARIABLES
  idreq,                     \* the core has a fetch port
  bram, bram_rdata,
  sdram, sdram_ready, sdram_req, sdram_resp_valid, sdram_rdata, sdram_wait,
  rx_gap,                    \* cycles until a frame can end again
  effects, seen, shadow      \* history

bramVars  == <<bram, bram_rdata>>
sdramVars == <<sdram, sdram_ready, sdram_req, sdram_resp_valid, sdram_rdata, sdram_wait>>
history   == <<effects, seen, shadow>>
vars == <<idreq, busVars, rxVars, txVars, bramVars, sdramVars, rx_gap, history>>

Requests == [addr: {o.addr : o \in Accesses}, wdata: WordOf, wstrb: SUBSET Lane]

ASSUME MiniSocParams ==
  /\ 0 \in Lane /\ 0 \in Byte /\ NoAccess \notin Accesses /\ Accesses \subseteq Requests
  /\ \A o \in Accesses : o.addr \in Nat
  /\ BRAM_BYTES \in Nat /\ SDRAM_BASE \in Nat /\ SDRAM_SIZE \in Nat
  /\ BRAM_BYTES <= SDRAM_BASE /\ SDRAM_BASE % 4 = 0
  /\ Cores \subseteq BOOLEAN /\ Arriving \subseteq Byte
  /\ SDRAM_CYCLES \in Nat /\ IsMmio(UART_DATA) /\ IsMmio(UART_STATUS)

(* Accesses to memory are to words: the byte offset selects lanes.         *)
WordAddr(a) == a - (a % 4)
Stored(w, r) == [l \in Lane |-> IF l \in r.wstrb THEN r.wdata[l] ELSE w[l]]
BramWords  == {WordAddr(o.addr) : o \in {p \in Accesses : IsBram(p.addr)}}
SdramWords == {WordAddr(o.addr) : o \in {p \in Accesses : IsSdram(p.addr)}}
Cleared(words) == [a \in words |-> ZeroData]

Init ==
  /\ idreq \in Cores /\ BusInit /\ RxInit /\ TxInit /\ rx_gap = 0
  /\ bram = Cleared(BramWords) /\ bram_rdata = ZeroData
  /\ sdram = Cleared(SdramWords) /\ sdram_ready = FALSE /\ sdram_req = NoAccess
  /\ sdram_resp_valid = FALSE /\ sdram_rdata = ZeroData /\ sdram_wait = 0
  /\ effects = 0 /\ seen = ZeroData
  /\ shadow = Cleared(BramWords \cup SdramWords)

-----------------------------------------------------------------------------
(* The core.                                                               *)
Halted  == (mem_valid /\ ~mem_ready) \/ (idreq /\ ~ifetch_pending)
Retires == mem_valid /\ ~Halted

CoreClock ==
  IF Halted THEN UNCHANGED op
  ELSE op' \in {NoAccess} \cup {o \in Accesses : mem_valid => idreq /\ <<op, o>> \in Adjacent}

(* The second port of the BRAM acknowledges every other cycle.             *)
IFetchClock == ifetch_pending' = (idreq /\ ~ifetch_pending)

(* The first port works in the cycle the request is latched, a replay too. *)
BramClock ==
  IF start_req /\ IsBram(op.addr)
  THEN /\ bram' = [bram EXCEPT ![WordAddr(op.addr)] = Stored(@, op)]
       /\ bram_rdata' = bram[WordAddr(op.addr)]
  ELSE UNCHANGED bramVars

(* The SDRAM accepts a request raised under ready, answers it once, and    *)
(* withdraws ready for refreshes.                                          *)
SdramAccepts ==
  /\ SdramValid(sdram_ready)
  /\ sdram_req' = req /\ sdram_ready' = FALSE /\ sdram_resp_valid' = FALSE
  /\ sdram_wait' = 0 /\ UNCHANGED <<sdram, sdram_rdata>>
SdramAnswers ==
  /\ sdram_req # NoAccess
  /\ sdram' = [sdram EXCEPT ![WordAddr(sdram_req.addr)] = Stored(@, sdram_req)]
  /\ sdram_rdata' = sdram[WordAddr(sdram_req.addr)]
  /\ sdram_resp_valid' = TRUE /\ sdram_req' = NoAccess /\ sdram_ready' = FALSE
  /\ sdram_wait' = 0
SdramWorks ==
  /\ ~SdramValid(sdram_ready) /\ sdram_wait < SDRAM_CYCLES
  /\ sdram_wait' = IF sdram_ready THEN 0 ELSE sdram_wait + 1
  /\ sdram_ready' = FALSE /\ sdram_resp_valid' = FALSE
  /\ UNCHANGED <<sdram, sdram_req, sdram_rdata>>
SdramOffers ==
  /\ ~SdramValid(sdram_ready) /\ sdram_req = NoAccess
  /\ sdram_ready' = TRUE /\ sdram_resp_valid' = FALSE /\ sdram_wait' = 0
  /\ UNCHANGED <<sdram, sdram_req, sdram_rdata>>
SdramClock == SdramAccepts \/ SdramAnswers \/ SdramWorks \/ SdramOffers

(* A frame ends at least FRAME_CYCLES after the last one.                  *)
LineClock(e) ==
  /\ e # NoByte => rx_gap = 0
  /\ rx_gap' = IF e # NoByte THEN FRAME_CYCLES ELSE IF rx_gap = 0 THEN 0 ELSE rx_gap - 1

(* What the pins carry: the write data of a load is whatever it is.        *)
PinRequests == IF ~mem_valid THEN {} ELSE IF IsStore(op) THEN {op}
               ELSE {[op EXCEPT !.wdata = d] : d \in WordOf}

BusClock(data) ==
  \/ Respond(sdram_resp_valid, data)
  \/ \E r \in PinRequests : Start(r)
  \/ SdramFires(sdram_resp_valid, sdram_ready)
  \/ BusWaits(sdram_resp_valid, sdram_ready)

(* effects counts how often the access on the pins was executed, and seen  *)
(* is what it read then; shadow is the memory as the program has it.       *)
Executes == MmioEffect \/ SdramValid(sdram_ready)
Remember ==
  /\ effects' = IF Retires THEN 0 ELSE IF Executes THEN effects + 1 ELSE effects
  /\ seen' = IF MmioEffect THEN mmio_rdata ELSE seen
  /\ shadow' = IF Retires /\ ~IsMmio(op.addr)
               THEN [shadow EXCEPT ![WordAddr(op.addr)] = Stored(@, op)] ELSE shadow

Tick(e) ==
  /\ UNCHANGED idreq /\ CoreClock /\ IFetchClock /\ BramClock /\ SdramClock /\ LineClock(e)
  /\ BusClock(ResponseData(bram_rdata, sdram_rdata))
  /\ RxClock(e, uart_rx_consume, ClearsFlag(4), ClearsFlag(8))
  /\ TxClock(uart_fire, req.wdata[0])
  /\ Remember

(* The button restarts everything but the memories; a store to the SDRAM   *)
(* that was under way may have been done or not.                           *)
PressReset ==
  /\ UNCHANGED idreq /\ BusReset /\ RxReset /\ TxReset
  /\ rx_gap' = 0 /\ UNCHANGED bramVars
  /\ sdram_ready' = FALSE /\ sdram_req' = NoAccess /\ sdram_resp_valid' = FALSE
  /\ sdram_rdata' = ZeroData /\ sdram_wait' = 0
  /\ \/ UNCHANGED sdram
     \/ /\ sdram_req # NoAccess
        /\ sdram' = [sdram EXCEPT ![WordAddr(sdram_req.addr)] = Stored(@, sdram_req)]
  /\ effects' = 0 /\ seen' = ZeroData
  /\ shadow' = [a \in DOMAIN shadow |-> IF a \in DOMAIN bram THEN bram'[a] ELSE sdram'[a]]

ClockTick == \E e \in {NoByte, BadStop} \cup Arriving : Tick(e)
Next == ClockTick \/ PressReset

Spec == Init /\ [][Next]_vars

(* The clock runs.                                                         *)
FairSpec == Spec /\ WF_vars(ClockTick)

-----------------------------------------------------------------------------
(* However often the core shows a load or store before it moves on, the    *)
(* peripheral or the SDRAM executes it at most once.                       *)
AtMostOnce == effects <= 1

(* mem_ready is the answer to the access that is on the pins, and nobody   *)
(* else's: a remembered, late or doubled response never reaches the next.  *)
AnswersTheAccess == mem_ready => mem_valid /\ Same(op, last_req)

(* Loads and stores of the memories take effect in program order, byte by  *)
(* byte, whether executed, replayed or merged with an equal neighbour.     *)
MemoryInOrder ==
  Retires /\ ~IsMmio(op.addr) =>
    LET a == WordAddr(op.addr)
    IN IF IsStore(op)
       THEN (IF IsBram(op.addr) THEN bram ELSE sdram)[a] = Stored(shadow[a], op)
       ELSE mem_rdata = shadow[a]

(* docs/MEMORY_MAP.md:10, a read of UART DATA reads and consumes one byte: *)
(* what the core gets is the byte it took out of the holding register.     *)
ReturnsWhatItTook ==
  Retires /\ op.addr = UART_DATA /\ ~IsStore(op) => mem_rdata = seen

(* docs/MEMORY_MAP.md:10, a write of UART DATA sends, a read consumes: an  *)
(* access the core leaves behind was executed, and was not taken for a     *)
(* replay of an equal one before it.  PicoRV32, which never meets the      *)
(* replay path, also gets what its read took, whatever the program.        *)
ExecutesEach == /\ Retires /\ IsMmio(op.addr) => effects = 1
                /\ ~idreq => ReturnsWhatItTook

(* The core always moves on: the acknowledges of the two buses, which come *)
(* every other cycle and every few cycles, do meet.                        *)
CoreMovesOn == []<>~Halted
=============================================================================
