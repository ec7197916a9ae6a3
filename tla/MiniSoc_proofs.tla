--------------------------- MODULE MiniSoc_proofs ---------------------------
(***************************************************************************)
(* The replay logic of the bus, for every memory map, program, core, SDRAM *)
(* latency and frame time: an access is executed at most once, an          *)
(* acknowledge is the answer to the access on the pins, and the memories   *)
(* take loads and stores in program order.  For a program that never shows *)
(* the same access to a peripheral twice without a gap, every one of them  *)
(* is executed.                                                            *)
(***************************************************************************)
EXTENDS MiniSoc, TLAPS

BusTypes ==
  /\ op \in Accesses \cup {NoAccess}
  /\ pending \in BOOLEAN /\ req_is_replay \in BOOLEAN /\ sdram_req_sent \in BOOLEAN
  /\ last_req_valid \in BOOLEAN /\ mem_ready \in BOOLEAN

(* While a request is latched the core still shows it, and hears nothing.  *)
Latched == pending => mem_valid /\ ~mem_ready /\ Same(op, req)

(* An acknowledge belongs to the access on the pins and was remembered.    *)
Acknowledged ==
  mem_ready => mem_valid /\ ~pending /\ last_req_valid /\ Same(op, last_req)

(* What stops a second execution: the request is still out at the SDRAM,   *)
(* or it is a replay, or it is remembered and will be one.                 *)
Executed ==
  /\ effects \in {0, 1}
  /\ effects = 1 =>
       /\ mem_valid
       /\ \/ pending /\ ~req_is_replay /\ IsSdram(req.addr) /\ sdram_req_sent
          \/ pending /\ req_is_replay
          \/ ~pending /\ last_req_valid /\ Same(op, last_req)

ReplayInv == BusTypes /\ Latched /\ Acknowledged /\ Executed

-----------------------------------------------------------------------------
(* An address that is MMIO is not SDRAM.                                   *)
LEMMA Decoded == ASSUME NEW a PROVE IsMmio(a) => ~IsSdram(a)
  BY DEF IsMmio

(* What is latched for the access on the pins repeats whatever it repeats, *)
(* because the write data only counts for a store.                         *)
LEMMA PinsRepeat ==
  ASSUME BusTypes, NEW r \in PinRequests
  PROVE  /\ mem_valid /\ Same(op, r)
         /\ \A l : Same(op, l) => Same(r, l)
<1>1. mem_valid
  BY DEF PinRequests
<1>2. op \in Requests
  BY <1>1, MiniSocParams DEF BusTypes, mem_valid
<1>3. op \in [addr: {o.addr : o \in Accesses}, wdata: WordOf, wstrb: SUBSET Lane]
  BY <1>2 DEF Requests
<1>4. CASE IsStore(op)
  BY <1>1, <1>4 DEF PinRequests, Same
<1>5. CASE ~IsStore(op)
  <2>1. PICK d \in WordOf : r = [op EXCEPT !.wdata = d]
    BY <1>1, <1>5 DEF PinRequests
  <2>2. r.addr = op.addr /\ r.wstrb = op.wstrb
    BY <2>1, <1>3
  <2> QED BY <1>1, <1>5, <2>2 DEF Same, IsStore
<1> QED BY <1>4, <1>5

LEMMA ReplayInit == Init => ReplayInv
<1> SUFFICES ASSUME Init PROVE ReplayInv
  OBVIOUS
<1>1. BusTypes
  BY Zenon DEF Init, BusInit, BusTypes
<1>2. Latched /\ Acknowledged
  BY Zenon DEF Init, BusInit, Latched, Acknowledged
<1>3. Executed
  BY SMT DEF Init, Executed
<1> QED BY <1>1, <1>2, <1>3 DEF ReplayInv

(* A reset forgets everything.                                             *)
LEMMA ReplayReset == PressReset => ReplayInv'
<1> SUFFICES ASSUME PressReset PROVE ReplayInv'
  OBVIOUS
<1>1. BusTypes'
  BY Zenon DEF PressReset, BusReset, BusTypes
<1>2. Latched' /\ Acknowledged'
  BY Zenon DEF PressReset, BusReset, Latched, Acknowledged
<1>3. Executed'
  BY SMT DEF PressReset, Executed
<1> QED BY <1>1, <1>2, <1>3 DEF ReplayInv

-----------------------------------------------------------------------------
(* The core keeps an access on its pins until it is acknowledged.          *)
LEMMA CoreHolds ==
  ASSUME BusTypes, CoreClock
  PROVE  /\ op' \in Accesses \cup {NoAccess}
         /\ mem_valid /\ ~Retires => op' = op
<1>1. op' \in Accesses \cup {NoAccess}
  BY DEF BusTypes, CoreClock
<1>2. mem_valid /\ ~Retires => op' = op
  BY DEF CoreClock, Retires
<1> QED BY <1>1, <1>2

(* An access that is executed now was not executed before, and is either a *)
(* request to the SDRAM or the answer of a peripheral.                     *)
LEMMA ExecutesOnce ==
  ASSUME ReplayInv, Executes
  PROVE  effects = 0 /\ pending /\ ~req_is_replay /\ mem_valid
<1>1. pending /\ ~req_is_replay
  BY DEF Executes, MmioEffect, SdramValid, RespondNow
<1>2. IsSdram(req.addr) => ~sdram_req_sent
  BY Decoded DEF Executes, MmioEffect, SdramValid
<1> QED BY <1>1, <1>2 DEF ReplayInv, Latched, Executed

LEMMA RespondKeeps ==
  ASSUME ReplayInv, NEW e, Tick(e), NEW data, Respond(sdram_resp_valid, data)
  PROVE  ReplayInv'
<1>1. pending /\ ~pending' /\ mem_ready' /\ last_req_valid' /\ last_req' = req
      /\ req_is_replay' = req_is_replay /\ sdram_req_sent' = FALSE
  BY DEF Respond, RespondNow
<1>2. mem_valid /\ ~Retires /\ Same(op, req)
  BY <1>1 DEF ReplayInv, Latched, Retires, Halted
<1>3. op' = op
  BY <1>2, CoreHolds DEF Tick, ReplayInv
<1>4. mem_valid' /\ Same(op', last_req')
  BY <1>1, <1>2, <1>3 DEF mem_valid
<1>5. BusTypes'
  BY <1>1, <1>3 DEF ReplayInv, BusTypes, Respond
<1>6. effects' \in {0, 1}
  BY <1>2, ExecutesOnce DEF Tick, Remember, ReplayInv, Executed
<1> QED BY <1>1, <1>4, <1>5, <1>6 DEF ReplayInv, Latched, Acknowledged, Executed, Same

LEMMA StartKeeps ==
  ASSUME ReplayInv, NEW e, Tick(e), NEW r \in PinRequests, Start(r)
  PROVE  ReplayInv'
<1>1. ~pending /\ ~mem_ready /\ mem_valid /\ pending' /\ req' = r /\ ~mem_ready'
      /\ req_is_replay' = (last_req_valid /\ Same(r, last_req))
      /\ last_req' = last_req
  BY DEF Start, NoAnswer, start_req
<1>2. ~Retires
  BY <1>1 DEF Retires, Halted
<1>3. op' = op
  BY <1>1, <1>2, CoreHolds DEF Tick, ReplayInv
<1>4. Same(op, r) /\ (Same(op, last_req) => Same(r, last_req))
  BY PinsRepeat DEF ReplayInv
<1>5. Latched' /\ Acknowledged'
  BY <1>1, <1>3, <1>4 DEF Latched, Acknowledged, mem_valid, Same
<1>6. BusTypes'
  BY <1>1, <1>3 DEF ReplayInv, BusTypes, Start, NoAnswer
<1>7. effects' = effects
  BY <1>1, <1>2, ExecutesOnce DEF Tick, Remember
<1>8. Executed'
  BY <1>1, <1>3, <1>4, <1>7 DEF ReplayInv, Executed, mem_valid
<1> QED BY <1>5, <1>6, <1>8 DEF ReplayInv

LEMMA FiresKeeps ==
  ASSUME ReplayInv, NEW e, Tick(e), SdramFires(sdram_resp_valid, sdram_ready)
  PROVE  ReplayInv'
<1>1. pending /\ mem_valid /\ ~mem_ready /\ ~req_is_replay /\ IsSdram(req.addr)
  BY DEF SdramFires, SdramValid, ReplayInv, Latched
<1>2. pending' = pending /\ req' = req /\ req_is_replay' = req_is_replay
      /\ sdram_req_sent' = TRUE /\ mem_ready' = FALSE /\ last_req' = last_req
  BY DEF SdramFires, NoAnswer, reqRegs
<1>3. ~Retires
  BY <1>1 DEF Retires, Halted
<1>4. op' = op
  BY <1>1, <1>3, CoreHolds DEF Tick, ReplayInv
<1>5. Latched' /\ Acknowledged'
  BY <1>1, <1>2, <1>4 DEF ReplayInv, Latched, Acknowledged, mem_valid, Same
<1>6. BusTypes'
  BY <1>1, <1>2, <1>4 DEF ReplayInv, BusTypes, SdramFires, NoAnswer
<1>7. effects' \in {0, 1}
  BY <1>3, ExecutesOnce DEF Tick, Remember, ReplayInv, Executed
<1>8. Executed'
  BY <1>1, <1>2, <1>4, <1>7 DEF Executed, mem_valid
<1> QED BY <1>5, <1>6, <1>8 DEF ReplayInv

LEMMA WaitsKeeps ==
  ASSUME ReplayInv, NEW e, Tick(e), BusWaits(sdram_resp_valid, sdram_ready)
  PROVE  ReplayInv'
<1>1. pending' = pending /\ req' = req /\ req_is_replay' = req_is_replay
      /\ sdram_req_sent' = sdram_req_sent /\ mem_ready' = FALSE /\ last_req' = last_req
      /\ last_req_valid' = (last_req_valid /\ mem_valid)
  BY DEF BusWaits, NoAnswer, reqRegs
<1>2. Retires => mem_valid /\ mem_ready
  BY DEF Retires, Halted
<1>3. op' \in Accesses \cup {NoAccess} /\ (mem_valid /\ ~Retires => op' = op)
  BY CoreHolds DEF Tick, ReplayInv
<1>4. Latched' /\ Acknowledged'
  BY <1>1, <1>2, <1>3 DEF ReplayInv, Latched, Acknowledged, mem_valid, Same
<1>5. BusTypes'
  BY <1>1, <1>3 DEF ReplayInv, BusTypes
<1>6. ~Executes
  BY Decoded DEF BusWaits, Executes, MmioEffect, RespondNow
<1>7. effects' = IF Retires THEN 0 ELSE effects
  BY <1>6 DEF Tick, Remember
<1>8. CASE Retires
  BY <1>7, <1>8, <1>4, <1>5 DEF ReplayInv, Executed
<1>9. CASE ~Retires
  <2>1. Executed'
    BY <1>1, <1>3, <1>7, <1>9 DEF ReplayInv, Executed, mem_valid, Same
  <2> QED BY <2>1, <1>4, <1>5 DEF ReplayInv
<1> QED BY <1>8, <1>9

-----------------------------------------------------------------------------
(* The replay invariant holds in every reachable state.                    *)
THEOREM ReplayInvariance == Spec => []ReplayInv
<1>1. ReplayInv /\ [Next]_vars => ReplayInv'
  <2> SUFFICES ASSUME ReplayInv, [Next]_vars PROVE ReplayInv'
    OBVIOUS
  <2>1. CASE PressReset
    BY <2>1, ReplayReset
  <2>2. CASE ClockTick
    <3>1. PICK e \in {NoByte, BadStop} \cup Arriving : Tick(e)
      BY <2>2 DEF ClockTick
    <3>2. BusClock(ResponseData(bram_rdata, sdram_rdata))
      BY <3>1 DEF Tick
    <3> QED BY <3>1, <3>2, RespondKeeps, StartKeeps, FiresKeeps, WaitsKeeps DEF BusClock
  <2>3. CASE UNCHANGED vars
    BY <2>3 DEF vars, busVars, reqRegs, lastRegs, outRegs, history, ReplayInv, BusTypes,
                Latched, Acknowledged, Executed, mem_valid, Same
  <2> QED BY <2>1, <2>2, <2>3 DEF Next
<1> QED BY ReplayInit, <1>1, PTL DEF Spec

(* However often a request is shown, it is executed at most once.          *)
THEOREM ExecutedAtMostOnce == Spec => []AtMostOnce
<1>1. ReplayInv => AtMostOnce
  BY DEF ReplayInv, Executed, AtMostOnce
<1> QED BY <1>1, ReplayInvariance, PTL

(* An acknowledge answers the access on the pins.                          *)
THEOREM AcknowledgesTheAccess == Spec => []AnswersTheAccess
<1>1. ReplayInv => AnswersTheAccess
  BY DEF ReplayInv, Acknowledged, AnswersTheAccess
<1> QED BY <1>1, ReplayInvariance, PTL

-----------------------------------------------------------------------------
(* Executed at least once.  The drivers never show the same access to a    *)
(* peripheral twice without a gap: they read the status in between.        *)
NoMmioRepeats == \A p \in Adjacent : Same(p[1], p[2]) => ~IsMmio(p[1].addr)

(* An access to a peripheral that was not executed yet is no replay, was   *)
(* not acknowledged, and is not what the bus remembers.                    *)
Fresh ==
  mem_valid /\ IsMmio(op.addr) /\ effects = 0 =>
    /\ pending => ~req_is_replay
    /\ ~mem_ready
    /\ last_req_valid => ~Same(op, last_req)

(* Without a fetch port the core leaves after each acknowledge, the bus    *)
(* forgets the access in the gap, and nothing is ever a replay.            *)
SinglePort ==
  /\ idreq \in BOOLEAN
  /\ ~idreq => /\ pending => ~req_is_replay
               /\ last_req_valid => mem_ready \/ ~mem_valid
               /\ mem_ready /\ IsMmio(op.addr) => mem_rdata = seen

(* To be the same access is an equivalence.                                *)
LEMMA SameAccess ==
  ASSUME NEW r, NEW l
  PROVE  /\ Same(r, r)
         /\ Same(r, l) => Same(l, r) /\ (IsStore(r) <=> IsStore(l))
         /\ \A k : Same(r, l) /\ Same(l, k) => Same(r, k)
  BY DEF Same, IsStore

LEMMA FreshInit == Init => Fresh /\ SinglePort
  BY MiniSocParams DEF Init, BusInit, Fresh, SinglePort, mem_valid

LEMMA FreshReset == SinglePort /\ PressReset => Fresh' /\ SinglePort'
  BY DEF PressReset, BusReset, Fresh, SinglePort, mem_valid

LEMMA RespondFresh ==
  ASSUME ReplayInv, ReplayInv', Fresh, SinglePort, NEW e, Tick(e),
         Respond(sdram_resp_valid, ResponseData(bram_rdata, sdram_rdata))
  PROVE  Fresh' /\ SinglePort'
<1>1. pending /\ ~pending' /\ mem_ready'
  BY DEF Respond, RespondNow
<1>2. mem_valid /\ ~Retires /\ Same(op, req) /\ op.addr = req.addr
  BY <1>1 DEF ReplayInv, Latched, Retires, Halted, Same
<1>3. op' = op /\ mem_valid'
  BY <1>2, CoreHolds DEF Tick, ReplayInv, mem_valid
<1>4. ASSUME IsMmio(op.addr), ~req_is_replay
      PROVE  MmioEffect /\ mem_rdata' = mmio_rdata
  BY <1>1, <1>2, <1>4 DEF Respond, RespondNow, MmioEffect, ResponseData, IsMmio
<1>5. ASSUME IsMmio(op.addr), effects = 0
      PROVE  effects' # 0
  BY <1>1, <1>2, <1>4, <1>5 DEF Fresh, Tick, Remember, Executes
<1>6. effects = 1 => effects' # 0
  BY <1>2 DEF Tick, Remember
<1>7. Fresh'
  BY <1>3, <1>5, <1>6 DEF ReplayInv, Executed, Fresh
<1>8. ASSUME ~idreq PROVE idreq' = idreq /\ ~req_is_replay
  BY <1>1, <1>8 DEF Tick, SinglePort
<1>9. ASSUME ~idreq, IsMmio(op.addr) PROVE mem_rdata' = seen'
  BY <1>4, <1>8, <1>9 DEF Tick, Remember
<1> QED BY <1>1, <1>3, <1>7, <1>8, <1>9 DEF Tick, SinglePort

LEMMA StartFresh ==
  ASSUME ReplayInv, Fresh, SinglePort, NEW e, Tick(e), NEW r \in PinRequests, Start(r)
  PROVE  Fresh' /\ SinglePort'
<1>1. ~pending /\ ~mem_ready /\ mem_valid /\ pending' /\ ~mem_ready' /\ last_req' = last_req
      /\ req_is_replay' = (last_req_valid /\ Same(r, last_req))
      /\ last_req_valid' = (last_req_valid /\ mem_valid)
  BY DEF Start, NoAnswer, start_req
<1>2. ~Retires
  BY <1>1 DEF Retires, Halted
<1>3. op' = op /\ mem_valid'
  BY <1>1, <1>2, CoreHolds DEF Tick, ReplayInv, mem_valid
<1>4. Same(op, r)
  BY PinsRepeat DEF ReplayInv
<1>5. effects' = effects
  BY <1>1, <1>2, ExecutesOnce DEF Tick, Remember
<1>6. Fresh'
  BY <1>1, <1>3, <1>4, <1>5, SameAccess DEF Fresh
<1>7. SinglePort'
  BY <1>1, <1>3 DEF Tick, SinglePort
<1> QED BY <1>6, <1>7

LEMMA FiresFresh ==
  ASSUME ReplayInv, Fresh, SinglePort, NEW e, Tick(e),
         SdramFires(sdram_resp_valid, sdram_ready)
  PROVE  Fresh' /\ SinglePort'
<1>1. pending /\ mem_valid /\ ~mem_ready /\ ~req_is_replay /\ IsSdram(req.addr)
      /\ op.addr = req.addr
  BY DEF SdramFires, SdramValid, ReplayInv, Latched, Same
<1>2. pending' = pending /\ req_is_replay' = req_is_replay /\ mem_ready' = FALSE
      /\ last_req_valid' = (last_req_valid /\ mem_valid)
  BY DEF SdramFires, NoAnswer, reqRegs
<1>3. op' = op /\ mem_valid'
  BY <1>1, CoreHolds DEF Tick, ReplayInv, mem_valid, Retires, Halted
<1> QED BY <1>1, <1>2, <1>3, Decoded DEF Tick, Fresh, SinglePort

(* The next access may follow at once, but never repeats one to a          *)
(* peripheral; after a gap the bus has forgotten what it remembered.       *)
LEMMA WaitsFresh ==
  ASSUME NoMmioRepeats, ReplayInv, Fresh, SinglePort, NEW e, Tick(e),
         BusWaits(sdram_resp_valid, sdram_ready)
  PROVE  Fresh' /\ SinglePort'
<1>1. pending' = pending /\ req' = req /\ req_is_replay' = req_is_replay
      /\ mem_ready' = FALSE /\ last_req' = last_req
      /\ last_req_valid' = (last_req_valid /\ mem_valid)
  BY DEF BusWaits, NoAnswer, reqRegs
<1>2. Retires => mem_valid /\ mem_ready
  BY DEF Retires, Halted
<1>3. op' \in Accesses \cup {NoAccess} /\ (mem_valid /\ ~Retires => op' = op)
  BY CoreHolds DEF Tick, ReplayInv
<1>4. effects' = IF Retires THEN 0 ELSE effects
  BY Decoded DEF BusWaits, Executes, MmioEffect, RespondNow, Tick, Remember
<1>5. Fresh'
  <2>1. CASE ~mem_valid
    BY <1>1, <2>1 DEF ReplayInv, Latched, Fresh
  <2>2. CASE mem_valid /\ ~Retires
    BY <1>1, <1>3, <1>4, <2>2 DEF Fresh, mem_valid
  <2>3. CASE Retires
    <3>1. ~pending /\ Same(op, last_req)
      BY <1>2, <2>3 DEF ReplayInv, Acknowledged
    <3>2. op' = NoAccess \/ <<op, op'>> \in Adjacent
      BY <1>2, <2>3 DEF Tick, CoreClock, Retires
    <3>3. ASSUME mem_valid', IsMmio(op'.addr), Same(op', last_req)
          PROVE  FALSE
      <4>1. Same(op, op')
        BY <3>1, <3>3, SameAccess
      <4>2. <<op, op'>> \in Adjacent
        BY <3>2, <3>3 DEF mem_valid
      <4>3. ~IsMmio(op.addr)
        BY <4>1, <4>2 DEF NoMmioRepeats
      <4> QED BY <3>3, <4>1, <4>3 DEF Same
    <3> QED BY <1>1, <3>1, <3>3 DEF Fresh
  <2> QED BY <2>1, <2>2, <2>3
<1>6. SinglePort'
  <2> SUFFICES ASSUME ~idreq PROVE SinglePort'
    BY DEF Tick, SinglePort
  <2>1. ASSUME last_req_valid' PROVE ~mem_valid'
    <3>1. mem_valid /\ mem_ready
      BY <1>1, <2>1 DEF SinglePort
    <3>2. Retires
      BY <3>1 DEF Retires, Halted
    <3> QED BY <3>1, <3>2 DEF Tick, CoreClock, Retires, mem_valid
  <2> QED BY <1>1, <2>1 DEF Tick, SinglePort
<1> QED BY <1>5, <1>6

THEOREM FreshInvariance ==
  ASSUME NoMmioRepeats
  PROVE  Spec => [](ReplayInv /\ Fresh /\ SinglePort)
<1>1. ReplayInv /\ ReplayInv' /\ Fresh /\ SinglePort /\ [Next]_vars => Fresh' /\ SinglePort'
  <2> SUFFICES ASSUME ReplayInv, ReplayInv', Fresh, SinglePort, [Next]_vars
               PROVE  Fresh' /\ SinglePort'
    OBVIOUS
  <2>1. CASE PressReset
    BY <2>1, FreshReset
  <2>2. CASE ClockTick
    <3>1. PICK e \in {NoByte, BadStop} \cup Arriving : Tick(e)
      BY <2>2 DEF ClockTick
    <3>2. BusClock(ResponseData(bram_rdata, sdram_rdata))
      BY <3>1 DEF Tick
    <3> QED BY <3>1, <3>2, NoMmioRepeats, RespondFresh, StartFresh, FiresFresh, WaitsFresh
            DEF BusClock
  <2>3. CASE UNCHANGED vars
    BY <2>3 DEF vars, busVars, reqRegs, lastRegs, outRegs, history, Fresh, SinglePort,
                mem_valid, Same
  <2> QED BY <2>1, <2>2, <2>3 DEF Next
<1> QED BY FreshInit, ReplayInvariance, <1>1, PTL DEF Spec

(* Every access to a peripheral that the core leaves behind was executed,  *)
(* and a core without a fetch port gets what its read took.                *)
THEOREM ExecutedEach ==
  ASSUME NoMmioRepeats
  PROVE  Spec => []ExecutesEach
<1>1. ReplayInv /\ Fresh /\ SinglePort => ExecutesEach
  <2> SUFFICES ASSUME ReplayInv, Fresh, SinglePort PROVE ExecutesEach
    OBVIOUS
  <2>1. Retires => mem_valid /\ mem_ready
    BY DEF Retires, Halted
  <2>2. op.addr = UART_DATA => IsMmio(op.addr)
    BY MiniSocParams
  <2> QED BY <2>1, <2>2 DEF ReplayInv, Executed, Fresh, SinglePort, ExecutesEach,
             ReturnsWhatItTook
<1>2. Spec => [](ReplayInv /\ Fresh /\ SinglePort)
  BY FreshInvariance, NoMmioRepeats
<1> QED BY <1>1, <1>2, PTL

-----------------------------------------------------------------------------
(* Memory in program order.                                                *)
MemTypes ==
  /\ bram \in [BramWords -> WordOf] /\ sdram \in [SdramWords -> WordOf]
  /\ shadow \in [BramWords \cup SdramWords -> WordOf]
  /\ sdram_resp_valid \in BOOLEAN

(* What the SDRAM was asked is what is latched; it answers nothing else.   *)
Out == pending /\ sdram_req_sent /\ ~req_is_replay /\ IsSdram(req.addr)
SdramPort ==
  /\ sdram_req # NoAccess => Out /\ sdram_req = req /\ ~sdram_resp_valid
  /\ sdram_resp_valid => Out
  /\ pending /\ req_is_replay => last_req_valid /\ Same(req, last_req)

(* A memory is ahead of the program by at most the access on the pins, and *)
(* has it from the moment that access is as good as answered.              *)
Ahead(memory, words, mine) ==
  \A a \in words :
    \/ memory[a] = shadow[a]
    \/ mem_valid /\ mine /\ a = WordAddr(op.addr) /\ memory[a] = Stored(shadow[a], op)

OpDone(memory) ==
  LET a == WordAddr(op.addr)
  IN /\ memory[a] = Stored(shadow[a], op)
     /\ mem_ready /\ ~IsStore(op) => mem_rdata = shadow[a]

BramInOrder ==
  /\ Ahead(bram, BramWords, IsBram(op.addr))
  /\ mem_valid /\ IsBram(op.addr) /\ (pending \/ mem_ready) =>
       /\ OpDone(bram)
       /\ pending /\ ~IsStore(op) => bram_rdata = shadow[WordAddr(op.addr)]

SdramInOrder ==
  /\ Ahead(sdram, SdramWords, IsSdram(op.addr))
  /\ mem_valid /\ IsSdram(op.addr)
     /\ (sdram_resp_valid \/ mem_ready \/ (pending /\ req_is_replay)) =>
       /\ OpDone(sdram)
       /\ sdram_resp_valid /\ ~IsStore(op) => sdram_rdata = shadow[WordAddr(op.addr)]

(* What the bus remembers of the SDRAM is still so, until the next access  *)
(* is really sent there.                                                   *)
Remembered ==
  last_req_valid /\ IsSdram(last_req.addr) /\ (pending => req_is_replay) =>
    LET a == WordAddr(last_req.addr)
    IN /\ a \in SdramWords
       /\ sdram[a] = Stored(sdram[a], last_req)
       /\ ~IsStore(last_req) => last_req_rdata = sdram[a]

MemoryInv ==
  ReplayInv /\ MemTypes /\ SdramPort /\ BramInOrder /\ SdramInOrder /\ Remembered

-----------------------------------------------------------------------------
(* Storing an access twice is storing it once, and a load stores nothing.  *)
LEMMA StoredTwice ==
  ASSUME NEW w \in WordOf, NEW r \in Requests
  PROVE  /\ Stored(w, r) \in WordOf
         /\ Stored(Stored(w, r), r) = Stored(w, r)
         /\ ~IsStore(r) => Stored(w, r) = w
<1>1. r.wdata \in [Lane -> Byte] /\ r.wstrb \subseteq Lane /\ w \in [Lane -> Byte]
  BY DEF Requests, WordOf
<1>2. Stored(w, r) \in WordOf
  BY <1>1 DEF Stored, WordOf
<1>3. Stored(Stored(w, r), r) = Stored(w, r)
  BY DEF Stored
<1>4. ASSUME ~IsStore(r) PROVE Stored(w, r) = w
  BY <1>1, <1>4 DEF Stored, IsStore
<1> QED BY <1>2, <1>3, <1>4

LEMMA StoredSame ==
  ASSUME NEW w, NEW r, NEW l, Same(r, l)
  PROVE  Stored(w, r) = Stored(w, l) /\ WordAddr(r.addr) = WordAddr(l.addr)
<1>1. r.addr = l.addr /\ r.wstrb = l.wstrb
  BY DEF Same
<1>2. \A i \in Lane : (IF i \in r.wstrb THEN r.wdata[i] ELSE w[i])
                      = (IF i \in l.wstrb THEN l.wdata[i] ELSE w[i])
  BY DEF Same, IsStore
<1> QED BY <1>1, <1>2 DEF Stored

(* The two memories are disjoint, and every access has its word.           *)
LEMMA WordsApart ==
  /\ BramWords \cap SdramWords = {}
  /\ \A o \in Accesses : /\ IsBram(o.addr) => WordAddr(o.addr) \in BramWords
                         /\ IsSdram(o.addr) => WordAddr(o.addr) \in SdramWords
                         /\ ~(IsBram(o.addr) /\ IsSdram(o.addr))
<1>1. ASSUME NEW o \in Accesses, IsBram(o.addr) PROVE WordAddr(o.addr) < BRAM_BYTES
  BY <1>1, MiniSocParams DEF IsBram, WordAddr
<1>2. ASSUME NEW o \in Accesses, IsSdram(o.addr) PROVE WordAddr(o.addr) >= SDRAM_BASE
  <2>1. o.addr \in Nat /\ SDRAM_BASE \in Nat /\ SDRAM_BASE % 4 = 0 /\ o.addr >= SDRAM_BASE
    BY <1>2, MiniSocParams DEF IsSdram
  <2> QED BY <2>1 DEF WordAddr
<1>3. ASSUME NEW o \in Accesses PROVE WordAddr(o.addr) \in Int
  BY <1>3, MiniSocParams DEF WordAddr
<1>4. BramWords \cap SdramWords = {}
  <2> SUFFICES ASSUME NEW a \in BramWords, a \in SdramWords PROVE FALSE
    OBVIOUS
  <2>1. a \in Int /\ a < BRAM_BYTES
    BY <1>1, <1>3 DEF BramWords
  <2>2. a >= SDRAM_BASE
    BY <1>2 DEF SdramWords
  <2> QED BY <2>1, <2>2, MiniSocParams
<1>5. ASSUME NEW o \in Accesses PROVE ~(IsBram(o.addr) /\ IsSdram(o.addr))
  BY MiniSocParams DEF IsBram, IsSdram
<1> QED BY <1>4, <1>5 DEF BramWords, SdramWords

LEMMA MemoryInit == Init => MemoryInv
<1> SUFFICES ASSUME Init PROVE MemoryInv
  OBVIOUS
<1>1. ReplayInv /\ ~mem_valid /\ ~pending /\ ~last_req_valid /\ ~sdram_resp_valid
      /\ sdram_req = NoAccess
  BY ReplayInit DEF Init, BusInit, mem_valid
<1>2. ZeroData \in WordOf
  BY MiniSocParams DEF ZeroData, WordOf
<1>3. MemTypes
  BY <1>2 DEF Init, MemTypes, Cleared
<1>4. BramInOrder /\ SdramInOrder
  BY <1>1 DEF Init, Cleared, BramInOrder, SdramInOrder, Ahead
<1> QED BY <1>1, <1>3, <1>4 DEF MemoryInv, SdramPort, Remembered

(* A reset leaves the memories, and the program starts over with them.     *)
LEMMA MemoryReset == MemoryInv /\ PressReset => MemoryInv'
<1> SUFFICES ASSUME MemoryInv, PressReset PROVE MemoryInv'
  OBVIOUS
<1>1. ReplayInv' /\ ~mem_valid' /\ ~pending' /\ ~last_req_valid' /\ sdram_resp_valid' = FALSE
      /\ sdram_req' = NoAccess /\ bram' = bram
  BY ReplayReset DEF PressReset, BusReset, mem_valid, bramVars
<1>2. sdram' \in [SdramWords -> WordOf]
  <2>1. CASE UNCHANGED sdram
    BY <2>1 DEF MemoryInv, MemTypes
  <2>2. CASE sdram_req # NoAccess
             /\ sdram' = [sdram EXCEPT ![WordAddr(sdram_req.addr)] = Stored(@, sdram_req)]
    <3>1. Same(op, sdram_req) /\ mem_valid
      BY <2>2 DEF MemoryInv, SdramPort, Out, ReplayInv, Latched
    <3>2. op \in Requests
      BY <3>1, MiniSocParams DEF MemoryInv, ReplayInv, BusTypes, mem_valid
    <3>3. \A w \in WordOf : Stored(w, sdram_req) \in WordOf
      BY <3>1, <3>2, StoredTwice, StoredSame
    <3> QED BY <2>2, <3>3 DEF MemoryInv, MemTypes
  <2> QED BY <2>1, <2>2 DEF PressReset
<1>3. DOMAIN shadow = BramWords \cup SdramWords /\ DOMAIN bram = BramWords
  BY DEF MemoryInv, MemTypes
<1>4. shadow' = [a \in BramWords \cup SdramWords |-> IF a \in BramWords THEN bram'[a] ELSE sdram'[a]]
  BY <1>3 DEF PressReset
<1>5. MemTypes'
  BY <1>1, <1>2, <1>4 DEF MemoryInv, MemTypes
<1>6. BramInOrder' /\ SdramInOrder'
  BY <1>1, <1>4, WordsApart DEF BramInOrder, SdramInOrder, Ahead
<1> QED BY <1>1, <1>5, <1>6 DEF MemoryInv, SdramPort, Remembered

-----------------------------------------------------------------------------
(* The access on the pins: its word is in the memory it addresses.         *)
LEMMA OnPins ==
  ASSUME BusTypes, mem_valid
  PROVE  /\ op \in Accesses /\ op \in Requests
         /\ IsBram(op.addr) => WordAddr(op.addr) \in BramWords
         /\ IsSdram(op.addr) => WordAddr(op.addr) \in SdramWords
         /\ ~(IsBram(op.addr) /\ IsSdram(op.addr))
<1>1. op \in Accesses
  BY DEF BusTypes, mem_valid
<1> QED BY <1>1, WordsApart, MiniSocParams

LEMMA SdramQuiet ==
  ASSUME SdramClock, ~SdramValid(sdram_ready), sdram_req = NoAccess
  PROVE  /\ sdram' = sdram /\ sdram_req' = NoAccess /\ sdram_rdata' = sdram_rdata
         /\ sdram_resp_valid' = FALSE
  BY DEF SdramClock, SdramAccepts, SdramAnswers, SdramWorks, SdramOffers

LEMMA RespondStep ==
  ASSUME MemoryInv, NEW e, Tick(e),
         Respond(sdram_resp_valid, ResponseData(bram_rdata, sdram_rdata))
  PROVE  /\ pending /\ ~pending' /\ mem_ready' = TRUE /\ last_req_valid' = TRUE /\ last_req' = req
         /\ mem_valid /\ ~mem_ready /\ Same(op, req) /\ op.addr = req.addr
         /\ op' = op /\ mem_valid' /\ shadow' = shadow /\ bram' = bram
         /\ IsSdram(op.addr) => req_is_replay \/ sdram_resp_valid
         /\ sdram' = sdram /\ sdram_req' = NoAccess /\ sdram_resp_valid' = FALSE
<1>1. pending /\ ~pending' /\ mem_ready' = TRUE /\ last_req_valid' = TRUE /\ last_req' = req
  BY DEF Respond, RespondNow
<1>2. mem_valid /\ ~mem_ready /\ ~Retires /\ Same(op, req) /\ op.addr = req.addr /\ BusTypes
  BY <1>1 DEF MemoryInv, ReplayInv, Latched, Retires, Halted, Same
<1>3. op' = op /\ mem_valid' /\ shadow' = shadow
  BY <1>2, CoreHolds DEF Tick, Remember, mem_valid
<1>4. bram' = bram
  BY <1>1 DEF Tick, BramClock, bramVars, start_req
<1>5. IsSdram(op.addr) => req_is_replay \/ sdram_resp_valid
  BY <1>2, OnPins DEF Respond, RespondNow, IsMmio
<1>6. sdram_req = NoAccess /\ ~SdramValid(sdram_ready)
  BY <1>2, <1>5 DEF MemoryInv, SdramPort, Out, SdramValid
<1>7. sdram' = sdram /\ sdram_req' = NoAccess /\ sdram_resp_valid' = FALSE
  BY <1>6, SdramQuiet DEF Tick
<1> QED BY <1>1, <1>2, <1>3, <1>4, <1>5, <1>7

(* The answer: what the memory had when the access was executed, or what   *)
(* is remembered of the same access.                                       *)
LEMMA RespondData ==
  ASSUME MemoryInv, NEW e, Tick(e),
         Respond(sdram_resp_valid, ResponseData(bram_rdata, sdram_rdata))
  PROVE  /\ IsBram(op.addr) => OpDone(bram)'
         /\ IsSdram(op.addr) => OpDone(sdram)'
         /\ IsSdram(op.addr) /\ ~IsStore(op) =>
              last_req_rdata' = sdram[WordAddr(op.addr)]
<1> DEFINE a == WordAddr(op.addr)
<1>1. pending /\ mem_valid /\ Same(op, req) /\ op.addr = req.addr /\ op' = op
      /\ shadow' = shadow /\ bram' = bram /\ sdram' = sdram
      /\ (IsSdram(op.addr) => req_is_replay \/ sdram_resp_valid)
  BY RespondStep
<1>2. op \in Requests /\ ~(IsBram(op.addr) /\ IsSdram(op.addr)) /\ BusTypes
  BY <1>1, OnPins DEF MemoryInv, ReplayInv
<1>3. mem_rdata' = ResponseData(bram_rdata, sdram_rdata)
      /\ last_req_rdata' = IF req_is_replay THEN last_req_rdata ELSE mem_rdata'
  BY DEF Respond
<1>4. CASE IsBram(op.addr)
  <2>1. mem_rdata' = bram_rdata
    BY <1>1, <1>2, <1>3, <1>4 DEF ResponseData
  <2>2. bram[a] = Stored(shadow[a], op) /\ (~IsStore(op) => bram_rdata = shadow[a])
    BY <1>1, <1>4 DEF MemoryInv, BramInOrder, OpDone
  <2> QED BY <1>1, <1>2, <1>4, <2>1, <2>2 DEF OpDone
<1>5. CASE IsSdram(op.addr)
  <2>1. sdram[a] = Stored(shadow[a], op)
    BY <1>1, <1>5 DEF MemoryInv, SdramInOrder, OpDone
  <2>2. ASSUME ~IsStore(op) PROVE sdram[a] = shadow[a]
    <3>1. shadow[a] \in WordOf
      BY <1>1, <1>5, OnPins DEF MemoryInv, ReplayInv, MemTypes
    <3> QED BY <2>1, <2>2, <3>1, <1>2, StoredTwice
  <2>3. ASSUME ~IsStore(op), req_is_replay PROVE last_req_rdata = sdram[a]
    <3>1. last_req_valid /\ Same(req, last_req)
      BY <1>1, <2>3 DEF MemoryInv, SdramPort
    <3>2. last_req.addr = op.addr /\ ~IsStore(last_req)
      BY <1>1, <2>3, <3>1 DEF Same, IsStore
    <3> QED BY <1>5, <2>3, <3>1, <3>2 DEF MemoryInv, Remembered
  <2>4. ASSUME ~IsStore(op), ~req_is_replay PROVE sdram_rdata = shadow[a]
    BY <1>1, <1>5, <2>4 DEF MemoryInv, SdramInOrder
  <2>5. mem_rdata' = IF req_is_replay THEN last_req_rdata ELSE sdram_rdata
    BY <1>1, <1>2, <1>3, <1>5 DEF ResponseData
  <2>6. ASSUME ~IsStore(op) PROVE mem_rdata' = shadow[a] /\ last_req_rdata' = sdram[a]
    BY <1>3, <2>2, <2>3, <2>4, <2>5, <2>6
  <2> QED BY <1>1, <1>2, <1>5, <2>1, <2>6 DEF OpDone
<1> QED BY <1>4, <1>5

LEMMA RespondMemory ==
  ASSUME MemoryInv, NEW e, Tick(e),
         Respond(sdram_resp_valid, ResponseData(bram_rdata, sdram_rdata))
  PROVE  MemTypes' /\ SdramPort' /\ BramInOrder' /\ SdramInOrder' /\ Remembered'
<1> DEFINE a == WordAddr(op.addr)
<1>1. /\ pending /\ ~pending' /\ mem_ready' = TRUE /\ last_req_valid' = TRUE /\ last_req' = req
      /\ mem_valid /\ ~mem_ready /\ Same(op, req) /\ op.addr = req.addr
      /\ op' = op /\ mem_valid' /\ shadow' = shadow /\ bram' = bram
      /\ IsSdram(op.addr) => req_is_replay \/ sdram_resp_valid
      /\ sdram' = sdram /\ sdram_req' = NoAccess /\ sdram_resp_valid' = FALSE
  BY RespondStep
<1>2. MemTypes' /\ SdramPort'
  BY <1>1 DEF MemoryInv, MemTypes, SdramPort
<1>3. /\ IsBram(op.addr) => OpDone(bram)'
      /\ IsSdram(op.addr) => OpDone(sdram)'
      /\ IsSdram(op.addr) /\ ~IsStore(op) => last_req_rdata' = sdram[a]
  BY RespondData
<1>4. BramInOrder'
  BY <1>1, <1>3 DEF MemoryInv, BramInOrder, Ahead
<1>5. SdramInOrder'
  BY <1>1, <1>3 DEF MemoryInv, SdramInOrder, Ahead
<1>6. Remembered'
  <2> SUFFICES ASSUME IsSdram(op.addr)
               PROVE  /\ a \in SdramWords /\ sdram[a] = Stored(sdram[a], req)
                      /\ ~IsStore(req) => last_req_rdata' = sdram[a]
    BY <1>1 DEF Remembered
  <2>1. a \in SdramWords /\ op \in Requests
    BY <1>1, OnPins DEF MemoryInv, ReplayInv
  <2>2. shadow[a] \in WordOf /\ sdram[a] = Stored(shadow[a], op)
    BY <1>1, <1>3, <2>1 DEF MemoryInv, MemTypes, OpDone
  <2>3. Stored(sdram[a], op) = sdram[a]
    BY <2>1, <2>2, StoredTwice
  <2> QED BY <1>1, <1>3, <2>1, <2>3, StoredSame, SameAccess
<1> QED BY <1>2, <1>4, <1>5, <1>6

LEMMA StartMemory ==
  ASSUME MemoryInv, NEW e, Tick(e), NEW r \in PinRequests, Start(r)
  PROVE  MemTypes' /\ SdramPort' /\ BramInOrder' /\ SdramInOrder' /\ Remembered'
<1> DEFINE a == WordAddr(op.addr)
<1>1. /\ ~pending /\ ~mem_ready /\ mem_valid /\ pending' /\ req' = r /\ ~mem_ready'
      /\ req_is_replay' = (last_req_valid /\ Same(r, last_req))
      /\ last_req_valid' = (last_req_valid /\ mem_valid) /\ last_req' = last_req
      /\ last_req_rdata' = last_req_rdata
  BY DEF Start, NoAnswer, start_req
<1>2. BusTypes /\ ~Retires
  BY <1>1 DEF MemoryInv, ReplayInv, Retires, Halted
<1>3. op' = op /\ mem_valid' /\ shadow' = shadow
  BY <1>1, <1>2, CoreHolds DEF Tick, Remember, mem_valid
<1>4. /\ op \in Requests
      /\ IsBram(op.addr) => a \in BramWords
      /\ IsSdram(op.addr) => a \in SdramWords
      /\ ~(IsBram(op.addr) /\ IsSdram(op.addr))
  BY <1>1, <1>2, OnPins
<1>5. sdram_req = NoAccess /\ ~SdramValid(sdram_ready)
  BY <1>1 DEF MemoryInv, SdramPort, Out, SdramValid
<1>6. sdram' = sdram /\ sdram_req' = NoAccess /\ sdram_resp_valid' = FALSE
  BY <1>5, SdramQuiet DEF Tick
<1>7. Same(op, r)
  BY <1>2, PinsRepeat
<1>8. SdramPort'
  BY <1>1, <1>6 DEF SdramPort
<1>9. MemTypes' /\ BramInOrder'
  <2>1. CASE IsBram(op.addr)
    <3>1. /\ bram' = [bram EXCEPT ![a] = Stored(@, op)]
          /\ bram_rdata' = bram[a]
      BY <1>1, <2>1 DEF Tick, BramClock, start_req
    <3>2. bram[a] \in WordOf /\ shadow[a] \in WordOf
      BY <1>4, <2>1 DEF MemoryInv, MemTypes
    <3>3. MemTypes'
      BY <1>3, <1>4, <1>6, <3>1, <3>2, StoredTwice DEF MemoryInv, MemTypes
    <3>4. bram[a] = shadow[a] \/ bram[a] = Stored(shadow[a], op)
      BY <1>4, <2>1 DEF MemoryInv, BramInOrder, Ahead
    <3>5. bram'[a] = Stored(shadow[a], op) /\ (~IsStore(op) => bram[a] = shadow[a])
      BY <1>4, <2>1, <3>1, <3>2, <3>4, StoredTwice DEF MemoryInv, MemTypes
    <3>6. \A b \in BramWords : b # a => bram'[b] = shadow[b]
      BY <3>1 DEF MemoryInv, MemTypes, BramInOrder, Ahead
    <3> QED BY <1>1, <1>3, <2>1, <3>1, <3>3, <3>5, <3>6 DEF BramInOrder, Ahead, OpDone
  <2>2. CASE ~IsBram(op.addr)
    <3>1. bram' = bram
      BY <2>2 DEF Tick, BramClock, bramVars
    <3> QED BY <1>3, <1>6, <2>2, <3>1 DEF MemoryInv, MemTypes, BramInOrder, Ahead
  <2> QED BY <2>1, <2>2
<1>10. SdramInOrder'
  <2>1. Ahead(sdram, SdramWords, IsSdram(op.addr))'
    BY <1>1, <1>3, <1>6 DEF MemoryInv, SdramInOrder, Ahead
  <2>2. ASSUME IsSdram(op.addr), req_is_replay'
        PROVE  sdram[a] = Stored(shadow[a], op)
    <3>1. last_req_valid /\ Same(r, last_req)
      BY <1>1, <2>2
    <3>2. Same(op, last_req) /\ last_req.addr = op.addr
      BY <1>7, <3>1, SameAccess DEF Same
    <3>3. sdram[a] = Stored(sdram[a], op)
      BY <1>1, <2>2, <3>1, <3>2, StoredSame DEF MemoryInv, Remembered
    <3>4. sdram[a] = shadow[a] \/ sdram[a] = Stored(shadow[a], op)
      BY <1>4, <2>2 DEF MemoryInv, SdramInOrder, Ahead
    <3> QED BY <3>3, <3>4
  <2> QED BY <1>1, <1>3, <1>6, <2>1, <2>2 DEF SdramInOrder, OpDone
<1>11. Remembered'
  BY <1>1, <1>6 DEF MemoryInv, Remembered
<1> QED BY <1>8, <1>9, <1>10, <1>11

LEMMA FiresMemory ==
  ASSUME MemoryInv, NEW e, Tick(e), SdramFires(sdram_resp_valid, sdram_ready)
  PROVE  MemTypes' /\ SdramPort' /\ BramInOrder' /\ SdramInOrder' /\ Remembered'
<1>1. pending /\ mem_valid /\ ~mem_ready /\ ~req_is_replay /\ IsSdram(req.addr)
      /\ op.addr = req.addr /\ ~sdram_req_sent /\ SdramValid(sdram_ready) /\ BusTypes
  BY DEF SdramFires, SdramValid, MemoryInv, ReplayInv, Latched, Same
<1>2. pending' = pending /\ req' = req /\ req_is_replay' = req_is_replay
      /\ sdram_req_sent' = TRUE /\ mem_ready' = FALSE
  BY DEF SdramFires, NoAnswer, reqRegs
<1>3. op' = op /\ shadow' = shadow /\ bram' = bram
  BY <1>1, CoreHolds DEF Tick, Remember, Retires, Halted, BramClock, bramVars, start_req
<1>4. sdram_req = NoAccess
  BY <1>1 DEF MemoryInv, SdramPort, Out
<1>5. sdram' = sdram /\ sdram_req' = req /\ sdram_resp_valid' = FALSE
  BY <1>1, <1>4 DEF Tick, SdramClock, SdramAccepts, SdramAnswers, SdramWorks, SdramOffers
<1>6. MemTypes' /\ SdramPort' /\ Remembered'
  BY <1>1, <1>2, <1>3, <1>5 DEF MemoryInv, MemTypes, SdramPort, Out, Remembered
<1>7. BramInOrder'
  BY <1>1, <1>2, <1>3, OnPins DEF MemoryInv, BramInOrder, Ahead, mem_valid
<1>8. SdramInOrder'
  BY <1>1, <1>2, <1>3, <1>5 DEF MemoryInv, SdramInOrder, Ahead, mem_valid
<1> QED BY <1>6, <1>7, <1>8

(* The SDRAM works on what is latched, or answers it.                      *)
LEMMA PendingMemory ==
  ASSUME MemoryInv, NEW e, Tick(e), BusWaits(sdram_resp_valid, sdram_ready), pending
  PROVE  MemTypes' /\ SdramPort' /\ BramInOrder' /\ SdramInOrder' /\ Remembered'
<1> DEFINE a == WordAddr(op.addr)
<1>1. pending' = pending /\ req' = req /\ req_is_replay' = req_is_replay
      /\ sdram_req_sent' = sdram_req_sent /\ mem_ready' = FALSE /\ last_req' = last_req
      /\ last_req_valid' = (last_req_valid /\ mem_valid)
      /\ last_req_rdata' = last_req_rdata /\ ~SdramValid(sdram_ready)
  BY DEF BusWaits, NoAnswer, reqRegs
<1>2. mem_valid /\ ~mem_ready /\ Same(op, req) /\ op.addr = req.addr /\ BusTypes
  BY DEF MemoryInv, ReplayInv, Latched, Same
<1>3. op' = op /\ mem_valid' /\ shadow' = shadow /\ bram' = bram /\ bram_rdata' = bram_rdata
  BY <1>2, CoreHolds DEF Tick, Remember, Retires, Halted, BramClock, bramVars, start_req, mem_valid
<1>4. BramInOrder'
  BY <1>1, <1>2, <1>3 DEF MemoryInv, BramInOrder, Ahead, OpDone
<1>5. CASE SdramAnswers
  <2>1. Out /\ sdram_req = req
    BY <1>5 DEF SdramAnswers, MemoryInv, SdramPort
  <2>2. op \in Requests /\ a \in SdramWords /\ IsSdram(op.addr)
    BY <1>2, <2>1, OnPins DEF Out
  <2>3. sdram[a] \in WordOf /\ shadow[a] \in WordOf
    BY <2>2 DEF MemoryInv, MemTypes
  <2>4. Stored(sdram[a], req) = Stored(sdram[a], op)
    BY <1>2, StoredSame
  <2>5. /\ sdram' = [sdram EXCEPT ![a] = Stored(sdram[a], op)]
        /\ sdram_rdata' = sdram[a] /\ sdram_resp_valid' = TRUE /\ sdram_req' = NoAccess
    BY <1>2, <1>5, <2>1, <2>4 DEF SdramAnswers
  <2>6. sdram[a] = shadow[a] \/ sdram[a] = Stored(shadow[a], op)
    BY <2>2 DEF MemoryInv, SdramInOrder, Ahead
  <2>7. sdram'[a] = Stored(shadow[a], op) /\ (~IsStore(op) => sdram_rdata' = shadow[a])
    BY <2>2, <2>3, <2>5, <2>6, StoredTwice DEF MemoryInv, MemTypes
  <2>8. MemTypes'
    BY <1>3, <2>2, <2>3, <2>5, StoredTwice DEF MemoryInv, MemTypes
  <2>9. SdramPort' /\ Remembered'
    BY <1>1, <1>2, <2>1, <2>5 DEF MemoryInv, SdramPort, Out, Remembered
  <2>10. \A b \in SdramWords : b # a => sdram'[b] = shadow[b]
    BY <2>5 DEF MemoryInv, MemTypes, SdramInOrder, Ahead
  <2>11. SdramInOrder'
    BY <1>1, <1>3, <2>2, <2>7, <2>10 DEF SdramInOrder, Ahead, OpDone
  <2> QED BY <1>4, <2>8, <2>9, <2>11
<1>6. CASE ~SdramAnswers
  <2>1. sdram' = sdram /\ sdram_req' = sdram_req /\ sdram_resp_valid' = FALSE
    BY <1>1, <1>6 DEF Tick, SdramClock, SdramAccepts, SdramWorks, SdramOffers
  <2>2. MemTypes' /\ SdramPort' /\ Remembered'
    BY <1>1, <1>2, <1>3, <2>1 DEF MemoryInv, MemTypes, SdramPort, Out, Remembered
  <2>3. SdramInOrder'
    BY <1>1, <1>2, <1>3, <2>1 DEF MemoryInv, SdramInOrder, Ahead, OpDone
  <2> QED BY <1>4, <2>2, <2>3
<1> QED BY <1>5, <1>6

(* Between two requests: the access that retires enters the program's      *)
(* memory, and was already in the real one.                                *)
LEMMA IdleMemory ==
  ASSUME MemoryInv, NEW e, Tick(e), BusWaits(sdram_resp_valid, sdram_ready), ~pending
  PROVE  MemTypes' /\ SdramPort' /\ BramInOrder' /\ SdramInOrder' /\ Remembered'
<1> DEFINE a == WordAddr(op.addr)
<1>1. pending' = pending /\ mem_ready' = FALSE /\ last_req' = last_req
      /\ last_req_valid' = (last_req_valid /\ mem_valid)
      /\ last_req_rdata' = last_req_rdata /\ ~SdramValid(sdram_ready) /\ ~start_req
  BY DEF BusWaits, NoAnswer, reqRegs
<1>2. sdram_req = NoAccess
  BY DEF MemoryInv, SdramPort, Out
<1>3. /\ bram' = bram /\ sdram' = sdram
      /\ sdram_req' = NoAccess /\ sdram_resp_valid' = FALSE
  BY <1>1, <1>2, SdramQuiet DEF Tick, BramClock, bramVars
<1>4. SdramPort' /\ Remembered'
  BY <1>1, <1>3 DEF MemoryInv, SdramPort, Remembered
<1>5. BusTypes /\ (mem_valid /\ ~Retires => op' = op)
  BY CoreHolds DEF Tick, MemoryInv, ReplayInv
<1>6. CASE Retires /\ ~IsMmio(op.addr)
  <2>1. mem_valid /\ mem_ready
    BY <1>6 DEF Retires, Halted
  <2>2. /\ op \in Requests /\ (IsBram(op.addr) \/ IsSdram(op.addr))
        /\ IsBram(op.addr) => a \in BramWords
        /\ IsSdram(op.addr) => a \in SdramWords
        /\ ~(IsBram(op.addr) /\ IsSdram(op.addr))
    BY <1>5, <1>6, <2>1, OnPins DEF IsMmio
  <2>3. shadow' = [shadow EXCEPT ![a] = Stored(shadow[a], op)]
    BY <1>6 DEF Tick, Remember
  <2>4. MemTypes'
    <3>1. Stored(shadow[a], op) \in WordOf
      BY <2>2, StoredTwice DEF MemoryInv, MemTypes
    <3> QED BY <1>3, <2>2, <2>3, <3>1 DEF MemoryInv, MemTypes
  <2>5. shadow'[a] = Stored(shadow[a], op) /\ \A b \in BramWords \cup SdramWords :
                                                b # a => shadow'[b] = shadow[b]
    BY <2>2, <2>3 DEF MemoryInv, MemTypes
  <2>6. IsBram(op.addr) => bram[a] = Stored(shadow[a], op)
    BY <2>1 DEF MemoryInv, BramInOrder, OpDone
  <2>7. IsSdram(op.addr) => sdram[a] = Stored(shadow[a], op)
    BY <2>1 DEF MemoryInv, SdramInOrder, OpDone
  <2>8. \A b \in BramWords : bram[b] = shadow'[b]
    BY <2>2, <2>5, <2>6, WordsApart DEF MemoryInv, BramInOrder, Ahead
  <2>9. \A b \in SdramWords : sdram[b] = shadow'[b]
    BY <2>2, <2>5, <2>7, WordsApart DEF MemoryInv, SdramInOrder, Ahead
  <2>10. BramInOrder' /\ SdramInOrder'
    BY <1>1, <1>3, <2>8, <2>9 DEF BramInOrder, SdramInOrder, Ahead
  <2> QED BY <1>4, <2>4, <2>10
<1>7. CASE ~(Retires /\ ~IsMmio(op.addr))
  <2>1. shadow' = shadow
    BY <1>7 DEF Tick, Remember
  <2>2. MemTypes'
    BY <1>3, <2>1 DEF MemoryInv, MemTypes
  <2>3. ~mem_valid \/ op' = op \/ IsMmio(op.addr)
    BY <1>5, <1>7
  <2>4. Ahead(bram, BramWords, IsBram(op.addr))'
    BY <1>3, <2>1, <2>3 DEF MemoryInv, BramInOrder, Ahead, IsMmio, mem_valid
  <2>5. Ahead(sdram, SdramWords, IsSdram(op.addr))'
    BY <1>3, <2>1, <2>3 DEF MemoryInv, SdramInOrder, Ahead, IsMmio, mem_valid
  <2> QED BY <1>1, <1>3, <1>4, <2>2, <2>4, <2>5 DEF BramInOrder, SdramInOrder
<1> QED BY <1>6, <1>7

-----------------------------------------------------------------------------
(* The memory invariant holds in every reachable state.                    *)
THEOREM MemoryInvariance == Spec => []MemoryInv
<1>1. MemoryInv /\ ReplayInv' /\ [Next]_vars => MemoryInv'
  <2> SUFFICES ASSUME MemoryInv, ReplayInv', [Next]_vars PROVE MemoryInv'
    OBVIOUS
  <2>1. CASE PressReset
    BY <2>1, MemoryReset
  <2>2. CASE ClockTick
    <3>1. PICK e \in {NoByte, BadStop} \cup Arriving : Tick(e)
      BY <2>2 DEF ClockTick
    <3>2. BusClock(ResponseData(bram_rdata, sdram_rdata))
      BY <3>1 DEF Tick
    <3>3. MemTypes' /\ SdramPort' /\ BramInOrder' /\ SdramInOrder' /\ Remembered'
      BY <3>1, <3>2, RespondMemory, StartMemory, FiresMemory, PendingMemory, IdleMemory
      DEF BusClock
    <3> QED BY <3>3 DEF MemoryInv
  <2>3. CASE UNCHANGED vars
    BY <2>3 DEF vars, busVars, reqRegs, lastRegs, outRegs, bramVars, sdramVars, history,
                MemoryInv, MemTypes, SdramPort, Out, BramInOrder, SdramInOrder, Remembered,
                Ahead, OpDone, mem_valid, Same
  <2> QED BY <2>1, <2>2, <2>3 DEF Next
<1> QED BY MemoryInit, ReplayInvariance, <1>1, PTL DEF Spec

(* Loads and stores of the memories take effect in program order.          *)
THEOREM MemoryIsInOrder == Spec => []MemoryInOrder
<1>1. MemoryInv => MemoryInOrder
  <2> SUFFICES ASSUME MemoryInv, Retires, ~IsMmio(op.addr) PROVE MemoryInOrder
    BY DEF MemoryInOrder
  <2>1. mem_valid /\ mem_ready /\ (IsBram(op.addr) \/ IsSdram(op.addr)) /\ BusTypes
    BY DEF Retires, Halted, IsMmio, MemoryInv, ReplayInv
  <2> QED BY <2>1, OnPins DEF MemoryInv, BramInOrder, SdramInOrder, OpDone, MemoryInOrder
<1> QED BY <1>1, MemoryInvariance, PTL
=============================================================================
