----------------------------- MODULE MiniSocBus -----------------------------
(***************************************************************************)
(* The data bus of rtl/soc/tecplus_minisoc_top.v, one step per clock edge: *)
(* one request is latched, decoded, answered by mem_ready, and remembered. *)
(*                                                                         *)
(* DarkRISCV keeps a request on its pins until the data acknowledge meets  *)
(* an instruction acknowledge.  The same request seen again right after    *)
(* its answer is a replay: it is answered, but not executed again.         *)
(*                                                                         *)
(* A request is a record of address, data and byte strobes (none: a load); *)
(* a word is a function of its byte lanes.                                 *)
(***************************************************************************)
EXTENDS UartPort

CONSTANTS
  Lane, Byte,                           \* the bytes of a word
  BRAM_BYTES, SDRAM_BASE, SDRAM_SIZE,   \* the memory map
  UART_DATA, UART_STATUS,
  Accesses,    \* the loads and stores of the program
  NoAccess     \* mem_valid low

WordOf == [Lane -> Byte]

(* is_bram, is_sdram, is_mmio: everything else is MMIO, holes included.    *)
IsBram(a)  == a < BRAM_BYTES
IsSdram(a) == a >= SDRAM_BASE /\ a < SDRAM_BASE + SDRAM_SIZE
IsMmio(a)  == ~(IsBram(a) \/ IsSdram(a))
IsStore(r) == r.wstrb # {}

VARIABLES
  op,                                   \* the access the core has on its pins
  pending, req, req_is_replay, sdram_req_sent,
  last_req_valid, last_req, last_req_rdata,
  mem_ready, mem_rdata, ifetch_pending

reqRegs  == <<pending, req, req_is_replay>>
lastRegs == <<last_req_valid, last_req, last_req_rdata>>
outRegs  == <<mem_ready, mem_rdata>>
busVars  == <<op, reqRegs, sdram_req_sent, lastRegs, outRegs, ifetch_pending>>

ZeroData == [l \in Lane |-> 0]
ZeroReq  == [addr |-> 0, wdata |-> ZeroData, wstrb |-> {}]

mem_valid == op # NoAccess
(* Variant: the cycle of the acknowledge starts the next request.          *)
start_req_early == mem_valid /\ ~pending

start_req == mem_valid /\ ~pending /\ ~mem_ready

(* Variant: the write data of loads, which the core leaves undefined, counts. *)
SameWithData(r, l) == r = l

(* Variant: the strobes do not count.                                      *)
SameAnyStrobe(r, l) == r.addr = l.addr /\ (IsStore(r) => r.wdata = l.wdata)

(* r repeats l; the write data only counts for a store.                    *)
Same(r, l) == r.addr = l.addr /\ r.wstrb = l.wstrb
              /\ (IsStore(r) => r.wdata = l.wdata)

(* mmio_stall: a store to UART_DATA waits for the transmitter.             *)
mmio_stall == pending /\ IsMmio(req.addr) /\ ~req_is_replay
              /\ req.addr = UART_DATA /\ IsStore(req) /\ ~tx_ready

(* Variant: a replay waits for the SDRAM like the access it repeats.       *)
RespondNowWaits(resp_valid) ==
  pending /\ (\/ IsBram(req.addr)
              \/ IsMmio(req.addr) /\ ~mmio_stall
              \/ IsSdram(req.addr) /\ resp_valid)

RespondNow(resp_valid) ==
  pending /\ (\/ IsBram(req.addr)
              \/ IsMmio(req.addr) /\ ~mmio_stall
              \/ IsSdram(req.addr) /\ (req_is_replay \/ resp_valid))

(* The write and consume strobes of every peripheral are gated by this.    *)
MmioEffect == RespondNow(FALSE) /\ IsMmio(req.addr) /\ ~req_is_replay

uart_fire       == MmioEffect /\ req.addr = UART_DATA /\ IsStore(req)
uart_rx_consume == MmioEffect /\ req.addr = UART_DATA /\ ~IsStore(req)
ClearsFlag(bit) == /\ MmioEffect /\ req.addr = UART_STATUS /\ IsStore(req)
                   /\ (req.wdata[0] \div bit) % 2 = 1

(* cpu_sdram_req_valid, only under req_ready and only once.                *)
SdramValid(ready) ==
  pending /\ IsSdram(req.addr) /\ ~req_is_replay /\ ~sdram_req_sent /\ ready

Bit(b, n) == IF b THEN n ELSE 0
UartStatus == Bit(framing_error, 8) + Bit(overrun, 4) + Bit(data_valid, 2) + Bit(tx_ready, 1)

(* The mux of tinybus_decode.v; an address nobody decodes reads as zero.   *)
mmio_rdata ==
  [l \in Lane |-> IF l # 0 THEN 0
                  ELSE IF req.addr = UART_DATA THEN data_out
                  ELSE IF req.addr = UART_STATUS THEN UartStatus ELSE 0]

ResponseData(bram_rdata, resp_rdata) ==
  IF req_is_replay /\ IsSdram(req.addr) THEN last_req_rdata
  ELSE IF IsBram(req.addr) THEN bram_rdata
  ELSE IF IsSdram(req.addr) THEN resp_rdata ELSE mmio_rdata

-----------------------------------------------------------------------------
BusReset ==
  /\ op' = NoAccess /\ pending' = FALSE /\ req' = ZeroReq /\ req_is_replay' = FALSE
  /\ sdram_req_sent' = FALSE
  /\ last_req_valid' = FALSE /\ last_req' = ZeroReq /\ last_req_rdata' = ZeroData
  /\ mem_ready' = FALSE /\ mem_rdata' = ZeroData /\ ifetch_pending' = FALSE

BusInit ==
  /\ op = NoAccess /\ pending = FALSE /\ req = ZeroReq /\ req_is_replay = FALSE
  /\ sdram_req_sent = FALSE
  /\ last_req_valid = FALSE /\ last_req = ZeroReq /\ last_req_rdata = ZeroData
  /\ mem_ready = FALSE /\ mem_rdata = ZeroData /\ ifetch_pending = FALSE

(* Variant: a gap between two requests is not noticed.                     *)
NoAnswerKeep ==
  /\ mem_ready' = FALSE /\ UNCHANGED mem_rdata
  /\ UNCHANGED <<last_req_valid, last_req, last_req_rdata>>

(* What every edge without a response does to these registers: a cycle     *)
(* without a request ends the run of replays.                              *)
NoAnswer ==
  /\ mem_ready' = FALSE /\ UNCHANGED mem_rdata
  /\ last_req_valid' = (last_req_valid /\ mem_valid) /\ UNCHANGED <<last_req, last_req_rdata>>

Respond(resp_valid, data) ==
  /\ RespondNow(resp_valid)
  /\ pending' = FALSE /\ UNCHANGED <<req, req_is_replay>>
  /\ mem_ready' = TRUE /\ mem_rdata' = data /\ sdram_req_sent' = FALSE
  /\ last_req_valid' = TRUE /\ last_req' = req
  /\ last_req_rdata' = IF req_is_replay THEN last_req_rdata ELSE data

(* r is what the pins carry.                                               *)
Start(r) ==
  /\ start_req
  /\ pending' = TRUE /\ req' = r
  /\ req_is_replay' = (last_req_valid /\ Same(r, last_req))
  /\ sdram_req_sent' = FALSE /\ NoAnswer

SdramFires(resp_valid, ready) ==
  /\ ~RespondNow(resp_valid) /\ SdramValid(ready)
  /\ sdram_req_sent' = TRUE /\ UNCHANGED reqRegs /\ NoAnswer

BusWaits(resp_valid, ready) ==
  /\ ~RespondNow(resp_valid) /\ ~start_req /\ ~SdramValid(ready)
  /\ UNCHANGED <<reqRegs, sdram_req_sent>> /\ NoAnswer
=============================================================================
