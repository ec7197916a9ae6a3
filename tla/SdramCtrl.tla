----------------------------- MODULE SdramCtrl -----------------------------
(***************************************************************************)
(* rtl/soc/sdram_data_ctrl.v: the closed-page controller of one x16 SDRAM. *)
(* One step is one rising clock edge.  A 32-bit host access is split into  *)
(* two 16-bit beats; refresh is only started from IDLE and may be deferred *)
(* for a bounded time while requests are being served.                     *)
(*                                                                         *)
(* A step takes two inputs: r, the request on the host pins (NoReq when    *)
(* req_valid is low), and d, the halfword on the DQ pins.  Registers keep  *)
(* their Verilog names.  A command pin group is one record, cmd; data is a *)
(* pair of halfwords of two bytes; the row, bank and column registers are  *)
(* functions of the latched address and are not repeated.                  *)
(***************************************************************************)
EXTENDS SdramPins

CONSTANTS
  PWRUP_WAIT_CYCLES, TRP_CYCLES, TRFC_CYCLES, TMRD_CYCLES, TRCD_CYCLES,
  TWR_CYCLES, REFI_CYCLES, REFRESH_DEFER_CYCLES,
  Requests,   \* the requests the host may issue
  NoReq       \* req_valid low

Max16 == 65535
Cycles16 == {n \in Nat : n <= Max16}

Word     == [lo: Half, hi: Half]
BusWord  == [lo: BusHalf, hi: BusHalf]
Strobe   == [lo: SUBSET Lane, hi: SUBSET Lane]
Request  == [addr: Nat, we: BOOLEAN, wdata: Word, wstrb: Strobe]

ZeroHalf == [i \in Lane |-> ZERO]
ZeroWord == [lo |-> ZeroHalf, hi |-> ZeroHalf]
ZeroReq  == [addr |-> 0, we |-> FALSE, wdata |-> ZeroWord,
             wstrb |-> [lo |-> {}, hi |-> {}]]

ASSUME SdramData == Requests \subseteq Request /\ NoReq \notin Requests

(* The counters are 16 bits wide; tRCD must leave a cycle to load DQ, and  *)
(* a refresh that is due must be allowed to wait for at least one cycle.   *)
ASSUME SdramTimes ==
  /\ PWRUP_WAIT_CYCLES \in Cycles16 /\ TRP_CYCLES \in Cycles16
  /\ TRFC_CYCLES \in Cycles16 /\ TMRD_CYCLES \in Cycles16
  /\ TRCD_CYCLES \in Cycles16 \ {0} /\ TWR_CYCLES \in Cycles16
  /\ CAS_LATENCY_CYCLES \in Cycles16
  /\ REFI_CYCLES \in Cycles16 \ {0} /\ REFRESH_DEFER_CYCLES \in Cycles16 \ {0}
  /\ REFI_CYCLES + REFRESH_DEFER_CYCLES <= Max16

(* The slices of the byte address that select a cell of the chip.          *)
Misaligned(a) == a % 4 # 0
Row(a)   == (a \div 4096) % 8192
Bank(a)  == (a \div 1024) % 4
ColLo(a) == (a \div 2) % 512
(* Variant: both beats of a word in one column.                            *)
ColHiSame(a) == ColLo(a)

ColHi(a) == (ColLo(a) + 1) % 512

VARIABLES
  state, wait_count,                             \* the FSM and its one timer
  refresh_age, refresh_pending, force_refresh,   \* when the next refresh is due
  busy, lat,                                     \* the accepted request
  req_ready, resp_valid, resp_err, resp_rdata,   \* outputs to the host
  rd_lo, rd_hi,                                  \* captured read beats
  dq_oe, dq_out, cmd                             \* outputs to the chip

refreshVars == <<refresh_age, refresh_pending, force_refresh>>
reqVars     == <<busy, lat>>
rdVars      == <<rd_lo, rd_hi>>
ctrlVars    == <<state, wait_count, refreshVars, reqVars, req_ready, resp_valid,
                 resp_err, resp_rdata, rdVars, dq_oe, dq_out, cmd>>

InitStates == {"PWRUP_WAIT", "INIT_PRE", "INIT_TRP", "INIT_AR1", "INIT_TRFC1",
               "INIT_AR2", "INIT_TRFC2", "INIT_MRS", "INIT_TMRD"}
ReadStates == {"RD_CMD_LO", "RD_CL_LO", "RD_CAP_LO", "RD_CMD_HI", "RD_CL_HI",
               "RD_CAP_HI"}
WriteStates == {"WR_CMD_LO", "WR_CMD_HI", "TWR"}
States == InitStates \cup ReadStates \cup WriteStates
            \cup {"WAIT_PWRUP", "IDLE", "REF_TRFC", "TRCD", "PRE", "TRP", "RESP"}

Nop          == [op |-> "NOP"]
PrechargeAll == [op |-> "PREALL"]
AutoRefresh  == [op |-> "REF"]
LoadMode     == [op |-> "MRS"]
Active(a)    == [op |-> "ACT", ba |-> Bank(a), row |-> Row(a)]
Precharge(a) == [op |-> "PRE", ba |-> Bank(a)]
Read(a, c)   == [op |-> "RD", ba |-> Bank(a), col |-> c]
Write(a, c, en) == [op |-> "WR", ba |-> Bank(a), col |-> c, en |-> en]

-----------------------------------------------------------------------------
(* What every register holds after a clock edge with reset high.           *)
InReset ==
  /\ state = "PWRUP_WAIT" /\ wait_count = 0
  /\ refresh_age = 0 /\ refresh_pending = FALSE /\ force_refresh = FALSE
  /\ busy = FALSE /\ lat = ZeroReq
  /\ req_ready = FALSE /\ resp_valid = FALSE /\ resp_err = FALSE
  /\ resp_rdata = ZeroWord /\ rd_lo = ZeroHalf /\ rd_hi = ZeroHalf
  /\ dq_oe = FALSE /\ dq_out = ZeroHalf /\ cmd = Nop

(* The refresh bookkeeping of every cycle.  WAIT_PWRUP has number 26, so   *)
(* the test state >= ST_IDLE lets the age run there too.                   *)
Counting == state \notin InitStates

CountAge ==
  /\ refresh_age' = IF ~Counting THEN 0
                    ELSE IF refresh_age < Max16 THEN refresh_age + 1 ELSE Max16
  /\ refresh_pending' = (Counting /\ (\/ refresh_pending
                                      \/ refresh_age >= REFI_CYCLES - 1))
  /\ force_refresh' =
       (Counting /\ (\/ force_refresh
                     \/ refresh_age >= REFI_CYCLES + REFRESH_DEFER_CYCLES - 1))

(* The defaults assigned at the top of each cycle.                         *)
NoResponse == resp_valid' = FALSE /\ resp_err' = FALSE /\ UNCHANGED resp_rdata
NotReady   == req_ready' = FALSE
ReleaseDq  == dq_oe' = FALSE /\ UNCHANGED dq_out
Drive(h)   == dq_oe' = TRUE /\ dq_out' = h

GoTo(s, t) == state = s /\ state' = t
Load(n)    == wait_count' = n

(* s counts wait_count down to zero and spends one more cycle leaving to t. *)
CountDown(s, t) ==
  /\ state = s
  /\ \/ wait_count # 0 /\ wait_count' = wait_count - 1 /\ UNCHANGED state
     \/ wait_count = 0 /\ state' = t /\ UNCHANGED wait_count

Quiet == CountAge /\ NotReady /\ NoResponse
Issue(c) == cmd' = c /\ Quiet /\ UNCHANGED <<reqVars, rdVars>>

-----------------------------------------------------------------------------
(* Power-up: wait, PRECHARGE ALL, two AUTO REFRESH, LOAD MODE.             *)
PwrupWait == GoTo("PWRUP_WAIT", "WAIT_PWRUP") /\ Load(PWRUP_WAIT_CYCLES)
             /\ Issue(Nop) /\ ReleaseDq
WaitPwrup == CountDown("WAIT_PWRUP", "INIT_PRE") /\ Issue(Nop) /\ ReleaseDq
InitPre   == GoTo("INIT_PRE", "INIT_TRP") /\ Load(TRP_CYCLES)
             /\ Issue(PrechargeAll) /\ ReleaseDq
InitTrp   == CountDown("INIT_TRP", "INIT_AR1") /\ Issue(Nop) /\ ReleaseDq
InitAr1   == GoTo("INIT_AR1", "INIT_TRFC1") /\ Load(TRFC_CYCLES)
             /\ Issue(AutoRefresh) /\ ReleaseDq
InitTrfc1 == CountDown("INIT_TRFC1", "INIT_AR2") /\ Issue(Nop) /\ ReleaseDq
InitAr2   == GoTo("INIT_AR2", "INIT_TRFC2") /\ Load(TRFC_CYCLES)
             /\ Issue(AutoRefresh) /\ ReleaseDq
InitTrfc2 == CountDown("INIT_TRFC2", "INIT_MRS") /\ Issue(Nop) /\ ReleaseDq
InitMrs   == GoTo("INIT_MRS", "INIT_TMRD") /\ Load(TMRD_CYCLES)
             /\ Issue(LoadMode) /\ ReleaseDq

(* The last wait of the initialisation raises req_ready as it leaves.      *)
InitTmrd ==
  /\ state = "INIT_TMRD"
  /\ \/ /\ wait_count # 0 /\ Load(wait_count - 1)
        /\ NotReady /\ UNCHANGED <<state, busy>>
     \/ /\ wait_count = 0 /\ state' = "IDLE"
        /\ req_ready' = TRUE /\ busy' = FALSE /\ UNCHANGED wait_count
  /\ cmd' = Nop /\ CountAge /\ NoResponse /\ ReleaseDq
  /\ UNCHANGED <<lat, rdVars>>

-----------------------------------------------------------------------------
(* Variants: the timer is not loaded; req_ready is not lowered; the due    *)
(* refresh is not forgotten.                                               *)
StartRefreshNoWait ==
  /\ GoTo("IDLE", "REF_TRFC") /\ UNCHANGED wait_count
  /\ refresh_age' = 0 /\ refresh_pending' = FALSE /\ force_refresh' = FALSE
  /\ cmd' = AutoRefresh /\ NotReady /\ NoResponse /\ ReleaseDq
  /\ UNCHANGED <<reqVars, rdVars>>
StartRefreshReady ==
  /\ GoTo("IDLE", "REF_TRFC") /\ Load(TRFC_CYCLES)
  /\ refresh_age' = 0 /\ refresh_pending' = FALSE /\ force_refresh' = FALSE
  /\ cmd' = AutoRefresh /\ UNCHANGED req_ready /\ NoResponse /\ ReleaseDq
  /\ UNCHANGED <<reqVars, rdVars>>
StartRefreshPending ==
  /\ GoTo("IDLE", "REF_TRFC") /\ Load(TRFC_CYCLES)
  /\ refresh_age' = 0 /\ refresh_pending' = TRUE /\ force_refresh' = FALSE
  /\ cmd' = AutoRefresh /\ NotReady /\ NoResponse /\ ReleaseDq
  /\ UNCHANGED <<reqVars, rdVars>>

(* IDLE: an overdue refresh, else a request, else a due refresh, else ready. *)
StartRefresh ==
  /\ GoTo("IDLE", "REF_TRFC") /\ Load(TRFC_CYCLES)
  /\ refresh_age' = 0 /\ refresh_pending' = FALSE /\ force_refresh' = FALSE
  /\ cmd' = AutoRefresh /\ NotReady /\ NoResponse /\ ReleaseDq
  /\ UNCHANGED <<reqVars, rdVars>>

IdleForcedRefresh == ~busy /\ force_refresh /\ StartRefresh

IdleDueRefresh(r) ==
  ~busy /\ ~force_refresh /\ r = NoReq /\ refresh_pending /\ StartRefresh

(* Variant: a request is taken before an overdue refresh.                  *)
IdleAcceptFirst(r) ==
  /\ ~busy /\ r # NoReq
  /\ lat' = r /\ busy' = TRUE
  /\ \/ /\ Misaligned(r.addr)
        /\ GoTo("IDLE", "RESP") /\ cmd' = Nop /\ UNCHANGED wait_count
     \/ /\ ~Misaligned(r.addr)
        /\ GoTo("IDLE", "TRCD") /\ cmd' = Active(r.addr) /\ Load(TRCD_CYCLES)
  /\ Quiet /\ ReleaseDq /\ UNCHANGED rdVars

IdleAccept(r) ==
  /\ ~busy /\ ~force_refresh /\ r # NoReq
  /\ lat' = r /\ busy' = TRUE
  /\ \/ /\ Misaligned(r.addr)
        /\ GoTo("IDLE", "RESP") /\ cmd' = Nop /\ UNCHANGED wait_count
     \/ /\ ~Misaligned(r.addr)
        /\ GoTo("IDLE", "TRCD") /\ cmd' = Active(r.addr) /\ Load(TRCD_CYCLES)
  /\ Quiet /\ ReleaseDq /\ UNCHANGED rdVars

(* Variant: req_ready does not look at a due refresh.                      *)
IdleReadyAlways(r) ==
  /\ state = "IDLE" /\ ~busy /\ ~force_refresh /\ r = NoReq
  /\ req_ready' = TRUE
  /\ cmd' = Nop /\ CountAge /\ NoResponse /\ ReleaseDq
  /\ UNCHANGED <<state, wait_count, reqVars, rdVars>>

IdleReady(r) ==
  /\ state = "IDLE" /\ ~busy /\ ~force_refresh /\ r = NoReq /\ ~refresh_pending
  /\ req_ready' = TRUE
  /\ cmd' = Nop /\ CountAge /\ NoResponse /\ ReleaseDq
  /\ UNCHANGED <<state, wait_count, reqVars, rdVars>>

RefTrfc == CountDown("REF_TRFC", "IDLE") /\ Issue(Nop) /\ ReleaseDq

-----------------------------------------------------------------------------
(* One access: row to column delay, two beats, precharge, answer.          *)
Trcd ==
  /\ CountDown("TRCD", IF lat.we THEN "WR_CMD_LO" ELSE "RD_CMD_LO")
  /\ IF wait_count = 1 /\ lat.we THEN Drive(lat.wdata.lo) ELSE ReleaseDq
  /\ Issue(Nop)

RdCmdLo == GoTo("RD_CMD_LO", "RD_CL_LO") /\ Load(CAS_LATENCY_CYCLES)
           /\ Issue(Read(lat.addr, ColLo(lat.addr))) /\ ReleaseDq
RdClLo  == CountDown("RD_CL_LO", "RD_CAP_LO") /\ Issue(Nop) /\ ReleaseDq
RdCapLo(d) ==
  /\ GoTo("RD_CAP_LO", "RD_CMD_HI") /\ rd_lo' = d
  /\ cmd' = Nop /\ Quiet /\ ReleaseDq /\ UNCHANGED <<wait_count, reqVars, rd_hi>>
RdCmdHi == GoTo("RD_CMD_HI", "RD_CL_HI") /\ Load(CAS_LATENCY_CYCLES)
           /\ Issue(Read(lat.addr, ColHi(lat.addr))) /\ ReleaseDq
RdClHi  == CountDown("RD_CL_HI", "RD_CAP_HI") /\ Issue(Nop) /\ ReleaseDq
RdCapHi(d) ==
  /\ GoTo("RD_CAP_HI", "PRE") /\ rd_hi' = d
  /\ cmd' = Nop /\ Quiet /\ ReleaseDq /\ UNCHANGED <<wait_count, reqVars, rd_lo>>

(* The low beat goes out with whatever DQ was loaded with in TRCD.         *)
WrCmdLo == GoTo("WR_CMD_LO", "WR_CMD_HI") /\ UNCHANGED wait_count
           /\ Issue(Write(lat.addr, ColLo(lat.addr), lat.wstrb.lo)) /\ Drive(dq_out)
WrCmdHi == GoTo("WR_CMD_HI", "TWR") /\ Load(TWR_CYCLES)
           /\ Issue(Write(lat.addr, ColHi(lat.addr), lat.wstrb.hi))
           /\ Drive(lat.wdata.hi)
Twr == CountDown("TWR", "PRE") /\ Issue(Nop) /\ dq_oe' = FALSE /\ dq_out' = ZeroHalf

Pre == GoTo("PRE", "TRP") /\ Load(TRP_CYCLES) /\ Issue(Precharge(lat.addr)) /\ ReleaseDq
Trp == CountDown("TRP", "RESP") /\ Issue(Nop) /\ ReleaseDq

Resp ==
  /\ GoTo("RESP", "IDLE") /\ busy' = FALSE
  /\ resp_valid' = TRUE /\ resp_err' = Misaligned(lat.addr)
  /\ resp_rdata' = IF Misaligned(lat.addr) THEN ZeroWord
                   ELSE IF lat.we THEN resp_rdata ELSE [lo |-> rd_lo, hi |-> rd_hi]
  /\ cmd' = Nop /\ CountAge /\ NotReady /\ ReleaseDq
  /\ UNCHANGED <<wait_count, lat, rdVars>>

-----------------------------------------------------------------------------
(* One clock edge with reset low.  IDLE is never entered with busy set, so *)
(* the branch of the code that would wait there has no action.             *)
Clock(r, d) ==
  \/ PwrupWait \/ WaitPwrup \/ InitPre \/ InitTrp \/ InitAr1 \/ InitTrfc1
  \/ InitAr2 \/ InitTrfc2 \/ InitMrs \/ InitTmrd
  \/ IdleForcedRefresh \/ IdleDueRefresh(r) \/ IdleAccept(r) \/ IdleReady(r)
  \/ RefTrfc \/ Trcd
  \/ RdCmdLo \/ RdClLo \/ RdCapLo(d) \/ RdCmdHi \/ RdClHi \/ RdCapHi(d)
  \/ WrCmdLo \/ WrCmdHi \/ Twr \/ Pre \/ Trp \/ Resp

(* One clock edge with reset high, from any state.                         *)
Reset ==
  /\ state' = "PWRUP_WAIT" /\ wait_count' = 0
  /\ refresh_age' = 0 /\ refresh_pending' = FALSE /\ force_refresh' = FALSE
  /\ busy' = FALSE /\ lat' = ZeroReq
  /\ req_ready' = FALSE /\ resp_valid' = FALSE /\ resp_err' = FALSE
  /\ resp_rdata' = ZeroWord /\ rd_lo' = ZeroHalf /\ rd_hi' = ZeroHalf
  /\ dq_oe' = FALSE /\ dq_out' = ZeroHalf /\ cmd' = Nop
=============================================================================
