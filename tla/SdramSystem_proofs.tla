------------------------- MODULE SdramSystem_proofs -------------------------
(***************************************************************************)
(* Proofs about SdramSystem for every value of the delays, every set of    *)
(* requests and both host disciplines: no request is lost between host and *)
(* controller; the SDRAM is refreshed on time, for every refresh interval  *)
(* and deferral and any traffic; and the controller keeps to the rules of  *)
(* the chip.                                                               *)
(***************************************************************************)
EXTENDS SdramSystem, TLAPS

(* The types of the registers the handshake depends on.                    *)
FsmTypeOK ==
  /\ state \in States /\ busy \in BOOLEAN /\ req_ready \in BOOLEAN
  /\ refresh_age \in Cycles16
  /\ refresh_pending \in BOOLEAN /\ force_refresh \in BOOLEAN

(* The states in which a request is being served.                          *)
AccessStates == {"TRCD", "PRE", "TRP", "RESP"} \cup ReadStates \cup WriteStates

(* The inductive invariant behind the handshake.  A refresh that is not    *)
(* due yet is at least one deferral away from being forced: that is why    *)
(* req_ready cannot be raised in the cycle before a forced refresh.        *)
HandshakeInv ==
  /\ FsmTypeOK
  /\ ~refresh_pending => refresh_age < REFI_CYCLES
  /\ busy <=> state \in AccessStates
  /\ ReadyIsHonoured
  /\ NoLostRequest

-----------------------------------------------------------------------------
(* Facts about one clock cycle, one group of registers at a time.          *)

(* The FSM stays inside its states.                                        *)
LEMMA StateType ==
  ASSUME NEW r, NEW d, Clock(r, d), state \in States
  PROVE  state' \in States
BY SMT DEF Clock, PwrupWait, WaitPwrup, InitPre, InitTrp, InitAr1, InitTrfc1, InitAr2,
     InitTrfc2, InitMrs, InitTmrd, IdleForcedRefresh, IdleDueRefresh, IdleAccept,
     IdleReady, StartRefresh, RefTrfc, Trcd, RdCmdLo, RdClLo, RdCapLo, RdCmdHi,
     RdClHi, RdCapHi, WrCmdLo, WrCmdHi, Twr, Pre, Trp, Resp, GoTo, CountDown,
     States, InitStates, ReadStates, WriteStates

(* The timer is loaded from a 16-bit parameter or counts down above zero.  *)
LEMMA WaitType ==
  ASSUME NEW r, NEW d, Clock(r, d), wait_count \in Cycles16
  PROVE  wait_count' \in Cycles16
BY SMT, SdramTimes DEF Clock, PwrupWait, WaitPwrup, InitPre, InitTrp, InitAr1, InitTrfc1, InitAr2,
     InitTrfc2, InitMrs, InitTmrd, IdleForcedRefresh, IdleDueRefresh, IdleAccept,
     IdleReady, StartRefresh, RefTrfc, Trcd, RdCmdLo, RdClLo, RdCapLo, RdCmdHi,
     RdClHi, RdCapHi, WrCmdLo, WrCmdHi, Twr, Pre, Trp, Resp, GoTo, CountDown,
     Load, Cycles16, Max16

(* Every cycle counts the refresh age, or starts a refresh.                *)
LEMMA AgeOrRefresh ==
  ASSUME NEW r, NEW d, Clock(r, d)
  PROVE  CountAge \/ StartRefresh
BY SMT DEF Clock, PwrupWait, WaitPwrup, InitPre, InitTrp, InitAr1, InitTrfc1, InitAr2,
     InitTrfc2, InitMrs, InitTmrd, IdleForcedRefresh, IdleDueRefresh, IdleAccept,
     IdleReady, StartRefresh, RefTrfc, Trcd, RdCmdLo, RdClLo, RdCapLo, RdCmdHi,
     RdClHi, RdCapHi, WrCmdLo, WrCmdHi, Twr, Pre, Trp, Resp, GoTo, Issue, Quiet

(* busy is set exactly while an access is on its way.                      *)
LEMMA BusyType ==
  ASSUME NEW r, NEW d, Clock(r, d), busy \in BOOLEAN
  PROVE  busy' \in BOOLEAN
BY Zenon DEF Clock, PwrupWait, WaitPwrup, InitPre, InitTrp, InitAr1, InitTrfc1, InitAr2,
     InitTrfc2, InitMrs, InitTmrd, IdleForcedRefresh, IdleDueRefresh, IdleAccept,
     IdleReady, StartRefresh, RefTrfc, Trcd, RdCmdLo, RdClLo, RdCapLo, RdCmdHi,
     RdClHi, RdCapHi, WrCmdLo, WrCmdHi, Twr, Pre, Trp, Resp, GoTo, Issue, Quiet, reqVars

LEMMA BusyIsAccess ==
  ASSUME NEW r, NEW d, Clock(r, d), busy \in BOOLEAN, busy <=> state \in AccessStates
  PROVE  busy' <=> state' \in AccessStates
BY SMT DEF Clock, PwrupWait, WaitPwrup, InitPre, InitTrp, InitAr1, InitTrfc1, InitAr2,
     InitTrfc2, InitMrs, InitTmrd, IdleForcedRefresh, IdleDueRefresh, IdleAccept,
     IdleReady, StartRefresh, RefTrfc, Trcd, RdCmdLo, RdClLo, RdCapLo, RdCmdHi,
     RdClHi, RdCapHi, WrCmdLo, WrCmdHi, Twr, Pre, Trp, Resp, GoTo, Issue, Quiet, CountDown,
     AccessStates, ReadStates, WriteStates, reqVars

LEMMA OutputTypes ==
  ASSUME NEW r, NEW d, Clock(r, d)
  PROVE  /\ req_ready' \in BOOLEAN /\ resp_valid' \in BOOLEAN
         /\ resp_err' \in BOOLEAN /\ dq_oe' \in BOOLEAN
<1>1. req_ready' \in BOOLEAN
  BY Zenon DEF Clock, PwrupWait, WaitPwrup, InitPre, InitTrp, InitAr1, InitTrfc1, InitAr2,
     InitTrfc2, InitMrs, InitTmrd, IdleForcedRefresh, IdleDueRefresh, IdleAccept,
     IdleReady, StartRefresh, RefTrfc, Trcd, RdCmdLo, RdClLo, RdCapLo, RdCmdHi,
     RdClHi, RdCapHi, WrCmdLo, WrCmdHi, Twr, Pre, Trp, Resp, GoTo, Issue, Quiet, NotReady
<1>2. resp_valid' \in BOOLEAN
  BY Zenon DEF Clock, PwrupWait, WaitPwrup, InitPre, InitTrp, InitAr1, InitTrfc1, InitAr2,
     InitTrfc2, InitMrs, InitTmrd, IdleForcedRefresh, IdleDueRefresh, IdleAccept,
     IdleReady, StartRefresh, RefTrfc, Trcd, RdCmdLo, RdClLo, RdCapLo, RdCmdHi,
     RdClHi, RdCapHi, WrCmdLo, WrCmdHi, Twr, Pre, Trp, Resp, GoTo, Issue, Quiet, NoResponse
<1>3. resp_err' \in BOOLEAN
  BY Zenon DEF Clock, PwrupWait, WaitPwrup, InitPre, InitTrp, InitAr1, InitTrfc1, InitAr2,
     InitTrfc2, InitMrs, InitTmrd, IdleForcedRefresh, IdleDueRefresh, IdleAccept,
     IdleReady, StartRefresh, RefTrfc, Trcd, RdCmdLo, RdClLo, RdCapLo, RdCmdHi,
     RdClHi, RdCapHi, WrCmdLo, WrCmdHi, Twr, Pre, Trp, Resp, GoTo, Issue, Quiet, NoResponse, Misaligned
<1>4. dq_oe' \in BOOLEAN
  BY Zenon DEF Clock, PwrupWait, WaitPwrup, InitPre, InitTrp, InitAr1, InitTrfc1, InitAr2,
     InitTrfc2, InitMrs, InitTmrd, IdleForcedRefresh, IdleDueRefresh, IdleAccept,
     IdleReady, StartRefresh, RefTrfc, Trcd, RdCmdLo, RdClLo, RdCapLo, RdCmdHi,
     RdClHi, RdCapHi, WrCmdLo, WrCmdHi, Twr, Pre, Trp, Resp, GoTo, ReleaseDq, Drive
<1> QED
  BY <1>1, <1>2, <1>3, <1>4

-----------------------------------------------------------------------------
(* The refresh counters, as facts small enough for one prover each.        *)

LEMMA AgeTypes ==
  ASSUME CountAge, refresh_age \in Cycles16,
         refresh_pending \in BOOLEAN, force_refresh \in BOOLEAN
  PROVE  /\ refresh_age' \in Cycles16
         /\ refresh_pending' \in BOOLEAN /\ force_refresh' \in BOOLEAN
<1>1. refresh_age' = 0
      \/ (refresh_age' = IF refresh_age < Max16 THEN refresh_age + 1 ELSE Max16)
  BY SMT DEF CountAge
<1>2. refresh_age' \in Cycles16
  BY SMT, <1>1 DEF Cycles16, Max16
<1>3. refresh_pending' \in BOOLEAN /\ force_refresh' \in BOOLEAN
  BY SMT DEF CountAge, Counting, InitStates
<1> QED
  BY <1>2, <1>3

LEMMA NotYetDue ==
  ASSUME CountAge, Counting, ~refresh_pending'
  PROVE  /\ ~refresh_pending /\ ~(refresh_age >= REFI_CYCLES - 1)
         /\ refresh_age' = IF refresh_age < Max16 THEN refresh_age + 1 ELSE Max16
<1>1. ~refresh_pending /\ ~(refresh_age >= REFI_CYCLES - 1)
  BY Zenon DEF CountAge
<1>2. refresh_age' = IF refresh_age < Max16 THEN refresh_age + 1 ELSE Max16
  BY Zenon DEF CountAge
<1> QED
  BY <1>1, <1>2

LEMMA IdleCounts ==
  ASSUME ~Counting, CountAge
  PROVE  refresh_age' = 0 /\ ~force_refresh'
BY Zenon DEF CountAge

(* While no refresh is due the age is below the refresh interval.          *)
LEMMA AgeBelowRefi ==
  ASSUME CountAge, refresh_age \in Cycles16, ~refresh_pending'
  PROVE  refresh_age' < REFI_CYCLES
<1>1. CASE Counting
  <2>1. ~(refresh_age >= REFI_CYCLES - 1)
    BY <1>1, NotYetDue
  <2>2. refresh_age' = IF refresh_age < Max16 THEN refresh_age + 1 ELSE Max16
    BY <1>1, NotYetDue
  <2> QED
    BY SMT, <2>1, <2>2, SdramTimes DEF Cycles16, Max16
<1>2. CASE ~Counting
  <2>1. refresh_age' = 0
    BY <1>2, IdleCounts
  <2> QED
    BY SMT, <2>1, SdramTimes DEF Cycles16
<1> QED
  BY <1>1, <1>2

LEMMA ForceStays ==
  ASSUME CountAge, ~force_refresh,
         ~(refresh_age >= REFI_CYCLES + REFRESH_DEFER_CYCLES - 1)
  PROVE  ~force_refresh'
BY Zenon DEF CountAge

(* A refresh that is not due cannot become overdue in the next cycle.      *)
LEMMA NotForcedSoon ==
  ASSUME CountAge, refresh_age \in Cycles16, refresh_age < REFI_CYCLES, ~force_refresh
  PROVE  ~force_refresh'
<1>1. ~(refresh_age >= REFI_CYCLES + REFRESH_DEFER_CYCLES - 1)
  BY SMT, SdramTimes DEF Cycles16
<1> QED
  BY <1>1, ForceStays

-----------------------------------------------------------------------------
(* req_ready is raised by the free cycle of IDLE or by the last cycle of   *)
(* the initialisation, and by nothing else.                                *)
LEMMA ReadyComesFrom ==
  ASSUME NEW r, NEW d, Clock(r, d), req_ready'
  PROVE  IdleReady(r) \/ (InitTmrd /\ state' = "IDLE" /\ busy' = FALSE)
BY Zenon DEF Clock, PwrupWait, WaitPwrup, InitPre, InitTrp, InitAr1, InitTrfc1, InitAr2,
     InitTrfc2, InitMrs, InitTmrd, IdleForcedRefresh, IdleDueRefresh, IdleAccept,
     IdleReady, StartRefresh, RefTrfc, Trcd, RdCmdLo, RdClLo, RdCapLo, RdCmdHi,
     RdClHi, RdCapHi, WrCmdLo, WrCmdHi, Twr, Pre, Trp, Resp, GoTo, Issue, Quiet, NotReady

(* What a request that meets req_ready does, given what req_ready promises. *)
LEMMA ReadyAccepts ==
  ASSUME NEW r, NEW d, Clock(r, d), r # NoReq,
         state = "IDLE", ~busy, ~force_refresh
  PROVE  busy' = TRUE
BY SMT DEF Clock, PwrupWait, WaitPwrup, InitPre, InitTrp, InitAr1, InitTrfc1, InitAr2,
     InitTrfc2, InitMrs, InitTmrd, IdleForcedRefresh, IdleDueRefresh, IdleAccept,
     IdleReady, StartRefresh, RefTrfc, Trcd, RdCmdLo, RdClLo, RdCapLo, RdCmdHi,
     RdClHi, RdCapHi, WrCmdLo, WrCmdHi, Twr, Pre, Trp, Resp, GoTo, CountDown

(* busy is lowered only together with the answer.                          *)
LEMMA BusyUntilAnswer ==
  ASSUME NEW r, NEW d, Clock(r, d), state \in AccessStates
  PROVE  busy' = busy \/ resp_valid' = TRUE
<1>1. busy' = busy \/ resp_valid' = TRUE \/ state = "IDLE" \/ state = "INIT_TMRD"
  BY Zenon DEF Clock, PwrupWait, WaitPwrup, InitPre, InitTrp, InitAr1, InitTrfc1, InitAr2,
     InitTrfc2, InitMrs, InitTmrd, IdleForcedRefresh, IdleDueRefresh, IdleAccept,
     IdleReady, StartRefresh, RefTrfc, Trcd, RdCmdLo, RdClLo, RdCapLo, RdCmdHi,
     RdClHi, RdCapHi, WrCmdLo, WrCmdHi, Twr, Pre, Trp, Resp, GoTo, Issue, Quiet, reqVars
<1>2. state # "IDLE" /\ state # "INIT_TMRD"
  BY SMT DEF AccessStates, ReadStates, WriteStates
<1> QED
  BY Zenon, <1>1, <1>2

(* The handshake invariant survives a clock cycle with any host input.     *)
LEMMA HandshakeTick ==
  ASSUME HandshakeInv, NEW r \in Requests \cup {NoReq}, Tick(r)
  PROVE  HandshakeInv'
<1> DEFINE d == DqBus(dq_oe, dq_out)
<1>1. Clock(r, d) /\ TrackSent(r)
  BY DEF Tick
<1> HIDE DEF d
<1>2. FsmTypeOK
  BY DEF HandshakeInv
<1>3. FsmTypeOK'
  <2>1. state' \in States /\ busy' \in BOOLEAN /\ req_ready' \in BOOLEAN
    BY <1>1, <1>2, StateType, BusyType, OutputTypes DEF FsmTypeOK
  <2>2. CASE CountAge
    BY <2>1, <2>2, <1>2, AgeTypes DEF FsmTypeOK
  <2>3. CASE StartRefresh
    <3>1. refresh_age' \in Cycles16
      BY SMT, <2>3 DEF StartRefresh, Cycles16, Max16
    <3>2. refresh_pending' \in BOOLEAN /\ force_refresh' \in BOOLEAN
      BY Zenon, <2>3 DEF StartRefresh
    <3> QED
      BY Zenon, <2>1, <3>1, <3>2 DEF FsmTypeOK
  <2> QED
    BY <1>1, <2>2, <2>3, AgeOrRefresh
<1>4. ~refresh_pending' => refresh_age' < REFI_CYCLES
  <2>1. CASE CountAge
    BY <2>1, <1>2, AgeBelowRefi DEF FsmTypeOK
  <2>2. CASE StartRefresh
    BY SMT, <2>2, SdramTimes DEF StartRefresh, Cycles16
  <2> QED
    BY <1>1, <2>1, <2>2, AgeOrRefresh
<1>5. busy' <=> state' \in AccessStates
  BY <1>1, BusyIsAccess DEF HandshakeInv, FsmTypeOK
<1>6. ReadyIsHonoured'
  <2>1. SUFFICES ASSUME req_ready' PROVE state' = "IDLE" /\ ~busy' /\ ~force_refresh'
    BY DEF ReadyIsHonoured
  <2>2. CASE IdleReady(r)
    <3>1. state' = "IDLE" /\ ~busy' /\ CountAge /\ ~force_refresh /\ ~refresh_pending
      BY <2>2 DEF IdleReady, reqVars
    <3>2. refresh_age < REFI_CYCLES /\ refresh_age \in Cycles16
      BY <3>1 DEF HandshakeInv, FsmTypeOK
    <3> QED
      BY <3>1, <3>2, NotForcedSoon
  <2>3. CASE InitTmrd /\ state' = "IDLE" /\ busy' = FALSE
    <3>1. CountAge /\ ~Counting
      BY <2>3 DEF InitTmrd, Counting, InitStates
    <3> QED
      BY <2>3, <3>1, IdleCounts
  <2> QED
    BY <1>1, <2>1, <2>2, <2>3, ReadyComesFrom
<1>7. NoLostRequest'
  <2>1. SUFFICES ASSUME req_sent' PROVE busy' \/ resp_valid'
    BY DEF NoLostRequest
  <2>2. CASE r # NoReq /\ req_ready
    BY <1>1, <2>2, ReadyAccepts DEF HandshakeInv, ReadyIsHonoured
  <2>3. CASE ~(r # NoReq /\ req_ready)
    <3>1. req_sent /\ ~resp_valid
      BY <1>1, <2>1, <2>3 DEF TrackSent
    <3>2. busy /\ state \in AccessStates
      BY <3>1 DEF HandshakeInv, NoLostRequest
    <3> QED
      BY <1>1, <3>2, BusyUntilAnswer
  <2> QED
    BY <2>2, <2>3
<1> QED
  BY <1>3, <1>4, <1>5, <1>6, <1>7 DEF HandshakeInv

(* The values of the reset satisfy the invariant.                          *)
LEMMA ResetValues ==
  /\ "PWRUP_WAIT" \in States /\ "PWRUP_WAIT" \notin AccessStates
  /\ 0 \in Cycles16 /\ 0 < REFI_CYCLES
<1>1. "PWRUP_WAIT" \in States /\ "PWRUP_WAIT" \notin AccessStates
  BY SMT DEF States, InitStates, AccessStates, ReadStates, WriteStates
<1>2. 0 \in Cycles16 /\ 0 < REFI_CYCLES
  BY SMT, SdramTimes DEF Cycles16, Max16
<1> QED
  BY <1>1, <1>2

LEMMA HandshakeReset ==
  ASSUME SystemReset PROVE HandshakeInv'
BY Zenon, ResetValues
  DEF SystemReset, Reset, HandshakeInv, FsmTypeOK, ReadyIsHonoured, NoLostRequest

(* For all delays and under both host disciplines, the handshake invariant *)
(* holds in every reachable state of controller, chip and host.            *)
THEOREM HandshakeInvariance == Spec => []HandshakeInv
<1>1. Init => HandshakeInv
  BY Zenon, ResetValues
    DEF Init, InReset, HandshakeInv, FsmTypeOK, ReadyIsHonoured, NoLostRequest
<1>2. HandshakeInv /\ [Next]_sysVars => HandshakeInv'
  <2> SUFFICES ASSUME HandshakeInv, [Next]_sysVars PROVE HandshakeInv'
    OBVIOUS
  <2>1. CASE SystemReset
    BY <2>1, HandshakeReset
  <2>2. ASSUME NEW r \in Requests \cup {NoReq}, Tick(r) PROVE HandshakeInv'
    BY <2>2, HandshakeTick
  <2>3. CASE UNCHANGED sysVars
    BY <2>3 DEF sysVars, ctrlVars, refreshVars, reqVars, HandshakeInv, FsmTypeOK,
      ReadyIsHonoured, NoLostRequest
  <2> QED
    BY <2>1, <2>2, <2>3 DEF Next
<1> QED
  BY <1>1, <1>2, PTL DEF Spec

(* A host that saw req_ready when it raised req_valid waits for a response *)
(* that is coming, whatever the refresh interval and deferral are.         *)
THEOREM NoRequestIsLost == Spec => []NoLostRequest
BY HandshakeInvariance, PTL DEF HandshakeInv

(* req_ready is never withdrawn by a refresh in the cycle it is used.      *)
THEOREM ReadyHonoured == Spec => []ReadyIsHonoured
BY HandshakeInvariance, PTL DEF HandshakeInv

-----------------------------------------------------------------------------

(***************************************************************************)
(* Refresh.  It waits for the access that is on its way and for nothing    *)
(* else: CyclesLeft falls with every clock edge of an access, and while no *)
(* refresh is overdue its age follows the time since the last one.         *)
(***************************************************************************)
Gap   == since["REF"]
Due   == REFI_CYCLES + REFRESH_DEFER_CYCLES
Limit == REFI_CYCLES + REFRESH_DEFER_CYCLES + AccessCycles + InitTail

(* The clock edges until an access is back in IDLE, at most.               *)
CyclesLeft(s, w) ==
  CASE s = "IDLE"      -> 0
    [] s = "RESP"      -> 1
    [] s = "TRP"       -> w + 2
    [] s = "PRE"       -> TRP_CYCLES + 3
    [] s = "TWR"       -> w + TRP_CYCLES + 4
    [] s = "WR_CMD_HI" -> TWR_CYCLES + TRP_CYCLES + 5
    [] s = "WR_CMD_LO" -> TWR_CYCLES + TRP_CYCLES + 6
    [] s = "RD_CAP_HI" -> TRP_CYCLES + 4
    [] s = "RD_CL_HI"  -> w + TRP_CYCLES + 5
    [] s = "RD_CMD_HI" -> CAS_LATENCY_CYCLES + TRP_CYCLES + 6
    [] s = "RD_CAP_LO" -> CAS_LATENCY_CYCLES + TRP_CYCLES + 7
    [] s = "RD_CL_LO"  -> w + CAS_LATENCY_CYCLES + TRP_CYCLES + 8
    [] s = "RD_CMD_LO" -> 2 * CAS_LATENCY_CYCLES + TRP_CYCLES + 9
    [] OTHER           -> w + BeatCycles + TRP_CYCLES + 4

Serving == state \in AccessStates \cup {"IDLE"}

(* The gap after the second refresh of the initialisation, and after any   *)
(* other one.                                                              *)
FreshInv ==
  /\ state = "INIT_TRFC2" => Gap + wait_count <= TRFC_CYCLES
  /\ state = "INIT_MRS"   => Gap <= TRFC_CYCLES + 1
  /\ state = "INIT_TMRD"  => Gap + wait_count <= TRFC_CYCLES + TMRD_CYCLES + 2
  /\ state = "REF_TRFC"   => Gap + wait_count <= TRFC_CYCLES

AgeInv ==
  /\ ~force_refresh => refresh_age < Due
  /\ ~force_refresh /\ state \in AccessStates \cup {"IDLE", "REF_TRFC"}
       => Gap <= refresh_age + InitTail

RefreshInv ==
  /\ wait_count \in Cycles16 /\ Gap \in Nat
  /\ FreshInv /\ AgeInv
  /\ Serving => Gap + CyclesLeft(state, wait_count) <= Limit

-----------------------------------------------------------------------------
(* The delays as natural numbers, and the longest access.                  *)
LEMMA DelayTypes ==
  /\ TRP_CYCLES \in Nat /\ TRFC_CYCLES \in Nat /\ TMRD_CYCLES \in Nat
  /\ TRCD_CYCLES \in Nat /\ TWR_CYCLES \in Nat /\ CAS_LATENCY_CYCLES \in Nat
  /\ REFI_CYCLES \in Nat \ {0} /\ REFRESH_DEFER_CYCLES \in Nat \ {0}
  /\ Due \in Nat \ {0} /\ Due <= Max16
BY SdramTimes DEF Cycles16, Due, Max16

LEMMA BeatBounds ==
  /\ BeatCycles \in Nat
  /\ BeatCycles >= 2 * CAS_LATENCY_CYCLES + 6
  /\ BeatCycles >= TWR_CYCLES + 3
BY DelayTypes DEF BeatCycles

LEMMA AccessTypes ==
  /\ AccessCycles \in Nat /\ InitTail \in Nat /\ Limit \in Nat
  /\ Limit = Due + AccessCycles + InitTail
  /\ AccessCycles = TRCD_CYCLES + BeatCycles + TRP_CYCLES + 4
  /\ InitTail = TRFC_CYCLES + TMRD_CYCLES + 3
BY DelayTypes, BeatBounds DEF AccessCycles, InitTail, Limit, Due

(* What the chip observes: one cycle more, or a refresh.                   *)
LEMMA GapStep ==
  ASSUME NEW c, Observe(c), Gap \in Nat
  PROVE  /\ Gap' \in Nat /\ Gap' <= Gap + 1
         /\ c = AutoRefresh => Gap' = 0
<1>1. Horizon["REF"] \in Nat
  BY SystemParams DEF Events
<1>2. Gap' = IF EventOf(c) = "REF" THEN 0
             ELSE IF Gap < Horizon["REF"] THEN Gap + 1 ELSE Horizon["REF"]
  BY DEF Observe, Gap, Events
<1>3. c = AutoRefresh => EventOf(c) = "REF"
  BY DEF EventOf, AutoRefresh
<1> QED BY <1>1, <1>2, <1>3

(* An access moves on with every clock edge.                               *)
LEMMA AccessMoves ==
  ASSUME NEW r, NEW d, Clock(r, d), state \in AccessStates, wait_count \in Cycles16
  PROVE  /\ state' \in AccessStates \cup {"IDLE"}
         /\ CyclesLeft(state', wait_count') + 1 <= CyclesLeft(state, wait_count)
<1>0. wait_count \in Nat
  BY DEF Cycles16
<1>1. \/ Trcd \/ RdCmdLo \/ RdClLo \/ RdCapLo(d) \/ RdCmdHi \/ RdClHi \/ RdCapHi(d)
      \/ WrCmdLo \/ WrCmdHi \/ Twr \/ Pre \/ Trp \/ Resp
  BY SMT DEF Clock, PwrupWait, WaitPwrup, InitPre, InitTrp, InitAr1, InitTrfc1, InitAr2,
     InitTrfc2, InitMrs, InitTmrd, IdleForcedRefresh, IdleDueRefresh, IdleAccept,
     IdleReady, StartRefresh, RefTrfc, GoTo, CountDown, AccessStates, ReadStates, WriteStates
<1>2. CASE Trcd
  <2>1. \/ state' = "TRCD" /\ wait_count' = wait_count - 1
        \/ state' \in {"WR_CMD_LO", "RD_CMD_LO"} /\ wait_count' = wait_count
    BY <1>2 DEF Trcd, CountDown
  <2>2. state = "TRCD"
    BY <1>2 DEF Trcd, CountDown
  <2> QED BY <1>0, <2>1, <2>2, DelayTypes, BeatBounds
          DEF CyclesLeft, AccessStates, ReadStates, WriteStates
<1>3. CASE RdCmdLo \/ RdClLo \/ RdCapLo(d)
  BY <1>0, <1>3, DelayTypes DEF RdCmdLo, RdClLo, RdCapLo, GoTo, CountDown, Load,
     CyclesLeft, AccessStates, ReadStates, WriteStates
<1>4. CASE RdCmdHi \/ RdClHi \/ RdCapHi(d)
  BY <1>0, <1>4, DelayTypes DEF RdCmdHi, RdClHi, RdCapHi, GoTo, CountDown, Load,
     CyclesLeft, AccessStates, ReadStates, WriteStates
<1>5. CASE WrCmdLo \/ WrCmdHi \/ Twr
  BY <1>0, <1>5, DelayTypes DEF WrCmdLo, WrCmdHi, Twr, GoTo, CountDown, Load,
     CyclesLeft, AccessStates, ReadStates, WriteStates
<1>6. CASE Pre \/ Trp \/ Resp
  BY <1>0, <1>6, DelayTypes DEF Pre, Trp, Resp, GoTo, CountDown, Load,
     CyclesLeft, AccessStates, ReadStates, WriteStates
<1> QED BY <1>1, <1>2, <1>3, <1>4, <1>5, <1>6

(* Where the states a refresh has just been in are entered from.           *)
LEMMA FreshSources ==
  ASSUME NEW r, NEW d, Clock(r, d),
         state' \in {"INIT_TRFC2", "INIT_MRS", "INIT_TMRD", "REF_TRFC"}
  PROVE  InitAr2 \/ InitTrfc2 \/ InitMrs \/ InitTmrd \/ StartRefresh \/ RefTrfc
BY SMT DEF Clock, PwrupWait, WaitPwrup, InitPre, InitTrp, InitAr1, InitTrfc1,
     IdleForcedRefresh, IdleDueRefresh, IdleAccept,
     IdleReady, Trcd, RdCmdLo, RdClLo, RdCapLo, RdCmdHi,
     RdClHi, RdCapHi, WrCmdLo, WrCmdHi, Twr, Pre, Trp, Resp, GoTo, CountDown

LEMMA FreshMoves ==
  ASSUME RefreshInv, NEW r, NEW d, Clock(r, d), Observe(cmd')
  PROVE  FreshInv'
<1> USE DEF Cycles16
<1>1. SUFFICES ASSUME state' \in {"INIT_TRFC2", "INIT_MRS", "INIT_TMRD", "REF_TRFC"}
               PROVE  FreshInv'
  BY DEF FreshInv
<1>2. wait_count \in Nat /\ Gap \in Nat /\ Gap' \in Nat /\ Gap' <= Gap + 1
      /\ (cmd' = AutoRefresh => Gap' = 0)
  BY GapStep DEF RefreshInv
<1>3. CASE InitAr2 \/ StartRefresh
  <2>1. cmd' = AutoRefresh /\ wait_count' = TRFC_CYCLES /\ state' \in {"INIT_TRFC2", "REF_TRFC"}
    BY <1>3 DEF InitAr2, StartRefresh, Issue, GoTo, Load
  <2> QED BY <1>2, <2>1, DelayTypes DEF FreshInv
<1>4. CASE InitTrfc2 \/ InitMrs
  BY <1>2, <1>4, DelayTypes
     DEF RefreshInv, FreshInv, InitTrfc2, InitMrs, GoTo, CountDown, Load
<1>5. CASE InitTmrd \/ RefTrfc
  BY <1>1, <1>2, <1>5, DelayTypes DEF RefreshInv, FreshInv, InitTmrd, RefTrfc, CountDown, Load
<1> QED BY <1>1, <1>3, <1>4, <1>5, FreshSources

(* While no refresh is overdue the age runs, one by one, below Due.        *)
LEMMA AgeRuns ==
  ASSUME CountAge, refresh_age \in Cycles16, ~force_refresh'
  PROVE  /\ refresh_age' < Due
         /\ Counting => ~force_refresh /\ refresh_age' = refresh_age + 1
<1>1. CASE Counting
  <2>1. ~force_refresh /\ ~(refresh_age >= REFI_CYCLES + REFRESH_DEFER_CYCLES - 1)
    BY <1>1, Zenon DEF CountAge
  <2>2. refresh_age' = IF refresh_age < Max16 THEN refresh_age + 1 ELSE Max16
    BY <1>1, Zenon DEF CountAge
  <2>3. refresh_age < Due - 1
    BY <2>1, DelayTypes DEF Due, Cycles16
  <2> QED BY <2>1, <2>2, <2>3, DelayTypes DEF Cycles16, Max16
<1>2. CASE ~Counting
  <2>1. refresh_age' = 0
    BY <1>2, IdleCounts
  <2> QED BY <1>2, <2>1, DelayTypes DEF Due
<1> QED BY <1>1, <1>2

(* The states that follow the initialisation are entered from each other   *)
(* and from the last wait of the initialisation.                           *)
LEMMA ServingSources ==
  ASSUME NEW r, NEW d, Clock(r, d), state' \in AccessStates \cup {"IDLE", "REF_TRFC"}
  PROVE  state \in AccessStates \cup {"IDLE", "REF_TRFC"} \/ InitTmrd
BY SMT DEF Clock, PwrupWait, WaitPwrup, InitPre, InitTrp, InitAr1, InitTrfc1, InitAr2,
     InitTrfc2, InitMrs, IdleForcedRefresh, IdleDueRefresh, IdleAccept,
     IdleReady, StartRefresh, RefTrfc, Trcd, RdCmdLo, RdClLo, RdCapLo, RdCmdHi,
     RdClHi, RdCapHi, WrCmdLo, WrCmdHi, Twr, Pre, Trp, Resp, GoTo, CountDown,
     AccessStates, ReadStates, WriteStates

LEMMA AgeMoves ==
  ASSUME HandshakeInv, RefreshInv, NEW r, NEW d, Clock(r, d), Observe(cmd')
  PROVE  AgeInv'
<1>1. refresh_age \in Cycles16 /\ Gap \in Nat /\ Gap' \in Nat /\ Gap' <= Gap + 1
      /\ (cmd' = AutoRefresh => Gap' = 0)
  BY GapStep DEF RefreshInv, HandshakeInv, FsmTypeOK
<1>2. CASE StartRefresh
  <2>1. cmd' = AutoRefresh /\ refresh_age' = 0
    BY <1>2 DEF StartRefresh
  <2> QED BY <1>1, <2>1, DelayTypes, AccessTypes DEF AgeInv
<1>3. CASE CountAge
  <2>1. SUFFICES ASSUME ~force_refresh'
                 PROVE  /\ refresh_age' < Due
                        /\ state' \in AccessStates \cup {"IDLE", "REF_TRFC"}
                             => Gap' <= refresh_age' + InitTail
    BY DEF AgeInv
  <2>2. refresh_age' < Due
    BY <1>1, <1>3, <2>1, AgeRuns
  <2>3. ASSUME state \in AccessStates \cup {"IDLE", "REF_TRFC"}
        PROVE  Gap' <= refresh_age' + InitTail
    <3>1. Counting
      BY <2>3 DEF Counting, InitStates, AccessStates, ReadStates, WriteStates
    <3>2. ~force_refresh /\ refresh_age' = refresh_age + 1
      BY <1>1, <1>3, <2>1, <3>1, AgeRuns
    <3>3. Gap <= refresh_age + InitTail
      BY <2>3, <3>2 DEF RefreshInv, AgeInv
    <3> QED BY <1>1, <3>2, <3>3, AccessTypes DEF Cycles16
  <2>4. ASSUME InitTmrd, state' \in AccessStates \cup {"IDLE", "REF_TRFC"}
        PROVE  Gap' <= refresh_age' + InitTail
    <3>1. state = "INIT_TMRD" /\ wait_count \in Nat
      BY <2>4 DEF InitTmrd, RefreshInv, Cycles16
    <3>2. refresh_age' = 0
      BY <1>3, <3>1, IdleCounts DEF Counting, InitStates
    <3>3. Gap <= TRFC_CYCLES + TMRD_CYCLES + 2
      BY <1>1, <3>1, DelayTypes DEF RefreshInv, FreshInv
    <3> QED BY <1>1, <3>2, <3>3, AccessTypes, DelayTypes
  <2> QED BY <2>2, <2>3, <2>4, ServingSources
<1> QED BY <1>2, <1>3, AgeOrRefresh

(* Only IDLE, the wait of a refresh and the end of the initialisation lead *)
(* to a state that serves, besides the access itself.                      *)
LEMMA LimitMoves ==
  ASSUME HandshakeInv, RefreshInv, NEW r, NEW d, Clock(r, d), Observe(cmd'), Serving'
  PROVE  Gap' + CyclesLeft(state', wait_count') <= Limit
<1>1. Gap \in Nat /\ Gap' \in Nat /\ Gap' <= Gap + 1 /\ wait_count \in Nat
  BY GapStep DEF RefreshInv, Cycles16
<1>2. refresh_age \in Nat
  BY DEF HandshakeInv, FsmTypeOK, Cycles16
<1>3. CASE state \in AccessStates
  <2>1. Gap + CyclesLeft(state, wait_count) <= Limit
    BY <1>3 DEF RefreshInv, Serving
  <2>2. CyclesLeft(state', wait_count') + 1 <= CyclesLeft(state, wait_count)
    BY <1>3, AccessMoves DEF RefreshInv
  <2>3. CyclesLeft(state, wait_count) \in Int /\ CyclesLeft(state', wait_count') \in Int
    <3>1. \A s \in States, w \in Nat : CyclesLeft(s, w) \in Int
      BY DelayTypes, BeatBounds DEF CyclesLeft
    <3>2. state \in States /\ state' \in States /\ wait_count' \in Nat
      BY StateType, WaitType DEF HandshakeInv, FsmTypeOK, RefreshInv, Cycles16
    <3> QED BY <1>1, <3>1, <3>2
  <2> QED BY <1>1, <2>1, <2>2, <2>3, AccessTypes
<1>4. CASE state = "IDLE"
  <2>1. ~force_refresh /\ (IdleAccept(r) \/ IdleReady(r))
    BY <1>4 DEF Serving, Clock, PwrupWait, WaitPwrup, InitPre, InitTrp, InitAr1, InitTrfc1,
       InitAr2, InitTrfc2, InitMrs, InitTmrd, IdleForcedRefresh, IdleDueRefresh, IdleAccept,
       IdleReady, StartRefresh, RefTrfc, Trcd, RdCmdLo, RdClLo, RdCapLo, RdCmdHi,
       RdClHi, RdCapHi, WrCmdLo, WrCmdHi, Twr, Pre, Trp, Resp, GoTo, CountDown,
       AccessStates, ReadStates, WriteStates
  <2>2. Gap' <= Due + InitTail
    BY <1>1, <1>2, <1>4, <2>1, DelayTypes, AccessTypes DEF RefreshInv, AgeInv
  <2>3. \/ state' = "RESP"
        \/ state' = "TRCD" /\ wait_count' = TRCD_CYCLES
        \/ state' = "IDLE"
    BY <1>4, <2>1 DEF IdleAccept, IdleReady, GoTo, Load
  <2>4. CyclesLeft(state', wait_count') <= AccessCycles
    BY <2>3, DelayTypes, BeatBounds, AccessTypes DEF CyclesLeft
  <2>5. CyclesLeft(state', wait_count') \in Int
    BY <2>3, DelayTypes, BeatBounds DEF CyclesLeft
  <2> QED BY <1>1, <2>2, <2>4, <2>5, DelayTypes, AccessTypes
<1>5. CASE state = "REF_TRFC" \/ InitTmrd
  <2>1. state' = "IDLE"
    <3>1. InitTmrd => state' \in {"IDLE", "INIT_TMRD"}
      BY DEF InitTmrd
    <3>2. state = "REF_TRFC" => RefTrfc
      BY DEF Clock, PwrupWait, WaitPwrup, InitPre, InitTrp, InitAr1, InitTrfc1,
       InitAr2, InitTrfc2, InitMrs, InitTmrd, IdleForcedRefresh, IdleDueRefresh, IdleAccept,
       IdleReady, StartRefresh, Trcd, RdCmdLo, RdClLo, RdCapLo, RdCmdHi,
       RdClHi, RdCapHi, WrCmdLo, WrCmdHi, Twr, Pre, Trp, Resp, GoTo, CountDown
    <3>3. RefTrfc => state' \in {"IDLE", "REF_TRFC"}
      BY DEF RefTrfc, CountDown
    <3> QED BY <1>5, <3>1, <3>2, <3>3 DEF Serving, AccessStates, ReadStates, WriteStates
  <2>2. Gap <= TRFC_CYCLES + TMRD_CYCLES + 2
    BY <1>1, <1>5, DelayTypes DEF RefreshInv, FreshInv, InitTmrd
  <2>3. CyclesLeft(state', wait_count') = 0
    BY <2>1 DEF CyclesLeft
  <2> QED BY <1>1, <2>2, <2>3, DelayTypes, AccessTypes
<1> QED BY <1>3, <1>4, <1>5, ServingSources DEF Serving

-----------------------------------------------------------------------------
LEMMA RefreshTick ==
  ASSUME HandshakeInv, RefreshInv, NEW r \in Requests \cup {NoReq}, Tick(r)
  PROVE  RefreshInv'
<1> DEFINE d == DqBus(dq_oe, dq_out)
<1>1. Clock(r, d) /\ Observe(cmd')
  BY DEF Tick, ChipStep
<1> HIDE DEF d
<1>2. wait_count' \in Cycles16 /\ Gap' \in Nat
  BY <1>1, WaitType, GapStep DEF RefreshInv
<1>3. FreshInv' /\ AgeInv'
  BY <1>1, FreshMoves, AgeMoves
<1>4. Serving' => Gap' + CyclesLeft(state', wait_count') <= Limit
  BY <1>1, LimitMoves
<1> QED BY <1>2, <1>3, <1>4 DEF RefreshInv

(* After a reset nothing is claimed until the second refresh of the new    *)
(* initialisation.                                                         *)
LEMMA AfterReset ==
  ASSUME NEW s, s = "PWRUP_WAIT"
  PROVE  s \notin AccessStates \cup {"IDLE", "REF_TRFC", "INIT_TRFC2", "INIT_MRS", "INIT_TMRD"}
BY DEF AccessStates, ReadStates, WriteStates

LEMMA RefreshReset == ASSUME RefreshInv, SystemReset PROVE RefreshInv'
<1>1. state' = "PWRUP_WAIT" /\ wait_count' = 0 /\ refresh_age' = 0
  BY DEF SystemReset, Reset
<1>2. \E c : Observe(c)
  BY DEF SystemReset, ChipReset, ChipStep
<1>3. Gap' \in Nat
  BY <1>2, GapStep DEF RefreshInv
<1> QED BY <1>1, <1>3, AfterReset, DelayTypes
        DEF RefreshInv, FreshInv, AgeInv, Serving, Cycles16, Max16

LEMMA RefreshInit == Init => RefreshInv
<1> SUFFICES ASSUME Init PROVE RefreshInv
  OBVIOUS
<1>1. state = "PWRUP_WAIT" /\ wait_count = 0 /\ refresh_age = 0 /\ since = Horizon
  BY DEF Init, InReset, ChipInit
<1>2. Gap \in Nat
  BY <1>1, SystemParams DEF Gap, Events
<1> QED BY <1>1, <1>2, AfterReset, DelayTypes
        DEF RefreshInv, FreshInv, AgeInv, Serving, Cycles16, Max16

(* How long ago the last refresh was is known in every state, and how long *)
(* the access takes that the next one waits for.                           *)
THEOREM RefreshInvariance == Spec => [](HandshakeInv /\ RefreshInv)
<1>1. HandshakeInv /\ RefreshInv /\ [Next]_sysVars => RefreshInv'
  <2> SUFFICES ASSUME HandshakeInv, RefreshInv, [Next]_sysVars PROVE RefreshInv'
    OBVIOUS
  <2>1. CASE SystemReset
    BY <2>1, RefreshReset
  <2>2. ASSUME NEW r \in Requests \cup {NoReq}, Tick(r) PROVE RefreshInv'
    BY <2>2, RefreshTick
  <2>3. CASE UNCHANGED sysVars
    <3>1. UNCHANGED <<state, wait_count, refresh_age, force_refresh, since>>
      BY <2>3 DEF sysVars, ctrlVars, refreshVars, chipVars
    <3> QED BY <3>1 DEF RefreshInv, FreshInv, AgeInv, Serving, Gap
  <2> QED BY <2>1, <2>2, <2>3 DEF Next
<1> QED BY <1>1, RefreshInit, HandshakeInvariance, PTL DEF Spec

(* Under any traffic, a host that never lowers req_valid included, the     *)
(* chip is refreshed in time.                                              *)
THEOREM RefreshedOnTime == Spec => []RefreshOnTime
<1>1. HandshakeInv /\ RefreshInv => RefreshOnTime
  <2> SUFFICES ASSUME HandshakeInv, RefreshInv, state \notin InitStates \cup {"WAIT_PWRUP"}
               PROVE  Gap <= Limit
    BY DEF RefreshOnTime, Gap, Limit
  <2>1. Gap \in Nat /\ wait_count \in Nat /\ state \in States
    BY DEF RefreshInv, HandshakeInv, FsmTypeOK, Cycles16
  <2>2. CASE Serving
    <3>1. CyclesLeft(state, wait_count) \in Nat
      BY <2>1, DelayTypes, BeatBounds DEF CyclesLeft
    <3> QED BY <2>1, <2>2, <3>1, AccessTypes DEF RefreshInv
  <2>3. CASE state = "REF_TRFC"
    BY <2>1, <2>3, DelayTypes, BeatBounds, AccessTypes DEF RefreshInv, FreshInv
  <2>4. Serving \/ state = "REF_TRFC"
    BY <2>1 DEF Serving, States, AccessStates
  <2> QED BY <2>2, <2>3, <2>4
<1> QED BY <1>1, RefreshInvariance, PTL

(***************************************************************************)
(* Commands.  Every one finds the row it needs open or closed, and the     *)
(* spacings tRP, tRCD, tRFC, tMRD and tWR behind it.  For any delays, as   *)
(* long as the wait after a reset is not shorter than the recovery of what *)
(* the reset may have cut short.                                           *)
(***************************************************************************)
(* The delay that follows a command, before the commands it holds up.      *)
Delay(e) == CASE e = "PRE" -> TRP_CYCLES
              [] e = "REF" -> TRFC_CYCLES
              [] e = "MRS" -> TMRD_CYCLES
              [] e = "WR"  -> TWR_CYCLES
              [] OTHER     -> TRCD_CYCLES

(* A reset during a refresh or a write: PRECHARGE ALL follows after the    *)
(* power-up wait.  And the history sees far enough to tell.                *)
ResetIsLong ==
  /\ PWRUP_WAIT_CYCLES + 1 >= TRFC_CYCLES /\ PWRUP_WAIT_CYCLES + 1 >= TWR_CYCLES
  /\ \A e \in Events : Horizon[e] + 1 >= Delay(e)

(* The states that count the delay of e, and those that may rely on it.    *)
Counts(e) ==
  CASE e = "PRE" -> {"INIT_TRP", "TRP"}
    [] e = "REF" -> {"WAIT_PWRUP", "INIT_TRFC1", "INIT_TRFC2", "REF_TRFC"}
    [] e = "MRS" -> {"INIT_TMRD"}
    [] e = "WR"  -> {"WAIT_PWRUP", "TWR"}
    [] OTHER     -> {"TRCD"}

Columns == ReadStates \cup {"WR_CMD_LO", "WR_CMD_HI"}

Settled(e) ==
  CASE e = "PRE" -> States \ {"PWRUP_WAIT", "WAIT_PWRUP", "INIT_PRE", "INIT_TRP", "TRP"}
    [] e = "REF" -> States \ {"PWRUP_WAIT", "WAIT_PWRUP", "INIT_TRFC1", "INIT_TRFC2", "REF_TRFC"}
    [] e = "MRS" -> AccessStates \cup {"IDLE", "REF_TRFC"}
    [] e = "WR"  -> States \ {"PWRUP_WAIT", "WAIT_PWRUP", "WR_CMD_HI", "TWR"}
    [] OTHER     -> Columns

SpacingInv ==
  \A e \in Events :
    /\ since[e] \in Nat
    /\ state \in Counts(e)  => since[e] + wait_count + 1 >= Delay(e)
    /\ state \in Settled(e) => since[e] + 1 >= Delay(e)

Closed == {"INIT_TRP", "INIT_AR1", "INIT_TRFC1", "INIT_AR2", "INIT_TRFC2", "INIT_MRS",
           "INIT_TMRD", "IDLE", "REF_TRFC", "TRP", "RESP"}

RowInv ==
  /\ state \in Closed => row_open = FALSE
  /\ state \in Columns \cup {"TRCD"} => row_open = TRUE /\ open_ba = Bank(lat.addr)
  /\ state \in AccessStates \cup {"IDLE", "REF_TRFC", "INIT_TMRD"} => mode_set = TRUE

CommandInv == wait_count \in Cycles16 /\ SpacingInv /\ RowInv

-----------------------------------------------------------------------------
LEMMA DelayIsNat ==
  /\ PWRUP_WAIT_CYCLES \in Nat /\ TRP_CYCLES \in Nat /\ TRFC_CYCLES \in Nat
  /\ TMRD_CYCLES \in Nat /\ TRCD_CYCLES \in Nat /\ TWR_CYCLES \in Nat
  /\ \A e \in Events : Delay(e) \in Nat
BY SdramTimes DEF Cycles16, Delay

(* What the chip observes of a command.                                    *)
LEMMA SinceStep ==
  ASSUME NEW c, Observe(c), NEW e \in Events, since[e] \in Nat, ResetIsLong
  PROVE  /\ since'[e] \in Nat
         /\ EventOf(c) # e => since'[e] > since[e] \/ since'[e] + 1 >= Delay(e)
<1>1. Horizon[e] \in Nat /\ Horizon[e] + 1 >= Delay(e)
  BY SystemParams DEF ResetIsLong
<1>2. since'[e] = IF EventOf(c) = e THEN 0
                  ELSE IF since[e] < Horizon[e] THEN since[e] + 1 ELSE Horizon[e]
  BY DEF Observe
<1> QED BY <1>1, <1>2

(* What a clock edge means for the spacing after e: a command loads the    *)
(* timer or makes nothing of it, a wait counts down, and only a wait that  *)
(* is over lets a state rely on the spacing.                               *)
SpacingEdge(e) ==
  /\ EventOf(cmd') = e =>
       /\ state' \notin Settled(e)
       /\ state' \in Counts(e) => wait_count' = Delay(e)
  /\ EventOf(cmd') # e /\ state' \in Counts(e) =>
       \/ state \in Counts(e) /\ wait_count # 0 /\ wait_count' = wait_count - 1
       \/ e \in {"REF", "WR"} /\ wait_count' = PWRUP_WAIT_CYCLES
  /\ EventOf(cmd') # e /\ state' \in Settled(e) =>
       \/ state \in Settled(e)
       \/ state \in Counts(e) /\ wait_count = 0

LEMMA PreEdge ==
  ASSUME NEW r, NEW d, Clock(r, d), state \in States
  PROVE  SpacingEdge("PRE")
BY SMTT(60) DEF Clock, PwrupWait, WaitPwrup, InitPre, InitTrp, InitAr1, InitTrfc1, InitAr2,
     InitTrfc2, InitMrs, InitTmrd, IdleForcedRefresh, IdleDueRefresh, IdleAccept,
     IdleReady, StartRefresh, RefTrfc, Trcd, RdCmdLo, RdClLo, RdCapLo, RdCmdHi,
     RdClHi, RdCapHi, WrCmdLo, WrCmdHi, Twr, Pre, Trp, Resp, GoTo, CountDown, Issue, Load,
     SpacingEdge, EventOf, Settled, Counts, Delay, States, InitStates, ReadStates,
     WriteStates, AccessStates, Columns, Nop, PrechargeAll, AutoRefresh, LoadMode, Active, Precharge, Read, Write

LEMMA RefEdge ==
  ASSUME NEW r, NEW d, Clock(r, d), state \in States
  PROVE  SpacingEdge("REF")
BY SMTT(60) DEF Clock, PwrupWait, WaitPwrup, InitPre, InitTrp, InitAr1, InitTrfc1, InitAr2,
     InitTrfc2, InitMrs, InitTmrd, IdleForcedRefresh, IdleDueRefresh, IdleAccept,
     IdleReady, StartRefresh, RefTrfc, Trcd, RdCmdLo, RdClLo, RdCapLo, RdCmdHi,
     RdClHi, RdCapHi, WrCmdLo, WrCmdHi, Twr, Pre, Trp, Resp, GoTo, CountDown, Issue, Load,
     SpacingEdge, EventOf, Settled, Counts, Delay, States, InitStates, ReadStates,
     WriteStates, AccessStates, Columns, Nop, PrechargeAll, AutoRefresh, LoadMode, Active, Precharge, Read, Write

LEMMA MrsEdge ==
  ASSUME NEW r, NEW d, Clock(r, d), state \in States
  PROVE  SpacingEdge("MRS")
BY SMTT(60) DEF Clock, PwrupWait, WaitPwrup, InitPre, InitTrp, InitAr1, InitTrfc1, InitAr2,
     InitTrfc2, InitMrs, InitTmrd, IdleForcedRefresh, IdleDueRefresh, IdleAccept,
     IdleReady, StartRefresh, RefTrfc, Trcd, RdCmdLo, RdClLo, RdCapLo, RdCmdHi,
     RdClHi, RdCapHi, WrCmdLo, WrCmdHi, Twr, Pre, Trp, Resp, GoTo, CountDown, Issue, Load,
     SpacingEdge, EventOf, Settled, Counts, Delay, States, InitStates, ReadStates,
     WriteStates, AccessStates, Columns, Nop, PrechargeAll, AutoRefresh, LoadMode, Active, Precharge, Read, Write

LEMMA WrEdge ==
  ASSUME NEW r, NEW d, Clock(r, d), state \in States
  PROVE  SpacingEdge("WR")
BY SMTT(60) DEF Clock, PwrupWait, WaitPwrup, InitPre, InitTrp, InitAr1, InitTrfc1, InitAr2,
     InitTrfc2, InitMrs, InitTmrd, IdleForcedRefresh, IdleDueRefresh, IdleAccept,
     IdleReady, StartRefresh, RefTrfc, Trcd, RdCmdLo, RdClLo, RdCapLo, RdCmdHi,
     RdClHi, RdCapHi, WrCmdLo, WrCmdHi, Twr, Pre, Trp, Resp, GoTo, CountDown, Issue, Load,
     SpacingEdge, EventOf, Settled, Counts, Delay, States, InitStates, ReadStates,
     WriteStates, AccessStates, Columns, Nop, PrechargeAll, AutoRefresh, LoadMode, Active, Precharge, Read, Write

LEMMA ActEdge ==
  ASSUME NEW r, NEW d, Clock(r, d), state \in States
  PROVE  SpacingEdge("ACT")
BY SMTT(60) DEF Clock, PwrupWait, WaitPwrup, InitPre, InitTrp, InitAr1, InitTrfc1, InitAr2,
     InitTrfc2, InitMrs, InitTmrd, IdleForcedRefresh, IdleDueRefresh, IdleAccept,
     IdleReady, StartRefresh, RefTrfc, Trcd, RdCmdLo, RdClLo, RdCapLo, RdCmdHi,
     RdClHi, RdCapHi, WrCmdLo, WrCmdHi, Twr, Pre, Trp, Resp, GoTo, CountDown, Issue, Load,
     SpacingEdge, EventOf, Settled, Counts, Delay, States, InitStates, ReadStates,
     WriteStates, AccessStates, Columns, Nop, PrechargeAll, AutoRefresh, LoadMode, Active, Precharge, Read, Write

LEMMA SpacingTick ==
  ASSUME ResetIsLong, CommandInv, state \in States, NEW r, NEW d, Clock(r, d), Observe(cmd')
  PROVE  SpacingInv'
<1> SUFFICES ASSUME NEW e \in Events
             PROVE  /\ since'[e] \in Nat
                    /\ state' \in Counts(e)  => since'[e] + wait_count' + 1 >= Delay(e)
                    /\ state' \in Settled(e) => since'[e] + 1 >= Delay(e)
  BY DEF SpacingInv
<1>1. SpacingEdge(e)
  BY PreEdge, RefEdge, MrsEdge, WrEdge, ActEdge DEF Events
<1>2. /\ since[e] \in Nat /\ wait_count \in Nat /\ wait_count' \in Nat
      /\ Delay(e) \in Nat /\ PWRUP_WAIT_CYCLES \in Nat
  BY DelayIsNat, WaitType DEF CommandInv, SpacingInv, Cycles16
<1>3. /\ since'[e] \in Nat
      /\ EventOf(cmd') # e => since'[e] > since[e] \/ since'[e] + 1 >= Delay(e)
  BY <1>2, SinceStep
<1>4. CASE EventOf(cmd') = e
  BY <1>1, <1>2, <1>3, <1>4 DEF SpacingEdge
<1>5. CASE EventOf(cmd') # e
  <2>1. CASE since'[e] + 1 >= Delay(e)
    BY <1>2, <1>3, <2>1
  <2>2. CASE since'[e] > since[e]
    <3>1. ASSUME state' \in Counts(e) PROVE since'[e] + wait_count' + 1 >= Delay(e)
      <4>1. CASE state \in Counts(e) /\ wait_count # 0 /\ wait_count' = wait_count - 1
        <5>1. since[e] + wait_count + 1 >= Delay(e)
          BY <4>1 DEF CommandInv, SpacingInv
        <5> QED BY <1>2, <1>3, <2>2, <4>1, <5>1
      <4>2. CASE e \in {"REF", "WR"} /\ wait_count' = PWRUP_WAIT_CYCLES
        BY <1>2, <1>3, <4>2 DEF ResetIsLong, Delay
      <4> QED BY <1>1, <1>5, <3>1, <4>1, <4>2 DEF SpacingEdge
    <3>2. ASSUME state' \in Settled(e) PROVE since'[e] + 1 >= Delay(e)
      <4>1. since[e] + 1 >= Delay(e) \/ since[e] + 0 + 1 >= Delay(e)
        BY <1>1, <1>5, <3>2 DEF SpacingEdge, CommandInv, SpacingInv
      <4> QED BY <1>2, <1>3, <2>2, <4>1
    <3> QED BY <1>3, <3>1, <3>2
  <2> QED BY <1>3, <1>5, <2>1, <2>2
<1> QED BY <1>4, <1>5

-----------------------------------------------------------------------------
(* What a clock edge means for the row buffer and the mode register.       *)
LEMMA RowEdge ==
  ASSUME NEW r, NEW d, Clock(r, d), state \in States
  PROVE  /\ state' \in Closed =>
              \/ cmd'.op \in {"PRE", "PREALL"}
              \/ state \in Closed /\ cmd'.op # "ACT"
         /\ state' \in Columns \cup {"TRCD"} =>
              \/ cmd'.op = "ACT" /\ cmd'.ba = Bank(lat'.addr)
              \/ /\ state \in Columns \cup {"TRCD"} /\ UNCHANGED lat
                 /\ cmd'.op \notin {"ACT", "PRE", "PREALL"}
         /\ state' \in AccessStates \cup {"IDLE", "REF_TRFC", "INIT_TMRD"} =>
              \/ cmd'.op = "MRS"
              \/ state \in AccessStates \cup {"IDLE", "REF_TRFC", "INIT_TMRD"}
BY SMTT(60) DEF Clock, PwrupWait, WaitPwrup, InitPre, InitTrp, InitAr1, InitTrfc1, InitAr2,
     InitTrfc2, InitMrs, InitTmrd, IdleForcedRefresh, IdleDueRefresh, IdleAccept,
     IdleReady, StartRefresh, RefTrfc, Trcd, RdCmdLo, RdClLo, RdCapLo, RdCmdHi,
     RdClHi, RdCapHi, WrCmdLo, WrCmdHi, Twr, Pre, Trp, Resp, GoTo, CountDown, Issue, reqVars,
     Closed, States, InitStates, ReadStates,
     WriteStates, AccessStates, Columns, Nop, PrechargeAll, AutoRefresh, LoadMode, Active, Precharge, Read, Write

LEMMA RowTick ==
  ASSUME RowInv, state \in States, NEW r, NEW d, Clock(r, d),
         RowStep(cmd'), Observe(cmd')
  PROVE  RowInv'
<1>1. ASSUME state' \in Closed PROVE row_open' = FALSE
  BY <1>1, RowEdge DEF RowInv, RowStep
<1>2. ASSUME state' \in Columns \cup {"TRCD"}
      PROVE  row_open' = TRUE /\ open_ba' = Bank(lat'.addr)
  BY <1>2, RowEdge DEF RowInv, RowStep
<1>3. ASSUME state' \in AccessStates \cup {"IDLE", "REF_TRFC", "INIT_TMRD"}
      PROVE  mode_set' = TRUE
  BY <1>3, RowEdge DEF RowInv, Observe
<1> QED BY <1>1, <1>2, <1>3 DEF RowInv

-----------------------------------------------------------------------------
(* Which states issue a command.                                           *)
LEMMA CommandOf ==
  ASSUME NEW r, NEW d, Clock(r, d)
  PROVE  /\ cmd'.op = "ACT" => state = "IDLE"
         /\ cmd'.op \in {"RD", "WR"} => state \in Columns /\ cmd'.ba = Bank(lat.addr)
         /\ cmd'.op \in {"REF", "MRS"} => state \in {"INIT_AR1", "INIT_AR2", "INIT_MRS", "IDLE"}
         /\ cmd'.op \in {"PRE", "PREALL"} => state \in {"INIT_PRE", "PRE"}
BY SMTT(60) DEF Clock, PwrupWait, WaitPwrup, InitPre, InitTrp, InitAr1, InitTrfc1, InitAr2,
     InitTrfc2, InitMrs, InitTmrd, IdleForcedRefresh, IdleDueRefresh, IdleAccept,
     IdleReady, StartRefresh, RefTrfc, Trcd, RdCmdLo, RdClLo, RdCapLo, RdCmdHi,
     RdClHi, RdCapHi, WrCmdLo, WrCmdHi, Twr, Pre, Trp, Resp, GoTo, CountDown, Issue,
     States, InitStates, ReadStates,
     WriteStates, AccessStates, Columns, Nop, PrechargeAll, AutoRefresh, LoadMode, Active, Precharge, Read, Write

(* What the states promise a command that is issued in them.               *)
LEMMA Promises ==
  ASSUME CommandInv
  PROVE  /\ state \in {"INIT_AR1", "INIT_AR2", "INIT_MRS", "IDLE"} =>
              /\ ~row_open
              /\ Elapsed("PRE", TRP_CYCLES) /\ Elapsed("REF", TRFC_CYCLES)
         /\ state = "IDLE" => mode_set /\ Elapsed("MRS", TMRD_CYCLES)
         /\ state \in Columns =>
              row_open /\ open_ba = Bank(lat.addr) /\ Elapsed("ACT", TRCD_CYCLES)
         /\ state \in {"INIT_PRE", "PRE"} =>
              Elapsed("WR", TWR_CYCLES) /\ Elapsed("REF", TRFC_CYCLES)
<1>1. /\ Delay("PRE") = TRP_CYCLES /\ Delay("REF") = TRFC_CYCLES
      /\ Delay("MRS") = TMRD_CYCLES /\ Delay("WR") = TWR_CYCLES
      /\ Delay("ACT") = TRCD_CYCLES
  BY DEF Delay
<1>2. \A e \in Events : state \in Settled(e) => Elapsed(e, Delay(e))
  BY DEF CommandInv, SpacingInv, Elapsed
<1>3. state \in {"INIT_AR1", "INIT_AR2", "INIT_MRS", "IDLE"} =>
        state \in Settled("PRE") /\ state \in Settled("REF") /\ state \in Closed
  BY DEF Settled, Closed, States, InitStates
<1>4. state = "IDLE" => state \in Settled("MRS")
  BY DEF Settled
<1>5. state \in Columns => state \in Settled("ACT")
  BY DEF Settled
<1>6. state \in {"INIT_PRE", "PRE"} => state \in Settled("WR") /\ state \in Settled("REF")
  BY DEF Settled, States, InitStates
<1>7. {"PRE", "REF", "MRS", "WR", "ACT"} = Events
  BY DEF Events
<1> QED BY <1>1, <1>2, <1>3, <1>4, <1>5, <1>6, <1>7 DEF CommandInv, RowInv

LEMMA LegalTick ==
  ASSUME CommandInv, NEW r, NEW d, Clock(r, d)
  PROVE  LegalCommand(cmd')
BY CommandOf, Promises DEF LegalCommand

-----------------------------------------------------------------------------
LEMMA CommandTick ==
  ASSUME ResetIsLong, HandshakeInv, CommandInv, NEW r \in Requests \cup {NoReq}, Tick(r)
  PROVE  CommandInv' /\ LegalCommand(cmd')
<1> DEFINE d == DqBus(dq_oe, dq_out)
<1>1. Clock(r, d) /\ RowStep(cmd') /\ Observe(cmd')
  BY DEF Tick, ChipStep
<1> HIDE DEF d
<1>2. state \in States
  BY DEF HandshakeInv, FsmTypeOK
<1> QED BY <1>1, <1>2, WaitType, SpacingTick, RowTick, LegalTick DEF CommandInv

(* A reset leaves the row as it is, issues nothing and relies on nothing.  *)
LEMMA PwrupWaitIsBare ==
  /\ \A e \in Events : "PWRUP_WAIT" \notin Counts(e) \cup Settled(e)
  /\ "PWRUP_WAIT" \notin Closed \cup Columns \cup {"TRCD"}
  /\ "PWRUP_WAIT" \notin AccessStates \cup {"IDLE", "REF_TRFC", "INIT_TMRD"}
BY DEF Events, Counts, Settled, Closed, States, InitStates, ReadStates, WriteStates,
     AccessStates, Columns

LEMMA CommandReset ==
  ASSUME ResetIsLong, CommandInv, SystemReset
  PROVE  CommandInv' /\ LegalCommand(cmd')
<1>1. state' = "PWRUP_WAIT" /\ wait_count' = 0 /\ cmd' = Nop
  BY DEF SystemReset, Reset
<1>2. PICK c : Observe(c)
  BY DEF SystemReset, ChipReset, ChipStep
<1>3. \A e \in Events : since'[e] \in Nat
  BY <1>2, SinceStep DEF CommandInv, SpacingInv
<1>4. SpacingInv' /\ RowInv'
  BY <1>1, <1>3, PwrupWaitIsBare DEF SpacingInv, RowInv
<1>5. wait_count' \in Cycles16
  BY <1>1 DEF Cycles16, Max16
<1>6. LegalCommand(cmd')
  BY <1>1 DEF LegalCommand, Nop
<1> QED BY <1>4, <1>5, <1>6 DEF CommandInv

LEMMA CommandInit == Init => CommandInv
<1> SUFFICES ASSUME Init PROVE CommandInv
  OBVIOUS
<1>1. state = "PWRUP_WAIT" /\ wait_count = 0 /\ since = Horizon
  BY DEF Init, InReset, ChipInit
<1>2. \A e \in Events : since[e] \in Nat
  BY <1>1, SystemParams
<1>3. wait_count \in Cycles16
  BY <1>1 DEF Cycles16, Max16
<1> QED BY <1>1, <1>2, <1>3, PwrupWaitIsBare DEF CommandInv, SpacingInv, RowInv

(* In every state it is known whether the row is open and which spacings   *)
(* are over; the same edges that keep this issue only legal commands.      *)
THEOREM CommandInvariance ==
  ASSUME ResetIsLong
  PROVE  Spec => [](HandshakeInv /\ CommandInv) /\ CommandsLegal
<1>1. HandshakeInv /\ CommandInv /\ [Next]_sysVars
        => CommandInv' /\ [LegalCommand(cmd')]_sysVars
  <2> SUFFICES ASSUME HandshakeInv, CommandInv, [Next]_sysVars
               PROVE  CommandInv' /\ [LegalCommand(cmd')]_sysVars
    OBVIOUS
  <2>1. CASE SystemReset
    BY <2>1, CommandReset
  <2>2. ASSUME NEW r \in Requests \cup {NoReq}, Tick(r)
        PROVE  CommandInv' /\ [LegalCommand(cmd')]_sysVars
    BY <2>2, CommandTick
  <2>3. CASE UNCHANGED sysVars
    <3>1. UNCHANGED <<state, wait_count, lat, row_open, open_ba, mode_set, since>>
      BY <2>3 DEF sysVars, ctrlVars, reqVars, chipVars, rowVars
    <3> QED BY <2>3, <3>1 DEF CommandInv, SpacingInv, RowInv
  <2> QED BY <2>1, <2>2, <2>3 DEF Next
<1> QED BY <1>1, CommandInit, HandshakeInvariance, PTL DEF Spec, CommandsLegal

(* Every command respects the row buffer and the spacings of the chip,     *)
(* resets at any moment included.                                          *)
THEOREM CommandsAreLegal ==
  ASSUME ResetIsLong
  PROVE  Spec => CommandsLegal
BY CommandInvariance, PTL
===============================================================================
