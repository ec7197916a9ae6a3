---------------------------- MODULE SdramSystem ----------------------------
(***************************************************************************)
(* The controller, the chip and a host, on one clock.                      *)
(*                                                                         *)
(* READY_FIRST is the discipline of the MiniSoC (tecplus_minisoc_top.v):   *)
(* req_valid is raised only while req_ready is high and nothing is         *)
(* outstanding.  Without it the host holds req_valid whenever it likes,    *)
(* as the pressure case of sim/tb_sdram_data_ctrl.v does.                  *)
(* req_sent is the SoC's flag "submitted, waiting for resp_valid".         *)
(***************************************************************************)
EXTENDS SdramCtrl, SdramChip

CONSTANTS READY_FIRST, NoResp

VARIABLE req_sent

sysVars == <<ctrlVars, chipVars, req_sent>>

(* The cells a word address selects.                                       *)
CellLo(a) == <<Row(a), Bank(a), ColLo(a)>>
CellHi(a) == <<Row(a), Bank(a), ColHi(a)>>
WordAddrs == {r.addr : r \in {q \in Requests : ~Misaligned(q.addr)}}

ASSUME SystemParams ==
  /\ Cells = {CellLo(a) : a \in WordAddrs} \cup {CellHi(a) : a \in WordAddrs}
  /\ Horizon \in [Events -> Nat] /\ READY_FIRST \in BOOLEAN

Init == InReset /\ ChipInit /\ req_sent = FALSE

(* What the host may put on the request pins in this cycle.                *)
MayDrive(r) == r = NoReq \/ ~READY_FIRST \/ (req_ready /\ ~req_sent)

(* sdram_req_sent: set by a handshake, cleared by the response.            *)
TrackSent(r) ==
  req_sent' = IF r # NoReq /\ req_ready THEN TRUE
              ELSE IF resp_valid THEN FALSE ELSE req_sent

Tick(r) ==
  /\ MayDrive(r)
  /\ Clock(r, DqBus(dq_oe, dq_out))
  /\ ChipStep(cmd', dq_oe', dq_out')
  /\ TrackSent(r)

(* The reset button: the host and the controller restart.  The chip is     *)
(* reset with them in the simulations and is not on the board.             *)
SystemReset ==
  /\ Reset /\ req_sent' = FALSE
  /\ ChipReset \/ ChipStep(cmd', dq_oe', dq_out')

Next == SystemReset \/ \E r \in Requests \cup {NoReq} : Tick(r)

Spec == Init /\ [][Next]_sysVars

(* The clock runs forever; nothing keeps the button from being pressed.    *)
ClockTicks == \E r \in Requests \cup {NoReq} : Tick(r)
FairSpec == Spec /\ WF_sysVars(ClockTicks)

-----------------------------------------------------------------------------
(* A host that saw req_ready when it raised req_valid waits for a response *)
(* that is coming: no refresh that starts in the same cycle, and no other  *)
(* branch of ST_IDLE, swallows the request.                                *)
NoLostRequest == req_sent => busy \/ resp_valid

(* req_ready is a promise about the next edge: the FSM is in ST_IDLE, free, *)
(* and no overdue refresh is about to take the slot.                       *)
ReadyIsHonoured == req_ready => state = "IDLE" /\ ~busy /\ ~force_refresh

(* The longest access: two read beats or two write beats, from the edge    *)
(* that issues ACTIVE to the one that answers.                             *)
BeatCycles == IF 2 * (CAS_LATENCY_CYCLES + 3) > TWR_CYCLES + 3
              THEN 2 * (CAS_LATENCY_CYCLES + 3) ELSE TWR_CYCLES + 3
AccessCycles == (TRCD_CYCLES + 1) + BeatCycles + 1 + (TRP_CYCLES + 1) + 1

(* From AR2 of the initialisation to the first cycle that counts the age.  *)
InitTail == TRFC_CYCLES + TMRD_CYCLES + 3

(* Under any traffic, a host that never lowers req_valid included, the     *)
(* chip is refreshed at least every REFI + DEFER cycles plus one access.   *)
RefreshOnTime ==
  state \notin InitStates \cup {"WAIT_PWRUP"}
    => since["REF"] <= REFI_CYCLES + REFRESH_DEFER_CYCLES + AccessCycles + InitTail

(* e was on the pins at least n cycles before the command being issued.    *)
Elapsed(e, n) == since[e] + 1 >= n

(* The chip's rules for the command c issued in this cycle.                *)
LegalCommand(c) ==
  /\ c.op = "ACT" => /\ mode_set /\ ~row_open /\ Elapsed("PRE", TRP_CYCLES)
                     /\ Elapsed("REF", TRFC_CYCLES) /\ Elapsed("MRS", TMRD_CYCLES)
  /\ c.op \in {"RD", "WR"} => /\ row_open /\ c.ba = open_ba
                              /\ Elapsed("ACT", TRCD_CYCLES)
  /\ c.op \in {"REF", "MRS"} => /\ ~row_open /\ Elapsed("PRE", TRP_CYCLES)
                                /\ Elapsed("REF", TRFC_CYCLES)
  /\ c.op \in {"PRE", "PREALL"} => /\ Elapsed("WR", TWR_CYCLES)
                                   /\ Elapsed("REF", TRFC_CYCLES)

(* Every command respects the state of the bank and the spacings tRP, tRCD, *)
(* tRFC, tMRD and tWR, also when a reset cuts an access short and the chip *)
(* keeps the row it left open.                                             *)
CommandsLegal == [][LegalCommand(cmd')]_sysVars

(* The pair of controller and chip is a word memory, as WordMemory says.   *)
WM == INSTANCE WordMemory WITH
        Addrs <- WordAddrs,
        Refused <- {r \in Requests : Misaligned(r.addr)},
        amem  <- [a \in WordAddrs |-> [lo |-> mem[CellLo(a)], hi |-> mem[CellHi(a)]]],
        areq  <- IF busy THEN lat ELSE NoReq,
        aresp <- IF ~resp_valid THEN NoResp
                 ELSE IF lat.we /\ ~resp_err THEN [err |-> FALSE]
                 ELSE [err |-> resp_err, data |-> resp_rdata]

(* Reads return what was last written byte by byte, every access is        *)
(* answered once and in order, a misaligned one with an error and no       *)
(* effect, and a reset mid-write tears only the strobed bytes.             *)
ImplementsWordMemory == WM!Spec

(* Unless the reset button is pressed, an accepted request is answered, and *)
(* a host that waits for req_ready is not starved by refreshes: again and  *)
(* again the controller offers to serve, or serves.                        *)
ServesForever == /\ busy ~> resp_valid \/ state = "PWRUP_WAIT"
                 /\ []<>(req_ready \/ busy \/ state = "PWRUP_WAIT")
=============================================================================
