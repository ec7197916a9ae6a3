----------------------------- MODULE WordMemory ----------------------------
(***************************************************************************)
(* What rtl/soc/sdram_data_ctrl.v promises its host: a memory of words     *)
(* with byte strobes and one outstanding request, answered exactly once.   *)
(* Only a strobed byte of the addressed word ever changes, a write has     *)
(* stored all of them when it is answered, and a reset drops the request   *)
(* and may leave some of them stored.                                      *)
(***************************************************************************)
CONSTANTS Addrs,             \* the word addresses
          Requests, NoReq,
          ZeroWord, NoResp,
          Refused            \* the requests that are answered with an error

VARIABLES amem, areq, aresp

wordVars == <<amem, areq, aresp>>

Init == amem = [a \in Addrs |-> ZeroWord] /\ areq = NoReq /\ aresp = NoResp

Accept ==
  areq = NoReq /\ areq' \in Requests /\ aresp' = NoResp /\ UNCHANGED amem

IsStore == areq # NoReq /\ areq.we /\ areq \notin Refused

(* The word w with the bytes L of the outstanding write stored.            *)
Stored(w, L) ==
  [b \in {"lo", "hi"} |->
     [i \in {0, 1} |-> IF i \in L[b] THEN areq.wdata[b][i] ELSE w[b][i]]]

StoreBytes ==
  /\ IsStore /\ aresp' = NoResp /\ UNCHANGED areq
  /\ \E lo \in SUBSET areq.wstrb.lo, hi \in SUBSET areq.wstrb.hi :
       amem' = [amem EXCEPT ![areq.addr] = Stored(@, [lo |-> lo, hi |-> hi])]

Respond ==
  /\ areq # NoReq /\ areq' = NoReq /\ UNCHANGED amem
  /\ \/ areq \in Refused /\ aresp' = [err |-> TRUE, data |-> ZeroWord]
     \/ /\ IsStore /\ aresp' = [err |-> FALSE]
        /\ amem[areq.addr] = Stored(amem[areq.addr], areq.wstrb)
     \/ /\ ~areq.we /\ areq \notin Refused
        /\ aresp' = [err |-> FALSE, data |-> amem[areq.addr]]

Quiet == aresp' = NoResp /\ UNCHANGED <<amem, areq>>
Drop  == areq' = NoReq /\ aresp' = NoResp /\ UNCHANGED amem

Next == Accept \/ StoreBytes \/ Respond \/ Quiet \/ Drop

Spec == Init /\ [][Next]_wordVars
=============================================================================
