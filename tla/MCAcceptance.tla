---------------------------- MODULE MCAcceptance ----------------------------
(* Acceptance for TLC, with the numbers of the test itself.                *)
EXTENDS Acceptance
MCTasks == DOMAIN priority
=============================================================================
