---------------------------- MODULE MCSdramData ----------------------------
(***************************************************************************)
(* Data run of SdramSystem: two words in different rows (the addresses     *)
(* differ in bit 12 only), a misaligned address, full and partial strobes. *)
(***************************************************************************)
EXTENDS SdramSystem

Both(b)  == [i \in {0, 1} |-> b]
All      == [lo |-> {0, 1}, hi |-> {0, 1}]
Partial  == [lo |-> {1}, hi |-> {0}]

(* Words with different halves, so that swapped beats show.                *)
WordA == [lo |-> [i \in {0, 1} |-> IF i = 0 THEN 1 ELSE 0], hi |-> Both(1)]
WordB == [lo |-> Both(0), hi |-> [i \in {0, 1} |-> IF i = 0 THEN 0 ELSE 1]]

MCRequests ==
  {[addr |-> a, we |-> FALSE, wdata |-> WordB, wstrb |-> [lo |-> {}, hi |-> {}]] :
     a \in {0, 4096, 2}}
  \cup {[addr |-> a, we |-> TRUE, wdata |-> w, wstrb |-> s] :
          a \in {0, 4096}, w \in {WordA, WordB}, s \in {All, Partial}}

MCCells == {CellLo(a) : a \in {0, 4096}} \cup {CellHi(a) : a \in {0, 4096}}

MCHorizon == [e \in Events |-> 0]
=============================================================================
