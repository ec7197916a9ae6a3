--------------------------- MODULE MCSdramTiming ---------------------------
(***************************************************************************)
(* Timing run of SdramSystem: the data is a single byte value, the delays  *)
(* are those of sim/tb_sdram_data_ctrl.v.                                  *)
(***************************************************************************)
EXTENDS SdramSystem

MCRequests ==
  {[addr |-> a, we |-> we, wdata |-> ZeroWord, wstrb |-> [lo |-> {}, hi |-> {}]] :
     a \in {0, 2}, we \in BOOLEAN}

MCCells == {CellLo(0), CellHi(0)}

(* Far enough to see every spacing, and an overdue refresh.                *)
MCHorizon == [e \in Events |-> IF e = "REF" THEN 80 ELSE 4]
=============================================================================
