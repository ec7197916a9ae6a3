----------------------------- MODULE SdramChip -----------------------------
(***************************************************************************)
(* The SDRAM on the other side of the pins, as the repository's own        *)
(* simulation model sim/sdram_x16_model.v defines it: one open row, byte   *)
(* masks on writes, read data on DQ for one cycle after the CAS latency.   *)
(* It samples the pins just after the clock edge that drives them, so its  *)
(* step takes the controller's new outputs as arguments.                   *)
(*                                                                         *)
(* mode_set and since are history: whether LOAD MODE has been seen and how *)
(* long ago each kind of command was on the pins.  Only the timing         *)
(* properties read them.                                                   *)
(***************************************************************************)
EXTENDS SdramPins

CONSTANTS
  Cells,      \* the cells <<row, bank, column>> of the chip that are modelled
  Horizon     \* Horizon[e] is where since[e] saturates

VARIABLES
  mem,                            \* the cells
  row_open, open_ba, open_row,    \* the row ACTIVE opened
  read_pending, read_wait, read_data, dq_drive_en, dq_drive,
  mode_set, since

rowVars  == <<row_open, open_ba, open_row>>
readVars == <<read_pending, read_wait, read_data, dq_drive_en, dq_drive>>
chipVars == <<mem, rowVars, readVars, mode_set, since>>

Events == {"ACT", "PRE", "REF", "MRS", "WR"}
Floating == [i \in Lane |-> X]

(* The event a command is for the timing rules.                            *)
EventOf(c) == IF c.op = "PREALL" THEN "PRE" ELSE c.op

(* The DQ wires: the controller, else the chip, else nobody drives them.   *)
DqBus(oe, out) == IF oe THEN out ELSE IF dq_drive_en THEN dq_drive ELSE Floating

ChipInit ==
  /\ mem = [c \in Cells |-> [i \in Lane |-> ZERO]]
  /\ row_open = FALSE /\ open_ba = 0 /\ open_row = 0
  /\ read_pending = FALSE /\ read_wait = 0 /\ read_data = Floating
  /\ dq_drive_en = FALSE /\ dq_drive = Floating
  /\ mode_set = FALSE /\ since = Horizon

Observe(c) ==
  /\ mode_set' = (mode_set \/ c.op = "MRS")
  /\ since' = [e \in Events |->
                 IF EventOf(c) = e THEN 0
                 ELSE IF since[e] < Horizon[e] THEN since[e] + 1 ELSE Horizon[e]]

(* The row buffer: ACTIVE opens a row, either PRECHARGE closes it.         *)
RowStep(c) ==
  IF c.op = "ACT"
  THEN row_open' = TRUE /\ open_ba' = c.ba /\ open_row' = c.row
  ELSE /\ row_open' = (row_open /\ c.op \notin {"PRE", "PREALL"})
       /\ UNCHANGED <<open_ba, open_row>>

(* A WRITE stores the unmasked bytes of DQ in the open row.                *)
MemStep(c, oe, out) ==
  mem' = [x \in Cells |->
            [i \in Lane |->
               IF c.op = "WR" /\ x = <<open_row, c.ba, c.col>> /\ i \in c.en
               THEN DqBus(oe, out)[i] ELSE mem[x][i]]]

(* A READ is answered read_wait cycles later, for one cycle.               *)
ReadStep(c) ==
  /\ IF c.op = "RD"
     THEN /\ read_pending' = TRUE /\ read_wait' = CAS_LATENCY_CYCLES
          /\ read_data' = mem[<<open_row, c.ba, c.col>>]
     ELSE /\ read_pending' = (read_pending /\ read_wait # 0)
          /\ read_wait' = IF read_pending /\ read_wait # 0
                          THEN read_wait - 1 ELSE read_wait
          /\ UNCHANGED read_data
  /\ dq_drive_en' = IF read_pending THEN dq_drive_en \/ read_wait = 0 ELSE FALSE
  /\ dq_drive' = IF read_pending /\ read_wait = 0 THEN read_data ELSE dq_drive

ChipStep(c, oe, out) ==
  RowStep(c) /\ MemStep(c, oe, out) /\ ReadStep(c) /\ Observe(c)

(* The reset input of the simulation model; the chip on the board has none. *)
ChipReset ==
  /\ row_open' = FALSE /\ open_ba' = 0 /\ open_row' = 0
  /\ read_pending' = FALSE /\ read_wait' = 0 /\ read_data' = Floating
  /\ dq_drive_en' = FALSE /\ dq_drive' = Floating
  /\ UNCHANGED mem /\ Observe([op |-> "NOP"])
=============================================================================
