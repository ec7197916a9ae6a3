------------------------- MODULE SdramMemory_proofs -------------------------
(***************************************************************************)
(* Controller and chip implement WordMemory, for every value of the        *)
(* delays, any requests and any moment of a reset.                         *)
(*                                                                         *)
(* The controller never asks the chip whether its data is on DQ, or when   *)
(* it takes DQ: each side counts for itself.  The invariant ties the two   *)
(* counts together, and the beats that are through to the cells they went  *)
(* to, or came from.                                                       *)
(***************************************************************************)
EXTENDS SdramSystem_proofs

(* The chip has 32 MiB and decodes the low 25 bits of an address: the SoC  *)
(* only sends it addresses of one such window (is_sdram of                 *)
(* tecplus_minisoc_top.v, SDRAM_SIZE).                                     *)
ChipSize == 33554432
OneWindow == \A a, b \in WordAddrs : a \div ChipSize = b \div ChipSize

Low  == mem[CellLo(lat.addr)]
High == mem[CellHi(lat.addr)]

Tail == {"PRE", "TRP", "RESP"}

(* The accepted request: which way it goes, and the row that is open.      *)
RequestInv ==
  /\ state \in AccessStates => lat \in Requests
  /\ state \in AccessStates \ {"RESP"} => ~Misaligned(lat.addr)
  /\ state \in ReadStates => ~lat.we
  /\ state \in WriteStates => lat.we
  /\ state \in Columns \cup {"TRCD"} => open_row = Row(lat.addr)

(* While the controller waits out the CAS latency the chip counts the same *)
(* number; when the controller captures, the chip drives the cell.         *)
Coming(h) == read_pending = TRUE /\ read_wait = wait_count /\ read_data = h
OnBus(h)  == dq_oe = FALSE /\ dq_drive_en = TRUE /\ dq_drive = h

ReadInv ==
  /\ state = "RD_CL_LO"  => Coming(Low)
  /\ state = "RD_CAP_LO" => OnBus(Low)
  /\ state = "RD_CL_HI"  => Coming(High)
  /\ state = "RD_CAP_HI" => OnBus(High)
  /\ state \in {"RD_CMD_HI", "RD_CL_HI", "RD_CAP_HI"} => rd_lo = Low
  /\ state \in Tail /\ ~lat.we /\ ~Misaligned(lat.addr) => rd_lo = Low /\ rd_hi = High

(* DQ holds the low half when the low WRITE goes out, and what was written *)
(* stays.                                                                  *)
Kept(h, w, en) == \A i \in en : h[i] = w[i]

WriteInv ==
  /\ state = "TRCD" /\ lat.we /\ wait_count = 0 => dq_out = lat.wdata.lo
  /\ state = "WR_CMD_LO" => dq_out = lat.wdata.lo
  /\ state \in {"WR_CMD_HI", "TWR"} => Kept(Low, lat.wdata.lo, lat.wstrb.lo)
  /\ state = "TWR" => Kept(High, lat.wdata.hi, lat.wstrb.hi)
  /\ state \in Tail /\ lat.we /\ ~Misaligned(lat.addr) =>
       /\ Kept(Low, lat.wdata.lo, lat.wstrb.lo)
       /\ Kept(High, lat.wdata.hi, lat.wstrb.hi)

MemoryInv ==
  /\ wait_count \in Cycles16 /\ mem \in [Cells -> Half] /\ resp_valid \in BOOLEAN
  /\ RequestInv /\ ReadInv /\ WriteInv
-----------------------------------------------------------------------------
(* An edge into an access state accepts the request on the pins, or goes   *)
(* on with the one it has.                                                 *)
Accepts(r) ==
  /\ r # NoReq /\ state = "IDLE" /\ lat' = r
  /\ \/ state' = "RESP" /\ Misaligned(r.addr)
     \/ /\ state' = "TRCD" /\ ~Misaligned(r.addr) /\ cmd' = Active(r.addr)
        /\ wait_count' = TRCD_CYCLES

GoesOn ==
  /\ state \in AccessStates \ {"RESP"} /\ lat' = lat /\ cmd'.op # "ACT"
  /\ state' \in ReadStates  => state \in ReadStates \/ (state = "TRCD" /\ ~lat.we)
  /\ state' \in WriteStates => state \in WriteStates \/ (state = "TRCD" /\ lat.we)
  /\ state' \in Columns \cup {"TRCD"} => state \in Columns \cup {"TRCD"}

LEMMA RequestEdge ==
  ASSUME NEW r, NEW d, Clock(r, d), state \in States, state' \in AccessStates
  PROVE  Accepts(r) \/ GoesOn
BY SMTT(60) DEF Clock, PwrupWait, WaitPwrup, InitPre, InitTrp, InitAr1, InitTrfc1, InitAr2,
     InitTrfc2, InitMrs, InitTmrd, IdleForcedRefresh, IdleDueRefresh, IdleAccept,
     IdleReady, StartRefresh, RefTrfc, Trcd, RdCmdLo, RdClLo, RdCapLo, RdCmdHi,
     RdClHi, RdCapHi, WrCmdLo, WrCmdHi, Twr, Pre, Trp, Resp, GoTo, CountDown, Issue,
     reqVars, Load, Accepts, GoesOn, States, InitStates, ReadStates, WriteStates, AccessStates, Columns,
     Nop, PrechargeAll, AutoRefresh, LoadMode, Active, Precharge, Read, Write

LEMMA RequestTick ==
  ASSUME RequestInv, state \in States, NEW r \in Requests \cup {NoReq}, NEW d,
         Clock(r, d), RowStep(cmd')
  PROVE  RequestInv'
<1> USE DEF States, InitStates, ReadStates, WriteStates, AccessStates, Columns
<1>1. CASE state' \notin AccessStates
  BY <1>1 DEF RequestInv
<1>2. CASE Accepts(r)
  BY <1>2 DEF RequestInv, Accepts, RowStep, Active
<1>3. CASE GoesOn
  BY <1>3 DEF RequestInv, GoesOn, RowStep
<1> QED BY <1>1, <1>2, <1>3, RequestEdge

-----------------------------------------------------------------------------
(* Reading: how the FSM comes to the states ReadInv is about.              *)
Keeps == lat' = lat /\ cmd' = Nop

ReadEdge(d) ==
  /\ state' = "RD_CL_LO" =>
       \/ /\ state = "RD_CMD_LO" /\ lat' = lat
          /\ cmd' = Read(lat.addr, ColLo(lat.addr)) /\ wait_count' = CAS_LATENCY_CYCLES
       \/ /\ state = "RD_CL_LO" /\ Keeps
          /\ wait_count # 0 /\ wait_count' = wait_count - 1
  /\ state' = "RD_CAP_LO" =>
       state = "RD_CL_LO" /\ wait_count = 0 /\ Keeps /\ dq_oe' = FALSE
  /\ state' = "RD_CMD_HI" => state = "RD_CAP_LO" /\ Keeps /\ rd_lo' = d
  /\ state' = "RD_CL_HI" =>
       \/ /\ state = "RD_CMD_HI" /\ lat' = lat /\ rd_lo' = rd_lo
          /\ cmd' = Read(lat.addr, ColHi(lat.addr)) /\ wait_count' = CAS_LATENCY_CYCLES
       \/ /\ state = "RD_CL_HI" /\ Keeps /\ rd_lo' = rd_lo
          /\ wait_count # 0 /\ wait_count' = wait_count - 1
  /\ state' = "RD_CAP_HI" =>
       state = "RD_CL_HI" /\ wait_count = 0 /\ Keeps /\ dq_oe' = FALSE /\ rd_lo' = rd_lo
  /\ state' \in Tail =>
       \/ state = "RD_CAP_HI" /\ Keeps /\ rd_lo' = rd_lo /\ rd_hi' = d
       \/ state = "TWR" /\ Keeps
       \/ /\ state \in Tail \ {"RESP"} /\ lat' = lat /\ cmd'.op # "WR"
          /\ rd_lo' = rd_lo /\ rd_hi' = rd_hi
       \/ Misaligned(lat'.addr)

LEMMA ReadEdges ==
  ASSUME NEW r, NEW d, Clock(r, d), state \in States
  PROVE  ReadEdge(d)
BY SMTT(60) DEF Clock, PwrupWait, WaitPwrup, InitPre, InitTrp, InitAr1, InitTrfc1, InitAr2,
     InitTrfc2, InitMrs, InitTmrd, IdleForcedRefresh, IdleDueRefresh, IdleAccept,
     IdleReady, StartRefresh, RefTrfc, Trcd, RdCmdLo, RdClLo, RdCapLo, RdCmdHi,
     RdClHi, RdCapHi, WrCmdLo, WrCmdHi, Twr, Pre, Trp, Resp, GoTo, CountDown, Issue,
     reqVars, rdVars, Load, ReleaseDq, ReadEdge, Keeps, Tail, States, InitStates, ReadStates,
     WriteStates, Nop, PrechargeAll, AutoRefresh, LoadMode, Active, Precharge, Read, Write

(* Only a WRITE changes a cell.                                            *)
LEMMA MemSame ==
  ASSUME mem \in [Cells -> Half], NEW c, NEW oe, NEW out, MemStep(c, oe, out), c.op # "WR"
  PROVE  mem' = mem
<1>1. mem' = [x \in Cells |-> [i \in Lane |-> mem[x][i]]]
  BY DEF MemStep
<1>2. \A x \in Cells : [i \in Lane |-> mem[x][i]] = mem[x]
  BY DEF Half
<1> QED BY <1>1, <1>2

LEMMA ReadTick ==
  ASSUME MemoryInv, state \in States, wait_count \in Cycles16, NEW r,
         Clock(r, DqBus(dq_oe, dq_out)), ChipStep(cmd', dq_oe', dq_out')
  PROVE  ReadInv'
<1> DEFINE d == DqBus(dq_oe, dq_out)
<1>1. ReadEdge(d) /\ MemStep(cmd', dq_oe', dq_out') /\ ReadStep(cmd')
  BY ReadEdges DEF ChipStep
<1>2. state \in {"RD_CAP_LO", "RD_CAP_HI"} /\ dq_oe = FALSE /\ dq_drive_en = TRUE => d = dq_drive
  BY DEF DqBus
<1> HIDE DEF d
<1>3. ASSUME cmd'.op # "WR", lat' = lat PROVE Low' = Low /\ High' = High
  BY <1>1, <1>3, MemSame DEF MemoryInv, Low, High
<1>4. Nop.op = "NOP"
  BY DEF Nop
<1>5. ASSUME state' = "RD_CL_LO" PROVE Coming(Low)'
  <2>1. CASE /\ state = "RD_CMD_LO" /\ lat' = lat
             /\ cmd' = Read(lat.addr, ColLo(lat.addr)) /\ wait_count' = CAS_LATENCY_CYCLES
    <3>1. open_row = Row(lat.addr)
      BY <2>1 DEF MemoryInv, RequestInv, Columns, ReadStates
    <3>2. Low' = Low
      BY <1>3, <2>1 DEF Read
    <3> QED BY <1>1, <2>1, <3>1, <3>2 DEF ReadStep, Read, Coming, Low, CellLo
  <2>2. CASE /\ state = "RD_CL_LO" /\ Keeps
             /\ wait_count # 0 /\ wait_count' = wait_count - 1
    <3>1. Low' = Low
      BY <1>3, <1>4, <2>2 DEF Keeps
    <3> QED BY <1>1, <1>4, <2>2, <3>1 DEF ReadStep, Keeps, Coming, MemoryInv, ReadInv
  <2> QED BY <1>1, <1>5, <2>1, <2>2 DEF ReadEdge
<1>6. ASSUME state' = "RD_CAP_LO" PROVE OnBus(Low)'
  <2>1. state = "RD_CL_LO" /\ wait_count = 0 /\ Keeps /\ dq_oe' = FALSE
    BY <1>1, <1>6 DEF ReadEdge
  <2>2. Low' = Low /\ Coming(Low)
    BY <1>3, <1>4, <2>1 DEF Keeps, MemoryInv, ReadInv
  <2> QED BY <1>1, <1>4, <2>1, <2>2 DEF ReadStep, Keeps, Coming, OnBus
<1>7. ASSUME state' = "RD_CMD_HI" PROVE rd_lo' = Low'
  <2>1. state = "RD_CAP_LO" /\ Keeps /\ rd_lo' = d
    BY <1>1, <1>7 DEF ReadEdge
  <2> QED BY <1>2, <1>3, <1>4, <2>1 DEF Keeps, MemoryInv, ReadInv, OnBus
<1>8. ASSUME state' = "RD_CL_HI" PROVE Coming(High)' /\ rd_lo' = Low'
  <2>1. CASE /\ state = "RD_CMD_HI" /\ lat' = lat /\ rd_lo' = rd_lo
             /\ cmd' = Read(lat.addr, ColHi(lat.addr)) /\ wait_count' = CAS_LATENCY_CYCLES
    <3>1. open_row = Row(lat.addr) /\ rd_lo = Low
      BY <2>1 DEF MemoryInv, RequestInv, ReadInv, Columns, ReadStates
    <3>2. Low' = Low /\ High' = High
      BY <1>3, <2>1 DEF Read
    <3> QED BY <1>1, <2>1, <3>1, <3>2 DEF ReadStep, Read, Coming, High, CellHi
  <2>2. CASE /\ state = "RD_CL_HI" /\ Keeps /\ rd_lo' = rd_lo
             /\ wait_count # 0 /\ wait_count' = wait_count - 1
    <3>1. Low' = Low /\ High' = High
      BY <1>3, <1>4, <2>2 DEF Keeps
    <3> QED BY <1>1, <1>4, <2>2, <3>1 DEF ReadStep, Keeps, Coming, MemoryInv, ReadInv
  <2> QED BY <1>1, <1>8, <2>1, <2>2 DEF ReadEdge
<1>9. ASSUME state' = "RD_CAP_HI" PROVE OnBus(High)' /\ rd_lo' = Low'
  <2>1. state = "RD_CL_HI" /\ wait_count = 0 /\ Keeps /\ dq_oe' = FALSE /\ rd_lo' = rd_lo
    BY <1>1, <1>9 DEF ReadEdge
  <2>2. Low' = Low /\ High' = High /\ Coming(High) /\ rd_lo = Low
    BY <1>3, <1>4, <2>1 DEF Keeps, MemoryInv, ReadInv
  <2> QED BY <1>1, <1>4, <2>1, <2>2 DEF ReadStep, Keeps, Coming, OnBus
<1>10. ASSUME state' \in Tail, ~lat'.we, ~Misaligned(lat'.addr)
       PROVE  rd_lo' = Low' /\ rd_hi' = High'
  <2>1. CASE state = "RD_CAP_HI" /\ Keeps /\ rd_lo' = rd_lo /\ rd_hi' = d
    BY <1>2, <1>3, <1>4, <2>1 DEF Keeps, MemoryInv, ReadInv, OnBus
  <2>2. CASE state = "TWR" /\ Keeps
    BY <1>10, <2>2 DEF Keeps, MemoryInv, RequestInv, WriteStates
  <2>3. CASE /\ state \in Tail \ {"RESP"} /\ lat' = lat /\ cmd'.op # "WR"
             /\ rd_lo' = rd_lo /\ rd_hi' = rd_hi
    <3>1. Low' = Low /\ High' = High
      BY <1>3, <2>3
    <3> QED BY <1>10, <2>3, <3>1 DEF MemoryInv, ReadInv
  <2> QED BY <1>1, <1>10, <2>1, <2>2, <2>3 DEF ReadEdge
<1> QED BY <1>5, <1>6, <1>7, <1>8, <1>9, <1>10 DEF ReadInv, Tail

-----------------------------------------------------------------------------
(* The cells of a word: two, and no other word of the window has one of    *)
(* them.                                                                   *)
LEMMA WordAddrsAligned ==
  ASSUME NEW a \in WordAddrs
  PROVE  a \in Nat /\ a % 4 = 0 /\ CellLo(a) \in Cells /\ CellHi(a) \in Cells
BY SdramData, SystemParams DEF WordAddrs, Misaligned, Request

LEMMA BeatsDiffer ==
  ASSUME NEW a \in Nat, NEW b \in Nat, a % 4 = 0, b % 4 = 0
  PROVE  CellLo(a) # CellHi(b)
<1>1. ColLo(a) % 2 = 0 /\ ColHi(b) % 2 = 1
  BY DEF ColLo, ColHi
<1> QED BY <1>1 DEF CellLo, CellHi

LEMMA SameWord ==
  ASSUME NEW a \in Nat, NEW b \in Nat, a % 4 = 0, b % 4 = 0,
         a \div ChipSize = b \div ChipSize,
         CellLo(a) = CellLo(b) \/ CellHi(a) = CellHi(b)
  PROVE  a = b
<1>1. Row(a) = Row(b) /\ Bank(a) = Bank(b) /\ ColLo(a) = ColLo(b)
  BY DEF CellLo, CellHi, ColHi, ColLo
<1> QED BY SMTT(60), <1>1 DEF Row, Bank, ColLo, ChipSize

(* The halfword h with the bytes en of w stored.                           *)
Merged(w, h, en) == [i \in Lane |-> IF i \in en THEN w[i] ELSE h[i]]

(* What a WRITE with the controller on DQ stores.                          *)
LEMMA BeatStored ==
  ASSUME mem \in [Cells -> Half], NEW c, NEW out, MemStep(c, TRUE, out), c.op = "WR",
         NEW x \in Cells, x = <<open_row, c.ba, c.col>>
  PROVE  /\ mem'[x] = Merged(out, mem[x], c.en)
         /\ \A y \in Cells \ {x} : mem'[y] = mem[y]
<1>1. mem'[x] = Merged(out, mem[x], c.en)
  BY DEF MemStep, DqBus, Merged
<1>2. ASSUME NEW y \in Cells \ {x} PROVE mem'[y] = mem[y]
  <2>1. mem'[y] = [i \in Lane |-> mem[y][i]]
    BY DEF MemStep
  <2> QED BY <2>1 DEF Half
<1> QED BY <1>1, <1>2

-----------------------------------------------------------------------------
(* Writing: how the FSM comes to the states WriteInv is about.             *)
WriteEdge ==
  /\ state' = "TRCD" /\ wait_count' = 0 =>
       state = "TRCD" /\ Keeps /\ (lat.we => dq_out' = lat.wdata.lo)
  /\ state' = "WR_CMD_LO" =>
       state = "TRCD" /\ wait_count = 0 /\ lat.we /\ Keeps /\ dq_out' = dq_out
  /\ state' = "WR_CMD_HI" =>
       /\ state = "WR_CMD_LO" /\ lat' = lat /\ dq_oe' = TRUE /\ dq_out' = dq_out
       /\ cmd' = Write(lat.addr, ColLo(lat.addr), lat.wstrb.lo)
  /\ state' = "TWR" =>
       \/ /\ state = "WR_CMD_HI" /\ lat' = lat /\ dq_oe' = TRUE /\ dq_out' = lat.wdata.hi
          /\ cmd' = Write(lat.addr, ColHi(lat.addr), lat.wstrb.hi)
       \/ state = "TWR" /\ Keeps
  /\ state' \in Tail =>
       \/ state \in {"RD_CAP_HI", "TWR"} /\ Keeps
       \/ state \in Tail \ {"RESP"} /\ lat' = lat /\ cmd'.op # "WR"
       \/ Misaligned(lat'.addr)

LEMMA WriteEdges ==
  ASSUME NEW r, NEW d, Clock(r, d), state \in States, wait_count \in Cycles16
  PROVE  WriteEdge
BY SMTT(60), SdramTimes DEF Clock, PwrupWait, WaitPwrup, InitPre, InitTrp, InitAr1, InitTrfc1, InitAr2,
     InitTrfc2, InitMrs, InitTmrd, IdleForcedRefresh, IdleDueRefresh, IdleAccept,
     IdleReady, StartRefresh, RefTrfc, Trcd, RdCmdLo, RdClLo, RdCapLo, RdCmdHi,
     RdClHi, RdCapHi, WrCmdLo, WrCmdHi, Twr, Pre, Trp, Resp, GoTo, CountDown, Issue,
     reqVars, Load, ReleaseDq, Drive, WriteEdge, Keeps, Tail, States, InitStates, ReadStates,
     WriteStates, Nop, PrechargeAll, AutoRefresh, LoadMode, Active, Precharge, Read, Write,
     Cycles16, Max16

(* The request of an access that is past its alignment check.              *)
LEMMA ServedWord ==
  ASSUME RequestInv, state \in AccessStates, ~Misaligned(lat.addr)
  PROVE  /\ lat.addr \in WordAddrs /\ lat.addr \in Nat /\ lat.addr % 4 = 0
         /\ CellLo(lat.addr) \in Cells /\ CellHi(lat.addr) \in Cells
         /\ CellLo(lat.addr) # CellHi(lat.addr)
         /\ lat.wdata \in Word /\ lat.wstrb \in Strobe
<1>1. lat \in Requests
  BY DEF RequestInv
<1>2. lat.addr \in WordAddrs
  BY <1>1 DEF WordAddrs
<1>3. lat.wdata \in Word /\ lat.wstrb \in Strobe
  BY <1>1, SdramData DEF Request
<1> QED BY <1>2, <1>3, WordAddrsAligned, BeatsDiffer

(* The low WRITE stores the strobed bytes of the low half and nothing else. *)
LEMMA LowBeat ==
  ASSUME MemoryInv, state = "WR_CMD_LO", MemStep(cmd', dq_oe', dq_out'),
         dq_oe' = TRUE, dq_out' = dq_out, lat' = lat,
         cmd' = Write(lat.addr, ColLo(lat.addr), lat.wstrb.lo)
  PROVE  /\ Low' = Merged(lat.wdata.lo, Low, lat.wstrb.lo)
         /\ \A y \in Cells \ {CellLo(lat.addr)} : mem'[y] = mem[y]
<1>1. /\ state \in AccessStates \ {"RESP"} /\ state \in Columns
  BY DEF AccessStates, WriteStates, ReadStates, Columns
<1>2. open_row = Row(lat.addr) /\ ~Misaligned(lat.addr) /\ dq_out = lat.wdata.lo
  BY <1>1 DEF MemoryInv, RequestInv, WriteInv
<1>3. CellLo(lat.addr) = <<open_row, cmd'.ba, cmd'.col>>
  BY <1>2 DEF Write, CellLo
<1>4. cmd'.op = "WR" /\ cmd'.en = lat.wstrb.lo
  BY DEF Write
<1>5. CellLo(lat.addr) \in Cells
  BY <1>1, <1>2, ServedWord DEF MemoryInv
<1>6. mem \in [Cells -> Half] /\ MemStep(cmd', TRUE, lat.wdata.lo)
  BY <1>2 DEF MemoryInv
<1> DEFINE x == CellLo(lat.addr)
<1>7. x \in Cells /\ x = <<open_row, cmd'.ba, cmd'.col>>
  BY <1>3, <1>5
<1> HIDE DEF x
<1>8. mem'[x] = Merged(lat.wdata.lo, mem[x], cmd'.en)
  BY <1>4, <1>6, <1>7, BeatStored
<1>9. \A y \in Cells \ {x} : mem'[y] = mem[y]
  BY <1>4, <1>6, <1>7, BeatStored
<1> QED BY <1>4, <1>8, <1>9 DEF x, Low

LEMMA HighBeat ==
  ASSUME MemoryInv, state = "WR_CMD_HI", MemStep(cmd', dq_oe', dq_out'),
         dq_oe' = TRUE, dq_out' = lat.wdata.hi, lat' = lat,
         cmd' = Write(lat.addr, ColHi(lat.addr), lat.wstrb.hi)
  PROVE  /\ High' = Merged(lat.wdata.hi, High, lat.wstrb.hi)
         /\ \A y \in Cells \ {CellHi(lat.addr)} : mem'[y] = mem[y]
<1>1. /\ state \in AccessStates \ {"RESP"} /\ state \in Columns
  BY DEF AccessStates, WriteStates, ReadStates, Columns
<1>2. open_row = Row(lat.addr) /\ ~Misaligned(lat.addr)
  BY <1>1 DEF MemoryInv, RequestInv
<1>3. CellHi(lat.addr) = <<open_row, cmd'.ba, cmd'.col>>
  BY <1>2 DEF Write, CellHi
<1>4. cmd'.op = "WR" /\ cmd'.en = lat.wstrb.hi
  BY DEF Write
<1>5. CellHi(lat.addr) \in Cells
  BY <1>1, <1>2, ServedWord DEF MemoryInv
<1>6. mem \in [Cells -> Half] /\ MemStep(cmd', TRUE, lat.wdata.hi)
  BY DEF MemoryInv
<1> DEFINE x == CellHi(lat.addr)
<1>7. x \in Cells /\ x = <<open_row, cmd'.ba, cmd'.col>>
  BY <1>3, <1>5
<1> HIDE DEF x
<1>8. mem'[x] = Merged(lat.wdata.hi, mem[x], cmd'.en)
  BY <1>4, <1>6, <1>7, BeatStored
<1>9. \A y \in Cells \ {x} : mem'[y] = mem[y]
  BY <1>4, <1>6, <1>7, BeatStored
<1> QED BY <1>4, <1>8, <1>9 DEF x, High

LEMMA MergedKeeps ==
  ASSUME NEW w \in Half, NEW h \in Half, NEW en \in SUBSET Lane
  PROVE  Merged(w, h, en) \in Half /\ Kept(Merged(w, h, en), w, en)
BY DEF Merged, Kept, Half

(* Which edges put a WRITE on the pins: one per beat.                      *)
WriteNow ==
  \/ /\ state = "WR_CMD_LO" /\ state' = "WR_CMD_HI" /\ lat' = lat
     /\ dq_oe' = TRUE /\ dq_out' = dq_out
     /\ cmd' = Write(lat.addr, ColLo(lat.addr), lat.wstrb.lo)
  \/ /\ state = "WR_CMD_HI" /\ state' = "TWR" /\ lat' = lat
     /\ dq_oe' = TRUE /\ dq_out' = lat.wdata.hi
     /\ cmd' = Write(lat.addr, ColHi(lat.addr), lat.wstrb.hi)

LEMMA WriteFrom ==
  ASSUME NEW r, NEW d, Clock(r, d), cmd'.op = "WR"
  PROVE  WriteNow
BY SMTT(60) DEF Clock, PwrupWait, WaitPwrup, InitPre, InitTrp, InitAr1, InitTrfc1, InitAr2,
     InitTrfc2, InitMrs, InitTmrd, IdleForcedRefresh, IdleDueRefresh, IdleAccept,
     IdleReady, StartRefresh, RefTrfc, Trcd, RdCmdLo, RdClLo, RdCapLo, RdCmdHi,
     RdClHi, RdCapHi, WrCmdLo, WrCmdHi, Twr, Pre, Trp, Resp, GoTo, CountDown, Issue,
     reqVars, Load, Drive, WriteNow, Nop, PrechargeAll, AutoRefresh, LoadMode, Active,
     Precharge, Read, Write

LEMMA MemType ==
  ASSUME MemoryInv, NEW r, NEW d, Clock(r, d), MemStep(cmd', dq_oe', dq_out')
  PROVE  mem' \in [Cells -> Half]
<1>1. mem \in [Cells -> Half] /\ RequestInv
  BY DEF MemoryInv
<1>2. CASE cmd'.op # "WR"
  BY <1>1, <1>2, MemSame
<1>3. CASE cmd'.op = "WR"
  <2>1. state \in {"WR_CMD_LO", "WR_CMD_HI"} /\ WriteNow
    BY <1>3, WriteFrom DEF WriteNow
  <2>2. ~Misaligned(lat.addr) /\ state \in AccessStates
    BY <1>1, <2>1 DEF RequestInv, AccessStates, WriteStates
  <2>3. /\ CellLo(lat.addr) \in Cells /\ CellHi(lat.addr) \in Cells
        /\ lat.wdata.lo \in Half /\ lat.wdata.hi \in Half
        /\ lat.wstrb.lo \in SUBSET Lane /\ lat.wstrb.hi \in SUBSET Lane
    BY <1>1, <2>2, ServedWord DEF Word, Strobe
  <2>4. Low \in Half /\ High \in Half
    BY <1>1, <2>3 DEF Low, High
  <2>5. /\ Merged(lat.wdata.lo, Low, lat.wstrb.lo) \in Half
        /\ Merged(lat.wdata.hi, High, lat.wstrb.hi) \in Half
    BY <2>3, <2>4, MergedKeeps
  <2>6. \A y \in Cells : mem'[y] \in Half
    <3>1. CASE state = "WR_CMD_LO"
      <4>1. Low' \in Half /\ \A y \in Cells \ {CellLo(lat.addr)} : mem'[y] = mem[y]
        BY <2>1, <2>5, <3>1, LowBeat DEF WriteNow
      <4>2. Low' = mem'[CellLo(lat.addr)]
        BY <2>1 DEF Low, WriteNow
      <4> QED BY <1>1, <4>1, <4>2
    <3>2. CASE state = "WR_CMD_HI"
      <4>1. High' \in Half /\ \A y \in Cells \ {CellHi(lat.addr)} : mem'[y] = mem[y]
        BY <2>1, <2>5, <3>2, HighBeat DEF WriteNow
      <4>2. High' = mem'[CellHi(lat.addr)]
        BY <2>1 DEF High, WriteNow
      <4> QED BY <1>1, <4>1, <4>2
    <3> QED BY <2>1, <3>1, <3>2
  <2>7. mem' = [x \in Cells |-> mem'[x]]
    BY DEF MemStep
  <2> QED BY <2>6, <2>7
<1> QED BY <1>2, <1>3

LEMMA WriteTick ==
  ASSUME MemoryInv, state \in States, wait_count \in Cycles16, NEW r, NEW d,
         Clock(r, d), MemStep(cmd', dq_oe', dq_out')
  PROVE  WriteInv'
<1>1. WriteEdge
  BY WriteEdges
<1>2. mem \in [Cells -> Half] /\ RequestInv
  BY DEF MemoryInv
<1>3. ASSUME cmd'.op # "WR", lat' = lat PROVE Low' = Low /\ High' = High
  BY <1>2, <1>3, MemSame DEF Low, High
<1>4. Nop.op # "WR"
  BY DEF Nop
<1>5. ASSUME state \in {"WR_CMD_LO", "WR_CMD_HI"}
      PROVE  /\ CellLo(lat.addr) \in Cells /\ CellHi(lat.addr) \in Cells
             /\ CellLo(lat.addr) # CellHi(lat.addr)
             /\ Kept(Merged(lat.wdata.lo, Low, lat.wstrb.lo), lat.wdata.lo, lat.wstrb.lo)
             /\ Kept(Merged(lat.wdata.hi, High, lat.wstrb.hi), lat.wdata.hi, lat.wstrb.hi)
  <2>1. ~Misaligned(lat.addr) /\ state \in AccessStates
    BY <1>2, <1>5 DEF RequestInv, AccessStates, WriteStates
  <2>2. /\ CellLo(lat.addr) \in Cells /\ CellHi(lat.addr) \in Cells
        /\ CellLo(lat.addr) # CellHi(lat.addr)
        /\ lat.wdata.lo \in Half /\ lat.wdata.hi \in Half
        /\ lat.wstrb.lo \in SUBSET Lane /\ lat.wstrb.hi \in SUBSET Lane
    BY <1>2, <2>1, ServedWord DEF Word, Strobe
  <2>3. Low \in Half /\ High \in Half
    BY <1>2, <2>2 DEF Low, High
  <2> QED BY <2>2, <2>3, MergedKeeps
<1>6. ASSUME state' = "WR_CMD_HI" PROVE Kept(Low', lat'.wdata.lo, lat'.wstrb.lo)
  BY <1>1, <1>5, <1>6, LowBeat DEF WriteEdge
<1>7. ASSUME state' = "TWR"
      PROVE  /\ Kept(Low', lat'.wdata.lo, lat'.wstrb.lo)
             /\ Kept(High', lat'.wdata.hi, lat'.wstrb.hi)
  <2>1. CASE /\ state = "WR_CMD_HI" /\ lat' = lat /\ dq_oe' = TRUE /\ dq_out' = lat.wdata.hi
             /\ cmd' = Write(lat.addr, ColHi(lat.addr), lat.wstrb.hi)
    <3>1. /\ High' = Merged(lat.wdata.hi, High, lat.wstrb.hi)
          /\ mem'[CellLo(lat.addr)] = mem[CellLo(lat.addr)]
      BY <1>5, <2>1, HighBeat
    <3>2. Low' = Low
      BY <2>1, <3>1 DEF Low
    <3> QED BY <1>5, <2>1, <3>1, <3>2 DEF MemoryInv, WriteInv
  <2>2. CASE state = "TWR" /\ Keeps
    BY <1>3, <1>4, <2>2 DEF Keeps, MemoryInv, WriteInv
  <2> QED BY <1>1, <1>7, <2>1, <2>2 DEF WriteEdge
<1>8. ASSUME state' \in Tail, lat'.we, ~Misaligned(lat'.addr)
      PROVE  /\ Kept(Low', lat'.wdata.lo, lat'.wstrb.lo)
             /\ Kept(High', lat'.wdata.hi, lat'.wstrb.hi)
  <2>1. CASE state \in {"RD_CAP_HI", "TWR"} /\ Keeps
    BY <1>3, <1>4, <1>8, <2>1 DEF Keeps, MemoryInv, WriteInv, RequestInv, ReadStates
  <2>2. CASE state \in Tail \ {"RESP"} /\ lat' = lat /\ cmd'.op # "WR"
    BY <1>3, <1>8, <2>2 DEF MemoryInv, WriteInv
  <2> QED BY <1>1, <1>8, <2>1, <2>2 DEF WriteEdge
<1>9. ASSUME state' = "TRCD", lat'.we, wait_count' = 0 PROVE dq_out' = lat'.wdata.lo
  BY <1>1, <1>9 DEF WriteEdge, Keeps
<1>10. ASSUME state' = "WR_CMD_LO" PROVE dq_out' = lat'.wdata.lo
  BY <1>1, <1>10 DEF WriteEdge, Keeps, MemoryInv, WriteInv
<1> QED BY <1>6, <1>7, <1>8, <1>9, <1>10 DEF WriteInv

-----------------------------------------------------------------------------
LEMMA MemoryTick ==
  ASSUME HandshakeInv, MemoryInv, NEW r \in Requests \cup {NoReq}, Tick(r)
  PROVE  MemoryInv'
<1>1. Clock(r, DqBus(dq_oe, dq_out)) /\ ChipStep(cmd', dq_oe', dq_out')
  BY DEF Tick
<1>2. MemStep(cmd', dq_oe', dq_out') /\ RowStep(cmd')
  BY <1>1 DEF ChipStep
<1>3. state \in States /\ wait_count \in Cycles16 /\ RequestInv
  BY DEF HandshakeInv, FsmTypeOK, MemoryInv
<1>4. wait_count' \in Cycles16 /\ resp_valid' \in BOOLEAN
  BY <1>1, <1>3, WaitType, OutputTypes
<1>5. RequestInv'
  BY <1>1, <1>2, <1>3, RequestTick
<1>6. ReadInv' /\ WriteInv' /\ mem' \in [Cells -> Half]
  BY <1>1, <1>2, <1>3, ReadTick, WriteTick, MemType
<1> QED BY <1>4, <1>5, <1>6 DEF MemoryInv

(* A reset leaves the cells alone, and relies on none of them.             *)
LEMMA PwrupWaitIsIdle ==
  "PWRUP_WAIT" \notin AccessStates \cup Columns \cup Tail
BY DEF AccessStates, ReadStates, WriteStates, Columns, Tail

LEMMA ResetKeepsCells ==
  ASSUME MemoryInv, SystemReset
  PROVE  mem' = mem
<1>1. cmd' = Nop
  BY DEF SystemReset, Reset
<1>2. CASE ChipReset
  BY <1>2 DEF ChipReset
<1>3. CASE ChipStep(cmd', dq_oe', dq_out')
  BY <1>1, <1>3, MemSame DEF ChipStep, MemoryInv, Nop
<1> QED BY <1>2, <1>3 DEF SystemReset

LEMMA MemoryReset ==
  ASSUME MemoryInv, SystemReset
  PROVE  MemoryInv'
<1>1. /\ state' = "PWRUP_WAIT" /\ wait_count' = 0 /\ resp_valid' = FALSE
  BY DEF SystemReset, Reset
<1>2. mem' \in [Cells -> Half] /\ wait_count' \in Cycles16
  BY <1>1, ResetKeepsCells DEF MemoryInv, Cycles16, Max16
<1>3. RequestInv'
  BY <1>1, PwrupWaitIsIdle DEF RequestInv, AccessStates, Columns
<1>4. ReadInv' /\ WriteInv'
  BY <1>1, PwrupWaitIsIdle DEF ReadInv, WriteInv
<1> QED BY <1>1, <1>2, <1>3, <1>4 DEF MemoryInv

LEMMA MemoryStart == Init => MemoryInv
<1> SUFFICES ASSUME Init PROVE MemoryInv
  OBVIOUS
<1>1. /\ state = "PWRUP_WAIT" /\ wait_count = 0 /\ resp_valid = FALSE
      /\ mem = [c \in Cells |-> [i \in Lane |-> ZERO]]
  BY DEF Init, InReset, ChipInit
<1>2. mem \in [Cells -> Half] /\ wait_count \in Cycles16
  BY <1>1, SdramBytes DEF Half, Cycles16, Max16
<1>3. RequestInv
  BY <1>1, PwrupWaitIsIdle DEF RequestInv, AccessStates, Columns
<1>4. ReadInv /\ WriteInv
  BY <1>1, PwrupWaitIsIdle DEF ReadInv, WriteInv
<1> QED BY <1>1, <1>2, <1>3, <1>4 DEF MemoryInv

(* In every state the two counts of a read agree, and the beats that are   *)
(* through match the cells, whatever resets came before.                   *)
THEOREM MemoryInvariance == Spec => [](HandshakeInv /\ MemoryInv)
<1>1. HandshakeInv /\ MemoryInv /\ [Next]_sysVars => MemoryInv'
  <2> SUFFICES ASSUME HandshakeInv, MemoryInv, [Next]_sysVars PROVE MemoryInv'
    OBVIOUS
  <2>1. CASE SystemReset
    BY <2>1, MemoryReset
  <2>2. ASSUME NEW r \in Requests \cup {NoReq}, Tick(r) PROVE MemoryInv'
    BY <2>2, MemoryTick
  <2>3. CASE UNCHANGED sysVars
    <3>1. UNCHANGED <<state, wait_count, lat, rd_lo, rd_hi, dq_oe, dq_out, resp_valid,
                      mem, open_row, read_pending, read_wait, read_data, dq_drive_en,
                      dq_drive>>
      BY <2>3 DEF sysVars, ctrlVars, reqVars, rdVars, chipVars, rowVars, readVars
    <3> QED BY <3>1 DEF MemoryInv, RequestInv, ReadInv, WriteInv, Coming, OnBus,
              Low, High, Kept
  <2> QED BY <2>1, <2>2, <2>3 DEF Next
<1> QED BY <1>1, MemoryStart, HandshakeInvariance, PTL DEF Spec

-----------------------------------------------------------------------------
(* The refinement: the words, the request outstanding and the answer that  *)
(* WordMemory sees.                                                        *)
Words   == [a \in WordAddrs |-> [lo |-> mem[CellLo(a)], hi |-> mem[CellHi(a)]]]
Pending == IF busy THEN lat ELSE NoReq
Answer  == IF ~resp_valid THEN NoResp
           ELSE IF lat.we /\ ~resp_err THEN [err |-> FALSE]
           ELSE [err |-> resp_err, data |-> resp_rdata]
Errors  == {r \in Requests : Misaligned(r.addr)}

LEMMA Mapping ==
  /\ WM!Accept <=> /\ Pending = NoReq /\ Pending' \in Requests
                   /\ Answer' = NoResp /\ Words' = Words
  /\ WM!Quiet <=> Answer' = NoResp /\ Words' = Words /\ Pending' = Pending
  /\ WM!Drop <=> Pending' = NoReq /\ Answer' = NoResp /\ Words' = Words
  /\ UNCHANGED WM!wordVars <=> Words' = Words /\ Pending' = Pending /\ Answer' = Answer
  /\ WM!IsStore <=> Pending # NoReq /\ Pending.we /\ Pending \notin Errors
BY DEF WM!Accept, WM!Quiet, WM!Drop, WM!wordVars, WM!IsStore, Words, Pending, Answer, Errors

LEMMA RespondMapping ==
  WM!Respond <=>
    /\ Pending # NoReq /\ Pending' = NoReq /\ Words' = Words
    /\ \/ Pending \in Errors /\ Answer' = [err |-> TRUE, data |-> ZeroWord]
       \/ /\ WM!IsStore /\ Answer' = [err |-> FALSE]
          /\ Words[Pending.addr] = WM!Stored(Words[Pending.addr], Pending.wstrb)
       \/ /\ ~Pending.we /\ Pending \notin Errors
          /\ Answer' = [err |-> FALSE, data |-> Words[Pending.addr]]
BY DEF WM!Respond, Words, Pending, Answer, Errors

(* Storing some bytes of a word is merging each of its halves.             *)
LEMMA StoredHalves ==
  ASSUME busy, NEW w, NEW L, NEW H
  PROVE  WM!Stored(w, [lo |-> L, hi |-> H])
           = [lo |-> Merged(lat.wdata.lo, w.lo, L), hi |-> Merged(lat.wdata.hi, w.hi, H)]
BY DEF WM!Stored, Merged, Lane

LEMMA MergedAgain ==
  ASSUME NEW h \in Half, NEW w, NEW en, Kept(h, w, en)
  PROVE  Merged(w, h, en) = h
BY DEF Merged, Kept, Half

(* What an edge means to the host: an acceptance, an answer, or nothing.   *)
Taken(r) == /\ state = "IDLE" /\ busy' = TRUE /\ lat' = r /\ r # NoReq
            /\ resp_valid' = FALSE /\ cmd'.op # "WR"
Silent == /\ resp_valid' = FALSE /\ lat' = lat
          /\ \/ busy' = busy
             \/ state = "INIT_TMRD" /\ busy' = FALSE

LEMMA ServiceEdge ==
  ASSUME NEW r, NEW d, Clock(r, d)
  PROVE  Taken(r) \/ Resp \/ Silent
BY SMTT(60) DEF Clock, PwrupWait, WaitPwrup, InitPre, InitTrp, InitAr1, InitTrfc1, InitAr2,
     InitTrfc2, InitMrs, InitTmrd, IdleForcedRefresh, IdleDueRefresh, IdleAccept,
     IdleReady, StartRefresh, RefTrfc, Trcd, RdCmdLo, RdClLo, RdCapLo, RdCmdHi,
     RdClHi, RdCapHi, WrCmdLo, WrCmdHi, Twr, Pre, Trp, Resp, GoTo, CountDown, Issue,
     StartRefresh, reqVars, Quiet, NoResponse, Taken, Silent, Nop, Active

(* The word of the request being served, as the two cells of the chip.     *)
LEMMA ServedCells ==
  ASSUME MemoryInv, busy, state \in AccessStates, ~Misaligned(lat.addr)
  PROVE  /\ Pending = lat /\ lat \in Requests \ Errors /\ lat # NoReq
         /\ lat.addr \in WordAddrs /\ Words[lat.addr] = [lo |-> Low, hi |-> High]
         /\ Low \in Half /\ High \in Half
         /\ lat.wstrb = [lo |-> lat.wstrb.lo, hi |-> lat.wstrb.hi]
<1>1. lat \in Requests /\ lat # NoReq
  BY SdramData DEF MemoryInv, RequestInv
<1>2. /\ lat.addr \in WordAddrs /\ lat.wstrb \in Strobe
      /\ CellLo(lat.addr) \in Cells /\ CellHi(lat.addr) \in Cells
  BY ServedWord DEF MemoryInv
<1>3. Words[lat.addr] = [lo |-> Low, hi |-> High] /\ Low \in Half /\ High \in Half
  BY <1>2 DEF Words, Low, High, MemoryInv
<1>4. lat.wstrb = [lo |-> lat.wstrb.lo, hi |-> lat.wstrb.hi]
  BY <1>2 DEF Strobe
<1> QED BY <1>1, <1>2, <1>3, <1>4 DEF Pending, Errors

LEMMA RespondStep ==
  ASSUME HandshakeInv, MemoryInv, Resp, MemStep(cmd', dq_oe', dq_out')
  PROVE  WM!Respond
<1>1. state = "RESP" /\ state \in AccessStates
  BY DEF Resp, GoTo, AccessStates
<1>2. busy
  BY <1>1 DEF HandshakeInv
<1>3. lat \in Requests /\ lat # NoReq /\ mem \in [Cells -> Half]
  BY <1>1, SdramData DEF MemoryInv, RequestInv
<1>4. mem' = mem
  BY <1>3, MemSame DEF Resp, Nop
<1>5. /\ ~busy' /\ lat' = lat /\ resp_valid' = TRUE
      /\ resp_err' = Misaligned(lat.addr)
      /\ resp_rdata' = IF Misaligned(lat.addr) THEN ZeroWord
                       ELSE IF lat.we THEN resp_rdata ELSE [lo |-> rd_lo, hi |-> rd_hi]
  BY DEF Resp
<1>6. /\ Pending = lat /\ Pending # NoReq /\ Pending' = NoReq /\ Words' = Words
  BY <1>2, <1>3, <1>4, <1>5 DEF Pending, Words
<1>7. CASE Misaligned(lat.addr)
  <2>1. Pending \in Errors
    BY <1>3, <1>6, <1>7 DEF Errors
  <2>2. Answer' = [err |-> TRUE, data |-> ZeroWord]
    BY <1>5, <1>7 DEF Answer, Misaligned
  <2> QED BY <1>6, <2>1, <2>2, RespondMapping
<1>8. CASE ~Misaligned(lat.addr) /\ lat.we
  <2>1. Answer' = [err |-> FALSE] /\ WM!IsStore
    BY <1>1, <1>2, <1>5, <1>6, <1>8, ServedCells, Mapping DEF Answer
  <2>2. Kept(Low, lat.wdata.lo, lat.wstrb.lo) /\ Kept(High, lat.wdata.hi, lat.wstrb.hi)
    BY <1>1, <1>8 DEF MemoryInv, WriteInv, Tail
  <2>3. /\ Merged(lat.wdata.lo, Low, lat.wstrb.lo) = Low
        /\ Merged(lat.wdata.hi, High, lat.wstrb.hi) = High
    BY <1>1, <1>2, <1>8, <2>2, ServedCells, MergedAgain
  <2>4. WM!Stored([lo |-> Low, hi |-> High], [lo |-> lat.wstrb.lo, hi |-> lat.wstrb.hi])
          = [lo |-> Low, hi |-> High]
    BY <1>2, <2>3, StoredHalves
  <2>5. Words[lat.addr] = WM!Stored(Words[lat.addr], lat.wstrb)
    BY <1>1, <1>2, <1>8, <2>4, ServedCells
  <2> QED BY <1>6, <2>1, <2>5, RespondMapping
<1>9. CASE ~Misaligned(lat.addr) /\ ~lat.we
  <2>1. rd_lo = Low /\ rd_hi = High
    BY <1>1, <1>9 DEF MemoryInv, ReadInv, Tail
  <2>2. Answer' = [err |-> FALSE, data |-> Words[lat.addr]] /\ Pending \notin Errors
    BY <1>1, <1>2, <1>5, <1>9, <2>1, ServedCells DEF Answer, Misaligned
  <2> QED BY <1>6, <1>9, <2>2, RespondMapping
<1> QED BY <1>7, <1>8, <1>9

(* A beat that is written stores the strobed bytes of its half.            *)
LEMMA StoreMapping ==
  ASSUME Pending # NoReq, Pending.we, Pending \notin Errors,
         Pending' = Pending, Answer' = NoResp,
         NEW lo \in SUBSET Pending.wstrb.lo, NEW hi \in SUBSET Pending.wstrb.hi,
         Words' = [Words EXCEPT ![Pending.addr] =
                     WM!Stored(Words[Pending.addr], [lo |-> lo, hi |-> hi])]
  PROVE  WM!StoreBytes
BY DEF WM!StoreBytes, WM!IsStore, Words, Pending, Answer, Errors

(* A WRITE touches no other word of the window.                            *)
LEMMA OtherWords ==
  ASSUME OneWindow, NEW a \in WordAddrs, NEW b \in WordAddrs, a # b
  PROVE  /\ CellLo(b) \notin {CellLo(a), CellHi(a)}
         /\ CellHi(b) \notin {CellLo(a), CellHi(a)}
BY WordAddrsAligned, BeatsDiffer, SameWord DEF OneWindow

LEMMA StoreStep ==
  ASSUME OneWindow, HandshakeInv, MemoryInv, MemStep(cmd', dq_oe', dq_out'), WriteNow,
         busy' = busy, resp_valid' = FALSE
  PROVE  WM!StoreBytes
<1>1. /\ state \in AccessStates \ {"RESP"} /\ state \in WriteStates /\ lat' = lat
  BY DEF WriteNow, AccessStates, WriteStates
<1>2. busy /\ ~Misaligned(lat.addr) /\ lat.we
  BY <1>1 DEF HandshakeInv, MemoryInv, RequestInv
<1>3. /\ Pending = lat /\ lat # NoReq /\ lat \notin Errors /\ lat.addr \in WordAddrs
      /\ Words[lat.addr] = [lo |-> Low, hi |-> High] /\ Low \in Half /\ High \in Half
  BY <1>1, <1>2, ServedCells
<1>4. Pending' = Pending /\ Answer' = NoResp
  BY <1>1 DEF Pending, Answer
<1>5. /\ CellLo(lat.addr) \in Cells /\ CellHi(lat.addr) \in Cells
      /\ CellLo(lat.addr) # CellHi(lat.addr)
  BY <1>1, <1>2, ServedWord DEF MemoryInv
<1>6. /\ Merged(lat.wdata.lo, Low, {}) = Low /\ Merged(lat.wdata.hi, High, {}) = High
  BY <1>3, MergedAgain DEF Kept
<1> DEFINE Changes(lo, hi) ==
      /\ Low' = Merged(lat.wdata.lo, Low, lo) /\ High' = Merged(lat.wdata.hi, High, hi)
      /\ \A y \in Cells \ {CellLo(lat.addr), CellHi(lat.addr)} : mem'[y] = mem[y]
<1>7. PICK lo \in SUBSET lat.wstrb.lo, hi \in SUBSET lat.wstrb.hi : Changes(lo, hi)
  <2>1. CASE state = "WR_CMD_LO"
    <3>1. /\ Low' = Merged(lat.wdata.lo, Low, lat.wstrb.lo)
          /\ \A y \in Cells \ {CellLo(lat.addr)} : mem'[y] = mem[y]
      BY <2>1, LowBeat DEF WriteNow
    <3>2. High' = High
      BY <1>1, <1>5, <3>1 DEF High
    <3>3. Changes(lat.wstrb.lo, {})
      BY <1>6, <3>1, <3>2
    <3> QED BY <3>3
  <2>2. CASE state = "WR_CMD_HI"
    <3>1. /\ High' = Merged(lat.wdata.hi, High, lat.wstrb.hi)
          /\ \A y \in Cells \ {CellHi(lat.addr)} : mem'[y] = mem[y]
      BY <2>2, HighBeat DEF WriteNow
    <3>2. Low' = Low
      BY <1>1, <1>5, <3>1 DEF Low
    <3>3. Changes({}, lat.wstrb.hi)
      BY <1>6, <3>1, <3>2
    <3> QED BY <3>3
  <2> QED BY <2>1, <2>2 DEF WriteNow
<1>8. WM!Stored(Words[lat.addr], [lo |-> lo, hi |-> hi]) = [lo |-> Low', hi |-> High']
  BY <1>2, <1>3, <1>7, StoredHalves
<1>9. ASSUME NEW a \in WordAddrs, a # lat.addr
      PROVE  mem'[CellLo(a)] = mem[CellLo(a)] /\ mem'[CellHi(a)] = mem[CellHi(a)]
  BY <1>3, <1>7, <1>9, OtherWords, WordAddrsAligned
<1>10. Low' = mem'[CellLo(lat.addr)] /\ High' = mem'[CellHi(lat.addr)]
  BY <1>1 DEF Low, High
<1>11. Words' = [Words EXCEPT ![lat.addr] = [lo |-> Low', hi |-> High']]
  BY <1>3, <1>9, <1>10 DEF Words
<1> QED BY <1>2, <1>3, <1>4, <1>8, <1>11, StoreMapping

-----------------------------------------------------------------------------
(* Every clock edge is a step of the word memory.                          *)
LEMMA TickRefines ==
  ASSUME OneWindow, HandshakeInv, MemoryInv, NEW r \in Requests \cup {NoReq}, Tick(r)
  PROVE  WM!Next
<1> DEFINE d == DqBus(dq_oe, dq_out)
<1>1. Clock(r, d) /\ MemStep(cmd', dq_oe', dq_out')
  BY DEF Tick, ChipStep
<1> HIDE DEF d
<1>2. mem \in [Cells -> Half]
  BY DEF MemoryInv
<1>3. CASE Taken(r)
  <2>1. ~busy
    BY <1>3 DEF HandshakeInv, AccessStates, ReadStates, WriteStates, Taken
  <2>2. Words' = Words
    BY <1>1, <1>2, <1>3, MemSame DEF Taken, Words
  <2>3. Pending = NoReq /\ Pending' \in Requests /\ Answer' = NoResp
    BY <1>3, <2>1 DEF Taken, Pending, Answer
  <2> QED BY <2>2, <2>3, Mapping DEF WM!Next
<1>4. CASE Resp
  BY <1>1, <1>4, RespondStep DEF WM!Next
<1>5. CASE Silent
  <2>1. resp_valid' = FALSE /\ lat' = lat /\ busy' = busy
    BY <1>5 DEF Silent, HandshakeInv, FsmTypeOK, AccessStates, ReadStates, WriteStates
  <2>2. CASE cmd'.op = "WR"
    BY <1>1, <2>1, <2>2, WriteFrom, StoreStep DEF WM!Next
  <2>3. CASE cmd'.op # "WR"
    <3>1. Words' = Words
      BY <1>1, <1>2, <2>3, MemSame DEF Words
    <3>2. Pending' = Pending /\ Answer' = NoResp
      BY <2>1 DEF Pending, Answer
    <3> QED BY <3>1, <3>2, Mapping DEF WM!Next
  <2> QED BY <2>2, <2>3
<1> QED BY <1>1, <1>3, <1>4, <1>5, ServiceEdge

(* A reset drops the request and what was not stored of it.                *)
LEMMA ResetRefines ==
  ASSUME MemoryInv, SystemReset
  PROVE  WM!Next
<1>1. busy' = FALSE /\ resp_valid' = FALSE
  BY DEF SystemReset, Reset
<1>2. Pending' = NoReq /\ Answer' = NoResp /\ Words' = Words
  BY <1>1, ResetKeepsCells DEF Pending, Answer, Words
<1> QED BY <1>2, Mapping DEF WM!Next

LEMMA InitRefines == Init => WM!Init
<1> SUFFICES ASSUME Init PROVE WM!Init
  OBVIOUS
<1>1. /\ busy = FALSE /\ resp_valid = FALSE
      /\ mem = [c \in Cells |-> [i \in Lane |-> ZERO]]
  BY DEF Init, InReset, ChipInit
<1>2. \A a \in WordAddrs : mem[CellLo(a)] = ZeroHalf /\ mem[CellHi(a)] = ZeroHalf
  BY <1>1, WordAddrsAligned DEF ZeroHalf
<1>3. Words = [a \in WordAddrs |-> ZeroWord]
  BY <1>2 DEF Words, ZeroWord
<1>4. Pending = NoReq /\ Answer = NoResp
  BY <1>1 DEF Pending, Answer
<1> QED BY <1>3, <1>4 DEF WM!Init, Words, Pending, Answer

(* For all delays, requests and host disciplines and a reset at any moment, *)
(* the controller and the chip are a word memory: a read returns what was  *)
(* last written byte by byte, every request is answered once, a misaligned *)
(* one with an error, and a reset tears at most the strobed bytes.         *)
THEOREM IsAWordMemory ==
  ASSUME OneWindow
  PROVE  Spec => ImplementsWordMemory
<1>1. HandshakeInv /\ MemoryInv /\ [Next]_sysVars => [WM!Next]_(WM!wordVars)
  <2> SUFFICES ASSUME HandshakeInv, MemoryInv, [Next]_sysVars
               PROVE  WM!Next \/ UNCHANGED WM!wordVars
    OBVIOUS
  <2>1. CASE SystemReset
    BY <2>1, ResetRefines
  <2>2. ASSUME NEW r \in Requests \cup {NoReq}, Tick(r) PROVE WM!Next
    BY <2>2, TickRefines
  <2>3. CASE UNCHANGED sysVars
    <3>1. UNCHANGED <<mem, busy, lat, resp_valid, resp_err, resp_rdata>>
      BY <2>3 DEF sysVars, ctrlVars, reqVars, chipVars
    <3>2. Words' = Words /\ Pending' = Pending /\ Answer' = Answer
      BY <3>1 DEF Words, Pending, Answer
    <3> QED BY <3>2, Mapping
  <2> QED BY <2>1, <2>2, <2>3 DEF Next
<1> QED BY <1>1, InitRefines, MemoryInvariance, PTL DEF Spec, ImplementsWordMemory, WM!Spec
=============================================================================
