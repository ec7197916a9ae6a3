------------------------------ MODULE GdbStub ------------------------------
(***************************************************************************)
(* firmware/gdb/gdb_stub.c: the trap handler that talks to the debugger    *)
(* until it says continue, over the polled receiver and the blocking       *)
(* transmitter of drivers/uart.c.                                          *)
(*                                                                         *)
(* A command is a payload with what its text means (op and arguments): the *)
(* text itself is only compared.  The frame is the pc and one register.    *)
(***************************************************************************)
EXTENDS GdbPacket

CONSTANTS
  Commands,            \* [text, op, bad, addr, len, value]
  WORD,                \* 2^32: addresses are computed modulo WORD
  BRAM_SIZE, SDRAM_BASE, SDRAM_SIZE,
  Cause,               \* mcause of the instructions that trap, by address
  NoAddr

ASSUME StubParams ==
  /\ WORD \in Nat /\ BRAM_SIZE \in 4 .. WORD
  /\ SDRAM_BASE \in Nat /\ SDRAM_SIZE \in Nat /\ SDRAM_BASE + SDRAM_SIZE <= WORD
  /\ DOMAIN Cause \subseteq 0 .. BRAM_SIZE - 1 /\ 0 \in DOMAIN Cause
  /\ \A cmd \in Commands : cmd.op \in {"m", "M"} =>
       cmd.addr \in 0 .. WORD - 1 /\ cmd.len \in 0 .. WORD - 1
  /\ \A cmd \in Commands : cmd.text \in Seq(Char \ {"$", "#"})
  /\ \A cmd \in Commands : cmd.op = "G" => cmd.addr \in 0 .. WORD - 1 /\ cmd.addr # NoAddr
  /\ \A cmd \in Commands : cmd.value \in 0 .. 255
  /\ \A cmd, other \in Commands : cmd.text = other.text => cmd = other

VARIABLES
  mode,                                   \* "run", "loop" (head of the loop), "getc"
  out,                                    \* the byte being sent, then those putc waits to write
  rx_valid, rx_data, rx_errors,           \* the UART as uart.c reads it
  debugger_attached, last_reply, stopped_pc, resume_pc_explicit,
  mepc, mcause, x1, memory,
  q                                       \* history: number of the request served

stubVars == <<mode, out, debugger_attached, last_reply, stopped_pc, resume_pc_explicit,
              mepc, mcause, x1, memory, q>>
rxVars   == <<rx_valid, rx_data, rx_errors>>

(* What goes over a line: a byte, and the number of its request.           *)
Tagged(text, n) == [i \in 1 .. Len(text) |-> [c |-> text[i], q |-> n]]

(* uart_putc waits until the transmitter is free: only the last byte may   *)
(* still be on its way when the stub goes on.                              *)
Free == Len(out) <= 1
Write(text, n) == out' = out \o Tagged(text, n)
Getc == rx_valid /\ rx_valid' = FALSE /\ UNCHANGED rx_data
ClearErrors == rx_errors' = FALSE

-----------------------------------------------------------------------------
(* Memory: the two windows, every sum modulo WORD.                         *)
(* Variant: the sum may wrap.                                              *)
RangeInsideSum(addr, length, base, size) ==
  addr >= base /\ (addr + length) % WORD <= base + size
RangeInside(addr, length, base, size) ==
  addr >= base /\ length <= size /\ addr - base <= size - length
MemoryRangeAllowed(addr, length) ==
  /\ length # 0
  /\ RangeInside(addr, length, 0, BRAM_SIZE) \/ RangeInside(addr, length, SDRAM_BASE, SDRAM_SIZE)
Span(addr, length) == {(addr + i) % WORD : i \in 0 .. length - 1}
Accepted(cmd) == ~cmd.bad /\ cmd.len <= GDB_PACKET_CAPACITY \div 2
                 /\ MemoryRangeAllowed(cmd.addr, cmd.len)

StopReply(cause) ==
  CASE cause = 2 -> <<"S", "0", "4">> [] cause \in {0, 1, 4, 5, 6, 7} -> <<"S", "0", "b">>
    [] OTHER -> <<"S", "0", "5">>
OK == <<"OK">>
E01 == <<"E01">>

-----------------------------------------------------------------------------
(* dispatch_packet.  Answer writes the reply behind the ack and keeps it.  *)
SendReply(before, text, n) ==
  Write(before \o Frame(text), n) /\ last_reply' = text
Answer(text, n) == SendReply(<<"+">>, text, n) /\ mode' = "loop"

(* Of a register its lowest byte, the first that gdb_encode_u32_le writes. *)
Registers == TwoDigits(x1) \o TwoDigits(mepc % 256)

Query(cmd, n) ==
  /\ Answer(CASE cmd.op = "?" -> StopReply(mcause)
              [] cmd.op = "H" -> OK
              [] cmd.op = "g" -> Registers
              [] OTHER -> <<>>, n)
  /\ UNCHANGED <<resume_pc_explicit, mepc, x1, memory>>

WriteRegisters(cmd, n) ==
  /\ IF cmd.bad
     THEN Answer(E01, n) /\ UNCHANGED <<resume_pc_explicit, mepc, x1>>
     ELSE /\ Answer(OK, n) /\ x1' = cmd.value /\ mepc' = cmd.addr
          /\ resume_pc_explicit' = (cmd.addr # stopped_pc)
  /\ UNCHANGED memory

ReadMemory(cmd, n) ==
  /\ Answer(IF Accepted(cmd)
            THEN [i \in 1 .. 2 * cmd.len |->
                    TwoDigits(memory[cmd.addr + (i - 1) \div 2])[((i - 1) % 2) + 1]]
            ELSE E01, n)
  /\ UNCHANGED <<resume_pc_explicit, mepc, x1, memory>>

WriteMemory(cmd, n) ==
  /\ IF Accepted(cmd)
     THEN /\ Answer(OK, n)
          /\ memory' = [a \in DOMAIN memory |->
                          IF a \in Span(cmd.addr, cmd.len) THEN cmd.value ELSE memory[a]]
     ELSE Answer(E01, n) /\ UNCHANGED memory
  /\ UNCHANGED <<resume_pc_explicit, mepc, x1>>

(* Variant: a breakpoint is always skipped.                                *)
ResumeAtNext(cmd) == IF cmd.addr # NoAddr THEN cmd.addr
                     ELSE IF mcause = 3 THEN mepc + 4 ELSE mepc
ResumeAt(cmd) == IF cmd.addr # NoAddr THEN cmd.addr
                 ELSE IF mcause = 3 /\ ~resume_pc_explicit THEN mepc + 4 ELSE mepc

(* Variant: the ack of a continue is forgotten.                            *)
ResumeUnacked(cmd, n) ==
  mode' = "run" /\ mepc' = ResumeAt(cmd) /\ UNCHANGED <<out, last_reply>>
Resume(cmd, n) ==
  mode' = "run" /\ mepc' = ResumeAt(cmd) /\ Write(<<"+">>, n) /\ UNCHANGED last_reply

ContinueTarget(cmd, n) ==
  /\ IF cmd.addr # NoAddr /\ (cmd.bad \/ cmd.addr % 4 # 0 \/ cmd.addr >= BRAM_SIZE)
     THEN Answer(E01, n) /\ UNCHANGED mepc
     ELSE Resume(cmd, n)
  /\ UNCHANGED <<resume_pc_explicit, x1, memory>>

(* A text that is no command of the stub gets the empty reply.             *)
DispatchPacket(text, n) ==
  LET known == {cmd \in Commands : cmd.text = text}
      cmd == IF known = {} THEN [op |-> "unknown"] ELSE CHOOSE k \in known : TRUE
  IN CASE cmd.op = "G" -> WriteRegisters(cmd, n)
       [] cmd.op = "m" -> ReadMemory(cmd, n)
       [] cmd.op = "M" -> WriteMemory(cmd, n)
       [] cmd.op = "c" -> ContinueTarget(cmd, n)
       [] OTHER -> Query(cmd, n)

-----------------------------------------------------------------------------
(* trap_dispatch: entered at an instruction that traps.                    *)
NextTrap(pc) == LET at == {a \in DOMAIN Cause : a >= pc}
                IN IF at = {} THEN 0 ELSE CHOOSE a \in at : \A b \in at : a <= b

(* A debugger that is there is told; the reply is kept like any other.     *)
(* Variant: it has to ask.                                                 *)
ReportStopNever(cause) == last_reply' = <<>> /\ UNCHANGED out
ReportStop(cause) ==
  IF debugger_attached THEN SendReply(<<>>, StopReply(cause), q)
  ELSE last_reply' = <<>> /\ UNCHANGED out

Stop ==
  /\ mode = "run" /\ Free /\ mode' = "loop"
  /\ mepc' = NextTrap(mepc) /\ mcause' = Cause[NextTrap(mepc)]
  /\ ParserStart("WAIT_START")
  /\ stopped_pc' = NextTrap(mepc) /\ resume_pc_explicit' = FALSE
  /\ ReportStop(Cause[NextTrap(mepc)])
  /\ UNCHANGED <<rxVars, debugger_attached, x1, memory, q>>

(* The errors are looked at once per byte, before getc waits for it.       *)
CheckErrors ==
  /\ mode = "loop" /\ Free /\ mode' = "getc"
  /\ IF rx_errors
     THEN ParserStart("WAIT_START") /\ Write(<<"-">>, q) /\ ClearErrors
     ELSE UNCHANGED <<parserVars, out, rx_errors>>
  /\ UNCHANGED <<rx_valid, rx_data, debugger_attached, last_reply, stopped_pc,
                 resume_pc_explicit, mepc, mcause, x1, memory, q>>

(* What the stub says to a byte that completes no packet.                  *)
(* Variant: a packet is acked before its checksum is looked at.            *)
ReactAck(event) ==
  CASE event \in {"CHECKSUM_ERROR", "OVERFLOW"} -> Write(<<"+">>, q)
    [] event = "RETRY" -> Write(Frame(last_reply), q)
    [] OTHER -> UNCHANGED out
React(event) ==
  CASE event \in {"CHECKSUM_ERROR", "OVERFLOW"} -> Write(<<"-">>, q)
    [] event = "RETRY" -> Write(Frame(last_reply), q)
    [] OTHER -> UNCHANGED out

HandleByte ==
  /\ mode = "getc" /\ Free /\ Getc /\ UNCHANGED <<rx_errors, stopped_pc, mcause>>
  /\ \E event \in Events :
       /\ Feed(rx_data.c, event)
       /\ IF event = "READY"
          THEN /\ debugger_attached' = TRUE /\ q' = rx_data.q
               /\ DispatchPacket(payload, rx_data.q)
          ELSE /\ mode' = "loop" /\ React(event)
               /\ UNCHANGED <<debugger_attached, last_reply, resume_pc_explicit, mepc, x1,
                              memory, q>>

StubInit(addresses) ==
  /\ ParserInit /\ mode = "run" /\ out = <<>> /\ mepc = 0 /\ mcause = 3
  /\ rx_valid = FALSE /\ rx_data = [c |-> "+", q |-> 0] /\ rx_errors = FALSE
  /\ debugger_attached = FALSE /\ last_reply = <<>> /\ stopped_pc = 0
  /\ resume_pc_explicit = FALSE /\ x1 = 0 /\ memory = [a \in addresses |-> 0] /\ q = 0
=============================================================================
