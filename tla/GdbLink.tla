------------------------------ MODULE GdbLink ------------------------------
(***************************************************************************)
(* The stub, the serial line and the debugger: a debugger that sends its   *)
(* requests one at a time as the remote protocol prescribes (resend on -   *)
(* and on a timeout, skip a packet that comes instead of an ack), over a   *)
(* line that may lose or garble bytes.                                     *)
(***************************************************************************)
EXTENDS GdbStub, FiniteSets

CONSTANTS
  Addresses,        \* the memory looked at, windows and beyond
  Script,           \* Script[i]: the Commands the debugger may send as its i-th
  MAX_TRIES,        \* timeouts after which the debugger gives up on a request
  FAULTS,           \* bound on the faults of the line
  Junk              \* what a garbled byte becomes

ASSUME LinkParams ==
  /\ Script \in Seq(SUBSET Commands) /\ Junk \in Char /\ MAX_TRIES \in Nat
  /\ FAULTS \in Nat
  /\ \A cmd \in Commands : cmd.op = "m" /\ Accepted(cmd)
                            => cmd.addr .. cmd.addr + cmd.len - 1 \subseteq Addresses

VARIABLES
  to_board, to_host,      \* bytes on their way
  heard,                  \* a byte came in while the byte being sent left
  dbg,                    \* "idle", "ack" (request sent), "reply" (acked), "gone"
  dbg_in,                 \* the packet the debugger is reading, <<>> if none
  tries,
  garbled, misframed, lost,   \* history: the faults of the line
  asked,                  \* history: the requests so far
  accepted,               \* history: the reply accepted last, with its tags
  resumes,                \* history: times the program was resumed
  wrote                   \* history: the pc written since the stop, NoAddr if none

faultVars == <<garbled, misframed, lost>>
lineVars == <<to_board, to_host, heard, faultVars>>
dbgVars  == <<dbg, dbg_in, tries, asked, accepted>>
histVars == <<resumes, wrote>>
vars     == <<stubVars, parserVars, rxVars, lineVars, dbgVars, histVars>>

faults == garbled + misframed + lost
request == asked[Len(asked)]
Texts(bytes) == [i \in 1 .. Len(bytes) |-> bytes[i].c]

-----------------------------------------------------------------------------
(* The stub at work, and its transmitter.                                  *)
Dispatched == mode = "getc" /\ rx_valid /\ ~rx_valid' /\ debugger_attached' /\ Len(out') > Len(out)
              /\ out'[Len(out) + 1].c = "+"
StubStep ==
  /\ Stop \/ CheckErrors \/ HandleByte
  /\ resumes' = IF mode # "run" /\ mode' = "run" THEN resumes + 1 ELSE resumes
  /\ wrote' = IF mode = "run" THEN NoAddr
              ELSE IF Dispatched /\ asked[q'].op = "G" /\ ~asked[q'].bad THEN asked[q'].addr
              ELSE wrote
  /\ UNCHANGED <<lineVars, dbgVars>>

PutByte ==
  /\ out # <<>> /\ out' = Tail(out) /\ to_host' = Append(to_host, Head(out)) /\ heard' = FALSE
  /\ UNCHANGED <<mode, debugger_attached, last_reply, stopped_pc, resume_pc_explicit, mepc,
                 mcause, x1, memory, q, parserVars, rxVars, to_board, faultVars,
                 dbgVars, histVars>>

(* A byte arrives; both directions have the same baud rate.  A stub that   *)
(* waits reads a byte before the next one is complete.  One that transmits *)
(* or lets the program run need not: a byte that finds the register full   *)
(* is lost and flagged.                                                    *)
Arrives ==
  /\ to_board # <<>> /\ to_board' = Tail(to_board)
  /\ Free => ~rx_valid \/ mode = "run"
  /\ out # <<>> => ~heard
  /\ heard' = (out # <<>>)

Receive(b) ==
  /\ Arrives
  /\ IF rx_valid THEN rx_errors' = TRUE /\ UNCHANGED <<rx_valid, rx_data>>
     ELSE rx_valid' = TRUE /\ rx_data' = b /\ UNCHANGED rx_errors
  /\ UNCHANGED <<stubVars, parserVars, to_host, dbgVars, histVars>>

Deliver == Receive(Head(to_board)) /\ UNCHANGED faultVars

-----------------------------------------------------------------------------
(* The faults of the line.                                                 *)
GarbleInput ==
  /\ faults < FAULTS /\ garbled' = garbled + 1 /\ UNCHANGED <<misframed, lost>>
  /\ Receive([Head(to_board) EXCEPT !.c = Junk])

FramingError ==
  /\ faults < FAULTS /\ misframed' = misframed + 1
  /\ Arrives /\ rx_errors' = TRUE
  /\ UNCHANGED <<stubVars, parserVars, rx_valid, rx_data, to_host, garbled, lost, dbgVars, histVars>>

LoseOutput ==
  /\ faults < FAULTS /\ lost' = lost + 1
  /\ to_host # <<>> /\ to_host' = Tail(to_host)
  /\ UNCHANGED <<stubVars, parserVars, rxVars, to_board, heard, garbled, misframed, dbgVars, histVars>>

-----------------------------------------------------------------------------
(* The debugger.                                                           *)
Send(text, n) == to_board' = to_board \o Tagged(text, n)

(* The debugger opens the port after the bootstrap has reached its ebreak. *)
Ask(cmd) ==
  /\ dbg = "idle" /\ Len(asked) < Len(Script) /\ cmd \in Script[Len(asked) + 1]
  /\ (asked = <<>> => mode # "run")
  /\ asked' = Append(asked, cmd) /\ Send(Frame(cmd.text), Len(asked'))
  /\ dbg' = "ack" /\ tries' = 0 /\ dbg_in' = <<>>
  /\ UNCHANGED <<stubVars, parserVars, rxVars, to_host, heard, faultVars, accepted, histVars>>

Complete(bytes) == Len(bytes) > 2 /\ bytes[Len(bytes) - 2].c = "#"
Body(bytes) == SubSeq(bytes, 2, Len(bytes) - 3)
Intact(bytes) == Texts(bytes) = Frame(Texts(Body(bytes)))

(* Another try, or the end of the debugger's patience.                     *)
Again(text) ==
  IF tries = MAX_TRIES THEN dbg' = "gone" /\ UNCHANGED <<to_board, tries>>
  ELSE tries' = tries + 1 /\ dbg' = dbg /\ Send(text, Len(asked))

(* A byte between packets.                                                 *)
ReadMark(b) ==
  /\ UNCHANGED <<dbg_in, accepted>>
  /\ IF dbg = "ack" /\ b.c = "-" THEN Again(Frame(request.text))
     ELSE /\ UNCHANGED to_board
          /\ IF dbg = "ack" /\ b.c = "+" THEN dbg' = "reply" /\ tries' = 0
             ELSE UNCHANGED <<dbg, tries>>

(* The end of a packet: instead of an ack it is an old one, to be acked    *)
(* and ignored; after the ack it is the reply.                             *)
ReadPacket(bytes) ==
  /\ dbg_in' = <<>>
  /\ IF dbg = "reply" /\ ~Intact(bytes) THEN Again(<<"-">>) /\ UNCHANGED accepted
     ELSE /\ Send(<<"+">>, Len(asked)) /\ UNCHANGED tries
          /\ IF dbg = "reply" THEN dbg' = "idle" /\ accepted' = Body(bytes)
             ELSE UNCHANGED <<dbg, accepted>>

Read ==
  /\ dbg \in {"ack", "reply"} /\ to_host # <<>> /\ to_host' = Tail(to_host)
  /\ LET b == Head(to_host)
         bytes == IF b.c = "$" THEN <<b>> ELSE Append(dbg_in, b)
     IN \/ dbg_in = <<>> /\ b.c # "$" /\ ReadMark(b)
        \/ Complete(bytes) /\ dbg_in # <<>> /\ ReadPacket(bytes)
        \/ /\ dbg_in # <<>> \/ b.c = "$"
           /\ ~Complete(bytes) /\ dbg_in' = bytes
           /\ UNCHANGED <<dbg, to_board, tries, accepted>>
  /\ UNCHANGED <<stubVars, parserVars, rxVars, heard, faultVars, asked, histVars>>

(* The timeouts are long: nothing is under way any more.  A program that   *)
(* was continued may run for ever, so the debugger has none for its stop.  *)
Silent == /\ to_board = <<>> /\ to_host = <<>> /\ out = <<>> /\ mode = "getc" /\ ~rx_valid

Timeout ==
  /\ Silent /\ dbg_in' = <<>>
  /\ \/ dbg = "ack" /\ Again(Frame(request.text))
     \/ /\ dbg = "reply" /\ (request.op = "c" => dbg_in # <<>>)
        /\ Again(<<"-">>)
  /\ UNCHANGED <<stubVars, parserVars, rxVars, to_host, heard, faultVars, asked, accepted,
                 histVars>>

-----------------------------------------------------------------------------
Init ==
  /\ StubInit(Addresses) /\ to_board = <<>> /\ to_host = <<>> /\ heard = FALSE
  /\ garbled = 0 /\ misframed = 0 /\ lost = 0
  /\ dbg = "idle" /\ dbg_in = <<>> /\ tries = 0 /\ asked = <<>> /\ accepted = <<>>
  /\ resumes = 0 /\ wrote = NoAddr

Next == \/ StubStep \/ PutByte \/ Deliver \/ GarbleInput \/ FramingError \/ LoseOutput
        \/ (\E cmd \in Commands : Ask(cmd)) \/ Read \/ Timeout

(* The processor runs, the line carries what was sent, and the debugger    *)
(* reads what came and keeps its timer.  Faults need never happen.         *)
Fairness == /\ WF_vars(StubStep) /\ WF_vars(PutByte) /\ WF_vars(Deliver)
            /\ WF_vars(Read) /\ WF_vars(Timeout)
Spec == Init /\ [][Next]_vars /\ Fairness

-----------------------------------------------------------------------------
(* Whatever the line does to a packet, the stub acts on a request only as  *)
(* it was sent.                                                            *)
OnlyIntact == [][Dispatched => payload = asked[rx_data.q].text]_vars

(* That is so of a line with one fault, which spares the $ of a packet, if *)
(* the checksum tells a request from what the fault and lost bytes make of *)
(* it: a byte that is garbled gets no meaning for the framing, and neither *)
(* that byte nor a beginning that is lost leave the checksum as it was.    *)
OneFault == FAULTS <= 1
SparesStarts == GarbleInput => Head(to_board).c # "$"
ChecksumTells ==
  /\ Junk \notin {"$", "#", "+", "-"} /\ ~IsHex(Junk)
  /\ \A cmd \in Commands : \A j \in 0 .. Len(cmd.text) :
       /\ j > 0 => Sums(cmd.text)[j] # 0
       /\ \A g \in j + 1 .. Len(cmd.text) :
            (Sums(cmd.text)[j] + Weight[cmd.text[g]] - Weight[Junk]) % 256 # 0

(* A byte that is garbled never reads as the framing or as a request.      *)
ForeignJunk ==
  /\ Junk \notin {"$", "#", "+", "-"}
  /\ \A cmd \in Commands : \A i \in 1 .. Len(cmd.text) : cmd.text[i] # Junk

(* And no request is longer than the PacketSize that the stub tells.       *)
TextsFit == \A cmd \in Commands : Len(cmd.text) <= GDB_PACKET_CAPACITY

(* The stub takes a - for the debugger's nak wherever its parser is not in *)
(* a packet, and naks any byte its receiver flags.  So two things send the *)
(* two sides out of step: a flagged byte in no packet, whose nak reads as  *)
(* that of a request the stub has run, and a - in a request (Hc-1, Hg-1)   *)
(* whose $ was hit, which makes the stub repeat its last reply.            *)
HasNak(cmd) == \E i \in DOMAIN cmd.text : cmd.text[i] = "-"
NaksMeant == misframed = 0 /\ \A i \in DOMAIN asked : ~HasNak(asked[i])

(* But for these, the debugger never takes the reply of one request for    *)
(* that of another, although acks, naks and repeated replies may cross.    *)
RepliesMatch ==
  NaksMeant /\ dbg = "idle" => \A i \in DOMAIN accepted : accepted[i].q = Len(asked)

(* However long a packet is and however an address and a length wrap, the  *)
(* stub writes neither behind its buffer nor outside BRAM and SDRAM.       *)
Windows == 0 .. BRAM_SIZE - 1 \cup SDRAM_BASE .. SDRAM_BASE + SDRAM_SIZE - 1
WritesInBounds == /\ Len(payload) <= GDB_PACKET_CAPACITY
                  /\ \A a \in Addresses \ Windows : memory[a] = 0

(* And the program runs once for each continue: a request that was naked   *)
(* is not run, and only a lost ack, which makes the debugger ask again,    *)
(* costs an unwanted run.                                                  *)
Continues == Cardinality({i \in DOMAIN asked : asked[i].op = "c"})
RunsOnce == NaksMeant => resumes <= Continues + lost

(* docs/GDB_STUB_DEVELOPMENT.md, writing the pc and continue: a plain c    *)
(* skips the ebreak, an explicit pc is kept exactly, cADDR goes there.     *)
ResumesAsAsked ==
  [][mode # "run" /\ mode' = "run"
     => mepc' = IF asked[q'].addr # NoAddr THEN asked[q'].addr
                ELSE IF wrote \notin {NoAddr, stopped_pc} THEN wrote
                ELSE IF mcause = 3 THEN stopped_pc + 4 ELSE stopped_pc]_vars

(* And one fault on the line never costs the session.                      *)
SurvivesAFault == NaksMeant /\ dbg = "gone" => faults > 1

(* On a sound line every request is answered: target and debugger never    *)
(* wait for each other, as they would if a program that stops again did    *)
(* not say so by itself.                                                   *)
AllAnswered == (dbg \in {"ack", "reply"}) ~> (dbg = "idle" \/ faults > 0)
=============================================================================
