--------------------------- MODULE GdbLink_proofs ---------------------------
(***************************************************************************)
(* The stub writes neither behind its packet buffer nor outside of BRAM    *)
(* and SDRAM, for any commands, windows and faults of the line; it acts    *)
(* only on what was sent; and it resumes the program where it was told to. *)
(***************************************************************************)
EXTENDS GdbLink, NaturalsInduction, WellFoundedInduction, TLAPS

(***************************************************************************)
(* Arithmetic of the windows.                                              *)
(***************************************************************************)
LEMMA SmallModulo ==
  ASSUME NEW n \in Nat, NEW x \in 0 .. n - 1
  PROVE  x % n = x
OBVIOUS

(* An accepted range lies in a window, and no sum in it wraps.             *)
LEMMA SpanInRange ==
  ASSUME NEW addr \in 0 .. WORD - 1, NEW length \in 0 .. WORD - 1,
         NEW base \in Nat, NEW size \in Nat, WORD \in Nat, base + size <= WORD,
         RangeInside(addr, length, base, size)
  PROVE  Span(addr, length) \subseteq base .. base + size - 1
<1> SUFFICES ASSUME NEW i \in 0 .. length - 1
             PROVE  (addr + i) % WORD \in base .. base + size - 1
  BY DEF Span
<1>1. addr + i \in base .. base + size - 1 /\ addr + i \in 0 .. WORD - 1
  BY DEF RangeInside
<1>2. (addr + i) % WORD = addr + i
  BY <1>1, SmallModulo
<1> QED BY <1>1, <1>2

LEMMA SpanInWindows ==
  ASSUME NEW cmd \in Commands, cmd.op = "M", Accepted(cmd)
  PROVE  Span(cmd.addr, cmd.len) \subseteq Windows
<1>1. /\ WORD \in Nat /\ BRAM_SIZE \in Nat /\ BRAM_SIZE <= WORD
      /\ SDRAM_BASE \in Nat /\ SDRAM_SIZE \in Nat /\ SDRAM_BASE + SDRAM_SIZE <= WORD
  BY StubParams
<1>2. cmd.addr \in 0 .. WORD - 1 /\ cmd.len \in 0 .. WORD - 1
  BY StubParams
<1>3. CASE RangeInside(cmd.addr, cmd.len, 0, BRAM_SIZE)
  <2>1. Span(cmd.addr, cmd.len) \subseteq 0 .. 0 + BRAM_SIZE - 1
    BY <1>1, <1>2, <1>3, SpanInRange
  <2> QED BY <1>1, <2>1 DEF Windows
<1>4. CASE RangeInside(cmd.addr, cmd.len, SDRAM_BASE, SDRAM_SIZE)
  <2>1. Span(cmd.addr, cmd.len) \subseteq SDRAM_BASE .. SDRAM_BASE + SDRAM_SIZE - 1
    BY <1>1, <1>2, <1>4, SpanInRange
  <2> QED BY <2>1 DEF Windows
<1> QED BY <1>3, <1>4 DEF Accepted, MemoryRangeAllowed

(***************************************************************************)
(* The two halves of the invariant.                                        *)
(***************************************************************************)
BufferInv == \E S : payload \in Seq(S) /\ Len(payload) <= GDB_PACKET_CAPACITY
MemoryInv == /\ memory = [a \in Addresses |-> memory[a]]
             /\ \A a \in Addresses \ Windows : memory[a] = 0
BoundsInv == BufferInv /\ MemoryInv

(* The parser stops storing at the end of its buffer.                      *)
LEMMA BufferStart == ASSUME NEW s, ParserStart(s) PROVE BufferInv'
<1>1. payload' = <<>> /\ GDB_PACKET_CAPACITY \in Nat
  BY PacketParams DEF ParserStart
<1>2. payload' \in Seq({}) /\ Len(payload') <= GDB_PACKET_CAPACITY
  BY <1>1
<1> QED BY <1>2 DEF BufferInv

LEMMA BufferFrame == BufferInv /\ UNCHANGED payload => BufferInv'
BY DEF BufferInv

LEMMA BufferFeed ==
  ASSUME BufferInv, NEW c, NEW event, Feed(c, event)
  PROVE  BufferInv'
<1>1. \/ ParserStart("PAYLOAD")
      \/ UNCHANGED payload
      \/ Len(payload) < GDB_PACKET_CAPACITY /\ Store(c)
  BY DEF Feed, ParserStep, WaitStart, Payload, ChecksumHigh, ChecksumLow, Discard, Goto
<1>2. CASE Len(payload) < GDB_PACKET_CAPACITY /\ Store(c)
  <2>1. PICK S : payload \in Seq(S)
    BY DEF BufferInv
  <2>2. payload \in Seq(S \cup {c}) /\ payload' = Append(payload, c)
    BY <1>2, <2>1 DEF Store
  <2>3. payload' \in Seq(S \cup {c}) /\ Len(payload') = Len(payload) + 1
    BY <2>2
  <2>4. GDB_PACKET_CAPACITY \in Nat /\ Len(payload) \in Nat
    BY <2>1, PacketParams
  <2>5. Len(payload') <= GDB_PACKET_CAPACITY
    BY <1>2, <2>3, <2>4
  <2> QED BY <2>3, <2>5 DEF BufferInv
<1> QED BY <1>1, <1>2, BufferStart, BufferFrame

(* Of all commands only an accepted M writes.                              *)
LEMMA OnlyWriteMemory ==
  ASSUME NEW text, NEW n, DispatchPacket(text, n)
  PROVE  \/ UNCHANGED memory
         \/ \E cmd \in Commands : cmd.op = "M" /\ WriteMemory(cmd, n)
<1> DEFINE known == {k \in Commands : k.text = text}
           cmd == IF known = {} THEN [op |-> "unknown"] ELSE CHOOSE k \in known : TRUE
<1>1. \/ cmd.op = "M" /\ WriteMemory(cmd, n)
      \/ WriteRegisters(cmd, n)
      \/ ReadMemory(cmd, n)
      \/ ContinueTarget(cmd, n)
      \/ Query(cmd, n)
  BY DEF DispatchPacket
<1>2. cmd.op = "M" => cmd \in Commands
  OBVIOUS
<1>3. WriteRegisters(cmd, n) \/ ReadMemory(cmd, n) \/ ContinueTarget(cmd, n) \/ Query(cmd, n)
      => UNCHANGED memory
  BY DEF WriteRegisters, ReadMemory, ContinueTarget, Query
<1> QED BY <1>1, <1>2, <1>3

LEMMA MemoryWrite ==
  ASSUME MemoryInv, NEW cmd \in Commands, cmd.op = "M", NEW n, WriteMemory(cmd, n)
  PROVE  MemoryInv'
<1>1. CASE Accepted(cmd)
  <2>1. memory' = [a \in Addresses |->
                     IF a \in Span(cmd.addr, cmd.len) THEN cmd.value ELSE memory[a]]
    BY <1>1 DEF WriteMemory, MemoryInv
  <2>2. Span(cmd.addr, cmd.len) \subseteq Windows
    BY <1>1, SpanInWindows
  <2> QED BY <2>1, <2>2 DEF MemoryInv, Windows
<1>2. CASE ~Accepted(cmd)
  BY <1>2 DEF WriteMemory, MemoryInv, Windows
<1> QED BY <1>1, <1>2

LEMMA MemoryFrame == MemoryInv /\ UNCHANGED memory => MemoryInv'
BY DEF MemoryInv, Windows

(***************************************************************************)
(* Every step.                                                             *)
(***************************************************************************)
LEMMA BoundsHandleByte == BoundsInv /\ HandleByte => BoundsInv'
<1> SUFFICES ASSUME BoundsInv, HandleByte PROVE BoundsInv'
  OBVIOUS
<1>1. PICK event \in Events :
        /\ Feed(rx_data.c, event)
        /\ \/ DispatchPacket(payload, rx_data.q)
           \/ UNCHANGED memory
  BY DEF HandleByte
<1>2. BufferInv'
  BY <1>1, BufferFeed DEF BoundsInv
<1>3. MemoryInv'
  BY <1>1, OnlyWriteMemory, MemoryWrite, MemoryFrame DEF BoundsInv
<1> QED BY <1>2, <1>3 DEF BoundsInv

LEMMA BoundsStep == BoundsInv /\ [Next]_vars => BoundsInv'
<1> SUFFICES ASSUME BoundsInv, [Next]_vars PROVE BoundsInv'
  OBVIOUS
<1>1. CASE Stop \/ CheckErrors
  <2>1. UNCHANGED memory
    BY <1>1 DEF Stop, CheckErrors
  <2>2. ParserStart("WAIT_START") \/ UNCHANGED payload
    BY <1>1 DEF Stop, CheckErrors, parserVars
  <2> QED BY <2>1, <2>2, BufferStart, BufferFrame, MemoryFrame DEF BoundsInv
<1>2. CASE HandleByte
  BY <1>2, BoundsHandleByte
<1>3. CASE UNCHANGED <<memory, payload>>
  BY <1>3, BufferFrame, MemoryFrame DEF BoundsInv
<1>4. \/ Stop \/ CheckErrors \/ HandleByte \/ UNCHANGED <<memory, payload>>
  <2>1. PutByte => UNCHANGED <<memory, payload>>
    BY DEF PutByte, parserVars
  <2>2. Deliver \/ GarbleInput \/ FramingError \/ LoseOutput => UNCHANGED <<memory, payload>>
    BY DEF Deliver, GarbleInput, FramingError, LoseOutput, Receive, stubVars, parserVars
  <2>3. (\E cmd \in Commands : Ask(cmd)) \/ Read \/ Timeout => UNCHANGED <<memory, payload>>
    BY DEF Ask, Read, Timeout, stubVars, parserVars
  <2>4. UNCHANGED vars => UNCHANGED <<memory, payload>>
    BY DEF vars, stubVars, parserVars
  <2> QED BY <2>1, <2>2, <2>3, <2>4 DEF Next, StubStep
<1> QED BY <1>1, <1>2, <1>3, <1>4

LEMMA BoundsInit == Init => BoundsInv
<1> SUFFICES ASSUME Init PROVE BoundsInv
  OBVIOUS
<1>1. payload = <<>> /\ memory = [a \in Addresses |-> 0]
  BY DEF Init, StubInit, ParserInit
<1>2. payload \in Seq({}) /\ Len(payload) <= GDB_PACKET_CAPACITY
  BY <1>1, PacketParams
<1>3. BufferInv
  BY <1>2 DEF BufferInv
<1>4. MemoryInv
  BY <1>1 DEF MemoryInv
<1> QED BY <1>3, <1>4 DEF BoundsInv

(* The buffer and the memory outside of the windows, whatever the debugger *)
(* sends and the line does to it.                                          *)
THEOREM BoundsInvariance == Spec => []BoundsInv
<1> QED BY BoundsInit, BoundsStep, PTL DEF Spec

(* gdb_packet.c:48 and range_inside: the stub writes neither behind its    *)
(* buffer nor outside of BRAM and SDRAM.                                   *)
THEOREM StubWritesInBounds == Spec => []WritesInBounds
<1>1. BoundsInv => WritesInBounds
  BY DEF BoundsInv, BufferInv, MemoryInv, WritesInBounds
<1> QED BY <1>1, BoundsInvariance, PTL

(***************************************************************************)
(* What goes over the line is made of sequences, and whatever is under way *)
(* to the board carries the number of a request.                           *)
(***************************************************************************)
IsSeq(s) == \E S : s \in Seq(S)

LEMMA SeqOfTwo == ASSUME NEW a, NEW b PROVE IsSeq(<<a, b>>) /\ Len(<<a, b>>) = 2
<1>1. <<a, b>> \in Seq({a, b})
  OBVIOUS
<1> QED BY <1>1 DEF IsSeq

LEMMA SeqOfOne ==
  ASSUME NEW a
  PROVE  IsSeq(<<a>>) /\ Len(<<a>>) = 1 /\ <<a>>[1] = a
<1>1. <<a>> \in Seq({a})
  OBVIOUS
<1> QED BY <1>1 DEF IsSeq

LEMMA SeqOfNone == IsSeq(<<>>)
<1>1. <<>> \in Seq({})
  OBVIOUS
<1> QED BY <1>1 DEF IsSeq

LEMMA SeqJoin ==
  ASSUME NEW s, NEW t, IsSeq(s), IsSeq(t)
  PROVE  /\ IsSeq(s \o t) /\ Len(s \o t) = Len(s) + Len(t)
         /\ Len(s) \in Nat /\ Len(t) \in Nat
         /\ \A i \in 1 .. Len(s) + Len(t) :
              (s \o t)[i] = IF i <= Len(s) THEN s[i] ELSE t[i - Len(s)]
<1>1. PICK S : s \in Seq(S)
  BY DEF IsSeq
<1>2. PICK T : t \in Seq(T)
  BY DEF IsSeq
<1>3. s \in Seq(S \cup T) /\ t \in Seq(S \cup T)
  BY <1>1, <1>2
<1>4. s \o t \in Seq(S \cup T)
  BY <1>3
<1> QED BY <1>3, <1>4 DEF IsSeq

LEMMA SeqTail ==
  ASSUME NEW s, IsSeq(s), s # <<>>
  PROVE  /\ IsSeq(Tail(s)) /\ Len(s) \in Nat \ {0} /\ Len(Tail(s)) = Len(s) - 1
         /\ \A i \in 1 .. Len(s) - 1 : Tail(s)[i] = s[i + 1]
         /\ Head(s) = s[1]
<1>1. PICK S : s \in Seq(S)
  BY DEF IsSeq
<1>2. Tail(s) \in Seq(S) /\ Len(s) \in Nat \ {0}
  BY <1>1
<1> QED BY <1>1, <1>2 DEF IsSeq

LEMMA SeqTagged ==
  ASSUME NEW s, IsSeq(s), NEW n
  PROVE  /\ IsSeq(Tagged(s, n)) /\ Len(Tagged(s, n)) = Len(s)
         /\ \A i \in 1 .. Len(s) : Tagged(s, n)[i] = [c |-> s[i], q |-> n]
<1>1. PICK S : s \in Seq(S)
  BY DEF IsSeq
<1> DEFINE T == {[c |-> s[i], q |-> n] : i \in 1 .. Len(s)}
<1>2. Len(s) \in Nat
  BY <1>1
<1>3. Tagged(s, n) = [i \in 1 .. Len(s) |-> [c |-> s[i], q |-> n]]
  BY DEF Tagged
<1>4. \A i \in 1 .. Len(s) : [c |-> s[i], q |-> n] \in T
  OBVIOUS
<1> HIDE DEF T
<1>5. Tagged(s, n) \in Seq(T) /\ Len(Tagged(s, n)) = Len(s)
  BY <1>2, <1>3, <1>4
<1> QED BY <1>3, <1>5 DEF IsSeq

LEMMA SeqFrame ==
  ASSUME NEW text, IsSeq(text)
  PROVE  IsSeq(Frame(text)) /\ Len(Frame(text)) = Len(text) + 4 /\ Frame(text)[1] = "$"
<1> DEFINE digits == TwoDigits(Sum(text))
           a == <<"$">> \o text
           b == a \o <<"#">>
<1>1. IsSeq(digits) /\ Len(digits) = 2
  BY SeqOfTwo DEF TwoDigits
<1>2. IsSeq(<<"$">>) /\ Len(<<"$">>) = 1 /\ <<"$">>[1] = "$"
  BY SeqOfOne
<1>3. IsSeq(<<"#">>) /\ Len(<<"#">>) = 1
  BY SeqOfOne
<1> HIDE DEF digits
<1>4. IsSeq(a) /\ Len(a) = 1 + Len(text) /\ Len(text) \in Nat /\ a[1] = "$"
  BY <1>2, SeqJoin
<1> HIDE DEF a
<1>5. IsSeq(b) /\ Len(b) = 2 + Len(text) /\ b[1] = "$"
  BY <1>3, <1>4, SeqJoin
<1> HIDE DEF b
<1>6. IsSeq(b \o digits) /\ Len(b \o digits) = Len(text) + 4 /\ (b \o digits)[1] = "$"
  <2>1. /\ IsSeq(b \o digits) /\ Len(b \o digits) = Len(b) + Len(digits)
        /\ \A i \in 1 .. Len(b) + Len(digits) :
             (b \o digits)[i] = IF i <= Len(b) THEN b[i] ELSE digits[i - Len(b)]
    BY <1>1, <1>5, SeqJoin
  <2>2. 1 \in 1 .. Len(b) + Len(digits) /\ 1 <= Len(b)
    BY <1>1, <1>4, <1>5
  <2> QED BY <1>1, <1>4, <1>5, <2>1, <2>2
<1>7. Frame(text) = b \o digits
  BY Zenon DEF Frame, a, b, digits
<1> QED BY <1>6, <1>7

LEMMA WriteAppends ==
  ASSUME IsSeq(out), NEW text, IsSeq(text), text # <<>>, NEW n, Write(text, n)
  PROVE  IsSeq(out') /\ Len(out') > Len(out) /\ out'[Len(out) + 1].c = text[1]
<1> DEFINE more == Tagged(text, n)
<1>1. /\ IsSeq(more) /\ Len(more) = Len(text)
      /\ \A i \in 1 .. Len(text) : more[i] = [c |-> text[i], q |-> n]
  BY SeqTagged
<1>2. Len(text) \in Nat \ {0}
  BY DEF IsSeq
<1>3. out' = out \o more
  BY DEF Write
<1> HIDE DEF more
<1>4. more[1].c = text[1]
  <2>1. more[1] = [c |-> text[1], q |-> n]
    BY <1>1, <1>2
  <2> QED BY <2>1
<1>5. /\ IsSeq(out \o more) /\ Len(out \o more) = Len(out) + Len(more)
      /\ Len(out) \in Nat
      /\ \A i \in 1 .. Len(out) + Len(more) :
           (out \o more)[i] = IF i <= Len(out) THEN out[i] ELSE more[i - Len(out)]
  BY <1>1, SeqJoin
<1>6. (out \o more)[Len(out) + 1] = more[1]
  <2>1. Len(out) + 1 \in 1 .. Len(out) + Len(more) /\ ~(Len(out) + 1 <= Len(out))
    BY <1>1, <1>2, <1>5
  <2>2. (Len(out) + 1) - Len(out) = 1
    BY <1>5
  <2> QED BY <1>5, <2>1, <2>2
<1> QED BY <1>1, <1>2, <1>3, <1>4, <1>5, <1>6

(* What the stub sends in reply to a request: an ack, then a frame.        *)
Said == /\ IsSeq(out') /\ IsSeq(last_reply')
        /\ Len(out') > Len(out) /\ out'[Len(out) + 1].c = "+"

LEMMA AnswerSaid ==
  ASSUME IsSeq(out), NEW text, IsSeq(text), NEW n, Answer(text, n)
  PROVE  Said /\ mode' = "loop"
<1> DEFINE all == <<"+">> \o Frame(text)
<1>1. IsSeq(Frame(text)) /\ Len(Frame(text)) = Len(text) + 4 /\ Len(text) \in Nat
  BY SeqFrame DEF IsSeq
<1>2. IsSeq(<<"+">>) /\ Len(<<"+">>) = 1 /\ <<"+">>[1] = "+"
  BY SeqOfOne
<1>3. IsSeq(all) /\ Len(all) = Len(text) + 5 /\ all[1] = "+"
  <2>1. /\ IsSeq(all) /\ Len(all) = 1 + Len(Frame(text))
        /\ \A i \in 1 .. 1 + Len(Frame(text)) :
             all[i] = IF i <= 1 THEN <<"+">>[i] ELSE Frame(text)[i - 1]
    BY <1>1, <1>2, SeqJoin
  <2>2. 1 \in 1 .. 1 + Len(Frame(text))
    BY <1>1
  <2> HIDE DEF all
  <2> QED BY <1>1, <1>2, <2>1, <2>2
<1>4. Write(all, n) /\ last_reply' = text /\ mode' = "loop"
  BY DEF Answer, SendReply
<1> HIDE DEF all
<1>5. all # <<>>
  BY <1>1, <1>3
<1> QED BY <1>3, <1>4, <1>5, WriteAppends DEF Said

LEMMA RepliesAreSeqs ==
  /\ IsSeq(<<>>) /\ IsSeq(OK) /\ IsSeq(E01) /\ IsSeq(Registers)
  /\ \A cause : IsSeq(StopReply(cause))
<1>1. IsSeq(<<>>) /\ IsSeq(OK) /\ IsSeq(E01)
  BY SeqOfNone, SeqOfOne DEF OK, E01
<1>2. IsSeq(Registers)
  <2>1. IsSeq(TwoDigits(x1)) /\ IsSeq(TwoDigits(mepc % 256))
    BY SeqOfTwo DEF TwoDigits
  <2> QED BY <2>1, SeqJoin DEF Registers
<1>3. ASSUME NEW cause PROVE IsSeq(StopReply(cause))
  <2>1. \/ StopReply(cause) = <<"S", "0", "4">> \/ StopReply(cause) = <<"S", "0", "b">>
        \/ StopReply(cause) = <<"S", "0", "5">>
    BY DEF StopReply
  <2>2. /\ <<"S", "0", "4">> \in Seq({"S", "0", "4"})
        /\ <<"S", "0", "b">> \in Seq({"S", "0", "b"})
        /\ <<"S", "0", "5">> \in Seq({"S", "0", "5"})
    OBVIOUS
  <2> QED BY <2>1, <2>2 DEF IsSeq
<1> QED BY <1>1, <1>2, <1>3

(* The command that a text means, if it is one.                            *)
Meaning(text) == LET known == {k \in Commands : k.text = text}
                 IN IF known = {} THEN [op |-> "unknown"] ELSE CHOOSE k \in known : TRUE

LEMMA MeansItself ==
  ASSUME NEW cmd \in Commands
  PROVE  Meaning(cmd.text) = cmd
<1> DEFINE known == {k \in Commands : k.text = cmd.text}
<1>1. known = {cmd}
  BY StubParams
<1>2. Meaning(cmd.text) = IF known = {} THEN [op |-> "unknown"] ELSE CHOOSE k \in known : TRUE
  BY DEF Meaning
<1> HIDE DEF known
<1> QED BY <1>1, <1>2

LEMMA DispatchIs ==
  ASSUME NEW text, NEW n, DispatchPacket(text, n)
  PROVE  LET cmd == Meaning(text) IN
         \/ cmd \in Commands /\ cmd.op = "G" /\ WriteRegisters(cmd, n)
         \/ cmd \in Commands /\ cmd.op = "m" /\ ReadMemory(cmd, n)
         \/ cmd \in Commands /\ cmd.op = "M" /\ WriteMemory(cmd, n)
         \/ cmd \in Commands /\ cmd.op = "c" /\ ContinueTarget(cmd, n)
         \/ cmd.op \notin {"G", "m", "M", "c"} /\ Query(cmd, n)
<1> DEFINE known == {k \in Commands : k.text = text}
           cmd == IF known = {} THEN [op |-> "unknown"] ELSE CHOOSE k \in known : TRUE
<1>1. cmd = Meaning(text)
  BY DEF Meaning
<1>2. \/ cmd.op = "G" /\ WriteRegisters(cmd, n)
      \/ cmd.op = "m" /\ ReadMemory(cmd, n)
      \/ cmd.op = "M" /\ WriteMemory(cmd, n)
      \/ cmd.op = "c" /\ ContinueTarget(cmd, n)
      \/ cmd.op \notin {"G", "m", "M", "c"} /\ Query(cmd, n)
  BY DEF DispatchPacket
<1>3. cmd \in Commands \/ cmd.op \notin {"G", "m", "M", "c"}
  OBVIOUS
<1> HIDE DEF cmd
<1> QED BY <1>1, <1>2, <1>3

(* Every command answers with an ack, whatever else it says.               *)
LEMMA ReadSaid ==
  ASSUME IsSeq(out), NEW cmd \in Commands, cmd.op = "m", NEW n, ReadMemory(cmd, n)
  PROVE  Said /\ mode' = "loop"
<1> DEFINE e(i) == TwoDigits(memory[cmd.addr + (i - 1) \div 2])[((i - 1) % 2) + 1]
           bytes == [i \in 1 .. 2 * cmd.len |-> e(i)]
           S == {e(i) : i \in 1 .. 2 * cmd.len}
<1>1. cmd.len \in Nat
  BY StubParams
<1>2. Answer(IF Accepted(cmd) THEN bytes ELSE E01, n)
  BY DEF ReadMemory
<1>3. \A i \in 1 .. 2 * cmd.len : e(i) \in S
  OBVIOUS
<1> HIDE DEF e, S
<1>4. bytes \in Seq(S)
  BY <1>1, <1>3
<1>5. IsSeq(bytes)
  BY <1>4 DEF IsSeq
<1> HIDE DEF bytes
<1>6. IsSeq(IF Accepted(cmd) THEN bytes ELSE E01)
  BY <1>5, RepliesAreSeqs
<1> QED BY <1>2, <1>6, AnswerSaid

LEMMA ResumeSaid ==
  ASSUME IsSeq(out), IsSeq(last_reply), NEW cmd, NEW n, Resume(cmd, n)
  PROVE  Said /\ mode' = "run"
<1>1. IsSeq(<<"+">>) /\ <<"+">>[1] = "+" /\ <<"+">> # <<>>
  BY SeqOfOne
<1>2. Write(<<"+">>, n) /\ last_reply' = last_reply /\ mode' = "run"
  BY DEF Resume
<1>3. IsSeq(out') /\ Len(out') > Len(out) /\ out'[Len(out) + 1].c = <<"+">>[1]
  BY <1>1, <1>2, WriteAppends
<1> QED BY <1>1, <1>2, <1>3 DEF Said

LEMMA DispatchSaid ==
  ASSUME IsSeq(out), IsSeq(last_reply), NEW text, NEW n, DispatchPacket(text, n)
  PROVE  Said
<1> DEFINE cmd == Meaning(text)
<1>1. CASE WriteRegisters(cmd, n)
  <2>1. Answer(E01, n) \/ Answer(OK, n)
    BY <1>1 DEF WriteRegisters
  <2> QED BY <2>1, RepliesAreSeqs, AnswerSaid
<1>2. CASE cmd \in Commands /\ cmd.op = "m" /\ ReadMemory(cmd, n)
  BY <1>2, ReadSaid
<1>3. CASE WriteMemory(cmd, n)
  <2>1. Answer(E01, n) \/ Answer(OK, n)
    BY <1>3 DEF WriteMemory
  <2> QED BY <2>1, RepliesAreSeqs, AnswerSaid
<1>4. CASE ContinueTarget(cmd, n)
  <2>1. Answer(E01, n) \/ Resume(cmd, n)
    BY <1>4 DEF ContinueTarget
  <2> QED BY <2>1, RepliesAreSeqs, AnswerSaid, ResumeSaid
<1>5. CASE Query(cmd, n)
  <2>1. PICK reply : reply \in {StopReply(mcause), OK, Registers, <<>>} /\ Answer(reply, n)
    BY <1>5 DEF Query
  <2>2. IsSeq(reply)
    BY <2>1, RepliesAreSeqs
  <2> QED BY <2>1, <2>2, AnswerSaid
<1> QED BY <1>1, <1>2, <1>3, <1>4, <1>5, DispatchIs

(* What it says to a byte that completes no request is no ack.             *)
LEMMA ReactSaid ==
  ASSUME IsSeq(out), IsSeq(last_reply), NEW event, React(event)
  PROVE  IsSeq(out') /\ (Len(out') > Len(out) => out'[Len(out) + 1].c # "+")
<1>1. CASE Write(<<"-">>, q)
  <2>1. IsSeq(<<"-">>) /\ <<"-">>[1] = "-" /\ <<"-">> # <<>>
    BY SeqOfOne
  <2> QED BY <1>1, <2>1, WriteAppends
<1>2. CASE Write(Frame(last_reply), q)
  <2>1. /\ IsSeq(Frame(last_reply)) /\ Frame(last_reply)[1] = "$"
        /\ Len(Frame(last_reply)) = Len(last_reply) + 4 /\ Len(last_reply) \in Nat
    BY SeqFrame DEF IsSeq
  <2>2. Frame(last_reply) # <<>>
    BY <2>1
  <2> QED BY <1>2, <2>1, <2>2, WriteAppends
<1>3. CASE out' = out
  <2>1. Len(out) \in Nat
    BY DEF IsSeq
  <2> QED BY <1>3, <2>1
<1> QED BY <1>1, <1>2, <1>3 DEF React

(***************************************************************************)
(* The numbers of requests, and the replies.                               *)
(***************************************************************************)
IsByte(b) == b = [c |-> b.c, q |-> b.q] /\ b.q \in 1 .. Len(asked)
TagInv ==
  /\ asked \in Seq(Commands) /\ (dbg # "idle" => asked # <<>>)
  /\ IsSeq(to_board) /\ \A i \in 1 .. Len(to_board) : IsByte(to_board[i])
  /\ rx_valid => IsByte(rx_data)
SaidInv == IsSeq(out) /\ IsSeq(last_reply)
TalkInv == TagInv /\ SaidInv

LEMMA TagFrame ==
  TagInv /\ UNCHANGED <<asked, to_board, rx_valid, rx_data>> /\ (dbg' = "idle" \/ dbg' = dbg)
    => TagInv'
BY DEF TagInv, IsByte

LEMMA SaidFrame == SaidInv /\ UNCHANGED <<out, last_reply>> => SaidInv'
BY DEF SaidInv

LEMMA HandleByteIs ==
  ASSUME HandleByte
  PROVE  /\ mode = "getc" /\ rx_valid /\ ~rx_valid' /\ rx_data' = rx_data
         /\ UNCHANGED <<rx_errors, stopped_pc, mcause>>
         /\ \/ debugger_attached' /\ q' = rx_data.q /\ DispatchPacket(payload, rx_data.q)
            \/ \E event \in Events :
                 /\ mode' = "loop" /\ React(event)
                 /\ UNCHANGED <<debugger_attached, last_reply, resume_pc_explicit, mepc, x1,
                                memory, q>>
BY DEF HandleByte, Getc

LEMMA SaidHandleByte == SaidInv /\ HandleByte => SaidInv'
<1> SUFFICES ASSUME SaidInv, HandleByte PROVE SaidInv'
  OBVIOUS
<1>1. CASE DispatchPacket(payload, rx_data.q)
  BY <1>1, DispatchSaid DEF SaidInv, Said
<1>2. ASSUME NEW event \in Events, React(event), UNCHANGED last_reply PROVE SaidInv'
  BY <1>2, ReactSaid DEF SaidInv
<1> QED BY <1>1, <1>2, HandleByteIs

LEMMA StubReads ==
  ASSUME TagInv, Stop \/ CheckErrors \/ HandleByte, UNCHANGED <<lineVars, dbgVars>>
  PROVE  TagInv'
<1>1. UNCHANGED <<asked, to_board, dbg>>
  BY DEF lineVars, dbgVars
<1>2. CASE UNCHANGED <<rx_valid, rx_data>>
  BY <1>1, <1>2, TagFrame
<1>3. CASE ~rx_valid'
  BY <1>1, <1>3 DEF TagInv, IsByte
<1>4. Stop \/ CheckErrors => UNCHANGED <<rx_valid, rx_data>>
  BY DEF Stop, CheckErrors, rxVars
<1> QED BY <1>2, <1>3, <1>4, HandleByteIs

LEMMA SaidStub == SaidInv /\ (Stop \/ CheckErrors) => SaidInv'
<1>1. SaidInv /\ CheckErrors => SaidInv'
  <2> SUFFICES ASSUME SaidInv, CheckErrors PROVE SaidInv'
    OBVIOUS
  <2>1. last_reply' = last_reply /\ (out' = out \/ Write(<<"-">>, q))
    BY DEF CheckErrors
  <2>2. IsSeq(<<"-">>) /\ <<"-">> # <<>>
    BY SeqOfOne
  <2> QED BY <2>1, <2>2, WriteAppends DEF SaidInv
<1>2. SaidInv /\ Stop => SaidInv'
  <2> SUFFICES ASSUME SaidInv, Stop PROVE SaidInv'
    OBVIOUS
  <2>1. PICK text : /\ text = <<>> \/ \E cause : text = StopReply(cause)
                    /\ last_reply' = text
                    /\ out' = out \/ Write(<<>> \o Frame(text), q)
    BY DEF Stop, ReportStop, SendReply
  <2>2. IsSeq(text)
    BY <2>1, RepliesAreSeqs
  <2>3. IsSeq(Frame(text)) /\ Len(Frame(text)) = Len(text) + 4 /\ Len(text) \in Nat
    BY <2>2, SeqFrame DEF IsSeq
  <2>4. IsSeq(<<>> \o Frame(text)) /\ Len(<<>> \o Frame(text)) = Len(text) + 4
    <3>1. Len(<<>>) = 0
      OBVIOUS
    <3> QED BY <2>3, <3>1, SeqOfNone, SeqJoin
  <2>5. <<>> \o Frame(text) # <<>>
    BY <2>3, <2>4
  <2> QED BY <2>1, <2>2, <2>4, <2>5, WriteAppends DEF SaidInv
<1> QED BY <1>1, <1>2

(* A byte that arrives is one that was sent, but for its value.            *)
LEMMA TagArrives ==
  ASSUME TagInv, to_board # <<>>, to_board' = Tail(to_board), UNCHANGED <<asked, dbg>>,
         \/ UNCHANGED <<rx_valid, rx_data>>
         \/ rx_data' = Head(to_board)
         \/ rx_data' = [Head(to_board) EXCEPT !.c = Junk]
  PROVE  TagInv'
<1>1. /\ IsSeq(Tail(to_board)) /\ Len(to_board) \in Nat \ {0}
      /\ Len(Tail(to_board)) = Len(to_board) - 1
      /\ \A i \in 1 .. Len(to_board) - 1 : Tail(to_board)[i] = to_board[i + 1]
      /\ Head(to_board) = to_board[1]
  BY SeqTail DEF TagInv
<1>2. \A i \in 1 .. Len(Tail(to_board)) : IsByte(Tail(to_board)[i])
  BY <1>1 DEF TagInv
<1>3. IsByte(Head(to_board))
  BY <1>1 DEF TagInv
<1> DEFINE b == Head(to_board)
<1>4. IsByte([b EXCEPT !.c = Junk])
  BY <1>3 DEF IsByte
<1>5. rx_valid' => IsByte(rx_data')
  BY <1>3, <1>4 DEF TagInv
<1> QED BY <1>1, <1>2, <1>5 DEF TagInv, IsByte

(* What the debugger sends carries the number of the request.              *)
LEMMA TagSend ==
  ASSUME NEW text, IsSeq(text), NEW n
  PROVE  TagInv /\ n = Len(asked') /\ Send(text, n) /\ asked' \in Seq(Commands)
         /\ Len(asked) <= n /\ asked' # <<>> /\ UNCHANGED <<rx_valid, rx_data>>
           => TagInv'
<1> DEFINE more == Tagged(text, n)
<1>1. /\ IsSeq(more) /\ Len(more) = Len(text)
      /\ \A i \in 1 .. Len(text) : more[i] = [c |-> text[i], q |-> n]
  BY SeqTagged
<1> HIDE DEF more
<1> SUFFICES ASSUME TagInv, n = Len(asked'), Send(text, n), asked' \in Seq(Commands),
                    Len(asked) <= n, asked' # <<>>, UNCHANGED <<rx_valid, rx_data>>
             PROVE  TagInv'
  OBVIOUS
<1>2. to_board' = to_board \o more
  BY DEF Send, more
<1>3. /\ IsSeq(to_board \o more) /\ Len(to_board \o more) = Len(to_board) + Len(more)
      /\ Len(to_board) \in Nat /\ Len(more) \in Nat
      /\ \A i \in 1 .. Len(to_board) + Len(more) :
           (to_board \o more)[i]
             = IF i <= Len(to_board) THEN to_board[i] ELSE more[i - Len(to_board)]
  BY <1>1, SeqJoin DEF TagInv
<1>4. n \in Nat \ {0} /\ Len(asked) \in Nat
  BY DEF TagInv
<1>5. ASSUME NEW i \in 1 .. Len(more)
      PROVE  more[i] = [c |-> more[i].c, q |-> more[i].q] /\ more[i].q \in 1 .. n
  <2>1. more[i] = [c |-> text[i], q |-> n]
    BY <1>1
  <2> QED BY <1>4, <2>1
<1>6. ASSUME NEW i \in 1 .. Len(to_board')
      PROVE  /\ to_board'[i] = [c |-> to_board'[i].c, q |-> to_board'[i].q]
             /\ to_board'[i].q \in 1 .. n
  <2>1. CASE i <= Len(to_board)
    <3>1. i \in 1 .. Len(to_board) /\ to_board'[i] = to_board[i]
      BY <1>2, <1>3, <2>1
    <3>2. to_board[i] = [c |-> to_board[i].c, q |-> to_board[i].q] /\ to_board[i].q \in 1 .. Len(asked)
      BY <3>1 DEF TagInv, IsByte
    <3> QED BY <1>4, <3>1, <3>2
  <2>2. CASE ~(i <= Len(to_board))
    <3>1. i - Len(to_board) \in 1 .. Len(more) /\ to_board'[i] = more[i - Len(to_board)]
      BY <1>2, <1>3, <2>2
    <3> QED BY <1>5, <3>1
  <2> QED BY <2>1, <2>2
<1>7. rx_valid' => IsByte(rx_data)'
  BY <1>4 DEF TagInv, IsByte
<1> QED BY <1>2, <1>3, <1>6, <1>7 DEF TagInv, IsByte

LEMMA MarkIsSeq == IsSeq(<<"+">>) /\ IsSeq(<<"-">>)
BY SeqOfOne

LEMMA RequestIsSeq ==
  ASSUME NEW cmd \in Commands
  PROVE  IsSeq(Frame(cmd.text))
<1>1. IsSeq(cmd.text)
  BY StubParams DEF IsSeq
<1> QED BY <1>1, SeqFrame

LEMMA TagAgain ==
  ASSUME NEW text, IsSeq(text)
  PROVE  TagInv /\ dbg # "idle" /\ Again(text) /\ UNCHANGED <<asked, rx_valid, rx_data>> => TagInv'
<1>1. TagInv /\ Send(text, Len(asked)) /\ UNCHANGED <<asked, rx_valid, rx_data>>
      /\ dbg # "idle" => TagInv'
  <2> SUFFICES ASSUME TagInv, Send(text, Len(asked)), UNCHANGED <<asked, rx_valid, rx_data>>,
                      dbg # "idle"
               PROVE  TagInv'
    OBVIOUS
  <2>1. /\ Len(asked) = Len(asked') /\ asked' \in Seq(Commands) /\ Len(asked) <= Len(asked)
        /\ asked' # <<>> /\ UNCHANGED <<rx_valid, rx_data>>
    BY DEF TagInv
  <2> QED BY <2>1, TagSend
<1>2. TagInv /\ dbg # "idle" /\ UNCHANGED <<asked, to_board, rx_valid, rx_data>> => TagInv'
  BY DEF TagInv, IsByte
<1> QED BY <1>1, <1>2 DEF Again

LEMMA TagAsk ==
  ASSUME NEW cmd \in Commands
  PROVE  TagInv /\ Ask(cmd) => TagInv'
<1>1. IsSeq(Frame(cmd.text))
  BY RequestIsSeq
<1> SUFFICES ASSUME TagInv, Ask(cmd) PROVE TagInv'
  OBVIOUS
<1>2. asked \in Seq(Commands) /\ asked' = Append(asked, cmd)
  BY DEF TagInv, Ask
<1>3. /\ asked' \in Seq(Commands) /\ asked' # <<>> /\ Len(asked) <= Len(asked')
  BY <1>2
<1>4. Send(Frame(cmd.text), Len(asked')) /\ UNCHANGED <<rx_valid, rx_data>>
  BY DEF Ask, rxVars
<1>5. PICK n : n = Len(asked')
  OBVIOUS
<1> QED BY <1>1, <1>3, <1>4, <1>5, TagSend

LEMMA TagRead == TagInv /\ Read => TagInv'
<1> SUFFICES ASSUME TagInv, Read PROVE TagInv'
  OBVIOUS
<1>1. UNCHANGED <<asked, rx_valid, rx_data>> /\ dbg # "idle"
  BY DEF Read, rxVars
<1>2. request \in Commands
  <2>1. asked \in Seq(Commands) /\ asked # <<>>
    BY <1>1 DEF TagInv
  <2> QED BY <2>1 DEF request
<1>3. CASE Again(Frame(request.text)) \/ Again(<<"-">>)
  BY <1>1, <1>2, <1>3, RequestIsSeq, MarkIsSeq, TagAgain
<1>4. CASE Send(<<"+">>, Len(asked))
  <2>1. /\ Len(asked) = Len(asked') /\ asked' \in Seq(Commands) /\ Len(asked) <= Len(asked)
        /\ asked' # <<>>
    BY <1>1 DEF TagInv
  <2> QED BY <1>1, <1>4, <2>1, MarkIsSeq, TagSend
<1>5. CASE UNCHANGED to_board
  BY <1>1, <1>5 DEF TagInv, IsByte
<1>6. \/ Again(Frame(request.text)) \/ Again(<<"-">>)
      \/ Send(<<"+">>, Len(asked)) \/ UNCHANGED to_board
  BY DEF Read, ReadMark, ReadPacket
<1> QED BY <1>3, <1>4, <1>5, <1>6

LEMMA TagTimeout == TagInv /\ Timeout => TagInv'
<1> SUFFICES ASSUME TagInv, Timeout PROVE TagInv'
  OBVIOUS
<1>1. UNCHANGED <<asked, rx_valid, rx_data>> /\ dbg # "idle"
  BY DEF Timeout, rxVars
<1>2. request \in Commands
  <2>1. asked \in Seq(Commands) /\ asked # <<>>
    BY <1>1 DEF TagInv
  <2> QED BY <2>1 DEF request
<1>3. Again(Frame(request.text)) \/ Again(<<"-">>)
  BY DEF Timeout
<1> QED BY <1>1, <1>2, <1>3, RequestIsSeq, MarkIsSeq, TagAgain

LEMMA TagReceive ==
  ASSUME NEW b
  PROVE  TagInv /\ Receive(b) /\ UNCHANGED <<asked, dbg>>
         /\ b \in {Head(to_board), [Head(to_board) EXCEPT !.c = Junk]} => TagInv'
<1> SUFFICES ASSUME TagInv, Receive(b), UNCHANGED <<asked, dbg>>,
                    b = Head(to_board) \/ b = [Head(to_board) EXCEPT !.c = Junk]
             PROVE  TagInv'
  OBVIOUS
<1>1. to_board # <<>> /\ to_board' = Tail(to_board)
  BY DEF Receive, Arrives
<1>2. UNCHANGED <<rx_valid, rx_data>> \/ rx_data' = b
  BY DEF Receive
<1> QED BY <1>1, <1>2, TagArrives

LEMMA TalkStep == TalkInv /\ [Next]_vars => TalkInv'
<1> SUFFICES ASSUME TagInv, SaidInv, [Next]_vars PROVE TagInv' /\ SaidInv'
  BY DEF TalkInv
<1>1. CASE StubStep
  <2>1. (Stop \/ CheckErrors \/ HandleByte) /\ UNCHANGED <<lineVars, dbgVars>>
    BY <1>1 DEF StubStep
  <2> QED BY <2>1, StubReads, SaidStub, SaidHandleByte
<1>2. CASE PutByte
  <2>1. UNCHANGED <<asked, to_board, rx_valid, rx_data, dbg, last_reply>>
        /\ out # <<>> /\ out' = Tail(out)
    BY <1>2 DEF PutByte, rxVars, dbgVars
  <2>2. SaidInv'
    BY <2>1, SeqTail DEF SaidInv
  <2> QED BY <2>1, <2>2, TagFrame
<1>3. CASE Deliver \/ GarbleInput
  <2>1. PICK b : /\ Receive(b) /\ UNCHANGED <<asked, dbg>>
                 /\ b \in {Head(to_board), [Head(to_board) EXCEPT !.c = Junk]}
    BY <1>3 DEF Deliver, GarbleInput, Receive, dbgVars
  <2>2. UNCHANGED <<out, last_reply>>
    BY <1>3 DEF Deliver, GarbleInput, Receive, stubVars
  <2> QED BY <2>1, <2>2, TagReceive, SaidFrame
<1>4. CASE FramingError
  <2>1. /\ to_board # <<>> /\ to_board' = Tail(to_board)
        /\ UNCHANGED <<asked, dbg, rx_valid, rx_data, out, last_reply>>
    BY <1>4 DEF FramingError, Arrives, dbgVars, stubVars
  <2> QED BY <2>1, TagArrives, SaidFrame
<1>5. CASE LoseOutput \/ UNCHANGED vars
  <2>1. UNCHANGED <<asked, to_board, rx_valid, rx_data, dbg, out, last_reply>>
    BY <1>5 DEF LoseOutput, vars, stubVars, rxVars, dbgVars, lineVars
  <2> QED BY <2>1, TagFrame, SaidFrame
<1>6. CASE (\E cmd \in Commands : Ask(cmd)) \/ Read \/ Timeout
  <2>1. UNCHANGED <<out, last_reply>>
    BY <1>6 DEF Ask, Read, Timeout, stubVars
  <2> QED BY <1>6, <2>1, TagAsk, TagRead, TagTimeout, SaidFrame
<1> QED BY <1>1, <1>2, <1>3, <1>4, <1>5, <1>6 DEF Next

LEMMA TalkInit == Init => TalkInv
<1> SUFFICES ASSUME Init PROVE TalkInv
  OBVIOUS
<1>1. /\ out = <<>> /\ last_reply = <<>> /\ to_board = <<>> /\ asked = <<>>
      /\ rx_valid = FALSE /\ dbg = "idle"
  BY DEF Init, StubInit
<1>2. Len(to_board) = 0 /\ asked \in Seq(Commands)
  BY <1>1
<1> QED BY <1>1, <1>2, SeqOfNone DEF TalkInv, TagInv, SaidInv

(* What is under way to the board are bytes with the number of a request,  *)
(* and what the stub has to say are sequences.                             *)
THEOREM TalkInvariance == Spec => []TalkInv
<1> QED BY TalkInit, TalkStep, PTL DEF Spec

(***************************************************************************)
(* Where the program goes on, in a session in which the stub acts only on  *)
(* what was sent (OnlyIntact).  The flag resume_pc_explicit remembers of   *)
(* the pc what wrote does: written since the stop, and elsewhere.          *)
(***************************************************************************)
AsSent == Dispatched => payload = asked[rx_data.q].text
ResumeInv ==
  mode # "run" =>
    IF wrote = NoAddr THEN mepc = stopped_pc /\ resume_pc_explicit = FALSE
    ELSE mepc = wrote /\ resume_pc_explicit = (wrote # stopped_pc)
Resumed ==
  mode # "run" /\ mode' = "run"
    => mepc' = IF asked[q'].addr # NoAddr THEN asked[q'].addr
               ELSE IF wrote \notin {NoAddr, stopped_pc} THEN wrote
               ELSE IF mcause = 3 THEN stopped_pc + 4 ELSE stopped_pc

(* A request served is the one that carries its number.                    *)
LEMMA ServedRequest ==
  TalkInv /\ HandleByte /\ AsSent /\ debugger_attached' /\ DispatchPacket(payload, rx_data.q)
    => /\ Dispatched
       /\ asked[rx_data.q] \in Commands /\ Meaning(payload) = asked[rx_data.q]
<1> SUFFICES ASSUME TalkInv, HandleByte, AsSent, debugger_attached',
                    DispatchPacket(payload, rx_data.q)
             PROVE  /\ Dispatched
                    /\ asked[rx_data.q] \in Commands /\ Meaning(payload) = asked[rx_data.q]
  OBVIOUS
<1>1. Said
  BY DispatchSaid DEF TalkInv, SaidInv
<1>2. Dispatched
  BY <1>1, HandleByteIs DEF Said, Dispatched
<1>3. asked[rx_data.q] \in Commands
  <2>1. asked \in Seq(Commands) /\ rx_data.q \in 1 .. Len(asked)
    BY HandleByteIs DEF TalkInv, TagInv, IsByte
  <2> QED BY <2>1
<1>4. payload = asked[rx_data.q].text
  BY <1>2 DEF AsSent
<1> QED BY <1>2, <1>3, <1>4, MeansItself

LEMMA WritesAPc == \A cmd \in Commands : cmd.op = "G" => cmd.addr # NoAddr
BY StubParams

LEMMA ResumeServed ==
  ASSUME TalkInv, ResumeInv, HandleByte, StubStep, AsSent, debugger_attached',
         q' = rx_data.q, DispatchPacket(payload, rx_data.q)
  PROVE  ResumeInv' /\ Resumed
<1> DEFINE n == rx_data.q
<1> PICK cmd : cmd = asked[n]
  OBVIOUS
<1>1. Dispatched /\ cmd \in Commands /\ Meaning(payload) = cmd
  BY ServedRequest
<1>2. mode = "getc" /\ UNCHANGED <<stopped_pc, mcause, asked>>
  BY HandleByteIs DEF StubStep, dbgVars
<1>3. IF wrote = NoAddr THEN mepc = stopped_pc /\ resume_pc_explicit = FALSE
      ELSE mepc = wrote /\ resume_pc_explicit = (wrote # stopped_pc)
  BY <1>2 DEF ResumeInv
<1>4. asked[q'] = cmd /\ asked'[q'] = cmd
  BY <1>2
<1>5. wrote' = IF cmd.op = "G" /\ ~cmd.bad THEN cmd.addr ELSE wrote
  BY <1>1, <1>2, <1>4 DEF StubStep
<1>6. CASE cmd.op = "G" /\ WriteRegisters(cmd, n)
  <2>1. mode' = "loop"
    BY <1>6 DEF WriteRegisters, Answer
  <2>2. CASE cmd.bad
    BY <1>2, <1>3, <1>5, <1>6, <2>1, <2>2 DEF WriteRegisters, ResumeInv, Resumed
  <2>3. CASE ~cmd.bad
    <3>1. wrote' = cmd.addr /\ mepc' = cmd.addr /\ resume_pc_explicit' = (cmd.addr # stopped_pc)
      BY <1>5, <1>6, <2>3 DEF WriteRegisters
    <3>2. cmd.addr # NoAddr
      BY <1>1, <1>6, WritesAPc
    <3> QED BY <1>2, <2>1, <3>1, <3>2 DEF ResumeInv, Resumed
  <2> QED BY <2>2, <2>3
<1>7. CASE cmd.op = "c" /\ Resume(cmd, n)
  <2>1. mode' = "run" /\ mepc' = ResumeAt(cmd)
    BY <1>7 DEF Resume
  <2>2. Resumed
    BY <1>3, <1>4, <2>1 DEF Resumed, ResumeAt
  <2> QED BY <2>1, <2>2 DEF ResumeInv
<1>8. CASE cmd.op # "G" /\ mode' = "loop" /\ UNCHANGED <<mepc, resume_pc_explicit>>
  BY <1>2, <1>3, <1>5, <1>8 DEF ResumeInv, Resumed
<1>9. \/ cmd.op = "G" /\ WriteRegisters(cmd, n)
      \/ cmd.op = "c" /\ Resume(cmd, n)
      \/ cmd.op # "G" /\ mode' = "loop" /\ UNCHANGED <<mepc, resume_pc_explicit>>
  BY <1>1, DispatchIs DEF ReadMemory, WriteMemory, ContinueTarget, Query, Answer
<1> QED BY <1>6, <1>7, <1>8, <1>9

LEMMA ResumeHandleByte ==
  ASSUME TalkInv, ResumeInv, HandleByte, StubStep, AsSent
  PROVE  ResumeInv' /\ Resumed
<1>1. CASE debugger_attached' /\ q' = rx_data.q /\ DispatchPacket(payload, rx_data.q)
  BY <1>1, ResumeServed
<1>2. ASSUME NEW event \in Events, mode' = "loop", React(event),
             UNCHANGED <<resume_pc_explicit, mepc>>
      PROVE  ResumeInv' /\ Resumed
  <2>1. ~Dispatched
    BY <1>2, ReactSaid DEF TalkInv, SaidInv, Dispatched
  <2>2. mode = "getc" /\ UNCHANGED stopped_pc
    BY HandleByteIs
  <2>3. wrote' = wrote
    BY <2>1, <2>2 DEF StubStep
  <2> QED BY <1>2, <2>2, <2>3 DEF ResumeInv, Resumed
<1> QED BY <1>1, <1>2, HandleByteIs

LEMMA ResumeStep == TalkInv /\ ResumeInv /\ [Next]_vars /\ AsSent => ResumeInv' /\ Resumed
<1> SUFFICES ASSUME TalkInv, ResumeInv, [Next]_vars, AsSent PROVE ResumeInv' /\ Resumed
  OBVIOUS
<1>1. CASE StubStep /\ HandleByte
  BY <1>1, ResumeHandleByte
<1>2. CASE StubStep /\ Stop
  <2>1. /\ mode = "run" /\ mode' = "loop" /\ mepc' = NextTrap(mepc)
        /\ stopped_pc' = NextTrap(mepc) /\ resume_pc_explicit' = FALSE
    BY <1>2 DEF Stop
  <2>2. wrote' = NoAddr
    BY <1>2, <2>1 DEF StubStep
  <2> QED BY <2>1, <2>2 DEF ResumeInv, Resumed
<1>3. CASE StubStep /\ CheckErrors
  <2>1. mode = "loop" /\ mode' = "getc" /\ UNCHANGED <<mepc, stopped_pc, resume_pc_explicit>>
    BY <1>3 DEF CheckErrors
  <2>2. wrote' = wrote
    BY <1>3, <2>1 DEF StubStep, Dispatched
  <2> QED BY <2>1, <2>2 DEF ResumeInv, Resumed
<1>4. CASE UNCHANGED <<mode, mepc, stopped_pc, resume_pc_explicit, wrote>>
  BY <1>4 DEF ResumeInv, Resumed
<1>5. \/ StubStep \/ UNCHANGED <<mode, mepc, stopped_pc, resume_pc_explicit, wrote>>
  <2>1. PutByte => UNCHANGED <<mode, mepc, stopped_pc, resume_pc_explicit, wrote>>
    BY DEF PutByte, histVars
  <2>2. Deliver \/ GarbleInput \/ FramingError \/ LoseOutput
        => UNCHANGED <<mode, mepc, stopped_pc, resume_pc_explicit, wrote>>
    BY DEF Deliver, GarbleInput, FramingError, LoseOutput, Receive, stubVars, histVars
  <2>3. (\E cmd \in Commands : Ask(cmd)) \/ Read \/ Timeout
        => UNCHANGED <<mode, mepc, stopped_pc, resume_pc_explicit, wrote>>
    BY DEF Ask, Read, Timeout, stubVars, histVars
  <2>4. UNCHANGED vars => UNCHANGED <<mode, mepc, stopped_pc, resume_pc_explicit, wrote>>
    BY DEF vars, stubVars, histVars
  <2> QED BY <2>1, <2>2, <2>3, <2>4 DEF Next
<1> QED BY <1>1, <1>2, <1>3, <1>4, <1>5 DEF StubStep

(* gdb_stub.c:227, :247 and :297: a session in which only what was sent is *)
(* acted on resumes the program where it was told to.                      *)
THEOREM GoesWhereTold == Spec /\ OnlyIntact => ResumesAsAsked
<1>1. Init => ResumeInv
  BY DEF Init, StubInit, ResumeInv
<1>2. UNCHANGED vars => AsSent
  BY DEF vars, stubVars, AsSent, Dispatched
<1>3. TalkInv /\ ResumeInv /\ [Next]_vars /\ [AsSent]_vars => ResumeInv' /\ [Resumed]_vars
  BY <1>2, ResumeStep
<1>4. OnlyIntact <=> [][AsSent]_vars
  BY DEF OnlyIntact, AsSent
<1>5. ResumesAsAsked <=> [][Resumed]_vars
  BY DEF ResumesAsAsked, Resumed
<1> QED BY <1>1, <1>3, <1>4, <1>5, TalkInvariance, PTL DEF Spec

(***************************************************************************)
(* The checksum of a text, character by character.                         *)
(***************************************************************************)
LEMMA LeastOf ==
  ASSUME NEW S \in SUBSET Nat, S # {}
  PROVE  \E m \in S : \A k \in S : m <= k
<1>1. PICK m \in S : \A y \in S : <<y, m>> \notin OpToRel(<, Nat)
  BY NatLessThanWellFounded, WFMin
<1>2. ASSUME NEW k \in S PROVE m <= k
  <2>1. k \in Nat /\ m \in Nat /\ ~(k < m)
    BY <1>1 DEF OpToRel
  <2> QED BY <2>1
<1> QED BY <1>2

(* Induction along an interval, the predicate given as a set.              *)
LEMMA IntervalInduction ==
  ASSUME NEW m \in Nat, NEW S, 0 \in S, \A i \in 0 .. m - 1 : i \in S => i + 1 \in S
  PROVE  0 .. m \subseteq S
<1> DEFINE B == {i \in 0 .. m : i \notin S}
<1> SUFFICES ASSUME B # {} PROVE FALSE
  OBVIOUS
<1>1. PICK b \in B : \A k \in B : b <= k
  <2>1. B \in SUBSET Nat
    OBVIOUS
  <2> QED BY <2>1, LeastOf
<1>2. b \in 1 .. m /\ b \notin S /\ b - 1 \in 0 .. m - 1 /\ b - 1 \in 0 .. m /\ ~(b <= b - 1)
  OBVIOUS
<1>3. b - 1 \in S
  BY <1>1, <1>2
<1> QED BY <1>2, <1>3

Totals(text, m, s) ==
  s = [n \in 0 .. m |-> IF n = 0 THEN 0 ELSE (s[n - 1] + Weight[text[n]]) % 256]

LEMMA TotalsExist ==
  ASSUME NEW text, NEW m \in Nat
  PROVE  \E s : Totals(text, m, s)
<1> DEFINE S == {i \in Nat : \E s : Totals(text, i, s)}
<1>1. 0 \in S
  <2> DEFINE s == [n \in 0 .. 0 |-> 0]
  <2>1. Totals(text, 0, s)
    BY DEF Totals
  <2> QED BY <2>1
<1>2. ASSUME NEW i \in 0 .. m - 1, i \in S PROVE i + 1 \in S
  <2>1. PICK s : Totals(text, i, s)
    BY <1>2
  <2> DEFINE more(k) == (k + Weight[text[i + 1]]) % 256
             h == [n \in 0 .. i + 1 |-> IF n = i + 1 THEN more(s[i]) ELSE s[n]]
  <2>2. ASSUME NEW n \in 0 .. i + 1
        PROVE  h[n] = IF n = 0 THEN 0 ELSE (h[n - 1] + Weight[text[n]]) % 256
    <3>1. CASE n = i + 1
      <4>1. n - 1 = i /\ h[n] = (s[i] + Weight[text[n]]) % 256 /\ h[i] = s[i] /\ n # 0
        BY <3>1
      <4> HIDE DEF h
      <4> QED BY <4>1
    <3>2. CASE n \in 0 .. i
      <4>1. h[n] = s[n] /\ (n # 0 => h[n - 1] = s[n - 1])
        BY <3>2
      <4>2. s[n] = IF n = 0 THEN 0 ELSE (s[n - 1] + Weight[text[n]]) % 256
        BY <2>1, <3>2 DEF Totals
      <4> HIDE DEF h
      <4> QED BY <4>1, <4>2
    <3> QED BY <3>1, <3>2
  <2>3. Totals(text, i + 1, h)
    <3>1. h = [n \in 0 .. i + 1 |-> h[n]]
      OBVIOUS
    <3> HIDE DEF h
    <3> QED BY <2>2, <3>1 DEF Totals
  <2> QED BY <2>3
<1>3. 0 .. m \subseteq S
  <2> HIDE DEF S
  <2> QED BY <1>1, <1>2, IntervalInduction
<1> QED BY <1>3

LEMMA ByteSum == ASSUME NEW k \in 0 .. 255, NEW w \in Nat PROVE (k + w) % 256 \in 0 .. 255
OBVIOUS

LEMMA WeightIsNat == \A c \in Char : Weight[c] \in Nat
BY PacketParams

LEMMA WeightOf ==
  ASSUME NEW text \in Seq(Char), NEW i \in 1 .. Len(text)
  PROVE  text[i] \in Char /\ Weight[text[i]] \in Nat
<1>1. text[i] \in Char
  OBVIOUS
<1> QED BY <1>1, WeightIsNat, Zenon

LEMMA SumsGrow ==
  ASSUME NEW text \in Seq(Char)
  PROVE  /\ Sums(text)[0] = 0
         /\ \A n \in 1 .. Len(text) :
              Sums(text)[n] = (Sums(text)[n - 1] + Weight[text[n]]) % 256
         /\ \A n \in 0 .. Len(text) : Sums(text)[n] \in 0 .. 255
<1>1. Len(text) \in Nat
  OBVIOUS
<1>2. \E s : Totals(text, Len(text), s)
  BY <1>1, TotalsExist
<1>3. Sums(text) = CHOOSE s : Totals(text, Len(text), s)
  BY DEF Sums, Totals
<1>4. Totals(text, Len(text), Sums(text))
  BY <1>2, <1>3
<1> DEFINE s == Sums(text)
<1>5. s = [n \in 0 .. Len(text) |-> IF n = 0 THEN 0 ELSE (s[n - 1] + Weight[text[n]]) % 256]
  BY <1>4 DEF Totals
<1> HIDE DEF s
<1>6. s[0] = 0 /\ \A n \in 1 .. Len(text) : s[n] = (s[n - 1] + Weight[text[n]]) % 256
  BY <1>1, <1>5
<1> DEFINE S == {n \in 0 .. Len(text) : s[n] \in 0 .. 255}
<1>7. \A n \in 0 .. Len(text) : n \in S <=> s[n] \in 0 .. 255
  OBVIOUS
<1> HIDE DEF S
<1>8. 0 \in S
  BY <1>1, <1>6, <1>7
<1>9. ASSUME NEW i \in 0 .. Len(text) - 1, i \in S PROVE i + 1 \in S
  <2>1. i + 1 \in 1 .. Len(text) /\ i + 1 \in 0 .. Len(text) /\ i \in 0 .. Len(text)
    BY <1>1
  <2>2. s[i] \in 0 .. 255
    BY <1>7, <1>9, <2>1
  <2>3. Weight[text[i + 1]] \in Nat
    BY <2>1, WeightOf
  <2>4. s[i + 1] = (s[(i + 1) - 1] + Weight[text[i + 1]]) % 256 /\ (i + 1) - 1 = i
    BY <1>6, <2>1
  <2>5. (s[i] + Weight[text[i + 1]]) % 256 \in 0 .. 255
    BY ZenonT(60), <2>2, <2>3, ByteSum
  <2>6. s[i + 1] \in 0 .. 255
    BY <2>4, <2>5, Zenon
  <2> QED BY <1>7, <2>1, <2>6
<1>10. 0 .. Len(text) \subseteq S
  BY <1>1, <1>8, <1>9, IntervalInduction
<1> QED BY <1>6, <1>7, <1>10 DEF s

LEMMA SumIsByte ==
  ASSUME NEW text \in Seq(Char)
  PROVE  Sum(text) \in 0 .. 255
<1>1. Len(text) \in 0 .. Len(text)
  OBVIOUS
<1> QED BY <1>1, SumsGrow DEF Sum

(* A digit of a checksum has the value it was written for.                 *)
LEMMA DigitValue ==
  ASSUME NEW i \in 1 .. 16
  PROVE  IsHex(hex_digits[i]) /\ Nibble(hex_digits[i]) = i - 1
<1>1. \A k \in 1 .. 16 : IsDigit(hex_digits[i], k) <=> k = i
  BY DEF IsDigit, hex_digits
<1> QED BY <1>1 DEF IsHex, Nibble

LEMMA FrameParts ==
  ASSUME NEW text \in Seq(Char)
  PROVE  /\ Len(Frame(text)) = Len(text) + 4
         /\ Frame(text)[1] = "$"
         /\ \A i \in 1 .. Len(text) : Frame(text)[i + 1] = text[i]
         /\ Frame(text)[Len(text) + 2] = "#"
         /\ Frame(text)[Len(text) + 3] = hex_digits[(Sum(text) \div 16) + 1]
         /\ Frame(text)[Len(text) + 4] = hex_digits[(Sum(text) % 16) + 1]
<1> DEFINE digits == TwoDigits(Sum(text))
           a == <<"$">> \o text
           b == a \o <<"#">>
           n == Len(text)
<1>1. /\ IsSeq(digits) /\ Len(digits) = 2
      /\ digits[1] = hex_digits[(Sum(text) \div 16) + 1]
      /\ digits[2] = hex_digits[(Sum(text) % 16) + 1]
  BY SeqOfTwo DEF TwoDigits
<1>2. IsSeq(<<"$">>) /\ Len(<<"$">>) = 1 /\ <<"$">>[1] = "$"
  BY SeqOfOne
<1>3. IsSeq(<<"#">>) /\ Len(<<"#">>) = 1 /\ <<"#">>[1] = "#"
  BY SeqOfOne
<1>4. IsSeq(text) /\ n \in Nat
  BY DEF IsSeq
<1>5. Frame(text) = b \o digits
  BY Zenon DEF Frame
<1> HIDE DEF digits
<1>6. /\ IsSeq(a) /\ Len(a) = n + 1 /\ a[1] = "$"
      /\ \A i \in 1 .. n : a[i + 1] = text[i]
  <2>1. /\ IsSeq(a) /\ Len(a) = 1 + n
        /\ \A i \in 1 .. 1 + n : a[i] = IF i <= 1 THEN <<"$">>[i] ELSE text[i - 1]
    BY <1>2, <1>4, SeqJoin
  <2> HIDE DEF a
  <2>2. ASSUME NEW i \in 1 .. n PROVE a[i + 1] = text[i]
    <3>1. i + 1 \in 1 .. 1 + n /\ ~(i + 1 <= 1) /\ (i + 1) - 1 = i
      BY <1>4
    <3> QED BY <2>1, <3>1
  <2> QED BY <1>2, <1>4, <2>1, <2>2
<1> HIDE DEF a
<1>7. /\ IsSeq(b) /\ Len(b) = n + 2 /\ b[1] = "$" /\ b[n + 2] = "#"
      /\ \A i \in 1 .. n : b[i + 1] = text[i]
  <2>1. /\ IsSeq(b) /\ Len(b) = Len(a) + 1
        /\ \A i \in 1 .. Len(a) + 1 : b[i] = IF i <= Len(a) THEN a[i] ELSE <<"#">>[i - Len(a)]
    BY <1>3, <1>6, SeqJoin
  <2> HIDE DEF b
  <2>2. b[n + 2] = "#"
    <3>1. n + 2 \in 1 .. Len(a) + 1 /\ ~(n + 2 <= Len(a)) /\ (n + 2) - Len(a) = 1
      BY <1>4, <1>6
    <3> QED BY <1>3, <2>1, <3>1
  <2>3. ASSUME NEW i \in 1 .. n PROVE b[i + 1] = text[i]
    <3>1. i + 1 \in 1 .. Len(a) + 1 /\ i + 1 <= Len(a)
      BY <1>4, <1>6
    <3> QED BY <1>6, <2>1, <3>1
  <2>4. b[1] = "$"
    <3>1. 1 \in 1 .. Len(a) + 1 /\ 1 <= Len(a)
      BY <1>4, <1>6
    <3> QED BY <1>6, <2>1, <3>1
  <2> QED BY <1>4, <1>6, <2>1, <2>2, <2>3, <2>4
<1> HIDE DEF b
<1> DEFINE f == b \o digits
<1>8. /\ IsSeq(f) /\ Len(f) = Len(b) + 2
      /\ \A i \in 1 .. Len(b) + 2 : f[i] = IF i <= Len(b) THEN b[i] ELSE digits[i - Len(b)]
  <2>1. /\ IsSeq(f) /\ Len(f) = Len(b) + Len(digits)
        /\ \A i \in 1 .. Len(b) + Len(digits) :
             f[i] = IF i <= Len(b) THEN b[i] ELSE digits[i - Len(b)]
    BY ZenonT(60), <1>1, <1>7, SeqJoin
  <2> HIDE DEF f
  <2> QED BY <1>1, <2>1
<1> HIDE DEF f
<1>9. f[n + 3] = digits[1] /\ f[n + 4] = digits[2]
  <2>1. /\ n + 3 \in 1 .. Len(b) + 2 /\ ~(n + 3 <= Len(b)) /\ (n + 3) - Len(b) = 1
        /\ n + 4 \in 1 .. Len(b) + 2 /\ ~(n + 4 <= Len(b)) /\ (n + 4) - Len(b) = 2
    BY <1>4, <1>7
  <2> QED BY <1>8, <2>1
<1>10. ASSUME NEW i \in 1 .. n + 2 PROVE f[i] = b[i]
  <2>1. i \in 1 .. Len(b) + 2 /\ i <= Len(b)
    BY <1>4, <1>7
  <2> QED BY <1>8, <2>1
<1>11. \A i \in 1 .. n : f[i + 1] = text[i]
  <2> SUFFICES ASSUME NEW i \in 1 .. n PROVE f[i + 1] = text[i]
    OBVIOUS
  <2>1. i + 1 \in 1 .. n + 2
    BY <1>4
  <2> QED BY <1>7, <1>10, <2>1
<1>12. f[1] = "$" /\ f[n + 2] = "#"
  <2>1. 1 \in 1 .. n + 2 /\ n + 2 \in 1 .. n + 2
    BY <1>4
  <2> QED BY <1>7, <1>10, <2>1
<1>13. Len(f) = n + 4
  BY <1>4, <1>7, <1>8
<1> QED BY <1>1, <1>5, <1>9, <1>11, <1>12, <1>13 DEF f

(***************************************************************************)
(* What a byte under way to the board is: at place k of the frame of its   *)
(* request, counted from 1, or a mark between packets, k = 0.              *)
(***************************************************************************)
Text(t) == asked[t].text
Size(t) == Len(Text(t))
AtIn(A, b, k) ==
  /\ b.q \in 1 .. Len(A) /\ k \in 0 .. Len(A[b.q].text) + 4
  /\ IF k = 0 THEN b.c \in {"+", "-"} ELSE b.c = Frame(A[b.q].text)[k]
FinalIn(A, t, k) == k = 0 \/ k = Len(A[t].text) + 4
FollowsIn(A, t, k, b, m) == IF FinalIn(A, t, k) THEN m \in {0, 1} ELSE b.q = t /\ m = k + 1
At(b, k) == AtIn(asked, b, k)
Final(t, k) == FinalIn(asked, t, k)
Follows(t, k, b, m) == FollowsIn(asked, t, k, b, m)

LEMMA RequestText ==
  ASSUME NEW cmd \in Commands
  PROVE  /\ cmd.text \in Seq(Char) /\ Len(cmd.text) \in Nat
         /\ \A i \in 1 .. Len(cmd.text) : cmd.text[i] \notin {"$", "#"}
<1>1. cmd.text \in Seq(Char \ {"$", "#"})
  BY StubParams
<1> DEFINE s == cmd.text
<1>2. s \in Seq(Char \ {"$", "#"})
  BY <1>1
<1> HIDE DEF s
<1>3. s \in Seq(Char) /\ Len(s) \in Nat /\ \A i \in 1 .. Len(s) : s[i] \in Char \ {"$", "#"}
  BY <1>2
<1> QED BY <1>3 DEF s

LEMMA TextOf ==
  ASSUME asked \in Seq(Commands), NEW t \in 1 .. Len(asked)
  PROVE  /\ asked[t] \in Commands /\ Text(t) \in Seq(Char) /\ Size(t) \in Nat
         /\ \A i \in 1 .. Size(t) : Text(t)[i] \notin {"$", "#"}
<1>1. asked[t] \in Commands
  OBVIOUS
<1> QED BY <1>1, RequestText DEF Text, Size

LEMMA DigitPlain ==
  ASSUME NEW i \in 1 .. 16
  PROVE  hex_digits[i] \notin {"$", "#", "+", "-"}
BY DEF hex_digits

LEMMA PlaceChar ==
  ASSUME asked \in Seq(Commands), NEW b, NEW k, At(b, k)
  PROVE  LET n == Size(b.q)  sum == Sum(Text(b.q)) IN
         /\ k \in 0 .. n + 4 /\ n \in Nat
         /\ k = 0 => b.c \in {"+", "-"}
         /\ k = 1 => b.c = "$"
         /\ k \in 2 .. n + 1 => b.c = Text(b.q)[k - 1] /\ b.c \notin {"$", "#"}
         /\ k = n + 2 => b.c = "#"
         /\ k = n + 3 => b.c = hex_digits[(sum \div 16) + 1] /\ b.c \notin {"$", "#", "+", "-"}
         /\ k = n + 4 => b.c = hex_digits[(sum % 16) + 1] /\ b.c \notin {"$", "#", "+", "-"}
<1> DEFINE t == b.q
           n == Size(t)
           sum == Sum(Text(t))
<1>1. t \in 1 .. Len(asked) /\ k \in 0 .. n + 4
      /\ IF k = 0 THEN b.c \in {"+", "-"} ELSE b.c = Frame(Text(t))[k]
  BY DEF At, AtIn, Text, Size
<1>2. Text(t) \in Seq(Char) /\ n \in Nat /\ \A i \in 1 .. n : Text(t)[i] \notin {"$", "#"}
  BY <1>1, TextOf
<1>3. /\ Frame(Text(t))[1] = "$"
      /\ \A i \in 1 .. n : Frame(Text(t))[i + 1] = Text(t)[i]
      /\ Frame(Text(t))[n + 2] = "#"
      /\ Frame(Text(t))[n + 3] = hex_digits[(sum \div 16) + 1]
      /\ Frame(Text(t))[n + 4] = hex_digits[(sum % 16) + 1]
  BY <1>2, FrameParts DEF Size
<1>4. sum \in 0 .. 255
  BY <1>2, SumIsByte
<1> HIDE DEF sum, n
<1>5. (sum \div 16) + 1 \in 1 .. 16 /\ (sum % 16) + 1 \in 1 .. 16
  BY <1>4
<1>6. /\ hex_digits[(sum \div 16) + 1] \notin {"$", "#", "+", "-"}
      /\ hex_digits[(sum % 16) + 1] \notin {"$", "#", "+", "-"}
  BY <1>5, DigitPlain
<1>7. ASSUME k \in 2 .. n + 1 PROVE b.c = Text(t)[k - 1] /\ b.c \notin {"$", "#"}
  <2>1. k - 1 \in 1 .. n /\ (k - 1) + 1 = k /\ k # 0
    BY <1>2, <1>7
  <2>2. Frame(Text(t))[k] = Text(t)[k - 1] /\ Text(t)[k - 1] \notin {"$", "#"}
    BY <1>2, <1>3, <2>1
  <2> QED BY <1>1, <2>1, <2>2
<1>8. k = n + 2 \/ k = n + 3 \/ k = n + 4 \/ k = 1 => k # 0
  BY <1>2
<1> QED BY ZenonT(60), <1>1, <1>2, <1>3, <1>6, <1>7, <1>8 DEF n, sum

(* Where a byte that is read as it was sent can be.                        *)
LEMMA HashPlace ==
  ASSUME asked \in Seq(Commands), NEW b, NEW k, At(b, k), b.c = "#"
  PROVE  k = Size(b.q) + 2
<1> DEFINE n == Size(b.q)
<1>1. /\ k \in 0 .. n + 4 /\ n \in Nat
      /\ k = 0 => b.c \in {"+", "-"}
      /\ k = 1 => b.c = "$"
      /\ k \in 2 .. n + 1 => b.c \notin {"$", "#"}
      /\ k = n + 3 => b.c \notin {"$", "#", "+", "-"}
      /\ k = n + 4 => b.c \notin {"$", "#", "+", "-"}
  BY PlaceChar
<1> HIDE DEF n
<1>2. k # 0 /\ k # 1 /\ k \notin 2 .. n + 1 /\ k # n + 3 /\ k # n + 4
  BY <1>1
<1>3. k = n + 2
  BY <1>1, <1>2
<1> QED BY <1>3 DEF n

LEMMA SentIsNoJunk ==
  ASSUME asked \in Seq(Commands), ChecksumTells, NEW b, NEW k, At(b, k)
  PROVE  b.c # Junk
<1> DEFINE n == Size(b.q)
           sum == Sum(Text(b.q))
<1>1. /\ k \in 0 .. n + 4 /\ n \in Nat
      /\ k = 0 => b.c \in {"+", "-"}
      /\ k = 1 => b.c = "$"
      /\ k \in 2 .. n + 1 => b.c = Text(b.q)[k - 1]
      /\ k = n + 2 => b.c = "#"
      /\ k = n + 3 => b.c = hex_digits[(sum \div 16) + 1]
      /\ k = n + 4 => b.c = hex_digits[(sum % 16) + 1]
  BY PlaceChar
<1>2. b.q \in 1 .. Len(asked)
  BY DEF At, AtIn, Text, Size
<1>3. asked[b.q] \in Commands /\ Text(b.q) \in Seq(Char)
  BY <1>2, TextOf
<1>4. sum \in 0 .. 255
  BY <1>3, SumIsByte
<1> HIDE DEF sum
<1>5. IsHex(hex_digits[(sum \div 16) + 1]) /\ IsHex(hex_digits[(sum % 16) + 1])
  <2>1. (sum \div 16) + 1 \in 1 .. 16 /\ (sum % 16) + 1 \in 1 .. 16
    BY <1>4
  <2> QED BY <2>1, DigitValue
<1>6. ASSUME k \in 2 .. n + 1 PROVE Text(b.q)[k - 1] # Junk
  <2>1. k - 1 \in 0 + 1 .. n /\ 0 \in 0 .. n /\ k - 1 \in 1 .. n
    BY <1>1, <1>6
  <2> DEFINE c == Text(b.q)[k - 1]
  <2>2. (Sums(Text(b.q))[0] + Weight[c] - Weight[Junk]) % 256 # 0
    BY <1>3, <2>1 DEF ChecksumTells, Text, Size
  <2>3. Sums(Text(b.q))[0] = 0
    BY <1>3, SumsGrow
  <2>4. c = Junk => (0 + Weight[c] - Weight[Junk]) % 256 = 0
    <3>1. Weight[Junk] \in Nat
      BY WeightIsNat, LinkParams
    <3> HIDE DEF c
    <3> QED BY <3>1
  <2> HIDE DEF c
  <2>5. c # Junk
    BY <2>2, <2>3, <2>4
  <2> QED BY <2>5 DEF c
<1>7. k \in {0, 1, n + 2, n + 3, n + 4} \cup 2 .. n + 1
  BY <1>1
<1>8. Junk \notin {"$", "#", "+", "-"} /\ ~IsHex(Junk)
  BY DEF ChecksumTells
<1> QED BY <1>1, <1>5, <1>6, <1>7, <1>8

(***************************************************************************)
(* The parser against what was sent.                                       *)
(***************************************************************************)
(* The byte in the receiver is at place r, or was there before it was hit. *)
Held(r) ==
  /\ rx_data.q \in 1 .. Len(asked) /\ r \in 0 .. Size(rx_data.q) + 4
  /\ At(rx_data, r) \/ (rx_data.c = Junk /\ garbled = 1 /\ r # 1)

(* The checksum that has grown from a to b, d apart.                       *)
Between(a, b, d) == (b - a + d) % 256
Plus(k, w) == (k + w) % 256

(* Of the text of request t the buffer holds what follows its first j      *)
(* characters, or did before one of them was hit.                          *)
Collected(t, j) ==
  LET n == Len(payload)  s == Sums(Text(t)) IN
  /\ j \in 0 .. Size(t) /\ j + n <= Size(t)
  /\ \/ /\ \A i \in 1 .. n : payload[i] = Text(t)[j + i]
        /\ checksum = Between(s[j], s[j + n], 0)
     \/ /\ garbled = 1 /\ (rx_valid => rx_data.c # Junk)
        /\ \E g \in j + 1 .. j + n :
             checksum = Between(s[j], s[j + n], Weight[Junk] - Weight[Text(t)[g]])

(* The last byte the parser took was at place k of request t.              *)
Astray(t, k) == parser_state = "PAYLOAD" /\ (k = 0 \/ k >= Size(t) + 2)
ParserAt(t, k) ==
  /\ t \in 1 .. Len(asked) /\ k \in 0 .. Size(t) + 4
  /\ \/ Astray(t, k)
     \/ \E j \in 0 .. Size(t) :
          /\ Collected(t, j)
          /\ \/ parser_state = "PAYLOAD" /\ k = 1 + j + Len(payload)
             \/ /\ parser_state = "CHECKSUM_HIGH" /\ k = Size(t) + 2
                /\ j + Len(payload) = Size(t)
             \/ /\ parser_state = "CHECKSUM_LOW" /\ k = Size(t) + 3
                /\ j + Len(payload) = Size(t)
                /\ received_checksum = (Sum(Text(t)) \div 16) * 16

(* Of a packet whose $ was the last byte read the parser knows nothing yet.*)
Parsing == \/ parser_state \in {"CHECKSUM_HIGH", "CHECKSUM_LOW"}
           \/ parser_state = "PAYLOAD" /\ payload # <<>>
FreshInv == IsSeq(payload) /\ (parser_state = "PAYLOAD" /\ payload = <<>> => checksum = 0)

LEMMA FreshFeed ==
  ASSUME FreshInv, NEW c, NEW event, Feed(c, event)
  PROVE  FreshInv'
<1>1. CASE ParserStart("PAYLOAD")
  BY <1>1, SeqOfNone DEF ParserStart, FreshInv
<1>2. CASE Store(c)
  <2>1. IsSeq(<<c>>) /\ Len(<<c>>) = 1
    BY SeqOfOne
  <2>2. payload' = payload \o <<c>>
    BY <1>2 DEF Store, FreshInv, IsSeq
  <2>3. IsSeq(payload') /\ Len(payload') = Len(payload) + 1 /\ Len(payload) \in Nat
    BY <2>1, <2>2, SeqJoin DEF FreshInv
  <2>4. payload' # <<>>
    BY <2>3
  <2> QED BY <2>3, <2>4 DEF FreshInv
<1>3. CASE UNCHANGED <<payload, checksum>> /\ (parser_state' = "PAYLOAD" => parser_state = "PAYLOAD")
  BY <1>3 DEF FreshInv
<1> QED BY <1>1, <1>2, <1>3
        DEF Feed, ParserStep, WaitStart, Payload, ChecksumHigh, ChecksumLow, Discard, Goto

LEMMA StoreAppends ==
  ASSUME FreshInv, NEW c, Store(c)
  PROVE  /\ Len(payload) \in Nat /\ Len(payload') = Len(payload) + 1
         /\ \A i \in 1 .. Len(payload) : payload'[i] = payload[i]
         /\ payload'[Len(payload) + 1] = c
         /\ checksum' = (checksum + Weight[c]) % 256
<1> DEFINE n == Len(payload)
<1>1. IsSeq(<<c>>) /\ Len(<<c>>) = 1 /\ <<c>>[1] = c
  BY SeqOfOne
<1>2. payload' = payload \o <<c>>
  BY DEF Store, FreshInv, IsSeq
<1>3. /\ Len(payload') = n + 1 /\ n \in Nat
      /\ \A i \in 1 .. n + 1 : payload'[i] = IF i <= n THEN payload[i] ELSE <<c>>[i - n]
  BY <1>1, <1>2, SeqJoin DEF FreshInv
<1> HIDE DEF n
<1>4. payload'[n + 1] = c
  <2>1. n + 1 \in 1 .. n + 1 /\ ~(n + 1 <= n) /\ (n + 1) - n = 1
    BY <1>3
  <2> QED BY <1>1, <1>3, <2>1
<1>5. \A i \in 1 .. n : payload'[i] = payload[i]
  <2> SUFFICES ASSUME NEW i \in 1 .. n PROVE payload'[i] = payload[i]
    OBVIOUS
  <2>1. i \in 1 .. n + 1 /\ i <= n
    BY <1>3
  <2> QED BY <1>3, <2>1
<1> QED BY <1>3, <1>4, <1>5 DEF n, Store

(* The checksum of one more character, which may be hit.                   *)
LEMMA OneMore ==
  ASSUME NEW a \in 0 .. 255, NEW b \in 0 .. 255, NEW w \in Nat, NEW d \in Int
  PROVE  Plus(Between(a, b, d), w) = Between(a, Plus(b, w), d)
BY DEF Between, Plus

LEMMA OneHit ==
  ASSUME NEW a \in 0 .. 255, NEW b \in 0 .. 255, NEW w \in Nat, NEW v \in Nat
  PROVE  Plus(Between(a, b, 0), w) = Between(a, Plus(b, v), w - v)
BY DEF Between, Plus

LEMMA NextPlace ==
  \A n, j \in Nat : \A i \in 1 .. n + 1 : i \in 1 .. n \/ (i = n + 1 /\ j + i = j + n + 1)
OBVIOUS

LEMMA CollectOne ==
  ASSUME FreshInv, asked \in Seq(Commands), NEW t \in 1 .. Len(asked), NEW j,
         Collected(t, j), j + Len(payload) + 1 <= Size(t), NEW c, Store(c),
         rx_valid, ~rx_valid', rx_data.c = c, UNCHANGED <<asked, garbled>>,
         \/ c = Text(t)[j + Len(payload) + 1]
         \/ c = Junk /\ garbled = 1
  PROVE  Collected(t, j)' /\ Len(payload') = Len(payload) + 1
<1> DEFINE n == Len(payload)
           x == Text(t)
           s == Sums(x)
           w == Weight[c]
           v == Weight[x[j + n + 1]]
<1>1. /\ n \in Nat /\ Len(payload') = n + 1
      /\ \A i \in 1 .. n : payload'[i] = payload[i]
      /\ payload'[n + 1] = c
      /\ checksum' = Plus(checksum, w)
  BY StoreAppends DEF Plus
<1>2. x \in Seq(Char) /\ Size(t) \in Nat /\ Len(x) = Size(t)
  BY TextOf DEF Size
<1>3. Text(t)' = x /\ Size(t)' = Size(t)
  BY DEF Text, Size
<1>4. j \in 0 .. Size(t)
  BY DEF Collected
<1>5. /\ j + n + 1 \in 1 .. Len(x) /\ (j + n + 1) - 1 = j + n /\ j + n \in 0 .. Len(x)
      /\ j + (n + 1) = j + n + 1
  <2>1. j + n + 1 <= Len(x)
    BY <1>2
  <2>2. n \in Nat /\ j \in Nat /\ Len(x) \in Nat
    BY <1>1, <1>2, <1>4
  <2> HIDE DEF n, x
  <2> QED BY <2>1, <2>2
<1>6. s[j] \in 0 .. 255 /\ s[j + n] \in 0 .. 255 /\ s[j + n + 1] = Plus(s[j + n], v)
  <2>1. /\ \A k \in 1 .. Len(x) : s[k] = Plus(s[k - 1], Weight[x[k]])
        /\ \A k \in 0 .. Len(x) : s[k] \in 0 .. 255
    BY ZenonT(60), <1>2, SumsGrow DEF Plus
  <2>2. j \in 0 .. Len(x)
    BY <1>2, <1>4
  <2> HIDE DEF n, x, s
  <2>3. s[j] \in 0 .. 255 /\ s[j + n] \in 0 .. 255
    BY <1>5, <2>1, <2>2, Zenon
  <2>4. s[j + n + 1] = Plus(s[(j + n + 1) - 1], v)
    BY <1>5, <2>1, Zenon DEF v
  <2> QED BY <1>5, <2>3, <2>4, Zenon
<1>7. v \in Nat /\ x[j + n + 1] \in Char
  BY <1>2, <1>5, WeightOf
<1>8. Weight[Junk] \in Nat
  BY WeightIsNat, LinkParams
<1>9. \/ /\ \A i \in 1 .. n : payload[i] = x[j + i]
         /\ checksum = Between(s[j], s[j + n], 0)
      \/ /\ garbled = 1 /\ c # Junk
         /\ \E g \in j + 1 .. j + n :
              checksum = Between(s[j], s[j + n], Weight[Junk] - Weight[x[g]])
  BY DEF Collected
<1>10. (\/ /\ \A i \in 1 .. n + 1 : payload'[i] = x[j + i]
           /\ checksum' = Between(s[j], s[j + n + 1], 0)
        \/ /\ garbled = 1
           /\ \E g \in j + 1 .. j + n + 1 :
                checksum' = Between(s[j], s[j + n + 1], Weight[Junk] - Weight[x[g]]))
       => Collected(t, j)'
  <2>1. j \in 0 .. Size(t)' /\ j + Len(payload') <= Size(t)'
    BY <1>1, <1>2, <1>3, <1>4
  <2> HIDE DEF n, s, x
  <2>2. j + Len(payload') = j + n + 1 /\ Len(payload') = n + 1
    BY <1>1, <1>4
  <2>3. Sums(Text(t)') = s
    BY <1>3 DEF s
  <2> QED BY <1>3, <2>1, <2>2, <2>3 DEF Collected
<1>15. n \in Nat /\ j \in Nat
  BY <1>1, <1>2, <1>4
<1> HIDE DEF n, x, s, w, v
<1>11. CASE /\ \A i \in 1 .. n : payload[i] = x[j + i]
            /\ checksum = Between(s[j], s[j + n], 0)
            /\ c = x[j + n + 1]
  <2>1. w = v
    BY <1>11 DEF w, v
  <2>2. checksum' = Between(s[j], s[j + n + 1], 0)
    <3>1. 0 \in Int
      OBVIOUS
    <3>2. Plus(Between(s[j], s[j + n], 0), v) = Between(s[j], Plus(s[j + n], v), 0)
      BY <1>6, <1>7, <3>1, OneMore, Zenon
    <3> QED BY <1>1, <1>6, <1>11, <2>1, <3>2
  <2>3. \A i \in 1 .. n + 1 : payload'[i] = x[j + i]
    <3> SUFFICES ASSUME NEW i \in 1 .. n + 1 PROVE payload'[i] = x[j + i]
      OBVIOUS
    <3>1. i \in 1 .. n \/ (i = n + 1 /\ j + i = j + n + 1)
      BY <1>15, NextPlace, Zenon
    <3>2. CASE i \in 1 .. n
      BY <1>1, <1>11, <3>2, Zenon
    <3>3. CASE i = n + 1 /\ j + i = j + n + 1
      BY <1>1, <1>11, <3>3, Zenon
    <3> QED BY <3>1, <3>2, <3>3
  <2> QED BY <1>1, <1>10, <2>2, <2>3 DEF n
<1>12. CASE checksum = Between(s[j], s[j + n], 0) /\ c = Junk /\ garbled = 1
  <2>1. w = Weight[Junk]
    BY <1>12 DEF w
  <2>2. checksum' = Between(s[j], s[j + n + 1], Weight[Junk] - v)
    <3>1. Plus(Between(s[j], s[j + n], 0), w) = Between(s[j], Plus(s[j + n], v), w - v)
      BY ZenonT(60), <1>6, <1>7, <1>8, <2>1, OneHit
    <3> QED BY <1>1, <1>6, <1>12, <2>1, <3>1
  <2>3. j + n + 1 \in j + 1 .. j + n + 1
    BY <1>15
  <2>4. Collected(t, j)'
    BY <1>10, <1>12, <2>2, <2>3, Zenon DEF v
  <2> QED BY <1>1, <2>4 DEF n
<1>13. ASSUME garbled = 1, NEW g \in j + 1 .. j + n, c = x[j + n + 1],
              checksum = Between(s[j], s[j + n], Weight[Junk] - Weight[x[g]])
       PROVE  Collected(t, j)'
  <2> DEFINE d == Weight[Junk] - Weight[x[g]]
  <2>1. w = v
    BY <1>13 DEF w, v
  <2>2. d \in Int
    <3>1. g \in 1 .. Len(x)
      BY <1>1, <1>2, <1>4, <1>5
    <3>2. Weight[x[g]] \in Nat
      BY <1>2, <3>1, WeightOf
    <3> QED BY <1>8, <3>2
  <2> HIDE DEF d
  <2>3. checksum = Between(s[j], s[j + n], d)
    BY <1>13 DEF d
  <2>4. checksum' = Between(s[j], s[j + n + 1], d)
    <3>1. Plus(Between(s[j], s[j + n], d), v) = Between(s[j], Plus(s[j + n], v), d)
      BY <1>6, <1>7, <2>2, OneMore, Zenon
    <3> QED BY <1>1, <1>6, <2>1, <2>3, <3>1, Zenon
  <2>5. g \in j + 1 .. j + n + 1
    BY <1>15
  <2> QED BY <1>10, <1>13, <2>4, <2>5, Zenon DEF d
<1>14. c = x[j + n + 1] \/ (c = Junk /\ garbled = 1)
  BY DEF n, x
<1> QED
  <2>1. CASE /\ \A i \in 1 .. n : payload[i] = x[j + i]
             /\ checksum = Between(s[j], s[j + n], 0)
    BY <1>1, <1>11, <1>12, <1>14, <2>1 DEF n
  <2>2. CASE /\ garbled = 1 /\ c # Junk
             /\ \E g \in j + 1 .. j + n :
                  checksum = Between(s[j], s[j + n], Weight[Junk] - Weight[x[g]])
    <3>1. c = x[j + n + 1]
      BY <1>14, <2>2
    <3> QED BY <1>1, <1>13, <2>2, <3>1 DEF n
  <2> QED BY <1>9, <2>1, <2>2

(***************************************************************************)
(* The byte the parser reads next, when nothing is missing in front of it. *)
(***************************************************************************)
Reads(r) ==
  /\ asked \in Seq(Commands) /\ ChecksumTells /\ FreshInv /\ rx_valid /\ Held(r)
  /\ Parsing => \E t, k : ParserAt(t, k) /\ Follows(t, k, rx_data, r)

LEMMA HeldIs ==
  ASSUME NEW r, Reads(r)
  PROVE  /\ rx_data.q \in 1 .. Len(asked) /\ Text(rx_data.q) \in Seq(Char)
         /\ Size(rx_data.q) \in Nat /\ Len(Text(rx_data.q)) = Size(rx_data.q)
         /\ r \in 0 .. Size(rx_data.q) + 4
         /\ rx_data.c # "$" => r # 1
         /\ r \in 2 .. Size(rx_data.q) + 1 =>
              \/ rx_data.c = Text(rx_data.q)[r - 1]
              \/ rx_data.c = Junk /\ garbled = 1
         /\ rx_data.c = "#" => r = Size(rx_data.q) + 2
         /\ r = Size(rx_data.q) + 2 => rx_data.c \in {"#", Junk}
         /\ IsHex(rx_data.c) => At(rx_data, r)
<1>1. rx_data.q \in 1 .. Len(asked) /\ asked \in Seq(Commands)
  BY DEF Reads, Held
<1>2. /\ Text(rx_data.q) \in Seq(Char) /\ Size(rx_data.q) \in Nat
      /\ Len(Text(rx_data.q)) = Size(rx_data.q)
  BY <1>1, TextOf DEF Size
<1>3. r \in 0 .. Size(rx_data.q) + 4
  BY DEF Reads, Held
<1>4. CASE At(rx_data, r)
  <2>1. /\ r = 1 => rx_data.c = "$"
        /\ r \in 2 .. Size(rx_data.q) + 1 => rx_data.c = Text(rx_data.q)[r - 1]
        /\ r = Size(rx_data.q) + 2 => rx_data.c = "#"
    BY <1>1, <1>4, PlaceChar
  <2>2. rx_data.c = "#" => r = Size(rx_data.q) + 2
    BY <1>1, <1>4, HashPlace
  <2> QED BY <1>1, <1>2, <1>3, <1>4, <2>1, <2>2
<1>5. CASE rx_data.c = Junk /\ garbled = 1 /\ r # 1
  <2>1. Junk # "#" /\ ~IsHex(Junk)
    BY DEF Reads, ChecksumTells
  <2> QED BY <1>1, <1>2, <1>3, <1>5, <2>1
<1> QED BY <1>4, <1>5 DEF Reads, Held

LEMMA InPayload ==
  ASSUME NEW r, Reads(r), parser_state = "PAYLOAD", rx_data.c # "$"
  PROVE  \/ r = 0
         \/ r > Size(rx_data.q) + 2
         \/ \E j \in 0 .. Size(rx_data.q) : Collected(rx_data.q, j) /\ r = 2 + j + Len(payload)
<1> DEFINE u == rx_data.q
           n == Size(u)
<1>1. n \in Nat /\ r \in 0 .. n + 4 /\ r # 1 /\ u \in 1 .. Len(asked) /\ Text(u) \in Seq(Char)
      /\ Len(Text(u)) = n
  BY HeldIs
<1>2. CASE payload = <<>> /\ r \in 2 .. n + 2
  <2>1. checksum = 0 /\ Len(payload) = 0
    BY <1>2 DEF Reads, FreshInv
  <2> DEFINE j == r - 2
  <2>2. j \in 0 .. n /\ j + 0 <= n /\ r = 2 + j + 0 /\ j + 0 = j
    BY <1>1, <1>2
  <2>3. Sums(Text(u))[j] \in 0 .. 255
    BY <1>1, <2>2, SumsGrow
  <2>4. Between(Sums(Text(u))[j], Sums(Text(u))[j], 0) = 0
    BY <2>3 DEF Between
  <2> HIDE DEF j
  <2>5. Collected(u, j)
    BY <2>1, <2>2, <2>4 DEF Collected
  <2> QED BY <2>1, <2>2, <2>5
<1>3. CASE payload # <<>>
  <2>1. PICK t, k : ParserAt(t, k) /\ Follows(t, k, rx_data, r)
    BY <1>3 DEF Reads, Parsing
  <2>2. t \in 1 .. Len(asked) /\ k \in 0 .. Size(t) + 4 /\ Size(t) \in Nat
    BY <2>1, TextOf DEF ParserAt, Reads
  <2>3. CASE Astray(t, k)
    <3>1. k = 0 \/ k >= Size(t) + 2
      BY <2>3 DEF Astray
    <3>2. IF k = 0 \/ k = Size(t) + 4 THEN r \in {0, 1} ELSE u = t /\ r = k + 1
      BY <2>1 DEF Follows, Final, FinalIn, Text, Size, FollowsIn
    <3>3. k >= Size(t) + 2 /\ r = k + 1 => r > Size(t) + 2
      BY <2>2
    <3> QED BY <1>1, <3>1, <3>2, <3>3
  <2>4. ASSUME NEW j \in 0 .. Size(t), Collected(t, j), k = 1 + j + Len(payload)
        PROVE  \E i \in 0 .. n : Collected(u, i) /\ r = 2 + i + Len(payload)
    <3>1. Len(payload) \in Nat /\ j + Len(payload) <= Size(t)
      BY <2>4 DEF Collected, Reads, FreshInv, IsSeq
    <3> DEFINE l == Len(payload)
    <3> HIDE DEF l, u, n
    <3>2. k # 0 /\ k # Size(t) + 4 /\ (r = k + 1 => r = 2 + j + l)
      BY <2>2, <2>4, <3>1 DEF l
    <3>3. u = t /\ r = k + 1
      BY <2>1, <3>2 DEF Follows, Final, u, FinalIn, Text, Size, FollowsIn
    <3> QED BY <2>4, <3>2, <3>3 DEF l, n
  <2>5. \/ Astray(t, k)
        \/ \E j \in 0 .. Size(t) : Collected(t, j) /\ k = 1 + j + Len(payload)
    BY <2>1 DEF ParserAt
  <2> QED BY <2>3, <2>4, <2>5
<1> HIDE DEF n
<1>4. r = 0 \/ r > n + 2 \/ r \in 2 .. n + 2
  BY <1>1
<1> QED BY <1>2, <1>3, <1>4 DEF n

LEMMA CollectedStays ==
  ASSUME NEW t, NEW j, Collected(t, j), UNCHANGED <<asked, garbled, payload, checksum>>,
         ~rx_valid' \/ UNCHANGED <<rx_valid, rx_data>> \/ rx_data'.c # Junk
  PROVE  Collected(t, j)'
<1>1. Text(t)' = Text(t) /\ Size(t)' = Size(t)
  BY DEF Text, Size
<1> QED BY <1>1 DEF Collected

(* Reading it, the parser is where the byte was.                           *)
Takes(r, event) ==
  /\ Feed(rx_data.c, event) /\ ~rx_valid' /\ UNCHANGED <<asked, garbled, rx_data>>

LEMMA TakesPayload ==
  ASSUME NEW r, Reads(r), NEW event, Takes(r, event), rx_data.c # "$",
         Payload(rx_data.c, event), NEW u, u = rx_data.q
  PROVE  Parsing' => ParserAt(u, r)'
<1> DEFINE n == Size(u)
<1>1. /\ n \in Nat /\ r \in 0 .. n + 4 /\ u \in 1 .. Len(asked)
      /\ r \in 2 .. n + 1 => rx_data.c = Text(u)[r - 1] \/ (rx_data.c = Junk /\ garbled = 1)
      /\ rx_data.c = "#" => r = n + 2
  BY HeldIs
<1>2. n' = n /\ Len(asked') = Len(asked) /\ ~rx_valid'
  BY DEF Takes, Size, Text
<1>3. \/ r = 0 \/ r > n + 2
      \/ \E j \in 0 .. n : Collected(u, j) /\ r = 2 + j + Len(payload)
  BY InPayload DEF Payload
<1>4. CASE rx_data.c = "#" /\ Goto("CHECKSUM_HIGH", event, "NONE")
  <2>1. r = n + 2
    BY <1>1, <1>4
  <2>2. PICK j \in 0 .. n : Collected(u, j) /\ r = 2 + j + Len(payload)
    BY <1>1, <1>3, <2>1
  <2>3. Collected(u, j)'
    BY <1>4, <2>2, CollectedStays DEF Takes, Goto
  <2>4. j + Len(payload') = n /\ parser_state' = "CHECKSUM_HIGH"
    <3>1. payload' = payload /\ parser_state' = "CHECKSUM_HIGH" /\ Len(payload) \in Nat
      BY <1>4 DEF Goto, Reads, FreshInv, IsSeq
    <3> HIDE DEF n
    <3> QED BY <1>1, <2>1, <2>2, <3>1
  <2> HIDE DEF n
  <2>5. j \in 0 .. n' /\ j + Len(payload') = n' /\ r = n' + 2 /\ r \in 0 .. n' + 4
        /\ u \in 1 .. Len(asked')
    BY <1>1, <1>2, <2>1, <2>2, <2>4
  <2> QED BY <2>3, <2>4, <2>5 DEF ParserAt, n
<1>5. CASE Goto("DISCARD", event, "OVERFLOW")
  BY <1>5 DEF Goto, Parsing
<1>6. CASE rx_data.c # "#" /\ Store(rx_data.c) /\ parser_state' = "PAYLOAD"
  <2>1. CASE r = 0 \/ r >= n + 2
    BY <1>1, <1>2, <1>6, <2>1 DEF ParserAt, Astray
  <2>2. ASSUME NEW j \in 0 .. n, Collected(u, j), r = 2 + j + Len(payload), r < n + 2
        PROVE  ParserAt(u, r)'
    <3>1. Len(payload) \in Nat
      BY DEF Reads, FreshInv, IsSeq
    <3> DEFINE l == Len(payload)
    <3>2. l \in Nat /\ r = 2 + j + l /\ j \in 0 .. n /\ r < n + 2
      BY <2>2, <3>1
    <3> HIDE DEF n, l
    <3>3. r \in 2 .. n + 1 /\ r - 1 = j + l + 1 /\ j + l + 1 <= n /\ r = 1 + j + (l + 1)
      BY <1>1, <3>2
    <3>4. rx_data.c = Text(u)[j + l + 1] \/ (rx_data.c = Junk /\ garbled = 1)
      BY <1>1, <3>3
    <3>5. Collected(u, j)' /\ Len(payload') = l + 1
      BY <1>1, <1>6, <2>2, <3>3, <3>4, CollectOne DEF Takes, Reads, n, l
    <3>6. r = 1 + j + Len(payload') /\ j \in 0 .. n' /\ r \in 0 .. n' + 4 /\ u \in 1 .. Len(asked')
      BY <1>1, <1>2, <3>2, <3>3, <3>5
    <3> QED BY <1>6, <3>5, <3>6 DEF ParserAt, n
  <2>3. r = 0 \/ r >= n + 2 \/ r < n + 2
    BY <1>1
  <2> HIDE DEF n
  <2>4. r > n + 2 => r >= n + 2
    BY <1>1
  <2> QED BY <1>3, <2>1, <2>2, <2>3, <2>4
<1> QED BY <1>4, <1>5, <1>6 DEF Payload

LEMMA FeedLinks ==
  ASSUME NEW r, Reads(r), NEW event, Takes(r, event), NEW u, u = rx_data.q
  PROVE  Parsing' => ParserAt(u, r)'
<1>1. CASE ParserStart("PAYLOAD")
  BY <1>1 DEF ParserStart, Parsing
<1>2. CASE rx_data.c # "$" /\ Payload(rx_data.c, event)
  BY <1>2, TakesPayload
<1>3. CASE parser_state' \in {"WAIT_START", "DISCARD"}
  BY <1>3 DEF Parsing
<1>4. CASE ChecksumHigh(rx_data.c, event) /\ IsHex(rx_data.c)
  <2>1. parser_state = "CHECKSUM_HIGH"
    BY <1>4 DEF ChecksumHigh
  <2>2. PICK t, k : ParserAt(t, k) /\ Follows(t, k, rx_data, r)
    BY <2>1 DEF Reads, Parsing
  <2>3. PICK j \in 0 .. Size(t) : /\ Collected(t, j) /\ k = Size(t) + 2
                                  /\ j + Len(payload) = Size(t) /\ t \in 1 .. Len(asked)
    BY <2>1, <2>2 DEF ParserAt, Astray
  <2> DEFINE n == Size(u)
             sum == Sum(Text(u))
  <2>4. n \in Nat /\ u \in 1 .. Len(asked) /\ Text(u) \in Seq(Char) /\ At(rx_data, r)
        /\ r \in 0 .. n + 4
    BY <1>4, HeldIs
  <2>5. u = t /\ r = n + 3
    <3>1. Size(t) \in Nat
      BY <2>3, TextOf DEF Reads
    <3>2. ~Final(t, k)
      BY <2>3, <3>1 DEF Final, FinalIn, Text, Size
    <3>3. u = t /\ r = k + 1
      BY <2>2, <3>2 DEF Follows, FollowsIn, Final
    <3> QED BY <2>3, <3>1, <3>3
  <2>6. sum \in 0 .. 255
    BY <2>4, SumIsByte
  <2>7. rx_data.c = hex_digits[(sum \div 16) + 1]
    <3>1. At(rx_data, r) /\ asked \in Seq(Commands) /\ r = Size(rx_data.q) + 3
      BY <2>4, <2>5 DEF Reads
    <3>2. rx_data.c = hex_digits[(Sum(Text(rx_data.q)) \div 16) + 1]
      BY <3>1, PlaceChar
    <3> QED BY <3>2
  <2>8. Nibble(rx_data.c) = sum \div 16
    <3> HIDE DEF sum
    <3>1. (sum \div 16) + 1 \in 1 .. 16 /\ ((sum \div 16) + 1) - 1 = sum \div 16
      BY <2>6
    <3> QED BY <2>7, <3>1, DigitValue
  <2>9. /\ parser_state' = "CHECKSUM_LOW" /\ received_checksum' = (sum \div 16) * 16
        /\ UNCHANGED <<payload, checksum>>
    BY <1>4, <2>8 DEF ChecksumHigh, Goto
  <2>10. Collected(u, j)'
    BY <2>3, <2>5, <2>9, CollectedStays DEF Takes
  <2>11. Text(u)' = Text(u) /\ n' = n /\ Len(asked') = Len(asked)
    BY DEF Takes, Size, Text
  <2> HIDE DEF n
  <2>12. /\ j \in 0 .. n' /\ j + Len(payload') = n' /\ r = n' + 3 /\ r \in 0 .. n' + 4
         /\ u \in 1 .. Len(asked')
    BY <2>3, <2>4, <2>5, <2>9, <2>11 DEF n
  <2> QED BY <2>9, <2>10, <2>11, <2>12 DEF ParserAt, n
<1> QED
  BY <1>1, <1>2, <1>3, <1>4
  DEF Takes, Feed, ParserStep, WaitStart, ChecksumHigh, ChecksumLow, Discard, Goto

(***************************************************************************)
(* A packet whose checksum is right is the request its last byte is of.    *)
(***************************************************************************)
LEMMA SameSum ==
  ASSUME NEW a \in 0 .. 255, NEW e \in 0 .. 255, Between(a, e, 0) = e
  PROVE  a = 0
BY DEF Between

LEMMA SameHit ==
  ASSUME NEW a \in 0 .. 255, NEW e \in 0 .. 255, NEW d \in Int, Between(a, e, d) = e
  PROVE  (a - d) % 256 = 0
BY DEF Between

LEMMA DigitsOf == \A m \in 0 .. 255 : (m \div 16) * 16 + (m % 16) = m
OBVIOUS

LEMMA WholePacket ==
  ASSUME NEW r, Reads(r), parser_state = "CHECKSUM_LOW", IsHex(rx_data.c),
         received_checksum + Nibble(rx_data.c) = checksum
  PROVE  payload = Text(rx_data.q)
<1>1. PICK t, k : ParserAt(t, k) /\ Follows(t, k, rx_data, r)
  BY DEF Reads, Parsing
<1>2. PICK j \in 0 .. Size(t) :
         /\ Collected(t, j) /\ k = Size(t) + 3 /\ j + Len(payload) = Size(t)
         /\ received_checksum = (Sum(Text(t)) \div 16) * 16 /\ t \in 1 .. Len(asked)
  BY <1>1 DEF ParserAt, Astray
<1> DEFINE x == Text(t)
           n == Size(t)
           s == Sums(x)
           sum == Sum(x)
<1>3. n \in Nat /\ x \in Seq(Char) /\ Len(x) = n /\ asked[t] \in Commands
  BY <1>2, TextOf DEF Reads, Size
<1>4. rx_data.q = t /\ r = n + 4
  <2>1. ~Final(t, k)
    BY <1>2, <1>3 DEF Final, FinalIn, Text, Size
  <2>2. rx_data.q = t /\ r = k + 1
    BY <1>1, <2>1 DEF Follows, FollowsIn, Final
  <2> QED BY <1>2, <1>3, <2>2
<1>5. sum \in 0 .. 255 /\ s[j] \in 0 .. 255 /\ s[n] = sum
  BY ZenonT(60), <1>2, <1>3, SumIsByte, SumsGrow DEF Sum
<1>6. rx_data.c = hex_digits[(sum % 16) + 1]
  <2>1. At(rx_data, r)
    BY HeldIs
  <2> QED BY <1>4, <2>1, PlaceChar DEF Reads
<1>7. checksum = sum
  <2> HIDE DEF sum
  <2>1. (sum % 16) + 1 \in 1 .. 16 /\ ((sum % 16) + 1) - 1 = sum % 16
    BY <1>5
  <2>2. Nibble(rx_data.c) = sum % 16
    BY <1>6, <2>1, DigitValue
  <2>3. received_checksum = (sum \div 16) * 16
    BY <1>2 DEF sum
  <2>4. (sum \div 16) * 16 + (sum % 16) = sum
    BY <1>5, DigitsOf
  <2> QED BY <2>2, <2>3, <2>4
<1>8. /\ j > 0 => s[j] # 0
      /\ \A g \in j + 1 .. n : (s[j] + Weight[x[g]] - Weight[Junk]) % 256 # 0
  BY <1>2, <1>3 DEF Reads, ChecksumTells, Text, Size
<1>9. j + Len(payload) = n
  BY <1>2
<1>10. ASSUME NEW g \in j + 1 .. n, checksum = Between(s[j], s[n], Weight[Junk] - Weight[x[g]])
       PROVE  FALSE
  <2>1. g \in 1 .. Len(x)
    BY <1>2, <1>3
  <2>2. Weight[x[g]] \in Nat /\ Weight[Junk] \in Nat
    BY <1>3, <2>1, WeightOf, WeightIsNat, LinkParams
  <2> HIDE DEF s, x, n, sum
  <2>3. Between(s[j], sum, Weight[Junk] - Weight[x[g]]) = sum
    BY <1>5, <1>7, <1>10
  <2>4. (s[j] + Weight[x[g]] - Weight[Junk]) % 256 = 0
    <3> DEFINE d == Weight[Junk] - Weight[x[g]]
    <3>1. d \in Int
      BY <2>2
    <3>5. s[j] \in 0 .. 255 /\ sum \in 0 .. 255
      BY <1>5, Zenon
    <3>4. s[j] + Weight[x[g]] - Weight[Junk] = s[j] - d
      BY <1>5, <2>2
    <3>2. Between(s[j], sum, d) = sum
      BY <2>3
    <3> HIDE DEF d
    <3>3. (s[j] - d) % 256 = 0
      BY <3>1, <3>2, <3>5, SameHit, Zenon
    <3> QED BY <3>3, <3>4, Zenon
  <2> QED BY <1>8, <2>4
<1>11. (\A i \in 1 .. Len(payload) : payload[i] = x[j + i]) /\ checksum = Between(s[j], s[n], 0)
  <2>1. \/ /\ \A i \in 1 .. Len(payload) : payload[i] = x[j + i]
           /\ checksum = Between(s[j], s[j + Len(payload)], 0)
        \/ \E g \in j + 1 .. j + Len(payload) :
             checksum = Between(s[j], s[j + Len(payload)], Weight[Junk] - Weight[x[g]])
    BY <1>2, Zenon DEF Collected
  <2> HIDE DEF s, x, n, sum
  <2> QED BY <1>9, <1>10, <2>1, Zenon
<1>12. j = 0
  <2> HIDE DEF s, sum
  <2>1. Between(s[j], sum, 0) = sum
    BY <1>5, <1>7, <1>11, Zenon
  <2>2. s[j] = 0
    BY ZenonT(60), <1>5, <2>1, SameSum
  <2> QED BY <1>2, <1>3, <1>8, <2>2
<1>13. Len(payload) = n /\ \A i \in 1 .. n : payload[i] = x[i]
  <2>1. Len(payload) \in Nat
    BY DEF Reads, FreshInv, IsSeq
  <2> HIDE DEF x, n
  <2> QED BY <1>3, <1>9, <1>11, <1>12, <2>1
<1>14. payload = x
  <2>1. PICK S : payload \in Seq(S)
    BY DEF Reads, FreshInv, IsSeq
  <2> HIDE DEF x, n
  <2>2. payload = [i \in 1 .. n |-> payload[i]] /\ x = [i \in 1 .. n |-> x[i]]
    BY <1>3, <1>13, <2>1
  <2> QED BY <1>13, <2>2
<1> QED BY <1>4, <1>14

(***************************************************************************)
(* What is on its way to the board: pieces of frames, each from some place *)
(* on to its end, and marks.  pos[i] is the place of the i-th byte.        *)
(***************************************************************************)
ChainIn(A, line, pos) ==
  LET n == Len(line) IN
  /\ \A i \in 1 .. n : AtIn(A, line[i], pos[i])
  /\ \A i \in 1 .. n - 1 : FollowsIn(A, line[i].q, pos[i], line[i + 1], pos[i + 1])
  /\ n # 0 => FinalIn(A, line[n].q, pos[n])
LeadsIn(A, line, pos, t, k) ==
  IF line = <<>> THEN FinalIn(A, t, k) ELSE FollowsIn(A, t, k, line[1], pos[1])
Grows(A, B) ==
  /\ Len(A) \in Nat /\ Len(B) \in Nat /\ Len(A) <= Len(B)
  /\ \A t \in 1 .. Len(A) : B[t] = A[t]

LEMMA PlacesGrow ==
  ASSUME NEW A, NEW B, Grows(A, B)
  PROVE  /\ \A b, k : AtIn(A, b, k) => AtIn(B, b, k)
         /\ \A t, k : t \in 1 .. Len(A) => (FinalIn(A, t, k) <=> FinalIn(B, t, k))
         /\ \A t, k, b, m : t \in 1 .. Len(A) => (FollowsIn(A, t, k, b, m) <=> FollowsIn(B, t, k, b, m))
<1>1. \A t \in 1 .. Len(A) : t \in 1 .. Len(B) /\ B[t] = A[t]
  BY DEF Grows
<1> QED BY <1>1 DEF AtIn, FinalIn, FollowsIn

LEMMA ChainGrows ==
  ASSUME NEW A, NEW B, Grows(A, B), NEW line, NEW pos, Len(line) \in Nat, ChainIn(A, line, pos)
  PROVE  /\ ChainIn(B, line, pos)
         /\ \A t, k : t \in 1 .. Len(A) /\ LeadsIn(A, line, pos, t, k) => LeadsIn(B, line, pos, t, k)
<1> DEFINE n == Len(line)
<1>1. \A i \in 1 .. n : AtIn(A, line[i], pos[i]) /\ line[i].q \in 1 .. Len(A)
  BY DEF ChainIn, AtIn
<1>2. \A i \in 1 .. n : AtIn(B, line[i], pos[i])
  BY <1>1, PlacesGrow
<1>3. \A i \in 1 .. n - 1 : FollowsIn(B, line[i].q, pos[i], line[i + 1], pos[i + 1])
  <2> SUFFICES ASSUME NEW i \in 1 .. n - 1
               PROVE  FollowsIn(B, line[i].q, pos[i], line[i + 1], pos[i + 1])
    OBVIOUS
  <2>1. FollowsIn(A, line[i].q, pos[i], line[i + 1], pos[i + 1])
    BY DEF ChainIn
  <2>2. i \in 1 .. n
    OBVIOUS
  <2> QED BY <1>1, <2>1, <2>2, PlacesGrow
<1>4. n # 0 => FinalIn(B, line[n].q, pos[n])
  <2>1. n # 0 => n \in 1 .. n
    OBVIOUS
  <2> QED BY <1>1, <2>1, PlacesGrow DEF ChainIn
<1> QED BY <1>2, <1>3, <1>4, PlacesGrow DEF ChainIn, LeadsIn

LEMMA ChainTail ==
  ASSUME NEW A, NEW line, IsSeq(line), line # <<>>, NEW pos, ChainIn(A, line, pos)
  PROVE  /\ AtIn(A, line[1], pos[1])
         /\ \E rest : /\ ChainIn(A, Tail(line), rest)
                      /\ LeadsIn(A, Tail(line), rest, line[1].q, pos[1])
<1> DEFINE n == Len(line)
           more == Tail(line)
           rest == [i \in 1 .. n - 1 |-> pos[i + 1]]
<1>1. /\ n \in Nat \ {0} /\ Len(more) = n - 1 /\ IsSeq(more)
      /\ \A i \in 1 .. n - 1 : more[i] = line[i + 1]
  BY SeqTail
<1>2. \A i \in 1 .. n - 1 : rest[i] = pos[i + 1]
  OBVIOUS
<1>3. /\ \A i \in 1 .. n : AtIn(A, line[i], pos[i])
      /\ \A i \in 1 .. n - 1 : FollowsIn(A, line[i].q, pos[i], line[i + 1], pos[i + 1])
      /\ FinalIn(A, line[n].q, pos[n])
  BY <1>1 DEF ChainIn
<1> HIDE DEF n, more, rest
<1>4. more = <<>> <=> n - 1 = 0
  <2>1. PICK S : more \in Seq(S)
    BY <1>1 DEF IsSeq
  <2> QED BY <1>1, <2>1
<1>5. AtIn(A, line[1], pos[1])
  BY <1>1, <1>3
<1>6. \A i \in 1 .. n - 1 : AtIn(A, more[i], rest[i])
  <2> SUFFICES ASSUME NEW i \in 1 .. n - 1 PROVE AtIn(A, more[i], rest[i])
    OBVIOUS
  <2>1. i + 1 \in 1 .. n
    BY <1>1
  <2> QED BY <1>1, <1>2, <1>3, <2>1
<1>7. \A i \in 1 .. (n - 1) - 1 : FollowsIn(A, more[i].q, rest[i], more[i + 1], rest[i + 1])
  <2> SUFFICES ASSUME NEW i \in 1 .. (n - 1) - 1
               PROVE  FollowsIn(A, more[i].q, rest[i], more[i + 1], rest[i + 1])
    OBVIOUS
  <2>1. i \in 1 .. n - 1 /\ i + 1 \in 1 .. n - 1
    BY <1>1
  <2> QED BY <1>1, <1>2, <1>3, <2>1
<1>8. n - 1 # 0 => FinalIn(A, more[n - 1].q, rest[n - 1])
  <2>1. n - 1 # 0 => n - 1 \in 1 .. n - 1 /\ (n - 1) + 1 = n
    BY <1>1
  <2> QED BY <1>1, <1>2, <1>3, <2>1
<1>9. ChainIn(A, more, rest)
  BY <1>1, <1>6, <1>7, <1>8 DEF ChainIn
<1>10. LeadsIn(A, more, rest, line[1].q, pos[1])
  <2>1. CASE n = 1
    BY <1>3, <1>4, <2>1 DEF LeadsIn
  <2>2. CASE n # 1
    <3>1. 1 \in 1 .. n - 1 /\ more # <<>> /\ 1 + 1 = 2
      BY <1>1, <1>4, <2>2
    <3>2. more[1] = line[2] /\ rest[1] = pos[2]
      BY <1>1, <1>2, <3>1
    <3>3. FollowsIn(A, line[1].q, pos[1], line[2], pos[2])
      BY <1>3, <3>1
    <3> QED BY <3>1, <3>2, <3>3 DEF LeadsIn
  <2> QED BY <2>1, <2>2
<1> QED BY <1>5, <1>9, <1>10 DEF more

LEMMA ChainJoin ==
  ASSUME NEW A, NEW line, NEW more, IsSeq(line), IsSeq(more), more # <<>>, NEW pos, NEW f,
         ChainIn(A, line, pos), ChainIn(A, more, f), f[1] \in {0, 1}
  PROVE  \E both : /\ ChainIn(A, line \o more, both)
                   /\ \A t, k : LeadsIn(A, line, pos, t, k) => LeadsIn(A, line \o more, both, t, k)
                   /\ line = <<>> \/ pos[1] \in {0, 1} => both[1] \in {0, 1}
                   /\ line \o more # <<>>
<1> DEFINE n == Len(line)
           m == Len(more)
           all == line \o more
           both == [i \in 1 .. n + m |-> IF i <= n THEN pos[i] ELSE f[i - n]]
<1>1. /\ IsSeq(all) /\ Len(all) = n + m /\ n \in Nat /\ m \in Nat
      /\ \A i \in 1 .. n + m : all[i] = IF i <= n THEN line[i] ELSE more[i - n]
  BY SeqJoin
<1>2. m # 0 /\ (line = <<>> <=> n = 0) /\ (all = <<>> <=> n + m = 0)
  BY <1>1 DEF IsSeq
<1>3. \A i \in 1 .. n + m : both[i] = IF i <= n THEN pos[i] ELSE f[i - n]
  OBVIOUS
<1> HIDE DEF both, n, m, all
<1>4. /\ \A i \in 1 .. n : AtIn(A, line[i], pos[i])
      /\ \A i \in 1 .. n - 1 : FollowsIn(A, line[i].q, pos[i], line[i + 1], pos[i + 1])
      /\ n # 0 => FinalIn(A, line[n].q, pos[n])
  BY DEF ChainIn, n
<1>5. /\ \A i \in 1 .. m : AtIn(A, more[i], f[i])
      /\ \A i \in 1 .. m - 1 : FollowsIn(A, more[i].q, f[i], more[i + 1], f[i + 1])
      /\ m # 0 => FinalIn(A, more[m].q, f[m])
  BY DEF ChainIn, m
<1>6. \A i \in 1 .. n : all[i] = line[i] /\ both[i] = pos[i] /\ i \in 1 .. n + m
  BY <1>1, <1>3
<1>7. \A i \in 1 .. m : all[n + i] = more[i] /\ both[n + i] = f[i] /\ n + i \in 1 .. n + m
  <2> SUFFICES ASSUME NEW i \in 1 .. m
               PROVE  all[n + i] = more[i] /\ both[n + i] = f[i] /\ n + i \in 1 .. n + m
    OBVIOUS
  <2>1. n + i \in 1 .. n + m /\ ~(n + i <= n) /\ (n + i) - n = i
    BY <1>1
  <2> QED BY <1>1, <1>3, <2>1
<1>8. \A i \in 1 .. n + m : i \in 1 .. n \/ \E k \in 1 .. m : i = n + k
  <2> SUFFICES ASSUME NEW i \in 1 .. n + m, i \notin 1 .. n PROVE \E k \in 1 .. m : i = n + k
    OBVIOUS
  <2>1. i - n \in 1 .. m /\ i = n + (i - n)
    BY <1>1
  <2> QED BY <2>1
<1>9. \A i \in 1 .. n + m : AtIn(A, all[i], both[i])
  BY <1>4, <1>5, <1>6, <1>7, <1>8
<1>10. \A i \in 1 .. (n + m) - 1 : FollowsIn(A, all[i].q, both[i], all[i + 1], both[i + 1])
  <2> SUFFICES ASSUME NEW i \in 1 .. (n + m) - 1
               PROVE  FollowsIn(A, all[i].q, both[i], all[i + 1], both[i + 1])
    OBVIOUS
  <2>1. CASE i \in 1 .. n - 1
    <3>1. i \in 1 .. n /\ i + 1 \in 1 .. n
      BY <1>1, <2>1
    <3> QED BY <1>4, <1>6, <2>1, <3>1
  <2>2. CASE i = n
    <3>1. n \in 1 .. n /\ 1 \in 1 .. m /\ n # 0
      BY <1>1, <1>2, <2>2
    <3>2. all[i] = line[n] /\ both[i] = pos[n] /\ both[i + 1] = f[1]
      BY <1>6, <1>7, <2>2, <3>1
    <3> QED BY <1>4, <3>1, <3>2 DEF FollowsIn
  <2>3. CASE i \notin 1 .. n
    <3> DEFINE k == i - n
    <3>1. k \in 1 .. m - 1 /\ k \in 1 .. m /\ k + 1 \in 1 .. m /\ n + k = i /\ n + (k + 1) = i + 1
      BY <1>1, <2>3
    <3> HIDE DEF k
    <3>2. all[i] = more[k] /\ both[i] = f[k] /\ all[i + 1] = more[k + 1] /\ both[i + 1] = f[k + 1]
      BY <1>7, <3>1
    <3> QED BY <1>5, <3>1, <3>2
  <2>4. i \in 1 .. n - 1 \/ i = n \/ i \notin 1 .. n
    BY <1>1
  <2> QED BY <2>1, <2>2, <2>3, <2>4
<1>11. FinalIn(A, all[n + m].q, both[n + m])
  <2>1. m \in 1 .. m
    BY <1>1, <1>2
  <2> QED BY <1>2, <1>5, <1>7, <2>1
<1>12. ChainIn(A, all, both)
  BY <1>1, <1>9, <1>10, <1>11 DEF ChainIn
<1>13. IF n = 0 THEN both[1] = f[1] ELSE all[1] = line[1] /\ both[1] = pos[1]
  <2>1. n = 0 => 1 \in 1 .. m /\ n + 1 = 1
    BY <1>1, <1>2
  <2>2. n # 0 => 1 \in 1 .. n
    BY <1>1
  <2> QED BY <1>6, <1>7, <2>1, <2>2
<1>14. all # <<>>
  BY <1>1, <1>2
<1>15. \A t, k : LeadsIn(A, line, pos, t, k) => LeadsIn(A, all, both, t, k)
  BY <1>2, <1>13, <1>14 DEF LeadsIn, FollowsIn
<1> QED BY <1>2, <1>12, <1>13, <1>14, <1>15 DEF all

LEMMA OneIsSome == \A s : Len(s) = 1 => s # <<>>
OBVIOUS

(* What the debugger sends is a frame from its beginning, or a mark.       *)
LEMMA ChainSent ==
  ASSUME NEW A \in Seq(Commands), NEW n \in 1 .. Len(A), NEW text,
         text = <<"+">> \/ text = <<"-">> \/ text = Frame(A[n].text)
  PROVE  /\ IsSeq(Tagged(text, n)) /\ Tagged(text, n) # <<>>
         /\ \E f : ChainIn(A, Tagged(text, n), f) /\ f[1] \in {0, 1}
<1> DEFINE more == Tagged(text, n)
           m == Len(text)
<1>1. A[n] \in Commands
  OBVIOUS
<1>2. IsSeq(text)
  BY <1>1, MarkIsSeq, RequestIsSeq
<1>3. /\ IsSeq(more) /\ Len(more) = m
      /\ \A i \in 1 .. m : more[i] = [c |-> text[i], q |-> n]
  BY <1>2, SeqTagged
<1>4. A[n].text \in Seq(Char) /\ Len(A[n].text) \in Nat
  BY <1>1, RequestText
<1>5. CASE text = <<"+">> \/ text = <<"-">>
  <2>1. m = 1 /\ text[1] \in {"+", "-"}
    BY <1>5
  <2> DEFINE f == [i \in 1 .. 1 |-> 0]
  <2>2. f[1] = 0
    OBVIOUS
  <2> HIDE DEF f, more, m
  <2>3. more[1].c \in {"+", "-"} /\ more[1].q = n
    BY <1>3, <2>1
  <2>4. 0 \in 0 .. Len(A[n].text) + 4
    BY <1>4
  <2>5. AtIn(A, more[1], f[1]) /\ FinalIn(A, more[1].q, f[1])
    BY <2>2, <2>3, <2>4 DEF AtIn, FinalIn
  <2>6. ChainIn(A, more, f)
    BY <1>3, <2>1, <2>5 DEF ChainIn
  <2>7. more # <<>>
    BY <1>3, <2>1, OneIsSome, Zenon
  <2>8. IsSeq(more) /\ (\E g : ChainIn(A, more, g) /\ g[1] \in {0, 1})
    BY <1>3, <2>2, <2>6, Zenon
  <2> QED BY <2>7, <2>8, Zenon DEF more
<1>6. CASE text = Frame(A[n].text)
  <2>1. m = Len(A[n].text) + 4
    BY <1>4, <1>6, FrameParts
  <2> DEFINE f == [i \in 1 .. m |-> i]
  <2>2. \A i \in 1 .. m : f[i] = i
    OBVIOUS
  <2> HIDE DEF f, more, m
  <2>3. 1 \in 1 .. m /\ m \in 1 .. m /\ m # 0 /\ m \in Nat
    BY <1>4, <2>1
  <2>4. \A i \in 1 .. m : AtIn(A, more[i], f[i])
    <3> SUFFICES ASSUME NEW i \in 1 .. m PROVE AtIn(A, more[i], f[i])
      OBVIOUS
    <3>1. more[i].q = n /\ more[i].c = Frame(A[n].text)[i] /\ f[i] = i
      BY <1>3, <1>6, <2>2
    <3>2. i # 0 /\ i \in 0 .. Len(A[n].text) + 4
      BY <1>4, <2>1
    <3> QED BY <3>1, <3>2 DEF AtIn
  <2>5. \A i \in 1 .. m - 1 : FollowsIn(A, more[i].q, f[i], more[i + 1], f[i + 1])
    <3> SUFFICES ASSUME NEW i \in 1 .. m - 1
                 PROVE  FollowsIn(A, more[i].q, f[i], more[i + 1], f[i + 1])
      OBVIOUS
    <3>1. i \in 1 .. m /\ i + 1 \in 1 .. m /\ i # 0 /\ i # Len(A[n].text) + 4
      BY <1>4, <2>1
    <3>2. more[i].q = n /\ more[i + 1].q = n /\ f[i] = i /\ f[i + 1] = i + 1
      BY <1>3, <2>2, <3>1
    <3> QED BY <3>1, <3>2 DEF FollowsIn, FinalIn
  <2>6. FinalIn(A, more[m].q, f[m])
    <3>1. more[m].q = n /\ f[m] = Len(A[n].text) + 4
      <4>1. \A i \in 1 .. m : more[i].q = n
        BY <1>3
      <4> QED BY <2>1, <2>2, <2>3, <4>1
    <3> QED BY <3>1 DEF FinalIn
  <2>7. ChainIn(A, more, f)
    BY <1>3, <2>4, <2>5, <2>6 DEF ChainIn
  <2>8. more # <<>> /\ f[1] = 1
    BY <1>3, <2>2, <2>3
  <2> QED BY <1>3, <2>7, <2>8 DEF more
<1> QED BY <1>5, <1>6

LEMMA ChainExtends ==
  ASSUME NEW A, NEW B \in Seq(Commands), Grows(A, B), NEW line, IsSeq(line), NEW pos,
         ChainIn(A, line, pos), NEW text, NEW n \in 1 .. Len(B),
         text = <<"+">> \/ text = <<"-">> \/ text = Frame(B[n].text)
  PROVE  \E both :
           /\ ChainIn(B, line \o Tagged(text, n), both)
           /\ \A t, k : t \in 1 .. Len(A) /\ LeadsIn(A, line, pos, t, k)
                          => LeadsIn(B, line \o Tagged(text, n), both, t, k)
           /\ line = <<>> \/ pos[1] \in {0, 1} => both[1] \in {0, 1}
<1> DEFINE more == Tagged(text, n)
<1>1. IsSeq(more) /\ more # <<>>
  BY ChainSent
<1>2. PICK f : ChainIn(B, more, f) /\ f[1] \in {0, 1}
  BY ChainSent
<1>3. Len(line) \in Nat
  BY DEF IsSeq
<1>4. /\ ChainIn(B, line, pos)
      /\ \A t, k : t \in 1 .. Len(A) /\ LeadsIn(A, line, pos, t, k) => LeadsIn(B, line, pos, t, k)
  BY <1>3, ChainGrows
<1> HIDE DEF more
<1>5. \E both : /\ ChainIn(B, line \o more, both)
                /\ \A t, k : LeadsIn(B, line, pos, t, k) => LeadsIn(B, line \o more, both, t, k)
                /\ line = <<>> \/ pos[1] \in {0, 1} => both[1] \in {0, 1}
                /\ line \o more # <<>>
  BY <1>1, <1>2, <1>4, ChainJoin
<1> QED BY <1>4, <1>5 DEF more

(***************************************************************************)
(* The line and the parser together.  Nothing is missing between the byte  *)
(* in the receiver and the line (Place), nor in front of it (Linked), but  *)
(* for a loss that is flagged: at the head of the loop the parser is then  *)
(* reset, and behind it (Gap) no byte can end a packet.                    *)
(***************************************************************************)
Place(pos, r) ==
  rx_valid => /\ Held(r)
              /\ \/ rx_errors \/ parser_state = "WAIT_START"
                 \/ LeadsIn(asked, to_board, pos, rx_data.q, r)
Linked(pos, r) ==
  \E t, k : /\ ParserAt(t, k)
            /\ IF rx_valid THEN Follows(t, k, rx_data, r)
               ELSE LeadsIn(asked, to_board, pos, t, k)
Gap(pos) ==
  /\ rx_errors /\ mode = "getc"
  /\ parser_state = "CHECKSUM_LOW" =>
       IF rx_valid THEN ~IsHex(rx_data.c)
       ELSE misframed = 1 /\ (to_board = <<>> \/ pos[1] \in {0, 1})
Sound(pos, r) ==
  Parsing /\ (mode = "getc" \/ (mode = "loop" /\ ~rx_errors)) => Linked(pos, r) \/ Gap(pos)
OpenInv == mode = "getc" /\ Parsing => Free
FaultInv == garbled \in Nat /\ misframed \in Nat /\ lost \in Nat /\ faults <= FAULTS
ChainInv == \E pos, r : ChainIn(asked, to_board, pos) /\ Place(pos, r) /\ Sound(pos, r)
LinkInv == FreshInv /\ OpenInv /\ FaultInv /\ ChainInv

LEMMA GrowsAlone ==
  ASSUME asked \in Seq(Commands), asked' = asked
  PROVE  Grows(asked, asked')
BY DEF Grows

LEMMA ParserAtStays ==
  ASSUME NEW t, NEW k, ParserAt(t, k), Grows(asked, asked'), UNCHANGED parserVars,
         garbled = 1 => /\ garbled' = 1
                        /\ UNCHANGED <<rx_valid, rx_data>> \/ ~rx_valid' \/ rx_data'.c # Junk
  PROVE  ParserAt(t, k)'
<1>1. t \in 1 .. Len(asked) /\ t \in 1 .. Len(asked') /\ asked'[t] = asked[t]
  BY DEF ParserAt, Grows
<1>2. Text(t)' = Text(t) /\ Size(t)' = Size(t)
  BY <1>1 DEF Text, Size
<1>3. UNCHANGED <<parser_state, payload, checksum, received_checksum>>
  BY DEF parserVars
<1>4. Astray(t, k) => Astray(t, k)'
  BY <1>2, <1>3 DEF Astray
<1>5. ASSUME NEW j, Collected(t, j) PROVE Collected(t, j)'
  BY <1>2, <1>3, <1>5 DEF Collected
<1>6. CASE Astray(t, k)
  BY <1>1, <1>2, <1>4, <1>6 DEF ParserAt
<1>7. ASSUME NEW j \in 0 .. Size(t), Collected(t, j),
             \/ parser_state = "PAYLOAD" /\ k = 1 + j + Len(payload)
             \/ /\ parser_state = "CHECKSUM_HIGH" /\ k = Size(t) + 2
                /\ j + Len(payload) = Size(t)
             \/ /\ parser_state = "CHECKSUM_LOW" /\ k = Size(t) + 3
                /\ j + Len(payload) = Size(t)
                /\ received_checksum = (Sum(Text(t)) \div 16) * 16
      PROVE  ParserAt(t, k)'
  <2>1. j \in 0 .. Size(t)' /\ k \in 0 .. Size(t)' + 4
    BY <1>2, <1>7 DEF ParserAt
  <2> QED BY <1>1, <1>2, <1>3, <1>5, <1>7, <2>1 DEF ParserAt
<1> QED BY <1>6, <1>7 DEF ParserAt

LEMMA HeldStays ==
  ASSUME NEW r, Held(r), Grows(asked, asked'), rx_data' = rx_data, garbled = 1 => garbled' = 1
  PROVE  Held(r)'
<1>1. rx_data.q \in 1 .. Len(asked) /\ rx_data.q \in 1 .. Len(asked')
      /\ asked'[rx_data.q] = asked[rx_data.q]
  BY DEF Held, Grows
<1>2. Size(rx_data.q)' = Size(rx_data.q)
  BY <1>1 DEF Size, Text
<1>3. At(rx_data, r) => At(rx_data, r)'
  BY PlacesGrow DEF At
<1> QED BY <1>1, <1>2, <1>3 DEF Held

(* The debugger sends behind what is under way.                            *)
Appends ==
  /\ Grows(asked, asked') /\ asked' \in Seq(Commands)
  /\ UNCHANGED <<parserVars, rxVars, mode, out, faultVars>>
  /\ \/ to_board' = to_board
     \/ \E text : /\ to_board' = to_board \o Tagged(text, Len(asked')) /\ asked' # <<>>
                  /\ \/ text = <<"+">> \/ text = <<"-">>
                     \/ text = Frame(asked'[Len(asked')].text)

LEMMA ChainAppends ==
  ASSUME IsSeq(to_board), NEW pos, ChainIn(asked, to_board, pos), Appends
  PROVE  \E more :
           /\ ChainIn(asked, to_board, more)'
           /\ \A t, k : t \in 1 .. Len(asked) /\ LeadsIn(asked, to_board, pos, t, k)
                          => LeadsIn(asked', to_board', more, t, k)
           /\ to_board = <<>> \/ pos[1] \in {0, 1} => to_board' = <<>> \/ more[1] \in {0, 1}
<1>1. PICK A, B, line : A = asked /\ B = asked' /\ line = to_board
  OBVIOUS
<1>2. Grows(A, B) /\ B \in Seq(Commands) /\ IsSeq(line) /\ ChainIn(A, line, pos)
      /\ Len(line) \in Nat
  BY <1>1 DEF Appends, IsSeq
<1>3. CASE to_board' = to_board
  <2>1. /\ ChainIn(B, line, pos)
        /\ \A t, k : t \in 1 .. Len(A) /\ LeadsIn(A, line, pos, t, k) => LeadsIn(B, line, pos, t, k)
    BY <1>2, ChainGrows
  <2> QED BY <1>1, <1>3, <2>1
<1>4. ASSUME NEW text, to_board' = to_board \o Tagged(text, Len(asked')), asked' # <<>>,
             text = <<"+">> \/ text = <<"-">> \/ text = Frame(asked'[Len(asked')].text)
      PROVE  \E more :
           /\ ChainIn(B, to_board', more)
           /\ \A t, k : t \in 1 .. Len(A) /\ LeadsIn(A, line, pos, t, k)
                          => LeadsIn(B, to_board', more, t, k)
           /\ line = <<>> \/ pos[1] \in {0, 1} => more[1] \in {0, 1}
  <2>1. PICK n : n = Len(B)
    OBVIOUS
  <2>2. n \in 1 .. Len(B)
    <3>1. B # <<>>
      BY <1>1, <1>4
    <3> QED BY <1>2, <2>1, <3>1
  <2>3. text = <<"+">> \/ text = <<"-">> \/ text = Frame(B[n].text)
    BY <1>1, <1>4, <2>1
  <2>4. to_board' = line \o Tagged(text, n)
    BY <1>1, <1>4, <2>1
  <2>5. \E both :
           /\ ChainIn(B, line \o Tagged(text, n), both)
           /\ \A t, k : t \in 1 .. Len(A) /\ LeadsIn(A, line, pos, t, k)
                          => LeadsIn(B, line \o Tagged(text, n), both, t, k)
           /\ line = <<>> \/ pos[1] \in {0, 1} => both[1] \in {0, 1}
    BY <1>2, <2>2, <2>3, ChainExtends
  <2> QED BY <2>4, <2>5
<1> QED BY <1>1, <1>3, <1>4 DEF Appends

LEMMA LinkAppends ==
  ASSUME LinkInv, TalkInv, Appends
  PROVE  LinkInv'
<1>1. IsSeq(to_board) /\ asked \in Seq(Commands)
  BY DEF TalkInv, TagInv
<1>2. PICK pos, r : ChainIn(asked, to_board, pos) /\ Place(pos, r) /\ Sound(pos, r)
  BY DEF LinkInv, ChainInv
<1>3. PICK more :
        /\ ChainIn(asked, to_board, more)'
        /\ \A t, k : t \in 1 .. Len(asked) /\ LeadsIn(asked, to_board, pos, t, k)
                          => LeadsIn(asked', to_board', more, t, k)
        /\ to_board = <<>> \/ pos[1] \in {0, 1} => to_board' = <<>> \/ more[1] \in {0, 1}
  BY <1>1, <1>2, ChainAppends
<1>4. /\ UNCHANGED <<parserVars, parser_state, payload, checksum, received_checksum>>
      /\ UNCHANGED <<rx_valid, rx_data, rx_errors, mode, out, garbled, misframed, lost>>
      /\ Grows(asked, asked')
  BY DEF Appends, parserVars, rxVars, faultVars
<1>5. FreshInv' /\ OpenInv' /\ FaultInv'
  BY <1>4 DEF LinkInv, FreshInv, OpenInv, FaultInv, Parsing, Free, faults
<1>6. Place(more, r)'
  <2>1. rx_valid => Held(r)' /\ rx_data.q \in 1 .. Len(asked)
    BY <1>2, <1>4, HeldStays DEF Place, Held
  <2> QED BY <1>2, <1>3, <1>4, <2>1 DEF Place
<1>7. ASSUME Linked(pos, r) PROVE Linked(more, r)'
  <2>1. PICK t, k : /\ ParserAt(t, k)
                    /\ IF rx_valid THEN Follows(t, k, rx_data, r)
                       ELSE LeadsIn(asked, to_board, pos, t, k)
    BY <1>7 DEF Linked
  <2>2. ParserAt(t, k)' /\ t \in 1 .. Len(asked)
    BY <1>4, <2>1, ParserAtStays DEF ParserAt
  <2>3. Follows(t, k, rx_data, r) => Follows(t, k, rx_data, r)'
    BY <1>4, <2>2, PlacesGrow DEF Follows
  <2> QED BY <1>3, <1>4, <2>1, <2>2, <2>3 DEF Linked
<1>8. Gap(pos) => Gap(more)'
  BY <1>3, <1>4 DEF Gap
<1>9. Sound(more, r)'
  BY <1>2, <1>4, <1>7, <1>8 DEF Sound, Parsing
<1> QED BY <1>3, <1>5, <1>6, <1>9 DEF LinkInv, ChainInv

LEMMA MarkNoHex == ~IsHex("+") /\ ~IsHex("-") /\ ~IsHex("$")
BY DEF IsHex, IsDigit, hex_digits

(* The line moves on by one byte.                                          *)
LEMMA LinkLine ==
  ASSUME LinkInv, TalkInv, ChecksumTells, Arrives,
         UNCHANGED <<asked, mode, out, parserVars>>, FaultInv',
         NEW pos, NEW r, ChainIn(asked, to_board, pos), Place(pos, r), Sound(pos, r),
         garbled = 1 => garbled' = 1, NEW r2,
         \A more : /\ ChainIn(asked, Tail(to_board), more)
                   /\ LeadsIn(asked, Tail(to_board), more, to_board[1].q, pos[1])
                   => Place(more, r2)' /\ Sound(more, r2)'
  PROVE  LinkInv'
<1>1. IsSeq(to_board) /\ to_board # <<>> /\ to_board' = Tail(to_board)
  BY DEF Arrives, TalkInv, TagInv
<1>2. PICK A, line, f : A = asked /\ line = to_board /\ f = pos
  OBVIOUS
<1>3. \E rest : ChainIn(A, Tail(line), rest) /\ LeadsIn(A, Tail(line), rest, line[1].q, f[1])
  BY <1>1, <1>2, ChainTail
<1>4. PICK more : /\ ChainIn(asked, Tail(to_board), more)
                  /\ LeadsIn(asked, Tail(to_board), more, to_board[1].q, pos[1])
  BY <1>2, <1>3
<1>5. ChainIn(asked, to_board, more)' /\ Place(more, r2)' /\ Sound(more, r2)'
  BY <1>1, <1>4
<1>6. FreshInv' /\ OpenInv'
  BY DEF LinkInv, FreshInv, OpenInv, Parsing, Free, parserVars
<1> QED BY <1>5, <1>6 DEF LinkInv, ChainInv

(* In the middle of a packet, and out of it.                               *)
LEMMA Waiting ==
  ASSUME LinkInv, Arrives, Parsing, mode = "getc"
  PROVE  ~rx_valid
BY DEF LinkInv, OpenInv, Arrives

LEMMA LinkReceives ==
  ASSUME LinkInv, TalkInv, ChecksumTells, OneFault, FaultInv',
         Deliver \/ (GarbleInput /\ Head(to_board).c # "$")
  PROVE  LinkInv'
<1> PICK b : b = to_board[1]
  OBVIOUS
<1>1. PICK pos, r : ChainIn(asked, to_board, pos) /\ Place(pos, r) /\ Sound(pos, r)
  BY DEF LinkInv, ChainInv
<1>2. /\ Arrives /\ UNCHANGED <<asked, mode, out, parserVars, misframed>>
      /\ UNCHANGED <<parser_state, payload, checksum, received_checksum>>
  BY DEF Deliver, GarbleInput, Receive, stubVars, dbgVars, faultVars, parserVars
<1>3. IsSeq(to_board) /\ to_board # <<>> /\ to_board' = Tail(to_board)
      /\ asked \in Seq(Commands)
  BY <1>2 DEF Arrives, TalkInv, TagInv
<1>4. b = Head(to_board) /\ IsByte(b)
  BY <1>3, SeqTail DEF TalkInv, TagInv
<1>5. /\ garbled = 1 => garbled' = 1 /\ Deliver
      /\ misframed = 1 => Deliver
      /\ GarbleInput => garbled' = 1
  BY LinkParams DEF LinkInv, FaultInv, OneFault, Deliver, GarbleInput, faultVars, faults
<1>6. Grows(asked, asked')
  BY <1>2, <1>3, GrowsAlone
<1>7. At(b, pos[1])
  <2>1. PICK A, line, f : A = asked /\ line = to_board /\ f = pos
    OBVIOUS
  <2>2. AtIn(A, line[1], f[1])
    BY <1>1, <1>3, <2>1, ChainTail
  <2> QED BY <2>1, <2>2 DEF At
<1>8. \/ /\ rx_valid /\ rx_valid' /\ rx_data' = rx_data /\ rx_errors'
      \/ /\ ~rx_valid /\ rx_valid' /\ rx_errors' = rx_errors
         /\ \/ Deliver /\ rx_data' = b
            \/ GarbleInput /\ b.c # "$" /\ rx_data' = [b EXCEPT !.c = Junk]
  BY <1>4 DEF Deliver, GarbleInput, Receive
<1>9. CASE rx_valid
  <2>1. ASSUME NEW more PROVE Place(more, r)'
    BY <1>1, <1>5, <1>6, <1>8, <1>9, HeldStays DEF Place
  <2>2. ASSUME NEW more PROVE Sound(more, r)'
    <3>1. mode' = "getc" /\ Parsing' => FALSE
      BY <1>2, <1>9, Waiting DEF Parsing
    <3> QED BY <1>8, <1>9, <3>1 DEF Sound
  <2> QED BY <1>1, <1>2, <1>5, <2>1, <2>2, LinkLine
<1>10. CASE ~rx_valid
  <2>1. rx_data'.q = b.q /\ (Deliver => rx_data' = b) /\ rx_valid' /\ rx_errors' = rx_errors
    <3>1. [b EXCEPT !.c = Junk].q = b.q
      BY <1>4 DEF IsByte
    <3>2. Deliver => rx_data' = b
      BY <1>4, <1>10 DEF Deliver, Receive
    <3> QED BY <1>8, <1>10, <3>1, <3>2
  <2>2. Deliver \/ (GarbleInput /\ b.c # "$" /\ rx_data'.c = Junk)
    BY <1>4, <1>8, <1>10 DEF IsByte
  <2>3. pos[1] = 1 => b.c = "$"
    BY <1>3, <1>7, PlaceChar
  <2>4. At(b, pos[1])'
    BY <1>6, <1>7, PlacesGrow DEF At
  <2>5. b.q \in 1 .. Len(asked) /\ pos[1] \in 0 .. Size(b.q) + 4
    BY <1>7 DEF At, AtIn, Size, Text
  <2>6. Held(pos[1])'
    <3>1. rx_data'.q \in 1 .. Len(asked') /\ pos[1] \in 0 .. Size(rx_data.q)' + 4
      BY <1>2, <2>1, <2>5 DEF Size, Text
    <3>2. CASE Deliver
      <4>1. AtIn(asked', b, pos[1])
        BY <2>4 DEF At
      <4>2. AtIn(asked', rx_data', pos[1])
        BY <2>1, <3>2, <4>1
      <4> QED BY <3>1, <4>2 DEF Held, At
    <3>3. CASE GarbleInput /\ b.c # "$" /\ rx_data'.c = Junk
      BY <1>5, <2>3, <3>1, <3>3 DEF Held
    <3> QED BY <2>2, <3>2, <3>3
  <2>7. ASSUME NEW more, LeadsIn(asked, Tail(to_board), more, b.q, pos[1])
        PROVE  Place(more, pos[1])'
    BY <1>2, <1>3, <2>1, <2>6, <2>7 DEF Place
  <2>8. ASSUME NEW more, Linked(pos, r) PROVE Linked(more, pos[1])'
    <3>1. PICK t, k : ParserAt(t, k) /\ LeadsIn(asked, to_board, pos, t, k)
      BY <1>10, <2>8 DEF Linked
    <3>2. garbled = 1 => garbled' = 1 /\ rx_data'.c # Junk
      BY <1>3, <1>5, <1>7, <2>1, SentIsNoJunk
    <3>3. ParserAt(t, k)'
      BY <1>2, <1>6, <3>1, <3>2, ParserAtStays
    <3>4. Follows(t, k, rx_data, pos[1])'
      BY <1>2, <1>3, <2>1, <3>1 DEF LeadsIn, Follows, FollowsIn
    <3> QED BY <2>1, <3>3, <3>4 DEF Linked
  <2>9. ASSUME NEW more, Gap(pos), Parsing, mode = "getc" PROVE Gap(more)'
    <3>1. ASSUME parser_state = "CHECKSUM_LOW" PROVE ~IsHex(rx_data'.c)
      <4>1. misframed = 1 /\ pos[1] \in {0, 1}
        BY <1>3, <1>10, <2>9, <3>1 DEF Gap
      <4>2. rx_data'.c \in {"+", "-", "$"}
        BY <1>3, <1>5, <1>7, <2>1, <4>1, PlaceChar
      <4> QED BY <4>2, MarkNoHex
    <3> QED BY <1>2, <2>1, <2>9, <3>1 DEF Gap
  <2>10. ASSUME NEW more PROVE Sound(more, pos[1])'
    <3>1. ~rx_errors => ~Gap(pos)
      BY DEF Gap
    <3> QED BY <1>1, <1>2, <2>1, <2>8, <2>9, <3>1 DEF Sound, Parsing, Gap
  <2> QED BY <1>1, <1>2, <1>5, <2>7, <2>10, LinkLine
<1> QED BY <1>9, <1>10

LEMMA LinkMisframes ==
  ASSUME LinkInv, TalkInv, ChecksumTells, OneFault, FaultInv', FramingError
  PROVE  LinkInv'
<1>1. PICK pos, r : ChainIn(asked, to_board, pos) /\ Place(pos, r) /\ Sound(pos, r)
  BY DEF LinkInv, ChainInv
<1>2. /\ Arrives /\ UNCHANGED <<asked, mode, out, parserVars, garbled, rx_valid, rx_data>>
      /\ UNCHANGED <<parser_state, payload, checksum, received_checksum>> /\ rx_errors'
  BY DEF FramingError, stubVars, dbgVars, parserVars
<1>3. IsSeq(to_board) /\ to_board # <<>> /\ to_board' = Tail(to_board)
      /\ asked \in Seq(Commands)
  BY <1>2 DEF Arrives, TalkInv, TagInv
<1>4. misframed' = 1 /\ misframed # 1
  BY LinkParams DEF LinkInv, FaultInv, OneFault, FramingError, faults
<1>5. Grows(asked, asked')
  BY <1>2, <1>3, GrowsAlone
<1>6. ASSUME NEW more PROVE Place(more, r)'
  BY <1>1, <1>2, <1>5, HeldStays DEF Place
<1>7. ASSUME NEW more, LeadsIn(asked, Tail(to_board), more, to_board[1].q, pos[1])
      PROVE  Sound(more, r)'
  <2>1. ASSUME Parsing, mode = "getc", parser_state = "CHECKSUM_LOW"
        PROVE  Tail(to_board) = <<>> \/ more[1] \in {0, 1}
    <3>1. ~rx_valid
      BY <1>2, <2>1, Waiting
    <3>2. Linked(pos, r)
      BY <1>1, <1>4, <2>1, <3>1 DEF Sound, Gap
    <3>3. PICK t, k : ParserAt(t, k) /\ LeadsIn(asked, to_board, pos, t, k)
      BY <3>1, <3>2 DEF Linked
    <3>4. k = Size(t) + 3 /\ t \in 1 .. Len(asked)
      BY <2>1, <3>3 DEF ParserAt, Astray
    <3>5. Size(t) \in Nat
      BY <1>3, <3>4, TextOf
    <3>6. to_board[1].q = t /\ pos[1] = Size(t) + 4
      BY <1>3, <3>3, <3>4, <3>5 DEF LeadsIn, FollowsIn, FinalIn, Size, Text
    <3> QED BY <1>7, <3>6 DEF LeadsIn, FollowsIn, FinalIn, Size, Text
  <2>2. Parsing /\ mode = "getc" => ~rx_valid
    BY <1>2, Waiting
  <2>3. Parsing' /\ mode' = "getc" => Gap(more)'
    BY <1>2, <1>3, <1>4, <2>1, <2>2 DEF Gap, Parsing
  <2> QED BY <1>2, <2>3 DEF Sound
<1> QED BY <1>1, <1>2, <1>6, <1>7, LinkLine

(* The stub.                                                               *)
LEMMA LinkResets ==
  ASSUME LinkInv, TalkInv, ParserStart("WAIT_START"), FaultInv',
         UNCHANGED <<asked, to_board, rx_valid, rx_data, garbled>>
  PROVE  LinkInv'
<1>1. PICK pos, r : ChainIn(asked, to_board, pos) /\ Place(pos, r)
  BY DEF LinkInv, ChainInv
<1>2. parser_state' = "WAIT_START" /\ payload' = <<>>
  BY DEF ParserStart
<1>3. asked \in Seq(Commands)
  BY DEF TalkInv, TagInv
<1>4. Place(pos, r)'
  BY <1>1, <1>2, <1>3, GrowsAlone, HeldStays DEF Place
<1>5. FreshInv' /\ OpenInv' /\ Sound(pos, r)'
  BY <1>2, SeqOfNone DEF FreshInv, OpenInv, Sound, Parsing
<1> QED BY <1>1, <1>4, <1>5 DEF LinkInv, ChainInv

LEMMA LinkLooks ==
  ASSUME LinkInv, TalkInv, FaultInv', ~rx_errors, mode = "loop", mode' = "getc", Free,
         UNCHANGED <<asked, to_board, rxVars, parserVars, out, garbled, misframed>>
  PROVE  LinkInv'
<1>1. PICK pos, r : ChainIn(asked, to_board, pos) /\ Place(pos, r) /\ Sound(pos, r)
  BY DEF LinkInv, ChainInv
<1>2. asked \in Seq(Commands) /\ Grows(asked, asked')
  BY GrowsAlone DEF TalkInv, TagInv
<1>3. UNCHANGED <<rx_valid, rx_data, rx_errors, parser_state, payload, checksum, received_checksum>>
  BY DEF rxVars, parserVars
<1>4. Place(pos, r)'
  BY <1>1, <1>2, <1>3, HeldStays DEF Place
<1>5. ASSUME Linked(pos, r) PROVE Linked(pos, r)'
  <2>1. PICK t, k : /\ ParserAt(t, k)
                    /\ IF rx_valid THEN Follows(t, k, rx_data, r)
                       ELSE LeadsIn(asked, to_board, pos, t, k)
    BY <1>5 DEF Linked
  <2>2. ParserAt(t, k)'
    BY <1>2, <1>3, <2>1, ParserAtStays
  <2> QED BY <1>3, <2>1, <2>2 DEF Linked, Follows
<1>6. Sound(pos, r)'
  BY <1>1, <1>3, <1>5 DEF Sound, Parsing, Gap
<1>7. FreshInv' /\ OpenInv'
  BY <1>3 DEF LinkInv, FreshInv, OpenInv, Parsing, Free
<1> QED BY <1>1, <1>4, <1>6, <1>7 DEF LinkInv, ChainInv

LEMMA ModeServed ==
  ASSUME NEW text, NEW n, DispatchPacket(text, n)
  PROVE  mode' \in {"loop", "run"}
<1>1. \A cmd : WriteRegisters(cmd, n) \/ ReadMemory(cmd, n) \/ WriteMemory(cmd, n)
               \/ ContinueTarget(cmd, n) \/ Query(cmd, n) => mode' \in {"loop", "run"}
  BY DEF WriteRegisters, ReadMemory, WriteMemory, ContinueTarget, Query, Resume, Answer
<1> QED BY <1>1, DispatchIs

LEMMA LinkHandleByte ==
  ASSUME LinkInv, TalkInv, ChecksumTells, FaultInv', HandleByte,
         UNCHANGED <<asked, to_board, garbled, misframed>>
  PROVE  LinkInv' /\ AsSent
<1>1. PICK pos, r : ChainIn(asked, to_board, pos) /\ Place(pos, r) /\ Sound(pos, r)
  BY DEF LinkInv, ChainInv
<1>2. PICK event \in Events :
        /\ Feed(rx_data.c, event)
        /\ IF event = "READY"
           THEN DispatchPacket(payload, rx_data.q)
           ELSE mode' = "loop" /\ React(event)
  BY DEF HandleByte
<1>3. /\ mode = "getc" /\ rx_valid /\ ~rx_valid' /\ UNCHANGED <<rx_data, rx_errors>>
      /\ mode' # "getc"
  BY <1>2, HandleByteIs, ModeServed
<1>4. asked \in Seq(Commands)
  BY DEF TalkInv, TagInv
<1>5. FreshInv' /\ OpenInv'
  BY <1>2, <1>3, FreshFeed DEF LinkInv, OpenInv
<1>6. Reads(r) \/ (Parsing /\ Gap(pos))
  BY <1>1, <1>3, <1>4 DEF Reads, Place, Sound, Linked, LinkInv
<1>7. Sound(pos, r)'
  <2> SUFFICES ASSUME Parsing', ~rx_errors PROVE Linked(pos, r)'
    BY <1>3 DEF Sound
  <2>1. Reads(r)
    BY <1>6 DEF Gap
  <2>2. PICK u : u = rx_data.q
    OBVIOUS
  <2>3. Takes(r, event)
    BY <1>2, <1>3 DEF Takes
  <2>4. ParserAt(u, r)'
    BY <2>1, <2>2, <2>3, FeedLinks
  <2>5. parser_state # "WAIT_START"
    BY <1>2
    DEF Feed, ParserStart, ParserStep, WaitStart, Payload, ChecksumHigh, ChecksumLow, Discard,
        Goto, Parsing
  <2>6. LeadsIn(asked, to_board, pos, u, r)
    BY <1>1, <1>3, <2>2, <2>5 DEF Place
  <2> QED BY <1>3, <2>4, <2>6 DEF Linked
<1>8. Place(pos, r)'
  BY <1>3 DEF Place
<1>9. AsSent
  <2> SUFFICES ASSUME Dispatched PROVE payload = Text(rx_data.q)
    BY DEF AsSent, Text
  <2>1. event = "READY"
    <3>1. event # "READY" => ~Dispatched
      BY <1>2, ReactSaid DEF TalkInv, SaidInv, Dispatched
    <3> QED BY <3>1
  <2>2. /\ parser_state = "CHECKSUM_LOW" /\ IsHex(rx_data.c)
        /\ received_checksum + Nibble(rx_data.c) = checksum
    BY <1>2, <2>1
    DEF Feed, ParserStep, WaitStart, Payload, ChecksumHigh, ChecksumLow, Discard, Goto
  <2>3. ~Gap(pos)
    BY <1>3, <2>2 DEF Gap
  <2> QED BY <1>6, <2>2, <2>3, WholePacket
<1> QED BY <1>1, <1>5, <1>7, <1>8, <1>9 DEF LinkInv, ChainInv

(* The rest.                                                               *)
LEMMA FaultStep == FaultInv /\ [Next]_vars => FaultInv'
<1> SUFFICES ASSUME FaultInv, [Next]_vars PROVE FaultInv'
  OBVIOUS
<1>1. CASE UNCHANGED faultVars
  BY <1>1 DEF FaultInv, faultVars, faults
<1>2. CASE GarbleInput \/ FramingError \/ LoseOutput
  BY <1>2, LinkParams DEF FaultInv, GarbleInput, FramingError, LoseOutput, faults
<1>3. CASE ~(GarbleInput \/ FramingError \/ LoseOutput)
  <2>1. UNCHANGED faultVars
    BY <1>3 DEF Next, StubStep, PutByte, Deliver, Ask, Read, Timeout, lineVars, vars
  <2> QED BY <1>1, <2>1
<1> QED BY <1>2, <1>3

LEMMA AgainSends ==
  ASSUME NEW text, Again(text)
  PROVE  to_board' = to_board \/ to_board' = to_board \o Tagged(text, Len(asked))
BY DEF Again, Send

LEMMA DebuggerAppends ==
  ASSUME TalkInv, TalkInv', Read \/ Timeout \/ \E cmd \in Commands : Ask(cmd)
  PROVE  Appends
<1>1. /\ asked \in Seq(Commands) /\ asked' \in Seq(Commands)
      /\ (dbg # "idle" => asked # <<>>)
  BY DEF TalkInv, TagInv
<1>2. UNCHANGED <<parserVars, rxVars, mode, out, faultVars>>
  BY DEF Read, Timeout, Ask, stubVars
<1>3. ASSUME NEW cmd \in Commands, Ask(cmd) PROVE Appends
  <2>1. asked' = Append(asked, cmd) /\ to_board' = to_board \o Tagged(Frame(cmd.text), Len(asked'))
    BY <1>3 DEF Ask, Send
  <2>2. Grows(asked, asked') /\ asked' # <<>> /\ asked'[Len(asked')] = cmd
    BY <1>1, <2>1 DEF Grows
  <2> QED BY <1>1, <1>2, <2>1, <2>2 DEF Appends
<1>4. CASE asked' = asked /\ dbg # "idle"
  <2>1. Grows(asked, asked') /\ asked' # <<>>
    BY <1>1, <1>4, GrowsAlone
  <2>2. ASSUME Again(Frame(request.text)) \/ Again(<<"-">>) \/ Send(<<"+">>, Len(asked))
               \/ to_board' = to_board
        PROVE  Appends
    <3>1. \/ to_board' = to_board
          \/ to_board' = to_board \o Tagged(Frame(request.text), Len(asked))
          \/ to_board' = to_board \o Tagged(<<"-">>, Len(asked))
          \/ to_board' = to_board \o Tagged(<<"+">>, Len(asked))
      BY <2>2, AgainSends DEF Send
    <3> QED BY <1>1, <1>2, <1>4, <2>1, <3>1 DEF Appends, request
  <2>3. CASE Read
    <3>1. \/ \E b : ReadMark(b)
          \/ \E bytes : ReadPacket(bytes)
          \/ to_board' = to_board
      BY <2>3 DEF Read
    <3> QED BY <2>2, <3>1 DEF ReadMark, ReadPacket
  <2>4. CASE Timeout
    BY <2>2, <2>4 DEF Timeout
  <2>5. ASSUME NEW cmd \in Commands, Ask(cmd) PROVE Appends
    BY <1>3, <2>5
  <2> QED BY <2>3, <2>4, <2>5
<1>5. Read \/ Timeout => asked' = asked /\ dbg # "idle"
  BY DEF Read, Timeout
<1> QED BY <1>3, <1>4, <1>5

LEMMA LinkQuiet ==
  ASSUME LinkInv, TalkInv, FaultInv', Free => Free',
         UNCHANGED <<asked, to_board, rxVars, parserVars, mode, garbled, misframed>>
  PROVE  LinkInv'
<1>1. PICK pos, r : ChainIn(asked, to_board, pos) /\ Place(pos, r) /\ Sound(pos, r)
  BY DEF LinkInv, ChainInv
<1>2. Grows(asked, asked')
  BY GrowsAlone DEF TalkInv, TagInv
<1>3. UNCHANGED <<rx_valid, rx_data, rx_errors, parser_state, payload, checksum, received_checksum>>
  BY DEF rxVars, parserVars
<1>4. Place(pos, r)'
  BY <1>1, <1>2, <1>3, HeldStays DEF Place
<1>5. ASSUME Linked(pos, r) PROVE Linked(pos, r)'
  <2>1. PICK t, k : /\ ParserAt(t, k)
                    /\ IF rx_valid THEN Follows(t, k, rx_data, r)
                       ELSE LeadsIn(asked, to_board, pos, t, k)
    BY <1>5 DEF Linked
  <2>2. ParserAt(t, k)'
    BY <1>2, <1>3, <2>1, ParserAtStays
  <2> QED BY <1>3, <2>1, <2>2 DEF Linked, Follows
<1>6. Sound(pos, r)'
  BY <1>1, <1>3, <1>5 DEF Sound, Parsing, Gap
<1>7. FreshInv' /\ OpenInv'
  BY <1>3 DEF LinkInv, FreshInv, OpenInv, Parsing
<1> QED BY <1>1, <1>4, <1>6, <1>7 DEF LinkInv, ChainInv

LEMMA LinkStub ==
  ASSUME LinkInv, TalkInv, FaultInv', ChecksumTells, StubStep
  PROVE  LinkInv' /\ AsSent
<1>1. UNCHANGED <<asked, to_board, garbled, misframed>>
  BY DEF StubStep, lineVars, dbgVars, faultVars
<1>2. CASE HandleByte
  BY <1>1, <1>2, LinkHandleByte
<1>3. CASE Stop
  <2>1. ParserStart("WAIT_START") /\ UNCHANGED <<rx_valid, rx_data>>
    BY <1>3 DEF Stop, rxVars
  <2> QED BY <1>1, <2>1, LinkResets DEF AsSent, Dispatched
<1>4. CASE CheckErrors
  <2>1. mode = "loop" /\ mode' = "getc" /\ Free /\ UNCHANGED <<rx_valid, rx_data>>
    BY <1>4 DEF CheckErrors
  <2>2. CASE rx_errors
    <3>1. ParserStart("WAIT_START")
      BY <1>4, <2>2 DEF CheckErrors
    <3> QED BY <1>1, <2>1, <3>1, LinkResets DEF AsSent, Dispatched
  <2>3. CASE ~rx_errors
    <3>1. UNCHANGED <<parserVars, out, rxVars>>
      BY <1>4, <2>1, <2>3 DEF CheckErrors, rxVars
    <3> QED BY <1>1, <2>1, <2>3, <3>1, LinkLooks DEF AsSent, Dispatched
  <2> QED BY <2>2, <2>3
<1> QED BY <1>2, <1>3, <1>4 DEF StubStep

LEMMA LinkStep ==
  LinkInv /\ TalkInv /\ TalkInv' /\ ChecksumTells /\ OneFault /\ [Next]_vars /\ SparesStarts
    => LinkInv' /\ AsSent
<1> SUFFICES ASSUME LinkInv, TalkInv, TalkInv', ChecksumTells, OneFault, [Next]_vars, SparesStarts
             PROVE  LinkInv' /\ AsSent
  OBVIOUS
<1>1. FaultInv'
  BY FaultStep DEF LinkInv
<1>2. CASE StubStep
  BY <1>1, <1>2, LinkStub
<1>3. CASE PutByte
  <2>1. UNCHANGED <<asked, to_board, rxVars, parserVars, mode, garbled, misframed>>
    BY <1>3 DEF PutByte, dbgVars, faultVars
  <2>2. Free => Free'
    <3>1. IsSeq(out) /\ out # <<>> /\ out' = Tail(out)
      BY <1>3 DEF PutByte, TalkInv, SaidInv
    <3>2. Len(out') = Len(out) - 1 /\ Len(out) \in Nat
      BY <3>1, SeqTail
    <3> QED BY <3>2 DEF Free
  <2>3. AsSent
    BY <2>1 DEF AsSent, Dispatched, rxVars
  <2> QED BY <1>1, <2>1, <2>2, <2>3, LinkQuiet
<1>4. CASE Deliver \/ GarbleInput
  <2>1. LinkInv'
    BY <1>1, <1>4, LinkReceives DEF SparesStarts
  <2>2. AsSent
    BY <1>4 DEF Deliver, GarbleInput, Receive, AsSent, Dispatched
  <2> QED BY <2>1, <2>2
<1>5. CASE FramingError
  <2>1. AsSent
    BY <1>5 DEF FramingError, AsSent, Dispatched
  <2> QED BY <1>1, <1>5, <2>1, LinkMisframes
<1>6. CASE LoseOutput \/ UNCHANGED vars
  <2>1. UNCHANGED <<asked, to_board, rxVars, parserVars, mode, garbled, misframed, out>>
    BY <1>6 DEF LoseOutput, vars, stubVars, dbgVars, lineVars, faultVars
  <2>2. AsSent
    BY <2>1 DEF AsSent, Dispatched, rxVars
  <2> QED BY <1>1, <2>1, <2>2, LinkQuiet DEF Free
<1>7. CASE Read \/ Timeout \/ \E cmd \in Commands : Ask(cmd)
  <2>1. Appends
    BY <1>7, DebuggerAppends
  <2>2. AsSent
    BY <2>1 DEF Appends, rxVars, AsSent, Dispatched
  <2> QED BY <2>1, <2>2, LinkAppends
<1> QED BY <1>2, <1>3, <1>4, <1>5, <1>6, <1>7 DEF Next

LEMMA LinkInit == Init => LinkInv
<1> SUFFICES ASSUME Init PROVE LinkInv
  OBVIOUS
<1>1. /\ parser_state = "WAIT_START" /\ payload = <<>> /\ mode = "run" /\ ~rx_valid
      /\ to_board = <<>> /\ garbled = 0 /\ misframed = 0 /\ lost = 0
  BY DEF Init, StubInit, ParserInit
<1>2. FreshInv /\ OpenInv
  BY <1>1, SeqOfNone DEF FreshInv, OpenInv
<1>3. FaultInv
  BY <1>1, LinkParams DEF FaultInv, faults
<1>4. ASSUME NEW pos, NEW r PROVE Place(pos, r) /\ Sound(pos, r)
  BY <1>1 DEF Place, Sound
<1>5. ASSUME NEW pos PROVE ChainIn(asked, to_board, pos)
  <2>1. Len(to_board) = 0
    BY <1>1
  <2> QED BY <2>1 DEF ChainIn
<1> QED BY <1>2, <1>3, <1>4, <1>5 DEF LinkInv, ChainInv

(* gdb_stub.c:319 and gdb_packet.c:74: over a line with at most one fault  *)
(* that is not in a $, however many bytes the receiver loses besides, a    *)
(* stub whose checksum tells its requests apart serves them as they were   *)
(* sent.                                                                   *)
THEOREM ServesOnlyIntact ==
  OneFault /\ ChecksumTells => (Spec /\ [][SparesStarts]_vars => OnlyIntact)
<1> SUFFICES ASSUME OneFault, ChecksumTells PROVE Spec /\ [][SparesStarts]_vars => OnlyIntact
  OBVIOUS
<1>1. LinkInv /\ UNCHANGED vars => SparesStarts
  BY DEF LinkInv, FaultInv, vars, lineVars, faultVars, GarbleInput, SparesStarts
<1>2. Init => LinkInv
  BY LinkInit
<1>3. LinkInv /\ TalkInv /\ TalkInv' /\ [Next]_vars /\ [SparesStarts]_vars
      => LinkInv' /\ [AsSent]_vars
  BY <1>1, LinkStep
<1>4. OnlyIntact <=> [][AsSent]_vars
  BY DEF OnlyIntact, AsSent
<1> QED BY <1>2, <1>3, <1>4, TalkInvariance, PTL DEF Spec

(* So such a session resumes the program where it was told to.             *)
THEOREM ResumesOverABadLine ==
  OneFault /\ ChecksumTells => (Spec /\ [][SparesStarts]_vars => ResumesAsAsked)
<1> SUFFICES ASSUME OneFault, ChecksumTells
             PROVE  Spec /\ [][SparesStarts]_vars => ResumesAsAsked
  OBVIOUS
<1>1. Spec /\ [][SparesStarts]_vars => OnlyIntact
  BY ServesOnlyIntact
<1> QED BY <1>1, GoesWhereTold, PTL
=============================================================================
