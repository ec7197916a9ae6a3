-------------------------- MODULE GdbReplies_proofs --------------------------
(***************************************************************************)
(* The debugger takes no reply of one request for that of another, the     *)
(* program runs once for each continue, and no single fault ends the       *)
(* session, whatever number of bytes the line garbles or loses.  All       *)
(* follow from whose turn it is to speak.                                  *)
(***************************************************************************)
EXTENDS GdbLink_proofs, FiniteSetTheorems, SequenceTheorems

(***************************************************************************)
(* Whose turn it is.  I are the bytes on their way to the stub, the one in *)
(* its receiver first; S those on their way to the debugger, the           *)
(* transmitter's last; D what the debugger has of a packet, k the number   *)
(* of its request, m that of the stub; s, md and d the states of parser,   *)
(* stub and debugger.  A request and a nak hand over the turn: at most one *)
(* of them is under way, and the rest of the line is silent or spent.      *)
(***************************************************************************)
Active == {"PAYLOAD", "CHECKSUM_HIGH", "CHECKSUM_LOW"}
IsTurn(b) == b.c \in {"$", "-"}
Has(I, c) == \E i \in 1 .. Len(I) : I[i].c = c

LineShape(I, k) ==
  /\ \A i, j \in 1 .. Len(I) : i < j => ~(IsTurn(I[i]) /\ IsTurn(I[j]))
  /\ \A i, j \in 1 .. Len(I) : i <= j /\ I[i].c = "$" => I[j].q = k
  /\ \A i \in 1 .. Len(I) : I[i].c = "-" => i = Len(I)
  /\ \A i \in 1 .. Len(I) :
       I[i].c = "#" => Len(I) - i = 2 \/ \E j \in i + 1 .. Len(I) : I[j].c = "$"

ReadShape(I, s, k) ==
  /\ s \in Active => \A i \in 1 .. Len(I) :
                       I[i].q = k /\ (IsTurn(I[i]) => i = 1 /\ s = "PAYLOAD")
  /\ s = "CHECKSUM_HIGH" => Len(I) = 2
  /\ s = "CHECKSUM_LOW" => Len(I) = 1

SentShape(S, D, k, m) ==
  /\ \A i \in 1 .. Len(S) : S[i].c = "#" => Len(S) - i <= 2
  /\ \A i \in 1 .. Len(D) : D[i].c = "#" => Len(D) - i + Len(S) <= 2
  /\ \A i \in 1 .. Len(S) : S[i].c = "-" => Len(S) = 1 /\ Len(D) = 0
  /\ \A i \in 1 .. Len(S) : S[i].c = "+" => i = 1 /\ Len(D) = 0
  /\ \A i \in 1 .. Len(S) : S[i].c # "-" => S[i].q = k /\ m = k
  /\ \A i \in 1 .. Len(D) : D[i].q = k

Coming(I, s) == Has(I, "$") \/ (s \in Active /\ Len(I) # 0)
Speaking(S, D, md) == Len(S) # 0 \/ Len(D) # 0 \/ md = "run"

Turns(I, S, D, k, m, s, md, d) ==
  /\ Coming(I, s) => d = "ack" /\ ~Speaking(S, D, md)
  /\ Has(I, "-") => d = "reply" /\ ~Speaking(S, D, md)
  /\ Speaking(S, D, md) \/ d \in {"idle", "reply"} => s \notin Active
  /\ Len(S) # 0 /\ Len(I) # 0 => S[1].c = "-"
  /\ Has(S, "-") => d = "ack" /\ md # "run"
  /\ md = "run" => /\ Len(I) = 0 /\ Len(D) = 0 /\ \A i \in 1 .. Len(S) : S[i].c = "+"
                   /\ k # 0 => m = k /\ d \in {"ack", "reply"}
  /\ d = "reply" => m = k
  /\ d = "idle" => Len(S) = 0 /\ Len(D) = 0 /\ ~Has(I, "#")
  /\ d = "gone" => Len(S) = 0 /\ md # "run"
  /\ k = 0 => d = "idle" /\ Len(I) = 0

Dialogue(I, S, D, k, m, s, md, d) ==
  /\ LineShape(I, k) /\ ReadShape(I, s, k) /\ SentShape(S, D, k, m)
  /\ Turns(I, S, D, k, m, s, md, d)

(***************************************************************************)
(* What a step does to a line: it takes the first byte off or appends, and *)
(* what it appends is a mark or a packet.                                  *)
(***************************************************************************)
Drops(I, J) == /\ Len(I) \in Nat \ {0} /\ Len(J) = Len(I) - 1
               /\ \A i \in 1 .. Len(J) : J[i] = I[i + 1]
Joins(I, T, J) ==
  /\ Len(I) \in Nat /\ Len(T) \in Nat /\ Len(J) = Len(I) + Len(T)
  /\ \A i \in 1 .. Len(J) : J[i] = IF i <= Len(I) THEN I[i] ELSE T[i - Len(I)]
Mark(T, c, k) == Len(T) = 1 /\ T[1].c = c /\ T[1].q = k
Packet(T, k) ==
  /\ Len(T) \in Nat /\ Len(T) >= 4 /\ T[1].c = "$"
  /\ \A i \in 1 .. Len(T) : /\ T[i].q = k
                            /\ i # 1 => T[i].c \notin {"$", "+", "-"}
                            /\ T[i].c = "#" => i = Len(T) - 2
Asking(T, k) ==
  /\ Len(T) \in Nat /\ Len(T) >= 4 /\ T[1].c = "$"
  /\ \A i \in 1 .. Len(T) : /\ T[i].q = k
                            /\ i # 1 => T[i].c \notin {"$", "-"}
                            /\ T[i].c = "#" => i = Len(T) - 2

(* The stub goes on without a word.                                        *)
LEMMA TurnGoesOn ==
  ASSUME NEW I, NEW S, NEW D, NEW k, NEW m, NEW s, NEW md, NEW d, NEW md2,
         Dialogue(I, S, D, k, m, s, md, d), md # "run", md2 # "run"
  PROVE  Dialogue(I, S, D, k, m, s, md2, d)
BY DEF Dialogue, Turns, Speaking

(* The program stops, and its stub may say so.                             *)
LEMMA TurnStops ==
  ASSUME NEW I, NEW S, NEW D, NEW k \in Nat, NEW m, NEW s, NEW d, NEW s2, NEW md2, NEW S2,
         Len(I) \in Nat, Len(S) \in Nat, Len(D) \in Nat,
         Dialogue(I, S, D, k, m, s, "run", d), md2 # "run", s2 \notin Active,
         \/ S2 = S
         \/ k # 0 /\ \E T : Packet(T, m) /\ Joins(S, T, S2)
  PROVE  Dialogue(I, S2, D, k, m, s2, md2, d)
<1>1. /\ Len(I) = 0 /\ Len(D) = 0 /\ Len(S) <= 1 /\ \A i \in 1 .. Len(S) : S[i].c = "+"
      /\ k # 0 => m = k /\ d \in {"ack", "reply"}
  BY DEF Dialogue, Turns, SentShape
<1>2. CASE S2 = S
  <2>1. LineShape(I, k) /\ ReadShape(I, s2, k) /\ SentShape(S2, D, k, m)
    BY <1>1, <1>2 DEF Dialogue, LineShape, ReadShape, Active
  <2>2. Turns(I, S2, D, k, m, s2, md2, d)
    BY <1>1, <1>2, <2>1 DEF Dialogue, Turns, Speaking, Coming, Has
  <2> QED BY <2>1, <2>2 DEF Dialogue
<1>3. ASSUME k # 0, NEW T, Packet(T, m), Joins(S, T, S2)
      PROVE  Dialogue(I, S2, D, k, m, s2, md2, d)
  <2>1. LineShape(I, k) /\ ReadShape(I, s2, k)
    BY <1>1 DEF LineShape, ReadShape, Active
  <2>2. ASSUME NEW i \in 1 .. Len(S2)
        PROVE  /\ S2[i].c = "#" => Len(S2) - i <= 2
               /\ S2[i].c = "+" => i = 1
               /\ S2[i].c # "-" /\ S2[i].q = k
    <3>1. CASE i <= Len(S)
      BY <1>1, <1>3, <3>1 DEF Joins, Dialogue, SentShape
    <3>2. CASE ~(i <= Len(S))
      <4>1. i - Len(S) \in 1 .. Len(T) /\ S2[i] = T[i - Len(S)]
        BY <1>3, <3>2 DEF Joins
      <4>2. PICK j : j = i - Len(S)
        OBVIOUS
      <4>3. /\ T[j].q = k /\ T[j].c # "-" /\ T[j].c # "+"
            /\ T[j].c = "#" => j = Len(T) - 2
        BY <1>1, <1>3, <4>1, <4>2 DEF Packet
      <4> QED BY <1>3, <4>1, <4>2, <4>3 DEF Joins
    <3> QED BY <3>1, <3>2
  <2>3. SentShape(S2, D, k, m)
    BY <1>1, <1>3, <2>2 DEF SentShape
  <2>4. Turns(I, S2, D, k, m, s2, md2, d)
    BY <1>1, <1>3, <2>2 DEF Dialogue, Turns, Speaking, Coming, Has
  <2> QED BY <2>1, <2>3, <2>4 DEF Dialogue
<1> QED BY <1>2, <1>3

(* The stub reads a byte outside of a packet, or drops out of one, and has *)
(* nothing to say.                                                         *)
LEMMA LineDrops ==
  ASSUME NEW I, NEW J, NEW k, LineShape(I, k), Drops(I, J)
  PROVE  LineShape(J, k)
<1> USE DEF Drops
<1>1. \A i \in 1 .. Len(J) : i + 1 \in 1 .. Len(I) /\ J[i] = I[i + 1]
  OBVIOUS
<1>2. ASSUME NEW i \in 1 .. Len(J), NEW j \in 1 .. Len(J)
      PROVE  /\ i < j => ~(IsTurn(J[i]) /\ IsTurn(J[j]))
             /\ i <= j /\ J[i].c = "$" => J[j].q = k
  <2>1. i < j => i + 1 < j + 1
    OBVIOUS
  <2>2. i <= j => i + 1 <= j + 1
    OBVIOUS
  <2> QED BY <1>1, <2>1, <2>2 DEF LineShape
<1>3. ASSUME NEW i \in 1 .. Len(J)
      PROVE  /\ J[i].c = "-" => i = Len(J)
             /\ J[i].c = "#" => Len(J) - i = 2 \/ \E j \in i + 1 .. Len(J) : J[j].c = "$"
  <2>1. J[i].c = "-" => i = Len(J)
    BY <1>1 DEF LineShape
  <2>2. ASSUME J[i].c = "#", NEW g \in i + 2 .. Len(I), I[g].c = "$"
        PROVE  \E j \in i + 1 .. Len(J) : J[j].c = "$"
    <3>1. g - 1 \in i + 1 .. Len(J) /\ g - 1 \in 1 .. Len(J) /\ (g - 1) + 1 = g
      OBVIOUS
    <3>2. PICK j : j = g - 1
      OBVIOUS
    <3>3. J[j].c = "$"
      BY <1>1, <2>2, <3>1, <3>2
    <3> QED BY <3>1, <3>2, <3>3
  <2>3. J[i].c = "#" => Len(J) - i = 2 \/ \E g \in i + 2 .. Len(I) : I[g].c = "$"
    <3>1. i + 1 \in 1 .. Len(I) /\ J[i] = I[i + 1] /\ (i + 1) + 1 = i + 2
          /\ Len(I) - (i + 1) = Len(J) - i
      BY <1>1
    <3> QED BY <3>1 DEF LineShape
  <2> QED BY <2>1, <2>2, <2>3
<1> QED BY <1>2, <1>3 DEF LineShape

LEMMA HasDrops ==
  ASSUME NEW I, NEW J, Drops(I, J), NEW c, Has(J, c)
  PROVE  Has(I, c)
<1>1. PICK i \in 1 .. Len(J) : J[i].c = c
  BY DEF Has
<1>2. i + 1 \in 1 .. Len(I) /\ J[i] = I[i + 1]
  BY DEF Drops
<1> QED BY <1>1, <1>2 DEF Has

LEMMA TurnSkips ==
  ASSUME NEW I, NEW S, NEW D, NEW k, NEW m, NEW s, NEW md, NEW d, NEW J, NEW s2, NEW md2,
         Dialogue(I, S, D, k, m, s, md, d), Drops(I, J), md # "run", md2 # "run", s2 \notin Active
  PROVE  Dialogue(J, S, D, k, m, s2, md2, d)
<1>1. LineShape(J, k)
  BY LineDrops DEF Dialogue
<1>2. ReadShape(J, s2, k) /\ SentShape(S, D, k, m)
  BY DEF Dialogue, ReadShape, Active
<1>3. Turns(J, S, D, k, m, s2, md2, d)
  <2>1. Has(J, "$") => Has(I, "$")
    BY HasDrops
  <2>2. Has(J, "-") => Has(I, "-")
    BY HasDrops
  <2>3. Has(J, "#") => Has(I, "#")
    BY HasDrops
  <2>4. Len(I) # 0 /\ (k = 0 => Len(I) = 0)
    BY DEF Drops, Dialogue, Turns
  <2> QED BY <2>1, <2>2, <2>3, <2>4 DEF Dialogue, Turns, Speaking, Coming
<1> QED BY <1>1, <1>2, <1>3 DEF Dialogue

(* A packet begins.                                                        *)
LEMMA TurnBegins ==
  ASSUME NEW I, NEW S, NEW D, NEW k, NEW m, NEW s, NEW md, NEW d, NEW J, NEW md2,
         Dialogue(I, S, D, k, m, s, md, d), Drops(I, J), I[1].c = "$", md # "run", md2 # "run"
  PROVE  Dialogue(J, S, D, k, m, "PAYLOAD", md2, d)
<1>0. 1 \in 1 .. Len(I)
  BY DEF Drops
<1>1. LineShape(J, k)
  BY LineDrops DEF Dialogue
<1>2. ReadShape(J, "PAYLOAD", k)
  <2> SUFFICES ASSUME NEW i \in 1 .. Len(J) PROVE J[i].q = k /\ ~IsTurn(J[i])
    BY DEF ReadShape
  <2>1. i + 1 \in 1 .. Len(I) /\ J[i] = I[i + 1] /\ 1 < i + 1 /\ 1 <= i + 1
    BY DEF Drops
  <2> QED BY <1>0, <2>1 DEF Dialogue, LineShape, IsTurn
<1>3. Has(I, "$")
  BY <1>0 DEF Has
<1>4. d = "ack" /\ ~Speaking(S, D, md)
  BY <1>3 DEF Dialogue, Turns, Coming
<1>5. ~Has(J, "-")
  BY HasDrops, <1>4 DEF Dialogue, Turns
<1>6. k # 0 /\ ~Speaking(S, D, md2) /\ ~Has(S, "-")
  BY <1>4 DEF Speaking, Dialogue, Turns, Has, Drops
<1>7. Turns(J, S, D, k, m, "PAYLOAD", md2, d)
  BY <1>4, <1>5, <1>6 DEF Turns, Speaking
<1> QED BY <1>1, <1>2, <1>7 DEF Dialogue

(* A packet goes on: of it, nothing stands between # and the digits.       *)
LEMMA TurnCollects ==
  ASSUME NEW I, NEW S, NEW D, NEW k, NEW m, NEW s, NEW md, NEW d, NEW J, NEW s2, NEW md2,
         Dialogue(I, S, D, k, m, s, md, d), Drops(I, J), I[1].c # "$", md # "run", md2 # "run",
         \/ s = "PAYLOAD" /\ s2 = "PAYLOAD"
         \/ s = "PAYLOAD" /\ s2 = "CHECKSUM_HIGH" /\ I[1].c = "#"
         \/ s = "CHECKSUM_HIGH" /\ s2 = "CHECKSUM_LOW"
  PROVE  Dialogue(J, S, D, k, m, s2, md2, d) /\ ~Has(I, "$") /\ d = "ack"
<1>0. 1 \in 1 .. Len(I) /\ Len(I) # 0 /\ s \in Active /\ s2 \in Active
  BY DEF Drops, Active
<1>1. LineShape(J, k)
  BY LineDrops DEF Dialogue
<1>2. d = "ack" /\ ~Speaking(S, D, md)
  BY <1>0 DEF Dialogue, Turns, Coming
<1>3. \A i \in 1 .. Len(I) : I[i].q = k /\ ~IsTurn(I[i])
  <2> SUFFICES ASSUME NEW i \in 1 .. Len(I) PROVE I[i].q = k /\ ~IsTurn(I[i])
    OBVIOUS
  <2>1. I[1].c # "-"
    BY <1>0, <1>2 DEF Dialogue, Turns, Has
  <2>2. ~IsTurn(I[1])
    BY <2>1 DEF IsTurn
  <2> QED BY <1>0, <2>2 DEF Dialogue, ReadShape
<1>4. ~Has(I, "$") /\ ~Has(I, "-")
  BY <1>3 DEF Has, IsTurn
<1>5. ReadShape(J, s2, k)
  <2>1. ASSUME NEW i \in 1 .. Len(J) PROVE J[i].q = k /\ ~IsTurn(J[i])
    <3>1. i + 1 \in 1 .. Len(I) /\ J[i] = I[i + 1]
      BY DEF Drops
    <3> QED BY <1>3, <3>1
  <2>2. s2 = "CHECKSUM_HIGH" => Len(J) = 2
    <3> SUFFICES ASSUME s2 = "CHECKSUM_HIGH" PROVE Len(J) = 2
      OBVIOUS
    <3>1. Len(I) - 1 = 2 \/ \E j \in 1 + 1 .. Len(I) : I[j].c = "$"
      BY <1>0 DEF Dialogue, LineShape
    <3>2. \A j \in 1 + 1 .. Len(I) : j \in 1 .. Len(I)
      OBVIOUS
    <3> QED BY <1>4, <3>1, <3>2 DEF Drops, Has
  <2>3. s2 = "CHECKSUM_LOW" => Len(J) = 1
    BY DEF Dialogue, ReadShape, Drops
  <2> QED BY <2>1, <2>2, <2>3 DEF ReadShape
<1>6. ~Has(J, "$") /\ ~Has(J, "-")
  BY <1>4, HasDrops
<1>7. Turns(J, S, D, k, m, s2, md2, d)
  BY <1>0, <1>2, <1>6 DEF Turns, Speaking, Dialogue, Has
<1> QED BY <1>1, <1>2, <1>4, <1>5, <1>7 DEF Dialogue

(* A packet is spoilt: the stub naks it.                                   *)
LEMMA TurnNaks ==
  ASSUME NEW I, NEW S, NEW D, NEW k, NEW m, NEW s, NEW md, NEW d, NEW J, NEW s2, NEW md2,
         NEW S2, NEW T, NEW g,
         Dialogue(I, S, D, k, m, s, md, d), Drops(I, J), I[1].c # "$", md # "run", md2 # "run",
         s \in Active, s2 \notin Active, Joins(S, T, S2), Mark(T, "-", g)
  PROVE  Dialogue(J, S2, D, k, m, s2, md2, d) /\ ~Has(I, "$") /\ d = "ack"
<1>0. 1 \in 1 .. Len(I) /\ Len(I) # 0
  BY DEF Drops
<1>1. LineShape(J, k)
  BY LineDrops DEF Dialogue
<1>2. d = "ack" /\ ~Speaking(S, D, md)
  BY <1>0 DEF Dialogue, Turns, Coming
<1>3. I[1].c # "-"
  BY <1>0, <1>2 DEF Dialogue, Turns, Has
<1>4. ~Has(I, "$") /\ ~Has(I, "-")
  BY <1>0, <1>3 DEF Dialogue, ReadShape, Has, IsTurn
<1>5. ~Has(J, "$") /\ ~Has(J, "-")
  BY <1>4, HasDrops
<1>6. Len(S2) = 1 /\ S2[1].c = "-" /\ Len(D) = 0
  <2>1. Len(S) = 0 /\ Len(D) = 0
    BY <1>2 DEF Speaking
  <2>2. Len(S2) = 1 /\ 1 - Len(S) = 1 /\ ~(1 <= Len(S)) /\ 1 \in 1 .. Len(S2)
    BY <2>1 DEF Joins, Mark
  <2>3. S2[1] = T[1 - Len(S)]
    BY <2>2 DEF Joins
  <2> QED BY <2>1, <2>2, <2>3 DEF Mark
<1>7. ReadShape(J, s2, k) /\ SentShape(S2, D, k, m)
  BY <1>6 DEF ReadShape, SentShape, Active
<1>8. k # 0
  BY <1>2 DEF Dialogue, Turns
<1>9. Turns(J, S2, D, k, m, s2, md2, d)
  BY <1>2, <1>5, <1>6, <1>8 DEF Turns, Speaking, Coming
<1> QED BY <1>1, <1>2, <1>4, <1>7, <1>9 DEF Dialogue

(* The stub is asked for its last reply again.                             *)
LEMMA PacketSaid ==
  ASSUME NEW S, NEW T, NEW S2, NEW D, NEW k, NEW m, Len(D) = 0, Packet(T, k), m = k, Joins(S, T, S2),
         \/ Len(S) = 0
         \/ Len(S) = 1 /\ S[1].c = "+" /\ S[1].q = k
  PROVE  /\ SentShape(S2, D, k, m) /\ Len(S2) # 0
         /\ \A i \in 1 .. Len(S2) : S2[i].c # "-"
<1>1. ASSUME NEW i \in 1 .. Len(S2)
      PROVE  /\ S2[i].c = "#" => Len(S2) - i <= 2
             /\ S2[i].c = "+" => i = 1
             /\ S2[i].c # "-" /\ S2[i].q = k
  <2>1. CASE i <= Len(S)
    BY <2>1 DEF Joins
  <2>2. CASE ~(i <= Len(S))
    <3>1. i - Len(S) \in 1 .. Len(T) /\ S2[i] = T[i - Len(S)]
      BY <2>2 DEF Joins
    <3>2. PICK j : j = i - Len(S)
      OBVIOUS
    <3>3. /\ T[j].q = k /\ T[j].c # "-" /\ T[j].c # "+"
          /\ T[j].c = "#" => j = Len(T) - 2
      BY <3>1, <3>2 DEF Packet
    <3> QED BY <3>1, <3>2, <3>3 DEF Joins
  <2> QED BY <2>1, <2>2
<1> QED BY <1>1 DEF SentShape, Packet, Joins

LEMMA TurnRepeats ==
  ASSUME NEW I, NEW S, NEW D, NEW k, NEW m, NEW s, NEW md, NEW d, NEW J, NEW s2, NEW md2,
         NEW S2, NEW T,
         Dialogue(I, S, D, k, m, s, md, d), Drops(I, J), I[1].c = "-", md # "run", md2 # "run",
         s2 \notin Active, Len(D) \in Nat, Joins(S, T, S2), Packet(T, m)
  PROVE  Dialogue(J, S2, D, k, m, s2, md2, d)
<1>1. Has(I, "-") /\ Len(J) = 0 /\ k # 0
  BY DEF Dialogue, LineShape, Turns, Drops, Has
<1>2. d = "reply" /\ Len(S) = 0 /\ Len(D) = 0 /\ m = k
  BY <1>1 DEF Dialogue, Turns, Speaking
<1>3. SentShape(S2, D, k, m) /\ Len(S2) # 0 /\ \A i \in 1 .. Len(S2) : S2[i].c # "-"
  BY <1>2, PacketSaid
<1>4. LineShape(J, k) /\ ReadShape(J, s2, k)
  BY <1>1 DEF LineShape, ReadShape, Active
<1>5. Turns(J, S2, D, k, m, s2, md2, d)
  BY <1>1, <1>2, <1>3 DEF Turns, Speaking, Coming, Has
<1> QED BY <1>3, <1>4, <1>5 DEF Dialogue

(* A request is served: the number that the stub keeps is that of the last *)
(* request, and nothing is under way but its answer.                       *)
LEMMA TurnServes ==
  ASSUME NEW I, NEW S, NEW D, NEW k, NEW m, NEW md, NEW d, NEW J, NEW s2, NEW md2,
         NEW S2, NEW T,
         Dialogue(I, S, D, k, m, "CHECKSUM_LOW", md, d), Drops(I, J), I[1].c # "$", md # "run",
         s2 \notin Active, Len(S) \in Nat, Len(D) \in Nat, Joins(S, T, S2),
         \/ Mark(T, "+", I[1].q)
         \/ /\ md2 # "run"
            /\ \E A, P : Mark(A, "+", I[1].q) /\ Packet(P, I[1].q) /\ Joins(A, P, T)
  PROVE  /\ Dialogue(J, S2, D, k, I[1].q, s2, md2, d)
         /\ k # 0 /\ d = "ack" /\ Has(S2, "+") /\ Len(S) = 0 /\ ~Has(I, "$")
<1>0. 1 \in 1 .. Len(I) /\ Len(I) # 0 /\ Len(J) = 0
  BY DEF Drops, Dialogue, ReadShape
<1>1. d = "ack" /\ Len(S) = 0 /\ Len(D) = 0 /\ k # 0 /\ I[1].q = k
  BY <1>0 DEF Dialogue, Turns, ReadShape, Coming, Speaking, Active
<1>2. ~Has(I, "$")
  BY <1>0 DEF Has, Dialogue, ReadShape, Active, IsTurn
<1>3. LineShape(J, k) /\ ReadShape(J, s2, k)
  BY <1>0 DEF LineShape, ReadShape, Active
<1>4. /\ Len(S2) = Len(T) /\ Len(T) \in Nat
      /\ \A i \in 1 .. Len(S2) : S2[i] = T[i]
  <2>1. \A i \in 1 .. Len(S2) : ~(i <= Len(S)) /\ i - Len(S) = i
    BY <1>1 DEF Joins
  <2> QED BY <1>1, <2>1 DEF Joins
<1>5. CASE Mark(T, "+", k)
  <2>1. Len(S2) = 1 /\ S2[1].c = "+" /\ S2[1].q = k
    BY <1>4, <1>5 DEF Mark
  <2>2. SentShape(S2, D, k, k)
    BY <1>1, <2>1 DEF SentShape
  <2>3. Turns(J, S2, D, k, k, s2, md2, d)
    BY <1>0, <1>1, <2>1 DEF Turns, Speaking, Coming, Has
  <2> QED BY <1>1, <1>2, <1>3, <2>1, <2>2, <2>3 DEF Dialogue, Has
<1>6. ASSUME md2 # "run", NEW A, NEW P, Mark(A, "+", k), Packet(P, k), Joins(A, P, T)
      PROVE  /\ Dialogue(J, S2, D, k, I[1].q, s2, md2, d)
             /\ k # 0 /\ d = "ack" /\ Has(S2, "+") /\ Len(S) = 0 /\ ~Has(I, "$")
  <2>1. SentShape(T, D, k, k) /\ Len(T) # 0 /\ \A i \in 1 .. Len(T) : T[i].c # "-"
    BY <1>1, <1>6, PacketSaid DEF Mark
  <2>2. SentShape(S2, D, k, k) /\ Len(S2) # 0 /\ \A i \in 1 .. Len(S2) : S2[i].c # "-"
    BY <1>4, <2>1 DEF SentShape
  <2>3. Turns(J, S2, D, k, k, s2, md2, d)
    BY <1>0, <1>1, <1>6, <2>2 DEF Turns, Speaking, Coming, Has
  <2>4. 1 \in 1 .. Len(S2) /\ S2[1].c = "+"
    <3>1. 1 \in 1 .. Len(T) /\ 1 <= Len(A) /\ A[1].c = "+"
      BY <1>6 DEF Mark, Packet, Joins
    <3>2. T[1] = A[1]
      BY <1>6, <3>1 DEF Joins
    <3> QED BY <1>4, <3>1, <3>2
  <2> QED BY <1>1, <1>2, <1>3, <2>2, <2>3, <2>4 DEF Dialogue, Has
<1> QED BY <1>1, <1>5, <1>6

(* The line hits a byte, or swallows one of the stub's.                    *)
LEMMA TurnHit ==
  ASSUME NEW I, NEW S, NEW D, NEW k, NEW m, NEW s, NEW md, NEW d, NEW J, NEW c,
         Dialogue(I, S, D, k, m, s, md, d), Len(I) \in Nat \ {0}, Len(J) = Len(I),
         J[1].c = c, J[1].q = I[1].q, c \notin {"$", "#", "-"},
         \A i \in 2 .. Len(I) : J[i] = I[i]
  PROVE  Dialogue(J, S, D, k, m, s, md, d)
<1>0. \A i \in 1 .. Len(I) : J[i].q = I[i].q /\ (J[i].c = I[i].c \/ (i = 1 /\ J[i].c = c))
  <2> SUFFICES ASSUME NEW i \in 1 .. Len(I), i # 1 PROVE J[i] = I[i]
    OBVIOUS
  <2>1. i \in 2 .. Len(I)
    OBVIOUS
  <2> QED BY <2>1
<1>1. LineShape(J, k)
  <2>1. ASSUME NEW i \in 1 .. Len(J), J[i].c = "#"
        PROVE  Len(J) - i = 2 \/ \E j \in i + 1 .. Len(J) : J[j].c = "$"
    <3>1. I[i].c = "#"
      BY <1>0, <2>1
    <3>2. Len(I) - i = 2 \/ \E j \in i + 1 .. Len(I) : I[j].c = "$"
      BY <3>1 DEF Dialogue, LineShape
    <3>3. \A j \in i + 1 .. Len(I) : j \in 2 .. Len(I)
      OBVIOUS
    <3> QED BY <3>2, <3>3
  <2>2. \A i, j \in 1 .. Len(J) : i < j => ~(IsTurn(J[i]) /\ IsTurn(J[j]))
    BY <1>0 DEF Dialogue, LineShape, IsTurn
  <2>3. \A i, j \in 1 .. Len(J) : i <= j /\ J[i].c = "$" => J[j].q = k
    BY <1>0 DEF Dialogue, LineShape
  <2>4. \A i \in 1 .. Len(J) : J[i].c = "-" => i = Len(J)
    BY <1>0 DEF Dialogue, LineShape
  <2> QED BY <2>1, <2>2, <2>3, <2>4 DEF LineShape
<1>2. ReadShape(J, s, k)
  BY <1>0 DEF Dialogue, ReadShape, IsTurn
<1>3. /\ Has(J, "$") => Has(I, "$")
      /\ Has(J, "-") => Has(I, "-")
      /\ Has(J, "#") => Has(I, "#")
  BY <1>0 DEF Has
<1>4. Turns(J, S, D, k, m, s, md, d)
  BY <1>3 DEF Dialogue, Turns, Coming
<1> QED BY <1>1, <1>2, <1>4 DEF Dialogue

LEMMA SentDrops ==
  ASSUME NEW S, NEW D, NEW k, NEW m, NEW S2,
         SentShape(S, D, k, m), Len(D) \in Nat, Drops(S, S2)
  PROVE  SentShape(S2, D, k, m) /\ (\A i \in 1 .. Len(S2) : S2[i].c \notin {"+", "-"})
<1>1. \A i \in 1 .. Len(S2) : S2[i] = S[i + 1] /\ i + 1 \in 1 .. Len(S) /\ i + 1 # 1
  BY DEF Drops
<1>2. \A i \in 1 .. Len(S2) : S2[i].c \notin {"+", "-"}
  <2> SUFFICES ASSUME NEW i \in 1 .. Len(S2) PROVE S2[i].c \notin {"+", "-"}
    OBVIOUS
  <2>1. Len(S) # 1
    BY DEF Drops
  <2> QED BY <1>1, <2>1 DEF SentShape
<1>3. \A i \in 1 .. Len(S2) : S2[i].c = "#" => Len(S2) - i <= 2
  <2> SUFFICES ASSUME NEW i \in 1 .. Len(S2), S2[i].c = "#" PROVE Len(S2) - i <= 2
    OBVIOUS
  <2>1. Len(S) - (i + 1) <= 2
    BY <1>1 DEF SentShape
  <2> QED BY <2>1 DEF Drops
<1>4. \A i \in 1 .. Len(D) : D[i].c = "#" => Len(D) - i + Len(S2) <= 2
  BY DEF SentShape, Drops
<1>5. \A i \in 1 .. Len(S2) : /\ S2[i].c = "-" => Len(S2) = 1 /\ Len(D) = 0
                              /\ S2[i].c = "+" => i = 1 /\ Len(D) = 0
  BY <1>2
<1>6. \A i \in 1 .. Len(S2) : S2[i].c # "-" => S2[i].q = k /\ m = k
  <2> SUFFICES ASSUME NEW i \in 1 .. Len(S2) PROVE S2[i].q = k /\ m = k
    OBVIOUS
  <2>1. S[i + 1].c # "-"
    BY <1>1, <1>2
  <2> QED BY <1>1, <2>1 DEF SentShape
<1>7. \A i \in 1 .. Len(D) : D[i].q = k
  BY DEF SentShape
<1> QED BY <1>2, <1>3, <1>4, <1>5, <1>6, <1>7 DEF SentShape

LEMMA TurnLoses ==
  ASSUME NEW I, NEW S, NEW D, NEW k, NEW m, NEW s, NEW md, NEW d, NEW S2,
         Dialogue(I, S, D, k, m, s, md, d), Len(D) \in Nat, Drops(S, S2)
  PROVE  Dialogue(I, S2, D, k, m, s, md, d)
<1>1. SentShape(S2, D, k, m) /\ \A i \in 1 .. Len(S2) : S2[i].c \notin {"+", "-"}
  BY SentDrops DEF Dialogue
<1>2. ~Has(S2, "-")
  BY <1>1 DEF Has
<1>3. Len(S2) # 0 /\ Len(I) # 0 => FALSE
  <2> SUFFICES ASSUME Len(S2) # 0, Len(I) # 0 PROVE FALSE
    OBVIOUS
  <2>1. 1 \in 1 .. Len(S) /\ Len(S) # 1 /\ Len(S) # 0
    BY DEF Drops
  <2> QED BY <2>1 DEF Dialogue, Turns, SentShape
<1>4. md = "run" => Len(S2) = 0
  <2> SUFFICES ASSUME md = "run", Len(S2) # 0 PROVE FALSE
    OBVIOUS
  <2>1. 2 \in 1 .. Len(S) /\ 1 \in 1 .. Len(S2) /\ S2[1] = S[2]
    BY DEF Drops
  <2> QED BY <1>1, <2>1 DEF Dialogue, Turns
<1>5. Speaking(S2, D, md) => Speaking(S, D, md)
  BY DEF Speaking, Drops
<1>6. d \in {"idle", "gone"} => FALSE
  BY DEF Dialogue, Turns, Drops
<1>7. md = "run" => \A i \in 1 .. Len(S2) : S2[i].c = "+"
  BY <1>4
<1>8. Turns(I, S2, D, k, m, s, md, d)
  BY <1>2, <1>3, <1>5, <1>6, <1>7 DEF Dialogue, Turns
<1> QED BY <1>1, <1>8 DEF Dialogue

(* The debugger sends a request, a new one or the last one again.  Its     *)
(* packet follows what cannot be a part of one any more.                   *)
LEMMA LineSends ==
  ASSUME NEW I, NEW k, NEW T, NEW g, NEW J,
         LineShape(I, k), Joins(I, T, J), Asking(T, g), ~Has(I, "$"), ~Has(I, "-")
  PROVE  /\ LineShape(J, g) /\ ~Has(J, "-")
         /\ \A i \in 1 .. Len(J) : J[i].c = "$" => i = Len(I) + 1
<1>1. ASSUME NEW i \in 1 .. Len(J)
      PROVE  /\ i <= Len(I) => ~IsTurn(J[i])
             /\ i > Len(I) => /\ J[i].q = g /\ J[i].c # "-"
                              /\ J[i].c = "$" => i = Len(I) + 1
                              /\ J[i].c = "#" => Len(J) - i = 2
  <2>1. CASE i <= Len(I)
    BY <2>1 DEF Joins, Has, IsTurn
  <2>2. CASE ~(i <= Len(I))
    <3>1. i - Len(I) \in 1 .. Len(T) /\ J[i] = T[i - Len(I)]
      BY <2>2 DEF Joins
    <3>2. PICK j : j = i - Len(I)
      OBVIOUS
    <3>3. /\ T[j].q = g /\ T[j].c # "-"
          /\ T[j].c = "$" => j = 1
          /\ T[j].c = "#" => j = Len(T) - 2
      BY <3>1, <3>2 DEF Asking
    <3> QED BY <2>2, <3>1, <3>2, <3>3 DEF Joins
  <2> QED BY <2>1, <2>2 DEF Joins
<1>2. Len(I) + 1 \in 1 .. Len(J) /\ J[Len(I) + 1].c = "$" /\ Len(I) \in Nat /\ Len(J) \in Nat
  <2>1. Len(I) + 1 \in 1 .. Len(J) /\ ~(Len(I) + 1 <= Len(I)) /\ (Len(I) + 1) - Len(I) = 1
    BY DEF Joins, Asking
  <2>2. J[Len(I) + 1] = T[1]
    BY <2>1 DEF Joins
  <2> QED BY <2>1, <2>2 DEF Asking, Joins
<1>3. \A i \in 1 .. Len(J) : J[i].c = "$" => i = Len(I) + 1
  BY <1>1, <1>2 DEF IsTurn
<1>4. \A i \in 1 .. Len(J) : J[i].c # "-"
  BY <1>1, <1>2 DEF IsTurn
<1>5. \A i, j \in 1 .. Len(J) : i < j => ~(IsTurn(J[i]) /\ IsTurn(J[j]))
  BY <1>3, <1>4 DEF IsTurn
<1>6. \A i, j \in 1 .. Len(J) : i <= j /\ J[i].c = "$" => J[j].q = g
  BY <1>1, <1>2, <1>3
<1>7. \A i \in 1 .. Len(J) : J[i].c = "#" => Len(J) - i = 2 \/ \E j \in i + 1 .. Len(J) : J[j].c = "$"
  <2> SUFFICES ASSUME NEW i \in 1 .. Len(J), J[i].c = "#", i <= Len(I)
               PROVE  \E j \in i + 1 .. Len(J) : J[j].c = "$"
    BY <1>1, <1>2
  <2> QED BY <1>2
<1> QED BY <1>3, <1>4, <1>5, <1>6, <1>7 DEF LineShape, Has

LEMMA TurnSends ==
  ASSUME NEW I, NEW S, NEW D, NEW k, NEW m, NEW s, NEW md, NEW d, NEW T, NEW g \in Nat \ {0}, NEW J,
         NEW S2, NEW D2,
         Dialogue(I, S, D, k, m, s, md, d), Joins(I, T, J), Asking(T, g),
         ~Has(I, "$"), ~Has(I, "-"), md # "run", Len(S2) = 0, Len(D2) = 0,
         s \in Active => Len(I) = 0
  PROVE  Dialogue(J, S2, D2, g, m, s, md, "ack")
<1>1. /\ LineShape(J, g) /\ ~Has(J, "-")
      /\ \A i \in 1 .. Len(J) : J[i].c = "$" => i = Len(I) + 1
  BY LineSends DEF Dialogue
<1>2. ReadShape(J, s, g)
  <2>1. CASE s \notin Active
    BY <2>1 DEF ReadShape, Active
  <2>2. CASE s \in Active
    <3>1. Len(I) = 0 /\ s = "PAYLOAD"
      BY <2>2 DEF Dialogue, ReadShape, Active
    <3>2. \A i \in 1 .. Len(J) : J[i] = T[i]
      <4>1. \A i \in 1 .. Len(J) : ~(i <= Len(I)) /\ i - Len(I) = i
        BY <3>1 DEF Joins
      <4> QED BY <4>1 DEF Joins
    <3>3. \A i \in 1 .. Len(J) : J[i].q = g /\ (IsTurn(J[i]) => i = 1)
      BY <3>1, <3>2 DEF Asking, Joins, IsTurn
    <3> QED BY <3>1, <3>3 DEF ReadShape
  <2> QED BY <2>1, <2>2
<1>3. SentShape(S2, D2, g, m)
  BY DEF SentShape
<1>4. Turns(J, S2, D2, g, m, s, md, "ack")
  BY <1>1 DEF Turns, Speaking, Has
<1> QED BY <1>1, <1>2, <1>3, <1>4 DEF Dialogue

(* It reads the ack of its request: the stub has served that request.      *)
LEMMA TurnHears ==
  ASSUME NEW I, NEW S, NEW D, NEW k, NEW m, NEW s, NEW md, NEW S2,
         Dialogue(I, S, D, k, m, s, md, "ack"), Len(D) \in Nat, Drops(S, S2), S[1].c = "+"
  PROVE  Dialogue(I, S2, D, k, m, s, md, "reply")
<1>1. Dialogue(I, S2, D, k, m, s, md, "ack")
  BY TurnLoses
<1>2. 1 \in 1 .. Len(S) /\ Len(S) # 0
  BY DEF Drops
<1>3. m = k
  BY <1>2 DEF Dialogue, SentShape
<1>4. s \notin Active /\ ~Coming(I, s) /\ ~Has(I, "-")
  BY <1>2 DEF Dialogue, Turns, Speaking
<1>5. ~Has(S2, "-")
  <2>1. \A i \in 1 .. Len(S2) : S2[i].c \notin {"+", "-"}
    BY SentDrops DEF Dialogue
  <2> QED BY <2>1 DEF Has
<1>6. k # 0
  BY DEF Dialogue, Turns
<1>7. Turns(I, S2, D, k, m, s, md, "reply")
  BY <1>1, <1>3, <1>4, <1>5, <1>6 DEF Dialogue, Turns
<1> QED BY <1>1, <1>7 DEF Dialogue

(* It gives up.                                                            *)
LEMMA TurnGivesUp ==
  ASSUME NEW I, NEW S, NEW D, NEW k, NEW m, NEW s, NEW md, NEW d, NEW S2, NEW D2,
         Dialogue(I, S, D, k, m, s, md, d), d # "idle", ~Has(I, "$"), ~Has(I, "-"), md # "run",
         Len(S2) = 0, Len(D2) = 0, s \in Active => Len(I) = 0
  PROVE  Dialogue(I, S2, D2, k, m, s, md, "gone")
<1>1. SentShape(S2, D2, k, m)
  BY DEF SentShape
<1>2. Turns(I, S2, D2, k, m, s, md, "gone")
  BY DEF Dialogue, Turns, Speaking, Coming, Has
<1> QED BY <1>1, <1>2 DEF Dialogue

(* It acks a packet or naks one: the line was silent.                      *)
LEMMA TurnMarks ==
  ASSUME NEW I, NEW S, NEW D, NEW k, NEW m, NEW s, NEW md, NEW d, NEW T, NEW g, NEW J,
         NEW S2, NEW D2, NEW c, NEW d2,
         Dialogue(I, S, D, k, m, s, md, d), Joins(I, T, J), Mark(T, c, g), Len(I) = 0,
         d \in {"ack", "reply"}, md # "run", Len(S2) = 0, Len(D2) = 0, s \notin Active,
         \/ c = "-" /\ d = "reply" /\ d2 = "reply"
         \/ c = "+" /\ (d2 = d \/ (d = "reply" /\ d2 = "idle"))
  PROVE  Dialogue(J, S2, D2, k, m, s, md, d2)
<1>1. Len(J) = 1 /\ J[1].c = c
  <2>1. Len(J) = 1 /\ ~(1 <= Len(I)) /\ 1 - Len(I) = 1 /\ 1 \in 1 .. Len(J)
    BY DEF Joins, Mark
  <2>2. J[1] = T[1 - Len(I)]
    BY <2>1 DEF Joins
  <2> QED BY <2>1, <2>2 DEF Mark
<1>2. LineShape(J, k) /\ ReadShape(J, s, k)
  BY <1>1 DEF LineShape, ReadShape, IsTurn, Active
<1>3. SentShape(S2, D2, k, m)
  BY DEF SentShape
<1>4. k # 0 /\ (d = "reply" => m = k)
  BY DEF Dialogue, Turns
<1>5. ~Has(J, "$") /\ ~Has(J, "#") /\ (c = "+" => ~Has(J, "-"))
  BY <1>1 DEF Has
<1>6. Turns(J, S2, D2, k, m, s, md, d2)
  BY <1>1, <1>4, <1>5 DEF Turns, Speaking, Coming, Has
<1> QED BY <1>2, <1>3, <1>6 DEF Dialogue

(* It reads on in a packet.                                                *)
LEMMA TurnReadsOn ==
  ASSUME NEW I, NEW S, NEW D, NEW k, NEW m, NEW s, NEW md, NEW d, NEW S2, NEW D2, NEW T,
         Dialogue(I, S, D, k, m, s, md, d), d \in {"ack", "reply"}, Len(I) \in Nat, Len(D) \in Nat,
         Drops(S, S2), Len(T) = 1, T[1] = S[1], S[1].c \notin {"+", "-"},
         \/ Joins(D, T, D2)
         \/ D2 = T /\ S[1].c = "$"
  PROVE  Dialogue(I, S2, D2, k, m, s, md, d)
<1>0. 1 \in 1 .. Len(S) /\ Len(S) # 0
  BY DEF Drops
<1>1. SentShape(S2, D, k, m) /\ \A i \in 1 .. Len(S2) : S2[i].c \notin {"+", "-"}
  BY SentDrops DEF Dialogue
<1>2. S[1].q = k /\ m = k
  BY <1>0 DEF Dialogue, SentShape
<1>3. Len(D2) \in Nat \ {0} /\ \A i \in 1 .. Len(D2) : D2[i].q = k /\ (D2[i].c = "#" => Len(D2) - i + Len(S2) <= 2)
  <2>1. CASE Joins(D, T, D2)
    <3>1. Len(D2) = Len(D) + 1
      BY <2>1 DEF Joins
    <3> SUFFICES ASSUME NEW i \in 1 .. Len(D2)
                 PROVE  D2[i].q = k /\ (D2[i].c = "#" => Len(D2) - i + Len(S2) <= 2)
      BY <3>1
    <3>2. CASE i <= Len(D)
      <4>1. i \in 1 .. Len(D) /\ D2[i] = D[i]
        BY <2>1, <3>2 DEF Joins
      <4>2. D[i].q = k /\ (D[i].c = "#" => Len(D) - i + Len(S) <= 2)
        BY <4>1 DEF Dialogue, SentShape
      <4> QED BY <3>1, <4>1, <4>2 DEF Drops
    <3>3. CASE ~(i <= Len(D))
      <4>1. i = Len(D) + 1 /\ i - Len(D) = 1 /\ Len(D2) - i = 0
        BY <3>1, <3>3
      <4>2. D2[i] = S[1]
        BY <2>1, <3>3, <4>1 DEF Joins
      <4>3. S[1].c = "#" => Len(S) - 1 <= 2
        BY <1>0 DEF Dialogue, SentShape
      <4> QED BY <1>2, <4>1, <4>2, <4>3 DEF Drops
    <3> QED BY <3>2, <3>3
  <2>2. CASE D2 = T /\ S[1].c = "$"
    <3>1. Len(D2) = 1 /\ D2[1] = S[1]
      BY <2>2
    <3>2. D2[1].q = k /\ D2[1].c # "#"
      BY <1>2, <2>2, <3>1
    <3>3. ASSUME NEW i \in 1 .. Len(D2) PROVE i = 1
      BY <3>1
    <3> QED BY <3>1, <3>2, <3>3
  <2> QED BY <2>1, <2>2
<1>4. SentShape(S2, D2, k, m)
  BY <1>1, <1>3 DEF SentShape
<1>5. Len(I) = 0 /\ s \notin Active /\ md # "run"
  BY <1>0 DEF Dialogue, Turns, Speaking
<1>6. ~Has(S2, "-")
  BY <1>1 DEF Has
<1>7. Turns(I, S2, D2, k, m, s, md, d)
  BY <1>5, <1>6 DEF Dialogue, Turns, Speaking, Coming, Has
<1> QED BY <1>4, <1>7 DEF Dialogue

(***************************************************************************)
(* The lines as sequences.                                                 *)
(***************************************************************************)
LEMMA JoinsIs ==
  ASSUME NEW s, NEW t, IsSeq(s), IsSeq(t)
  PROVE  Joins(s, t, s \o t) /\ IsSeq(s \o t)
BY SeqJoin DEF Joins

LEMMA DropsIs ==
  ASSUME NEW s, IsSeq(s), s # <<>>
  PROVE  Drops(s, Tail(s)) /\ IsSeq(Tail(s)) /\ Head(s) = s[1]
BY SeqTail DEF Drops

LEMMA SeqLength ==
  ASSUME NEW s, IsSeq(s)
  PROVE  Len(s) \in Nat /\ (s = <<>> <=> Len(s) = 0)
BY DEF IsSeq

LEMMA SeqAssoc ==
  ASSUME NEW s, NEW t, NEW u, IsSeq(s), IsSeq(t), IsSeq(u)
  PROVE  (s \o t) \o u = s \o (t \o u)
<1>1. PICK S : s \in Seq(S)
  BY DEF IsSeq
<1>2. PICK T : t \in Seq(T)
  BY DEF IsSeq
<1>3. PICK U : u \in Seq(U)
  BY DEF IsSeq
<1>4. PICK A : A = S \cup T \cup U
  OBVIOUS
<1>5. s \in Seq(A) /\ t \in Seq(A) /\ u \in Seq(A)
  BY <1>1, <1>2, <1>3, <1>4, SeqMonotonic
<1> QED BY <1>5, ConcatAssociative

LEMMA NoneJoins ==
  ASSUME NEW s, IsSeq(s)
  PROVE  <<>> \o s = s
BY ConcatEmptySeq DEF IsSeq

LEMMA AppendIs ==
  ASSUME NEW s, IsSeq(s), NEW e
  PROVE  Append(s, e) = s \o <<e>>
<1>1. PICK S : s \in Seq(S)
  BY DEF IsSeq
<1>2. PICK T : T = S \cup {e}
  OBVIOUS
<1>3. s \in Seq(T) /\ e \in T
  BY <1>1, <1>2, SeqMonotonic
<1> QED BY <1>3, AppendIsConcat

LEMMA HeadJoinsTail ==
  ASSUME NEW s, IsSeq(s), s # <<>>
  PROVE  <<Head(s)>> \o Tail(s) = s
<1>1. PICK S : s \in Seq(S)
  BY DEF IsSeq
<1>2. Tail(s) \in Seq(S) /\ Head(s) \in S /\ Len(s) \in Nat \ {0} /\ Len(Tail(s)) = Len(s) - 1
      /\ (\A i \in 1 .. Len(Tail(s)) : Tail(s)[i] = s[i + 1]) /\ Head(s) = s[1]
  BY <1>1
<1>3. <<Head(s)>> \in Seq(S) /\ Len(<<Head(s)>>) = 1 /\ <<Head(s)>>[1] = Head(s)
  BY <1>2
<1> DEFINE h == <<Head(s)>>
           t == Tail(s)
           r == h \o t
<1>4. h \in Seq(S) /\ Len(h) = 1 /\ h[1] = s[1]
  BY <1>2, <1>3
<1>5. t \in Seq(S) /\ Len(t) = Len(s) - 1 /\ \A i \in 1 .. Len(t) : t[i] = s[i + 1]
  BY <1>2
<1> HIDE DEF h, t
<1>6. r \in Seq(S) /\ Len(r) = Len(h) + Len(t)
      /\ \A i \in 1 .. Len(h) + Len(t) : r[i] = IF i <= Len(h) THEN h[i] ELSE t[i - Len(h)]
  BY <1>4, <1>5, ConcatProperties
<1> HIDE DEF r
<1>7. Len(r) = Len(s)
  BY <1>2, <1>4, <1>5, <1>6
<1>8. ASSUME NEW i \in 1 .. Len(r) PROVE r[i] = s[i]
  <2>1. CASE i = 1
    BY <1>2, <1>4, <1>5, <1>6, <2>1
  <2>2. CASE i # 1
    <3>1. i - 1 \in 1 .. Len(t) /\ ~(i <= Len(h)) /\ i \in 1 .. Len(h) + Len(t) /\ (i - 1) + 1 = i
      BY <1>2, <1>4, <1>5, <1>7, <2>2
    <3>2. r[i] = t[i - 1]
      BY <1>4, <1>6, <3>1
    <3> QED BY <1>5, <3>1, <3>2
  <2> QED BY <2>1, <2>2
<1>9. r = s
  BY <1>1, <1>6, <1>7, <1>8, SeqEqual
<1> QED BY <1>9 DEF r, h, t

(***************************************************************************)
(* Texts without framing characters.                                       *)
(***************************************************************************)
CleanText(text) ==
  text \in Seq(Char) /\ \A i \in 1 .. Len(text) : text[i] \notin {"$", "#", "+", "-"}

LEMMA CleanIsSeq ==
  ASSUME NEW text, CleanText(text)
  PROVE  IsSeq(text) /\ Len(text) \in Nat
BY DEF CleanText, IsSeq

LEMMA CleanJoin ==
  ASSUME NEW s, NEW t, CleanText(s), CleanText(t)
  PROVE  CleanText(s \o t)
<1>1. s \in Seq(Char) /\ t \in Seq(Char)
  BY DEF CleanText
<1>2. PICK r : r = s \o t
  OBVIOUS
<1>3. r \in Seq(Char) /\ Len(r) = Len(s) + Len(t)
      /\ \A i \in 1 .. Len(s) + Len(t) : r[i] = IF i <= Len(s) THEN s[i] ELSE t[i - Len(s)]
  BY <1>1, <1>2, ConcatProperties
<1>4. ASSUME NEW i \in 1 .. Len(r) PROVE r[i] \notin {"$", "#", "+", "-"}
  <2>1. CASE i <= Len(s)
    BY <1>1, <1>3, <2>1 DEF CleanText
  <2>2. CASE ~(i <= Len(s))
    <3>1. i - Len(s) \in 1 .. Len(t)
      BY <1>1, <1>3, <2>2
    <3> QED BY <1>3, <2>2, <3>1 DEF CleanText
  <2> QED BY <2>1, <2>2
<1> QED BY <1>2, <1>3, <1>4 DEF CleanText

LEMMA DigitIsChar ==
  ASSUME NEW i \in 1 .. 16
  PROVE  hex_digits[i] \in Char \ {"$", "#", "+", "-"}
BY PacketParams, DigitPlain

LEMMA NibblesOf == \A n \in 0 .. 255 : (n \div 16) + 1 \in 1 .. 16 /\ (n % 16) + 1 \in 1 .. 16
OBVIOUS

LEMMA CleanDigits ==
  ASSUME NEW n \in 0 .. 255
  PROVE  CleanText(TwoDigits(n)) /\ Len(TwoDigits(n)) = 2
<1>1. PICK a, b : a = hex_digits[(n \div 16) + 1] /\ b = hex_digits[(n % 16) + 1]
  OBVIOUS
<1>2. a \in Char \ {"$", "#", "+", "-"} /\ b \in Char \ {"$", "#", "+", "-"}
  BY <1>1, NibblesOf, DigitIsChar
<1>3. TwoDigits(n) = <<a, b>>
  BY <1>1 DEF TwoDigits
<1>4. <<a, b>> \in Seq(Char) /\ Len(<<a, b>>) = 2 /\ \A i \in 1 .. 2 : <<a, b>>[i] \in {a, b}
  BY <1>2
<1> QED BY <1>2, <1>3, <1>4 DEF CleanText

(* The fixed replies.                                                      *)
LEMMA CleanOne ==
  ASSUME NEW c \in Char \ {"$", "#", "+", "-"}
  PROVE  CleanText(<<c>>)
<1>1. <<c>> \in Seq(Char) /\ Len(<<c>>) = 1 /\ \A i \in 1 .. 1 : <<c>>[i] = c
  OBVIOUS
<1> QED BY <1>1 DEF CleanText

LEMMA CleanReplies ==
  /\ CleanText(<<>>) /\ CleanText(OK) /\ CleanText(E01)
  /\ \A cause : CleanText(StopReply(cause))
<1>1. CleanText(<<>>)
  BY EmptySeq DEF CleanText
<1>2. CleanText(OK) /\ CleanText(E01)
  BY PacketParams, CleanOne DEF OK, E01
<1>3. ASSUME NEW c \in {"4", "b", "5"} PROVE CleanText(<<"S", "0", c>>)
  <2>1. c \in Char /\ "0" \in Char /\ "S" \in Char
    <3>1. hex_digits[1] = "0" /\ hex_digits[5] = "4" /\ hex_digits[6] = "5" /\ hex_digits[12] = "b"
      BY DEF hex_digits
    <3> QED BY <3>1, DigitIsChar, PacketParams
  <2>2. /\ <<"S", "0", c>> \in Seq(Char) /\ Len(<<"S", "0", c>>) = 3
        /\ \A i \in 1 .. 3 : <<"S", "0", c>>[i] \in {"S", "0", c}
    BY <2>1
  <2> QED BY <2>2 DEF CleanText
<1>4. ASSUME NEW cause PROVE CleanText(StopReply(cause))
  <2>1. \/ StopReply(cause) = <<"S", "0", "4">> \/ StopReply(cause) = <<"S", "0", "b">>
        \/ StopReply(cause) = <<"S", "0", "5">>
    BY DEF StopReply
  <2> QED BY <1>3, <2>1
<1> QED BY <1>1, <1>2, <1>4

(* Such a text makes a packet.  A request may hold a +.                    *)
Avoids(text, Out) ==
  text \in Seq(Char) /\ \A i \in 1 .. Len(text) : text[i] \notin Out /\ text[i] # "#"
Framed(T, n, Out) ==
  /\ IsSeq(T) /\ Len(T) \in Nat /\ Len(T) >= 4 /\ T[1].c = "$"
  /\ \A i \in 1 .. Len(T) : /\ T[i].q = n
                            /\ i # 1 => T[i].c \notin Out
                            /\ T[i].c = "#" => i = Len(T) - 2

LEMMA FramedOf ==
  ASSUME NEW text, NEW n, NEW Out, Out \subseteq {"$", "+", "-"}, Avoids(text, Out)
  PROVE  Framed(Tagged(Frame(text), n), n, Out)
<1>1. text \in Seq(Char) /\ Len(text) \in Nat /\ IsSeq(text)
  BY DEF IsSeq, Avoids
<1>2. PICK f : f = Frame(text)
  OBVIOUS
<1>3. PICK T : T = Tagged(f, n)
  OBVIOUS
<1>4. IsSeq(f) /\ Len(f) = Len(text) + 4
  BY <1>1, <1>2, SeqFrame
<1>5. /\ IsSeq(T) /\ Len(T) = Len(f)
      /\ \A i \in 1 .. Len(f) : T[i] = [c |-> f[i], q |-> n]
  BY <1>3, <1>4, SeqTagged
<1>6. PICK a, b : a = hex_digits[(Sum(text) \div 16) + 1] /\ b = hex_digits[(Sum(text) % 16) + 1]
  OBVIOUS
<1>7. a \in Char \ {"$", "#", "+", "-"} /\ b \in Char \ {"$", "#", "+", "-"}
  <2>1. Sum(text) \in 0 .. 255
    BY <1>1, SumIsByte
  <2> QED BY <1>6, <2>1, NibblesOf, DigitIsChar
<1>8. /\ f[1] = "$" /\ f[Len(text) + 2] = "#" /\ f[Len(text) + 3] = a /\ f[Len(text) + 4] = b
      /\ \A i \in 1 .. Len(text) : f[i + 1] = text[i]
  BY <1>1, <1>2, <1>6, FrameParts
<1>9. ASSUME NEW i \in 1 .. Len(f), i # 1
      PROVE  f[i] \notin Out /\ (f[i] = "#" => i = Len(f) - 2)
  <2>1. CASE i - 1 \in 1 .. Len(text)
    <3>1. f[(i - 1) + 1] = text[i - 1] /\ (i - 1) + 1 = i
      BY <1>8, <2>1
    <3>2. text[i - 1] \notin Out /\ text[i - 1] # "#"
      BY <2>1 DEF Avoids
    <3> QED BY <3>1, <3>2
  <2>2. i - 1 \in 1 .. Len(text) \/ i = Len(text) + 2 \/ i = Len(text) + 3 \/ i = Len(text) + 4
    BY <1>1, <1>4, <1>9
  <2>3. CASE i = Len(text) + 2
    BY <1>1, <1>4, <1>8, <2>3
  <2>4. CASE i = Len(text) + 3 \/ i = Len(text) + 4
    BY <1>7, <1>8, <2>4
  <2> QED BY <2>1, <2>2, <2>3, <2>4
<1>10. Len(T) >= 4 /\ Len(T) \in Nat /\ T[1].c = "$"
  BY <1>1, <1>4, <1>5, <1>8
<1>11. ASSUME NEW i \in 1 .. Len(T)
       PROVE  /\ T[i].q = n /\ (i # 1 => T[i].c \notin Out)
              /\ T[i].c = "#" => i = Len(T) - 2
  <2>1. T[i] = [c |-> f[i], q |-> n] /\ i \in 1 .. Len(f)
    BY <1>5
  <2>2. T[i].c = f[i] /\ T[i].q = n
    BY <2>1
  <2>3. i = 1 => T[i].c # "#"
    BY <1>10
  <2> QED BY <1>5, <1>9, <2>1, <2>2, <2>3
<1> QED BY <1>2, <1>3, <1>5, <1>10, <1>11 DEF Framed

LEMMA PacketOf ==
  ASSUME NEW text, CleanText(text), NEW n
  PROVE  Packet(Tagged(Frame(text), n), n) /\ IsSeq(Tagged(Frame(text), n))
<1>1. PICK Out : Out = {"$", "+", "-"}
  OBVIOUS
<1>2. Out \subseteq {"$", "+", "-"} /\ Avoids(text, Out)
  BY <1>1 DEF CleanText, Avoids
<1>3. PICK T : T = Tagged(Frame(text), n)
  OBVIOUS
<1>4. Framed(T, n, Out)
  BY <1>2, <1>3, FramedOf
<1>5. Packet(T, n) /\ IsSeq(T)
  BY <1>1, <1>4 DEF Packet, Framed
<1> QED BY <1>3, <1>5

LEMMA AskingOf ==
  ASSUME NEW cmd \in Commands, ~HasNak(cmd), NEW n
  PROVE  Asking(Tagged(Frame(cmd.text), n), n) /\ IsSeq(Tagged(Frame(cmd.text), n))
<1>1. PICK text, Out : text = cmd.text /\ Out = {"$", "-"}
  OBVIOUS
<1>2. text \in Seq(Char) /\ \A i \in 1 .. Len(text) : text[i] \notin {"$", "-"} /\ text[i] # "#"
  BY <1>1, RequestText DEF HasNak
<1>3. Out \subseteq {"$", "+", "-"} /\ Avoids(text, Out)
  BY <1>1, <1>2 DEF Avoids
<1>4. PICK T : T = Tagged(Frame(text), n)
  OBVIOUS
<1>5. Framed(T, n, Out)
  BY <1>3, <1>4, FramedOf
<1>6. Asking(T, n) /\ IsSeq(T)
  BY <1>1, <1>5 DEF Asking, Framed
<1> QED BY <1>1, <1>4, <1>6

LEMMA MarkOf ==
  ASSUME NEW c, NEW n
  PROVE  Mark(Tagged(<<c>>, n), c, n) /\ IsSeq(Tagged(<<c>>, n))
<1>1. PICK s : s = <<c>>
  OBVIOUS
<1>2. IsSeq(s) /\ Len(s) = 1 /\ s[1] = c
  BY <1>1, SeqOfOne
<1>3. IsSeq(Tagged(s, n)) /\ Len(Tagged(s, n)) = 1 /\ Tagged(s, n)[1] = [c |-> s[1], q |-> n]
  BY <1>2, SeqTagged
<1> QED BY <1>1, <1>2, <1>3 DEF Mark

(* An ack and a packet.                                                    *)
LEMMA AckedPacketOf ==
  ASSUME NEW text, CleanText(text), NEW n
  PROVE  LET T == Tagged(<<"+">> \o Frame(text), n)
         IN /\ IsSeq(T)
            /\ \E A, P : Mark(A, "+", n) /\ Packet(P, n) /\ Joins(A, P, T)
<1>1. PICK f : f = Frame(text)
  OBVIOUS
<1>2. PICK A : A = Tagged(<<"+">>, n)
  OBVIOUS
<1>3. PICK P : P = Tagged(f, n)
  OBVIOUS
<1>4. PICK g : g = <<"+">> \o f
  OBVIOUS
<1>5. PICK T : T = Tagged(g, n)
  OBVIOUS
<1>6. IsSeq(f) /\ Packet(P, n)
  BY <1>1, <1>3, CleanIsSeq, SeqFrame, PacketOf
<1>7. IsSeq(<<"+">>) /\ Len(<<"+">>) = 1 /\ <<"+">>[1] = "+"
  BY SeqOfOne
<1>8. Mark(A, "+", n) /\ A[1] = [c |-> "+", q |-> n] /\ Len(A) = 1
  BY <1>2, <1>7, MarkOf, SeqTagged DEF Mark
<1>9. /\ IsSeq(g) /\ Len(g) = 1 + Len(f) /\ Len(f) \in Nat
      /\ \A i \in 1 .. 1 + Len(f) : g[i] = IF i <= 1 THEN <<"+">>[i] ELSE f[i - 1]
  BY <1>4, <1>6, <1>7, SeqJoin
<1>10. IsSeq(T) /\ Len(T) = Len(g) /\ \A i \in 1 .. Len(g) : T[i] = [c |-> g[i], q |-> n]
  BY <1>5, <1>9, SeqTagged
<1>11. Len(P) = Len(f) /\ \A i \in 1 .. Len(f) : P[i] = [c |-> f[i], q |-> n]
  BY <1>3, <1>6, SeqTagged
<1>12. ASSUME NEW i \in 1 .. Len(T) PROVE T[i] = IF i <= Len(A) THEN A[i] ELSE P[i - Len(A)]
  <2>1. CASE i = 1
    <3>1. g[1] = "+" /\ T[1] = [c |-> g[1], q |-> n]
      BY <1>7, <1>9, <1>10
    <3> QED BY <1>8, <2>1, <3>1
  <2>2. CASE i # 1
    <3>1. i - 1 \in 1 .. Len(f) /\ ~(i <= 1) /\ i \in 1 .. 1 + Len(f)
      BY <1>9, <1>10, <2>2
    <3>2. g[i] = f[i - 1] /\ T[i] = [c |-> g[i], q |-> n] /\ P[i - 1] = [c |-> f[i - 1], q |-> n]
      BY <1>9, <1>10, <1>11, <3>1
    <3> QED BY <1>8, <3>1, <3>2
  <2> QED BY <2>1, <2>2
<1>13. Joins(A, P, T)
  BY <1>8, <1>9, <1>10, <1>11, <1>12 DEF Joins
<1> QED BY <1>1, <1>4, <1>5, <1>6, <1>8, <1>10, <1>13

(***************************************************************************)
(* What the stub keeps, and what it answers.                               *)
(***************************************************************************)
StoreInv == /\ memory \in [Addresses -> 0 .. 255] /\ x1 \in 0 .. 255
            /\ mode # "run" => mepc \in Nat
            /\ CleanText(last_reply)

LEMMA HalvesOf ==
  \A len \in Nat : \A i \in 1 .. 2 * len :
    (i - 1) \div 2 \in 0 .. len - 1 /\ ((i - 1) % 2) + 1 \in 1 .. 2
OBVIOUS

LEMMA WithinSpan ==
  \A addr, len \in Nat : \A j \in 0 .. len - 1 : addr + j \in addr .. addr + len - 1
OBVIOUS

(* The bytes of an accepted range are those of the memory looked at.       *)
LEMMA ReadClean ==
  ASSUME StoreInv, NEW cmd \in Commands, cmd.op = "m", NEW n, ReadMemory(cmd, n)
  PROVE  \E r : CleanText(r) /\ Answer(r, n)
<1> DEFINE e(i) == TwoDigits(memory[cmd.addr + (i - 1) \div 2])[((i - 1) % 2) + 1]
           bytes == [i \in 1 .. 2 * cmd.len |-> e(i)]
<1>1. cmd.len \in Nat /\ cmd.addr \in Nat
  BY StubParams
<1>2. Answer(IF Accepted(cmd) THEN bytes ELSE E01, n)
  BY DEF ReadMemory
<1>3. CASE ~Accepted(cmd)
  BY <1>2, <1>3, CleanReplies
<1>4. CASE Accepted(cmd)
  <2>1. \A a \in cmd.addr .. cmd.addr + cmd.len - 1 : memory[a] \in 0 .. 255
    BY <1>4, LinkParams DEF StoreInv
  <2>2. ASSUME NEW i \in 1 .. 2 * cmd.len PROVE e(i) \in Char \ {"$", "#", "+", "-"}
    <3>1. PICK j, g : j = (i - 1) \div 2 /\ g = ((i - 1) % 2) + 1
      OBVIOUS
    <3>2. j \in 0 .. cmd.len - 1 /\ g \in 1 .. 2
      BY <1>1, <3>1, HalvesOf
    <3>3. PICK v : v = memory[cmd.addr + j]
      OBVIOUS
    <3>4. cmd.addr + j \in cmd.addr .. cmd.addr + cmd.len - 1
      BY <1>1, <3>2, WithinSpan
    <3>5. v \in 0 .. 255
      BY <2>1, <3>3, <3>4
    <3>6. CleanText(TwoDigits(v)) /\ Len(TwoDigits(v)) = 2
      BY <3>5, CleanDigits
    <3>7. PICK t : t = TwoDigits(v)
      OBVIOUS
    <3>8. t \in Seq(Char) /\ Len(t) = 2 /\ \A k \in 1 .. 2 : t[k] \notin {"$", "#", "+", "-"}
      BY <3>6, <3>7 DEF CleanText
    <3>9. t[g] \in Char
      BY <3>2, <3>8, ElementOfSeq
    <3>10. TwoDigits(v)[g] \in Char \ {"$", "#", "+", "-"}
      BY <3>2, <3>7, <3>8, <3>9
    <3> QED BY <3>1, <3>3, <3>10
  <2>3. 2 * cmd.len \in Nat
    BY <1>1
  <2> HIDE DEF e
  <2>4. bytes \in Seq(Char) /\ Len(bytes) = 2 * cmd.len
        /\ \A i \in 1 .. Len(bytes) : bytes[i] = e(i)
    BY <2>2, <2>3
  <2> HIDE DEF bytes
  <2>5. CleanText(bytes)
    BY <2>2, <2>4 DEF CleanText
  <2> QED BY <1>2, <1>4, <2>5
<1> QED BY <1>3, <1>4

LEMMA LowByte == \A n \in Nat : n % 256 \in 0 .. 255
OBVIOUS

LEMMA QueryClean ==
  ASSUME StoreInv, mode # "run", NEW cmd, NEW n, Query(cmd, n)
  PROVE  \E r : CleanText(r) /\ Answer(r, n)
<1>1. PICK r : r \in {StopReply(mcause), OK, Registers, <<>>} /\ Answer(r, n)
  BY DEF Query
<1>2. CleanText(Registers)
  <2>1. x1 \in 0 .. 255 /\ mepc % 256 \in 0 .. 255
    BY LowByte DEF StoreInv
  <2>2. CleanText(TwoDigits(x1)) /\ CleanText(TwoDigits(mepc % 256))
    BY <2>1, CleanDigits
  <2> QED BY <2>2, CleanJoin DEF Registers
<1> QED BY <1>1, <1>2, CleanReplies

LEMMA WriteKeeps ==
  ASSUME StoreInv, NEW cmd \in Commands, NEW n, WriteMemory(cmd, n)
  PROVE  memory' \in [Addresses -> 0 .. 255] /\ \E r : CleanText(r) /\ Answer(r, n)
<1>1. cmd.value \in 0 .. 255
  BY StubParams
<1>2. CASE Accepted(cmd)
  <2>1. memory' = [a \in Addresses |-> IF a \in Span(cmd.addr, cmd.len) THEN cmd.value ELSE memory[a]]
    BY <1>2 DEF WriteMemory, StoreInv
  <2>2. \A a \in Addresses : memory[a] \in 0 .. 255
    BY DEF StoreInv
  <2>3. Answer(OK, n)
    BY <1>2 DEF WriteMemory
  <2> QED BY <1>1, <2>1, <2>2, <2>3, CleanReplies
<1>3. CASE ~Accepted(cmd)
  <2>1. memory' = memory /\ Answer(E01, n)
    BY <1>3 DEF WriteMemory
  <2> QED BY <2>1, CleanReplies DEF StoreInv
<1> QED BY <1>2, <1>3

(* A request is answered with an ack and a reply, unless the program goes  *)
(* on: then with the ack alone.                                            *)
LEMMA DispatchClean ==
  ASSUME StoreInv, mode # "run", NEW text, NEW n, DispatchPacket(text, n)
  PROVE  /\ StoreInv'
         /\ \/ /\ mode' = "loop"
               /\ \E r : CleanText(r) /\ out' = out \o Tagged(<<"+">> \o Frame(r), n)
            \/ /\ mode' = "run" /\ out' = out \o Tagged(<<"+">>, n)
               /\ Meaning(text) \in Commands /\ Meaning(text).op = "c"
<1> DEFINE cmd == Meaning(text)
           Answered == \E r : CleanText(r) /\ Answer(r, n)
           Told == /\ mode' = "loop" /\ CleanText(last_reply')
                   /\ \E r : CleanText(r) /\ out' = out \o Tagged(<<"+">> \o Frame(r), n)
<1>1. Answered => Told
  BY DEF Answer, SendReply, Write
<1> HIDE DEF cmd
<1>2. CASE cmd \in Commands /\ cmd.op = "G" /\ WriteRegisters(cmd, n)
  <2>1. memory' = memory
    BY <1>2 DEF WriteRegisters
  <2>2. Answer(E01, n) \/ Answer(OK, n)
    BY <1>2 DEF WriteRegisters
  <2>3. UNCHANGED <<x1, mepc>> \/ (x1' = cmd.value /\ mepc' = cmd.addr)
    BY <1>2 DEF WriteRegisters
  <2>4. cmd.value \in 0 .. 255 /\ cmd.addr \in Nat
    BY <1>2, StubParams
  <2>5. Answered
    BY <2>2, CleanReplies
  <2>6. x1' \in 0 .. 255 /\ mepc' \in Nat
    BY <2>3, <2>4 DEF StoreInv
  <2> QED BY <1>1, <2>1, <2>5, <2>6 DEF StoreInv
<1>3. CASE cmd \in Commands /\ cmd.op = "m" /\ ReadMemory(cmd, n)
  <2>1. UNCHANGED <<mepc, x1, memory>>
    BY <1>3 DEF ReadMemory
  <2>2. Answered
    BY <1>3, ReadClean
  <2> QED BY <1>1, <2>1, <2>2 DEF StoreInv
<1>4. CASE cmd \in Commands /\ cmd.op = "M" /\ WriteMemory(cmd, n)
  <2>1. UNCHANGED <<mepc, x1>>
    BY <1>4 DEF WriteMemory
  <2>2. Answered /\ memory' \in [Addresses -> 0 .. 255]
    BY <1>4, WriteKeeps
  <2> QED BY <1>1, <2>1, <2>2 DEF StoreInv
<1>5. CASE cmd \in Commands /\ cmd.op = "c" /\ ContinueTarget(cmd, n)
  <2>1. UNCHANGED <<x1, memory>>
    BY <1>5 DEF ContinueTarget
  <2>2. CASE Answer(E01, n) /\ UNCHANGED mepc
    <3>1. Answered
      BY <2>2, CleanReplies
    <3> QED BY <1>1, <2>1, <2>2, <3>1 DEF StoreInv
  <2>3. CASE Resume(cmd, n)
    <3>1. mode' = "run" /\ out' = out \o Tagged(<<"+">>, n) /\ last_reply' = last_reply
      BY <2>3 DEF Resume, Write
    <3> QED BY <1>5, <2>1, <3>1 DEF StoreInv, cmd
  <2> QED BY <1>5, <2>2, <2>3 DEF ContinueTarget
<1>6. CASE Query(cmd, n)
  <2>1. UNCHANGED <<mepc, x1, memory>>
    BY <1>6 DEF Query
  <2>2. Answered
    BY <1>6, QueryClean
  <2> QED BY <1>1, <2>1, <2>2 DEF StoreInv
<1> QED BY <1>2, <1>3, <1>4, <1>5, <1>6, DispatchIs DEF cmd

LEMMA TrapIsNat == \A pc : NextTrap(pc) \in Nat
<1> SUFFICES ASSUME NEW pc PROVE NextTrap(pc) \in Nat
  OBVIOUS
<1> DEFINE at == {a \in DOMAIN Cause : a >= pc}
<1>1. at \in SUBSET Nat
  BY StubParams
<1>2. NextTrap(pc) = IF at = {} THEN 0 ELSE CHOOSE a \in at : \A b \in at : a <= b
  BY DEF NextTrap
<1>3. at # {} => \E a \in at : \A b \in at : a <= b
  BY <1>1, LeastOf
<1> HIDE DEF at
<1>4. CASE at = {}
  BY <1>2, <1>4
<1>5. CASE at # {}
  <2>1. NextTrap(pc) \in at
    BY <1>2, <1>3, <1>5
  <2> QED BY <1>1, <2>1
<1> QED BY <1>4, <1>5

(* The program stops in silence, or the stub says why.                     *)
LEMMA StopSays ==
  ASSUME Stop
  PROVE  /\ mode = "run" /\ mode' = "loop" /\ mepc' \in Nat /\ parser_state' = "WAIT_START"
         /\ UNCHANGED <<rxVars, debugger_attached, x1, memory, q>> /\ CleanText(last_reply')
         /\ \/ ~debugger_attached /\ out' = out
            \/ /\ debugger_attached
               /\ \E r : CleanText(r) /\ out' = out \o Tagged(Frame(r), q)
<1>1. /\ mode = "run" /\ mode' = "loop" /\ mepc' = NextTrap(mepc)
      /\ parser_state' = "WAIT_START"
      /\ UNCHANGED <<rxVars, debugger_attached, x1, memory, q>>
      /\ ReportStop(Cause[NextTrap(mepc)])
  BY DEF Stop, ParserStart
<1>2. mepc' \in Nat
  BY <1>1, TrapIsNat
<1>3. PICK r : r = StopReply(Cause[NextTrap(mepc)])
  OBVIOUS
<1>4. CleanText(r)
  BY <1>3, CleanReplies
<1>5. IsSeq(Frame(r))
  BY <1>4, CleanIsSeq, SeqFrame
<1>6. <<>> \o Frame(r) = Frame(r)
  BY <1>5, NoneJoins
<1>7. \/ last_reply' = <<>> /\ ~debugger_attached /\ out' = out
      \/ debugger_attached /\ last_reply' = r /\ out' = out \o Tagged(<<>> \o Frame(r), q)
  BY <1>1, <1>3 DEF ReportStop, SendReply, Write
<1>8. CASE last_reply' = <<>> /\ ~debugger_attached /\ out' = out
  BY <1>1, <1>2, <1>8, CleanReplies
<1>9. CASE debugger_attached /\ last_reply' = r /\ out' = out \o Tagged(<<>> \o Frame(r), q)
  <2>1. out' = out \o Tagged(Frame(r), q)
    BY <1>6, <1>9
  <2> QED BY <1>1, <1>2, <1>4, <1>9, <2>1
<1> QED BY <1>7, <1>8, <1>9

LEMMA StoreStep == StoreInv /\ [Next]_vars => StoreInv'
<1> SUFFICES ASSUME StoreInv, [Next]_vars PROVE StoreInv'
  OBVIOUS
<1>1. CASE Stop
  BY <1>1, StopSays DEF StoreInv
<1>2. CASE CheckErrors
  BY <1>2 DEF StoreInv, CheckErrors
<1>3. CASE HandleByte
  <2>1. mode # "run"
    BY <1>3, HandleByteIs
  <2>2. CASE DispatchPacket(payload, rx_data.q)
    BY <2>1, <2>2, DispatchClean
  <2>3. CASE UNCHANGED <<last_reply, mepc, x1, memory>>
    BY <2>1, <2>3 DEF StoreInv
  <2> QED BY <1>3, <2>2, <2>3, HandleByteIs
<1>4. CASE UNCHANGED <<mode, last_reply, mepc, x1, memory>>
  BY <1>4 DEF StoreInv
<1>5. \/ Stop \/ CheckErrors \/ HandleByte
      \/ UNCHANGED <<mode, last_reply, mepc, x1, memory>>
  <2>1. PutByte => UNCHANGED <<mode, last_reply, mepc, x1, memory>>
    BY DEF PutByte
  <2>2. Deliver \/ GarbleInput \/ FramingError \/ LoseOutput
        => UNCHANGED <<mode, last_reply, mepc, x1, memory>>
    BY DEF Deliver, GarbleInput, FramingError, LoseOutput, Receive, stubVars
  <2>3. (\E cmd \in Commands : Ask(cmd)) \/ Read \/ Timeout
        => UNCHANGED <<mode, last_reply, mepc, x1, memory>>
    BY DEF Ask, Read, Timeout, stubVars
  <2>4. UNCHANGED vars => UNCHANGED <<mode, last_reply, mepc, x1, memory>>
    BY DEF vars, stubVars
  <2> QED BY <2>1, <2>2, <2>3, <2>4 DEF Next, StubStep
<1> QED BY <1>1, <1>2, <1>3, <1>4, <1>5

LEMMA StoreInit == Init => StoreInv
<1> SUFFICES ASSUME Init PROVE StoreInv
  OBVIOUS
<1>1. /\ memory = [a \in Addresses |-> 0] /\ x1 = 0 /\ mepc = 0 /\ last_reply = <<>>
  BY DEF Init, StubInit
<1> QED BY <1>1, CleanReplies DEF StoreInv

(* The debugger reads sequences.                                           *)
ReadInv == IsSeq(to_host) /\ IsSeq(dbg_in)

LEMMA SeqAppend ==
  ASSUME NEW s, IsSeq(s), NEW e
  PROVE  IsSeq(Append(s, e))
BY AppendIs, SeqOfOne, SeqJoin

LEMMA ReadStep == ReadInv /\ [Next]_vars => ReadInv'
<1> SUFFICES ASSUME ReadInv, [Next]_vars PROVE ReadInv'
  OBVIOUS
<1>1. UNCHANGED to_host \/ (to_host # <<>> /\ to_host' = Tail(to_host))
      \/ \E b : to_host' = Append(to_host, b)
  BY DEF Next, StubStep, PutByte, Deliver, GarbleInput, FramingError, LoseOutput, Receive, Ask,
         Read, Timeout, vars, lineVars
<1>2. IsSeq(to_host')
  BY <1>1, SeqAppend, SeqTail DEF ReadInv
<1>3. UNCHANGED dbg_in \/ dbg_in' = <<>> \/ \E b : dbg_in' = <<b>> \/ dbg_in' = Append(dbg_in, b)
  <2>1. Read => UNCHANGED dbg_in \/ dbg_in' = <<>>
                \/ \E b : dbg_in' = <<b>> \/ dbg_in' = Append(dbg_in, b)
    BY DEF Read, ReadMark, ReadPacket
  <2>2. Timeout \/ (\E cmd \in Commands : Ask(cmd)) => dbg_in' = <<>>
    BY DEF Ask, Timeout
  <2> QED BY <2>1, <2>2 DEF Next, StubStep, PutByte, Deliver, GarbleInput, FramingError, LoseOutput,
                            Receive, vars, dbgVars
<1>4. IsSeq(dbg_in')
  BY <1>3, SeqAppend, SeqOfOne, SeqOfNone DEF ReadInv
<1> QED BY <1>2, <1>4 DEF ReadInv

(***************************************************************************)
(* The turns of the stub, the line and the debugger.                       *)
(***************************************************************************)
Inbound == (IF rx_valid THEN <<rx_data>> ELSE <<>>) \o to_board
Sent == to_host \o out

Talking == Dialogue(Inbound, Sent, dbg_in, Len(asked), q, parser_state, mode, dbg)
AskedInv == /\ dbg = "idle" => \A i \in DOMAIN accepted : accepted[i].q = Len(asked)
            /\ asked = <<>> => ~debugger_attached
Turning == rx_errors = FALSE /\ AskedInv /\ Talking
TurnInv == NaksMeant => Turning

BaseInv == TalkInv /\ StoreInv /\ ReadInv /\ FaultInv

LEMMA LinesAre ==
  ASSUME BaseInv
  PROVE  /\ IsSeq(Inbound) /\ Len(Inbound) \in Nat /\ IsSeq(Sent) /\ Len(Sent) \in Nat
         /\ IsSeq(to_board) /\ IsSeq(to_host) /\ IsSeq(out)
         /\ IsSeq(dbg_in) /\ Len(dbg_in) \in Nat /\ Len(asked) \in Nat
         /\ asked = <<>> <=> Len(asked) = 0
<1>1. IsSeq(to_board) /\ IsSeq(to_host) /\ IsSeq(out) /\ IsSeq(dbg_in) /\ asked \in Seq(Commands)
  BY DEF BaseInv, TalkInv, TagInv, SaidInv, ReadInv
<1>2. IsSeq(Sent)
  BY <1>1, SeqJoin DEF Sent
<1>3. PICK h : h = IF rx_valid THEN <<rx_data>> ELSE <<>>
  OBVIOUS
<1>4. IsSeq(h)
  BY <1>3, SeqOfOne, SeqOfNone
<1>5. IsSeq(Inbound)
  BY <1>1, <1>3, <1>4, SeqJoin DEF Inbound
<1> QED BY <1>1, <1>2, <1>5, SeqLength

LEMMA InboundHeld ==
  ASSUME BaseInv, rx_valid
  PROVE  Drops(Inbound, to_board) /\ Inbound[1] = rx_data
<1>1. PICK h : h = <<rx_data>>
  OBVIOUS
<1>2. IsSeq(h) /\ Len(h) = 1 /\ h[1] = rx_data
  BY <1>1, SeqOfOne
<1>3. Inbound = h \o to_board
  BY <1>1 DEF Inbound
<1>4. Joins(h, to_board, Inbound)
  BY <1>2, <1>3, LinesAre, JoinsIs
<1>5. Len(to_board) \in Nat /\ Len(Inbound) = Len(to_board) + 1
  BY <1>2, <1>4 DEF Joins
<1>6. Inbound[1] = rx_data
  <2>1. 1 \in 1 .. Len(Inbound) /\ 1 <= Len(h)
    BY <1>2, <1>5
  <2> QED BY <1>2, <1>4, <2>1 DEF Joins
<1>7. ASSUME NEW i \in 1 .. Len(to_board) PROVE to_board[i] = Inbound[i + 1]
  <2>1. i + 1 \in 1 .. Len(Inbound) /\ ~(i + 1 <= Len(h)) /\ (i + 1) - Len(h) = i
    BY <1>2, <1>5
  <2> QED BY <1>4, <2>1 DEF Joins
<1> QED BY <1>5, <1>6, <1>7 DEF Drops

LEMMA InboundEmpty ==
  ASSUME BaseInv, ~rx_valid
  PROVE  Inbound = to_board
BY LinesAre, NoneJoins DEF Inbound

LEMMA InboundEmptyNext ==
  ASSUME BaseInv, ~rx_valid', UNCHANGED to_board
  PROVE  Inbound' = to_board
<1>1. Inbound' = <<>> \o to_board
  BY DEF Inbound
<1> QED BY <1>1, LinesAre, NoneJoins

LEMMA SentJoins ==
  ASSUME BaseInv, NEW T, IsSeq(T)
  PROVE  Sent \o T = to_host \o (out \o T)
<1>1. IsSeq(to_host) /\ IsSeq(out)
  BY LinesAre
<1>2. (to_host \o out) \o T = to_host \o (out \o T)
  BY <1>1, SeqAssoc
<1> QED BY <1>2 DEF Sent

LEMMA SentMore ==
  ASSUME BaseInv, UNCHANGED to_host, NEW T, IsSeq(T), out' = out \o T
  PROVE  Joins(Sent, T, Sent') /\ Sent' = Sent \o T
<1>1. Sent' = to_host \o (out \o T)
  BY DEF Sent
<1>2. Sent \o T = to_host \o (out \o T)
  BY SentJoins
<1>3. Sent' = Sent \o T
  BY <1>1, <1>2
<1>4. Joins(Sent, T, Sent \o T)
  BY LinesAre, JoinsIs
<1> QED BY <1>3, <1>4

(* The stub's part.                                                        *)
LEMMA TurnStop ==
  ASSUME BaseInv, Turning, Stop, UNCHANGED <<lineVars, dbgVars>>
  PROVE  Turning'
<1>1. /\ mode = "run" /\ mode' = "loop" /\ parser_state' = "WAIT_START"
      /\ UNCHANGED <<rxVars, debugger_attached, q>>
      /\ \/ out' = out
         \/ /\ debugger_attached
            /\ \E r : CleanText(r) /\ out' = out \o Tagged(Frame(r), q)
  BY StopSays
<1>2. UNCHANGED <<to_board, to_host, dbg, dbg_in, asked, accepted>>
  BY DEF lineVars, dbgVars
<1>3. Inbound' = Inbound /\ rx_errors' = rx_errors
  BY <1>1, <1>2 DEF Inbound, rxVars
<1>4. AskedInv'
  BY <1>1, <1>2 DEF Turning, AskedInv
<1>5. \/ Sent' = Sent
      \/ Len(asked) # 0 /\ \E T : Packet(T, q) /\ Joins(Sent, T, Sent')
  <2>1. CASE out' = out
    BY <1>2, <2>1 DEF Sent
  <2>2. ASSUME debugger_attached, NEW r, CleanText(r), out' = out \o Tagged(Frame(r), q)
        PROVE  Len(asked) # 0 /\ \E T : Packet(T, q) /\ Joins(Sent, T, Sent')
    <3>1. Packet(Tagged(Frame(r), q), q) /\ IsSeq(Tagged(Frame(r), q))
      BY <2>2, PacketOf
    <3>2. Joins(Sent, Tagged(Frame(r), q), Sent')
      BY <1>2, <2>2, <3>1, SentMore
    <3>3. Len(asked) # 0
      BY <2>2, LinesAre DEF Turning, AskedInv
    <3> QED BY <3>1, <3>2, <3>3
  <2> QED BY <1>1, <2>1, <2>2
<1>6. Dialogue(Inbound, Sent', dbg_in, Len(asked), q, parser_state', mode', dbg)
  <2>1. parser_state' \notin Active /\ mode' # "run"
    BY <1>1 DEF Active
  <2>2. Dialogue(Inbound, Sent, dbg_in, Len(asked), q, parser_state, "run", dbg)
    BY <1>1 DEF Turning, Talking
  <2> QED BY <1>5, <2>1, <2>2, LinesAre, TurnStops
<1>7. Talking'
  BY <1>1, <1>2, <1>3, <1>6 DEF Talking
<1> QED BY <1>3, <1>4, <1>7 DEF Turning

LEMMA TurnCheckErrors ==
  ASSUME BaseInv, Turning, CheckErrors, UNCHANGED <<lineVars, dbgVars>>
  PROVE  Turning'
<1>1. /\ mode = "loop" /\ mode' = "getc"
      /\ UNCHANGED <<parserVars, out, rx_errors, rx_valid, rx_data, debugger_attached, q>>
  BY DEF CheckErrors, Turning
<1>2. UNCHANGED <<to_board, to_host, dbg, dbg_in, asked, accepted>>
  BY DEF lineVars, dbgVars
<1>3. Inbound' = Inbound /\ Sent' = Sent /\ parser_state' = parser_state
  BY <1>1, <1>2 DEF Inbound, Sent, parserVars
<1>4. AskedInv'
  BY <1>1, <1>2 DEF Turning, AskedInv
<1>5. Dialogue(Inbound, Sent, dbg_in, Len(asked), q, parser_state, mode', dbg)
  BY <1>1, TurnGoesOn DEF Turning, Talking
<1>6. Talking'
  BY <1>1, <1>2, <1>3, <1>5 DEF Talking
<1> QED BY <1>1, <1>4, <1>6 DEF Turning

(* What the stub does with a byte.                                         *)
Starts == rx_data.c = "$" /\ parser_state' = "PAYLOAD" /\ payload' = <<>> /\ out' = out
Skips == /\ rx_data.c # "$" /\ parser_state \notin Active /\ parser_state' \notin Active
         /\ \/ out' = out
            \/ rx_data.c = "-" /\ out' = out \o Tagged(Frame(last_reply), q)
Collects ==
  /\ rx_data.c # "$" /\ out' = out
  /\ \/ /\ parser_state = "PAYLOAD" /\ parser_state' = "PAYLOAD"
        /\ rx_data.c # "#" /\ payload' = Append(payload, rx_data.c)
     \/ /\ parser_state = "PAYLOAD" /\ parser_state' = "CHECKSUM_HIGH"
        /\ rx_data.c = "#" /\ payload' = payload
     \/ /\ parser_state = "CHECKSUM_HIGH" /\ parser_state' = "CHECKSUM_LOW"
        /\ payload' = payload
Naks == /\ rx_data.c # "$" /\ parser_state \in Active /\ parser_state' \notin Active
        /\ out' = out \o Tagged(<<"-">>, q)
Serves == /\ rx_data.c # "$" /\ parser_state = "CHECKSUM_LOW" /\ parser_state' \notin Active
          /\ debugger_attached' /\ q' = rx_data.q /\ DispatchPacket(payload, rx_data.q)

LEMMA HandlesByte ==
  ASSUME HandleByte
  PROVE  /\ mode = "getc" /\ rx_valid /\ ~rx_valid' /\ UNCHANGED rx_errors
         /\ \/ Serves
            \/ /\ Starts \/ Skips \/ Collects \/ Naks
               /\ mode' = "loop" /\ UNCHANGED <<debugger_attached, last_reply, q>>
<1>1. PICK event \in Events :
        /\ Feed(rx_data.c, event)
        /\ IF event = "READY"
           THEN debugger_attached' /\ q' = rx_data.q /\ DispatchPacket(payload, rx_data.q)
           ELSE mode' = "loop" /\ React(event) /\ UNCHANGED <<debugger_attached, last_reply, q>>
  BY DEF HandleByte
<1>2. mode = "getc" /\ rx_valid /\ ~rx_valid' /\ UNCHANGED rx_errors
  BY HandleByteIs
<1>3. CASE rx_data.c = "$"
  <2>1. event = "NONE" /\ ParserStart("PAYLOAD")
    BY <1>1, <1>3 DEF Feed
  <2>2. Starts
    BY <1>1, <1>3, <2>1 DEF Starts, ParserStart, React
  <2> QED BY <1>1, <1>2, <2>1, <2>2
<1>4. CASE rx_data.c # "$"
  <2>1. ParserStep(rx_data.c, event)
    BY <1>1, <1>4 DEF Feed
  <2>2. CASE WaitStart(rx_data.c, event) \/ Discard(event)
    <3>1. parser_state \notin Active /\ parser_state' \notin Active
      BY <2>2 DEF WaitStart, Discard, Goto, Active
    <3>2. event = "NONE" \/ (event = "RETRY" /\ rx_data.c = "-")
      BY <2>2 DEF WaitStart, Discard, Goto
    <3>3. Skips
      BY <1>1, <1>4, <3>1, <3>2 DEF Skips, React, Write
    <3> QED BY <1>1, <1>2, <3>2, <3>3
  <2>3. CASE Payload(rx_data.c, event)
    <3>1. CASE event = "OVERFLOW"
      <4>1. parser_state \in Active /\ parser_state' \notin Active
        BY <2>3, <3>1 DEF Payload, Goto, Active
      <4>2. Naks
        BY <1>1, <1>4, <3>1, <4>1 DEF Naks, React, Write
      <4> QED BY <1>1, <1>2, <3>1, <4>2
    <3>2. CASE event # "OVERFLOW"
      <4>1. event = "NONE" /\ out' = out
        BY <1>1, <2>3, <3>2 DEF Payload, Goto, React
      <4>2. Collects
        BY <1>4, <2>3, <3>2, <4>1 DEF Payload, Goto, Store, Collects
      <4> QED BY <1>1, <1>2, <4>1, <4>2
    <3> QED BY <3>1, <3>2
  <2>4. CASE ChecksumHigh(rx_data.c, event)
    <3>1. CASE event = "CHECKSUM_ERROR"
      <4>1. parser_state \in Active /\ parser_state' \notin Active
        BY <2>4, <3>1 DEF ChecksumHigh, Goto, Active
      <4>2. Naks
        BY <1>1, <1>4, <3>1, <4>1 DEF Naks, React, Write
      <4> QED BY <1>1, <1>2, <3>1, <4>2
    <3>2. CASE event # "CHECKSUM_ERROR"
      <4>1. event = "NONE" /\ out' = out
        BY <1>1, <2>4, <3>2 DEF ChecksumHigh, Goto, React
      <4>2. Collects
        BY <1>4, <2>4, <3>2, <4>1 DEF ChecksumHigh, Goto, Collects
      <4> QED BY <1>1, <1>2, <4>1, <4>2
    <3> QED BY <3>1, <3>2
  <2>5. CASE ChecksumLow(rx_data.c, event)
    <3>1. parser_state = "CHECKSUM_LOW" /\ parser_state \in Active /\ parser_state' \notin Active
      BY <2>5 DEF ChecksumLow, Goto, Active
    <3>2. event = "READY" \/ event = "CHECKSUM_ERROR"
      BY <2>5 DEF ChecksumLow, Goto
    <3>3. CASE event = "READY"
      BY <1>1, <1>2, <1>4, <3>1, <3>3 DEF Serves
    <3>4. CASE event = "CHECKSUM_ERROR"
      <4>1. Naks
        BY <1>1, <1>4, <3>1, <3>4 DEF Naks, React, Write
      <4> QED BY <1>1, <1>2, <3>4, <4>1
    <3> QED BY <3>2, <3>3, <3>4
  <2> QED BY <2>1, <2>2, <2>3, <2>4, <2>5 DEF ParserStep
<1> QED BY <1>3, <1>4

LEMMA TurnServed ==
  ASSUME BaseInv, Turning, HandleByte, Serves, UNCHANGED <<lineVars, dbgVars>>
  PROVE  /\ Dialogue(to_board, Sent', dbg_in, Len(asked), rx_data.q, parser_state', mode', dbg)
         /\ Len(asked) # 0 /\ dbg = "ack" /\ Has(Sent', "+") /\ Len(Sent) = 0 /\ ~Has(Inbound, "$")
         /\ mode' = "run" => Meaning(payload) \in Commands /\ Meaning(payload).op = "c"
<1>1. mode = "getc" /\ rx_valid /\ rx_data.c # "$" /\ parser_state = "CHECKSUM_LOW"
      /\ parser_state' \notin Active /\ DispatchPacket(payload, rx_data.q)
  BY HandlesByte DEF Serves
<1>2. Drops(Inbound, to_board) /\ Inbound[1] = rx_data
  BY <1>1, InboundHeld
<1>3. UNCHANGED to_host
  BY DEF lineVars
<1>4. PICK n : n = rx_data.q
  OBVIOUS
<1>5. \/ /\ mode' = "loop"
         /\ \E r : CleanText(r) /\ out' = out \o Tagged(<<"+">> \o Frame(r), n)
      \/ /\ mode' = "run" /\ out' = out \o Tagged(<<"+">>, n)
         /\ Meaning(payload) \in Commands /\ Meaning(payload).op = "c"
  <2>1. StoreInv /\ mode # "run" /\ DispatchPacket(payload, n)
    BY <1>1, <1>4 DEF BaseInv
  <2> QED BY <2>1, DispatchClean
<1>6. \E T : /\ Joins(Sent, T, Sent')
             /\ \/ Mark(T, "+", n)
                \/ /\ mode' # "run"
                   /\ \E A, P : Mark(A, "+", n) /\ Packet(P, n) /\ Joins(A, P, T)
  <2>1. CASE mode' = "run" /\ out' = out \o Tagged(<<"+">>, n)
    BY <1>3, <2>1, MarkOf, SentMore
  <2>2. ASSUME mode' = "loop", NEW r, CleanText(r), out' = out \o Tagged(<<"+">> \o Frame(r), n)
        PROVE  \E T : /\ Joins(Sent, T, Sent')
                      /\ \/ Mark(T, "+", n)
                         \/ /\ mode' # "run"
                            /\ \E A, P : Mark(A, "+", n) /\ Packet(P, n) /\ Joins(A, P, T)
    <3>1. PICK T : T = Tagged(<<"+">> \o Frame(r), n)
      OBVIOUS
    <3>2. IsSeq(T) /\ \E A, P : Mark(A, "+", n) /\ Packet(P, n) /\ Joins(A, P, T)
      BY <2>2, <3>1, AckedPacketOf
    <3>3. Joins(Sent, T, Sent')
      BY <1>3, <2>2, <3>1, <3>2, SentMore
    <3> QED BY <2>2, <3>2, <3>3
  <2> QED BY <1>5, <2>1, <2>2
<1>7. Dialogue(Inbound, Sent, dbg_in, Len(asked), q, "CHECKSUM_LOW", mode, dbg)
  BY <1>1 DEF Turning, Talking
<1>8. /\ Dialogue(to_board, Sent', dbg_in, Len(asked), n, parser_state', mode', dbg)
      /\ Len(asked) # 0 /\ dbg = "ack" /\ Has(Sent', "+") /\ Len(Sent) = 0 /\ ~Has(Inbound, "$")
  <2>1. mode # "run" /\ Inbound[1].c # "$" /\ n = Inbound[1].q
    BY <1>1, <1>2, <1>4
  <2>2. Len(Sent) \in Nat /\ Len(dbg_in) \in Nat
    BY LinesAre
  <2>3. PICK T : /\ Joins(Sent, T, Sent')
                 /\ \/ Mark(T, "+", Inbound[1].q)
                    \/ /\ mode' # "run"
                       /\ \E A, P : /\ Mark(A, "+", Inbound[1].q)
                                   /\ Packet(P, Inbound[1].q) /\ Joins(A, P, T)
    BY <1>6, <2>1
  <2>4. PICK I, S, S2, s2, md, md2 : /\ I = Inbound /\ S = Sent /\ S2 = Sent'
                                     /\ s2 = parser_state' /\ md = mode /\ md2 = mode'
    OBVIOUS
  <2>5. /\ Dialogue(to_board, S2, dbg_in, Len(asked), I[1].q, s2, md2, dbg)
        /\ Len(asked) # 0 /\ dbg = "ack" /\ Has(S2, "+") /\ Len(S) = 0 /\ ~Has(I, "$")
    BY <1>1, <1>2, <1>7, <2>1, <2>2, <2>3, <2>4, TurnServes
  <2> QED BY <2>1, <2>4, <2>5
<1>9. mode' = "run" => Meaning(payload) \in Commands /\ Meaning(payload).op = "c"
  BY <1>5
<1> QED BY <1>4, <1>8, <1>9

LEMMA TurnHandled ==
  ASSUME BaseInv, Turning, HandleByte, Starts \/ Skips \/ Collects \/ Naks, mode' = "loop",
         UNCHANGED <<lineVars, dbgVars, q>>
  PROVE  Dialogue(to_board, Sent', dbg_in, Len(asked), q, parser_state', mode', dbg)
<1>1. mode = "getc" /\ rx_valid /\ mode # "run" /\ mode' # "run" /\ UNCHANGED to_host
  BY HandlesByte DEF lineVars
<1>2. Drops(Inbound, to_board) /\ Inbound[1] = rx_data
  BY <1>1, InboundHeld
<1>3. Dialogue(Inbound, Sent, dbg_in, Len(asked), q, parser_state, mode, dbg)
  BY DEF Turning, Talking
<1>4. out' = out => Sent' = Sent
  BY <1>1 DEF Sent
<1>5. CASE Starts
  <2>1. Inbound[1].c = "$" /\ parser_state' = "PAYLOAD" /\ Sent' = Sent
    BY <1>2, <1>4, <1>5 DEF Starts
  <2> QED BY <1>1, <1>2, <1>3, <2>1, TurnBegins
<1>6. CASE Skips
  <2>1. parser_state' \notin Active
    BY <1>6 DEF Skips
  <2>2. CASE out' = out
    BY <1>1, <1>2, <1>3, <1>4, <2>1, <2>2, TurnSkips
  <2>3. CASE rx_data.c = "-" /\ out' = out \o Tagged(Frame(last_reply), q)
    <3>1. PICK T : T = Tagged(Frame(last_reply), q)
      OBVIOUS
    <3>2. Packet(T, q) /\ IsSeq(T)
      BY <3>1, PacketOf DEF BaseInv, StoreInv
    <3>3. Joins(Sent, T, Sent')
      BY <1>1, <2>3, <3>1, <3>2, SentMore
    <3> QED BY <1>1, <1>2, <1>3, <2>1, <2>3, <3>2, <3>3, LinesAre, TurnRepeats
  <2> QED BY <1>6, <2>2, <2>3 DEF Skips
<1>7. CASE Collects
  <2>1. /\ Inbound[1].c # "$" /\ Sent' = Sent
        /\ \/ parser_state = "PAYLOAD" /\ parser_state' = "PAYLOAD"
           \/ parser_state = "PAYLOAD" /\ parser_state' = "CHECKSUM_HIGH" /\ Inbound[1].c = "#"
           \/ parser_state = "CHECKSUM_HIGH" /\ parser_state' = "CHECKSUM_LOW"
    BY <1>2, <1>4, <1>7 DEF Collects
  <2> QED BY <1>1, <1>2, <1>3, <2>1, TurnCollects
<1>8. CASE Naks
  <2>1. PICK T : T = Tagged(<<"-">>, q)
    OBVIOUS
  <2>2. Mark(T, "-", q) /\ IsSeq(T)
    BY <2>1, MarkOf
  <2>3. Joins(Sent, T, Sent')
    BY <1>1, <1>8, <2>1, <2>2, SentMore DEF Naks
  <2>4. Inbound[1].c # "$" /\ parser_state \in Active /\ parser_state' \notin Active
    BY <1>2, <1>8 DEF Naks
  <2> QED BY <1>1, <1>2, <1>3, <2>2, <2>3, <2>4, TurnNaks
<1> QED BY <1>5, <1>6, <1>7, <1>8

LEMMA TurnHandleByte ==
  ASSUME BaseInv, Turning, HandleByte, UNCHANGED <<lineVars, dbgVars>>
  PROVE  Turning'
<1>1. /\ rx_valid /\ ~rx_valid' /\ UNCHANGED rx_errors
      /\ \/ Serves
         \/ /\ Starts \/ Skips \/ Collects \/ Naks
            /\ mode' = "loop" /\ UNCHANGED <<debugger_attached, last_reply, q>>
  BY HandlesByte
<1>2. UNCHANGED <<to_board, to_host, dbg, dbg_in, asked, accepted>>
  BY DEF lineVars, dbgVars
<1>3. Inbound' = to_board
  BY <1>1, <1>2, InboundEmptyNext
<1>4. Dialogue(to_board, Sent', dbg_in, Len(asked), q', parser_state', mode', dbg)
  <2>1. CASE Serves
    BY <2>1, TurnServed DEF Serves
  <2>2. CASE ~Serves
    BY <1>1, <2>2, TurnHandled
  <2> QED BY <2>1, <2>2
<1>5. AskedInv'
  <2>1. CASE Serves
    BY <1>2, <2>1, LinesAre, TurnServed DEF Turning, AskedInv
  <2>2. CASE ~Serves
    BY <1>1, <1>2, <2>2 DEF Turning, AskedInv
  <2> QED BY <2>1, <2>2
<1>6. Talking'
  BY <1>2, <1>3, <1>4 DEF Talking
<1> QED BY <1>1, <1>5, <1>6 DEF Turning

LEMMA TurnPutByte ==
  ASSUME BaseInv, Turning, PutByte
  PROVE  Turning' /\ Sent' = Sent /\ Inbound' = Inbound
<1>1. /\ out # <<>> /\ out' = Tail(out) /\ to_host' = Append(to_host, Head(out))
      /\ UNCHANGED <<mode, debugger_attached, q, parser_state, rx_valid, rx_data, rx_errors,
                     to_board, dbg, dbg_in, asked, accepted>>
  BY DEF PutByte, parserVars, rxVars, dbgVars
<1>2. PICK h : h = <<Head(out)>>
  OBVIOUS
<1>3. IsSeq(h) /\ IsSeq(Tail(out)) /\ h \o Tail(out) = out
  BY <1>1, <1>2, LinesAre, SeqOfOne, DropsIs, HeadJoinsTail
<1>4. Append(to_host, Head(out)) = to_host \o h
  BY <1>2, LinesAre, AppendIs
<1>5. (to_host \o h) \o Tail(out) = to_host \o out
  <2>1. PICK s, t : s = to_host /\ t = Tail(out)
    OBVIOUS
  <2>2. IsSeq(s) /\ IsSeq(h) /\ IsSeq(t)
    BY <1>3, <2>1, LinesAre
  <2>3. (s \o h) \o t = s \o (h \o t)
    BY <2>2, SeqAssoc
  <2> QED BY <1>3, <2>1, <2>3
<1>6. Sent' = Sent
  BY <1>1, <1>4, <1>5 DEF Sent
<1>7. Inbound' = Inbound /\ AskedInv'
  BY <1>1 DEF Inbound, Turning, AskedInv
<1>8. Talking'
  BY <1>1, <1>6, <1>7 DEF Turning, Talking
<1> QED BY <1>1, <1>6, <1>7, <1>8 DEF Turning

(* No byte finds the receiver full: where the stub is busy, nothing comes. *)
LEMMA NoOverrun ==
  ASSUME BaseInv, Turning, Arrives
  PROVE  /\ ~rx_valid /\ to_board # <<>> /\ Inbound = to_board
         /\ Len(to_board) \in Nat \ {0} /\ Head(to_board) = to_board[1]
<1>1. to_board # <<>> /\ (Free => ~rx_valid \/ mode = "run")
  BY DEF Arrives
<1>2. IsSeq(to_board) /\ Len(to_board) \in Nat \ {0} /\ Head(to_board) = to_board[1]
  BY <1>1, LinesAre, SeqTail
<1>3. ~rx_valid
  <2> SUFFICES ASSUME rx_valid PROVE FALSE
    OBVIOUS
  <2>1. Len(Inbound) # 0
    BY InboundHeld DEF Drops
  <2>2. mode # "run" /\ (Len(Sent) # 0 => Sent[1].c = "-" /\ Len(Sent) = 1)
    <3>1. mode # "run" /\ (Len(Sent) # 0 => Sent[1].c = "-")
      BY <2>1 DEF Turning, Talking, Dialogue, Turns
    <3>2. ASSUME Len(Sent) # 0 PROVE Len(Sent) = 1
      <4>1. 1 \in 1 .. Len(Sent)
        BY <3>2, LinesAre
      <4> QED BY <3>1, <3>2, <4>1 DEF Turning, Talking, Dialogue, SentShape
    <3> QED BY <3>1, <3>2
  <2>3. ~(Len(out) <= 1)
    BY <1>1, <2>2 DEF Free
  <2>4. Len(Sent) = Len(to_host) + Len(out) /\ Len(to_host) \in Nat /\ Len(out) \in Nat
    BY LinesAre, SeqJoin DEF Sent
  <2> QED BY <2>2, <2>3, <2>4
<1> QED BY <1>1, <1>2, <1>3, InboundEmpty

LEMMA TurnDeliver ==
  ASSUME BaseInv, Turning, Deliver
  PROVE  Turning' /\ Sent' = Sent /\ Inbound' = Inbound
<1>1. Arrives
  BY DEF Deliver, Receive
<1>2. ~rx_valid /\ to_board # <<>> /\ Inbound = to_board
  BY <1>1, NoOverrun
<1>3. /\ rx_valid' /\ rx_data' = Head(to_board) /\ rx_errors' = rx_errors
      /\ to_board' = Tail(to_board)
      /\ UNCHANGED <<mode, out, debugger_attached, q, parser_state, to_host,
                     dbg, dbg_in, asked, accepted>>
  BY <1>2 DEF Deliver, Receive, Arrives, stubVars, parserVars, dbgVars
<1>4. Inbound' = <<Head(to_board)>> \o Tail(to_board)
  BY <1>3 DEF Inbound
<1>5. Inbound' = Inbound
  BY <1>2, <1>4, LinesAre, HeadJoinsTail
<1>6. Sent' = Sent /\ AskedInv'
  BY <1>3 DEF Sent, Turning, AskedInv
<1>7. Talking'
  BY <1>3, <1>5, <1>6 DEF Turning, Talking
<1> QED BY <1>3, <1>5, <1>6, <1>7 DEF Turning

(* A byte is hit.                                                          *)
Hit(I, J) == /\ Len(I) \in Nat \ {0} /\ Len(J) = Len(I)
             /\ J[1].c = Junk /\ J[1].q = I[1].q
             /\ \A i \in 2 .. Len(I) : J[i] = I[i]

LEMMA TurnGarble ==
  ASSUME BaseInv, Turning, GarbleInput, ForeignJunk
  PROVE  Turning' /\ Sent' = Sent /\ Hit(Inbound, Inbound')
<1>1. Arrives
  BY DEF GarbleInput, Receive
<1>2. /\ ~rx_valid /\ to_board # <<>> /\ Inbound = to_board
      /\ Len(to_board) \in Nat \ {0} /\ Head(to_board) = to_board[1]
  BY <1>1, NoOverrun
<1>3. PICK b : b = [Head(to_board) EXCEPT !.c = Junk]
  OBVIOUS
<1>4. b.c = Junk /\ b.q = to_board[1].q
  <2>1. to_board[1] = [c |-> to_board[1].c, q |-> to_board[1].q]
    BY <1>2 DEF BaseInv, TalkInv, TagInv, IsByte
  <2>2. [Head(to_board) EXCEPT !.c = Junk] = [c |-> Junk, q |-> to_board[1].q]
    BY <1>2, <2>1
  <2> QED BY <1>3, <2>2
<1>5. /\ rx_valid' /\ rx_data' = b /\ rx_errors' = rx_errors
      /\ to_board' = Tail(to_board)
      /\ UNCHANGED <<mode, out, debugger_attached, q, parser_state, to_host,
                     dbg, dbg_in, asked, accepted>>
  BY <1>2, <1>3 DEF GarbleInput, Receive, Arrives, stubVars, parserVars, dbgVars
<1>6. PICK h : h = <<b>>
  OBVIOUS
<1>7. IsSeq(h) /\ Len(h) = 1 /\ h[1] = b
  BY <1>6, SeqOfOne
<1>8. Drops(to_board, Tail(to_board)) /\ IsSeq(Tail(to_board))
  BY <1>2, LinesAre, DropsIs
<1>9. Inbound' = h \o Tail(to_board)
  BY <1>5, <1>6 DEF Inbound
<1>10. Joins(h, Tail(to_board), Inbound')
  BY <1>7, <1>8, <1>9, JoinsIs
<1>11. Hit(to_board, Inbound')
  <2>1. Len(Inbound') = Len(to_board)
    BY <1>7, <1>8, <1>10 DEF Joins, Drops
  <2>2. Inbound'[1] = b
    <3>1. 1 \in 1 .. Len(Inbound') /\ 1 <= Len(h)
      BY <1>2, <1>7, <2>1
    <3> QED BY <1>7, <1>10, <3>1 DEF Joins
  <2>3. ASSUME NEW i \in 2 .. Len(to_board) PROVE Inbound'[i] = to_board[i]
    <3>1. /\ i \in 1 .. Len(Inbound') /\ ~(i <= Len(h)) /\ i - Len(h) = i - 1
          /\ i - 1 \in 1 .. Len(Tail(to_board)) /\ (i - 1) + 1 = i
      BY <1>2, <1>7, <1>8, <2>1 DEF Drops
    <3>2. Inbound'[i] = Tail(to_board)[i - 1]
      BY <1>10, <3>1 DEF Joins
    <3>3. Tail(to_board)[i - 1] = to_board[(i - 1) + 1]
      BY <1>8, <3>1 DEF Drops
    <3> QED BY <3>1, <3>2, <3>3
  <2> QED BY <1>2, <1>4, <2>1, <2>2, <2>3 DEF Hit
<1>12. Sent' = Sent /\ AskedInv'
  BY <1>5 DEF Sent, Turning, AskedInv
<1>13. Dialogue(Inbound', Sent, dbg_in, Len(asked), q, parser_state, mode, dbg)
  <2>1. Dialogue(to_board, Sent, dbg_in, Len(asked), q, parser_state, mode, dbg)
    BY <1>2 DEF Turning, Talking
  <2>2. Junk \notin {"$", "#", "-"}
    BY DEF ForeignJunk
  <2> QED BY <1>11, <2>1, <2>2, TurnHit DEF Hit
<1>14. Talking'
  BY <1>5, <1>12, <1>13 DEF Talking
<1> QED BY <1>2, <1>5, <1>11, <1>12, <1>14 DEF Turning

LEMMA SentLess ==
  ASSUME BaseInv, to_host # <<>>, to_host' = Tail(to_host), UNCHANGED out
  PROVE  Drops(Sent, Sent') /\ Head(to_host) = Sent[1]
<1>1. Drops(to_host, Tail(to_host)) /\ IsSeq(Tail(to_host)) /\ Head(to_host) = to_host[1]
  BY LinesAre, DropsIs
<1>2. Joins(to_host, out, Sent)
  BY LinesAre, JoinsIs DEF Sent
<1>3. Sent' = Tail(to_host) \o out
  BY DEF Sent
<1>4. Joins(Tail(to_host), out, Sent')
  BY <1>1, <1>3, LinesAre, JoinsIs
<1>5. /\ Len(Sent) = Len(to_host) + Len(out) /\ Len(Sent') = (Len(to_host) - 1) + Len(out)
      /\ Len(to_host) \in Nat \ {0} /\ Len(out) \in Nat /\ Len(Tail(to_host)) = Len(to_host) - 1
  BY <1>1, <1>2, <1>4 DEF Joins, Drops
<1>6. ASSUME NEW i \in 1 .. Len(Sent') PROVE Sent'[i] = Sent[i + 1]
  <2>1. i + 1 \in 1 .. Len(Sent)
    BY <1>5
  <2>2. CASE i <= Len(to_host) - 1
    <3>1. i \in 1 .. Len(Tail(to_host)) /\ i + 1 <= Len(to_host) /\ i <= Len(Tail(to_host))
      BY <1>5, <2>2
    <3>2. Sent'[i] = Tail(to_host)[i] /\ Sent[i + 1] = to_host[i + 1]
      BY <1>2, <1>4, <2>1, <3>1 DEF Joins
    <3> QED BY <1>1, <3>1, <3>2 DEF Drops
  <2>3. CASE ~(i <= Len(to_host) - 1)
    <3>1. /\ ~(i + 1 <= Len(to_host)) /\ ~(i <= Len(Tail(to_host)))
          /\ (i + 1) - Len(to_host) = i - Len(Tail(to_host))
      BY <1>5, <2>3
    <3>2. Sent'[i] = out[i - Len(Tail(to_host))] /\ Sent[i + 1] = out[(i + 1) - Len(to_host)]
      BY <1>2, <1>4, <2>1, <3>1 DEF Joins
    <3> QED BY <3>1, <3>2
  <2> QED BY <2>2, <2>3
<1>7. Sent[1] = to_host[1]
  <2>1. 1 \in 1 .. Len(Sent) /\ 1 <= Len(to_host)
    BY <1>5
  <2> QED BY <1>2, <2>1 DEF Joins
<1>8. Len(Sent) \in Nat \ {0} /\ Len(Sent') = Len(Sent) - 1
  BY <1>5
<1> QED BY <1>1, <1>6, <1>7, <1>8 DEF Drops

LEMMA TurnLoseOutput ==
  ASSUME BaseInv, Turning, LoseOutput
  PROVE  Turning' /\ Drops(Sent, Sent') /\ Inbound' = Inbound
<1>1. /\ to_host # <<>> /\ to_host' = Tail(to_host)
      /\ UNCHANGED <<mode, out, debugger_attached, q, parser_state, rx_valid, rx_data, rx_errors,
                     to_board, dbg, dbg_in, asked, accepted>>
  BY DEF LoseOutput, stubVars, parserVars, rxVars, dbgVars
<1>2. Drops(Sent, Sent')
  BY <1>1, SentLess
<1>3. Inbound' = Inbound /\ AskedInv'
  BY <1>1 DEF Inbound, Turning, AskedInv
<1>4. Dialogue(Inbound, Sent', dbg_in, Len(asked), q, parser_state, mode, dbg)
  BY <1>2, LinesAre, TurnLoses DEF Turning, Talking
<1>5. Talking'
  BY <1>1, <1>3, <1>4 DEF Talking
<1> QED BY <1>1, <1>2, <1>3, <1>5 DEF Turning

(***************************************************************************)
(* The debugger's part.                                                    *)
(***************************************************************************)
LEMMA SpeakerSilences ==
  ASSUME NEW I, NEW S, NEW D, NEW k, NEW m, NEW s, NEW md, NEW d,
         Dialogue(I, S, D, k, m, s, md, d), Len(S) # 0 \/ Len(D) # 0
  PROVE  ~Has(I, "$") /\ ~Has(I, "-") /\ s \notin Active
BY DEF Dialogue, Turns, Speaking, Coming

LEMMA NakHeard ==
  ASSUME NEW I, NEW S, NEW D, NEW k, NEW m, NEW s, NEW md, NEW d, NEW S2,
         Dialogue(I, S, D, k, m, s, md, d), Drops(S, S2), S[1].c = "-"
  PROVE  /\ Len(S) = 1 /\ Len(S2) = 0 /\ md # "run"
         /\ ~Has(I, "$") /\ ~Has(I, "-") /\ s \notin Active
<1>1. 1 \in 1 .. Len(S) /\ Len(S) # 0
  BY DEF Drops
<1>2. Has(S, "-")
  BY <1>1 DEF Has
<1>3. Len(S) = 1 /\ md # "run"
  BY <1>1, <1>2 DEF Dialogue, Turns, SentShape
<1> QED BY <1>1, <1>3, SpeakerSilences DEF Drops

LEMMA PacketHeard ==
  ASSUME NEW I, NEW S, NEW D, NEW k, NEW m, NEW s, NEW md, NEW d, NEW S2,
         Dialogue(I, S, D, k, m, s, md, d), Drops(S, S2), Len(I) \in Nat,
         Len(D) \in Nat, Len(D) >= 2, D[Len(D) - 1].c = "#"
  PROVE  /\ Len(S2) = 0 /\ Len(I) = 0 /\ md # "run" /\ s \notin Active
         /\ S[1].q = k /\ \A i \in 1 .. Len(D) : D[i].q = k
<1>1. 1 \in 1 .. Len(S) /\ Len(S) # 0 /\ Len(S) \in Nat
  BY DEF Drops
<1>2. PICK i : i = Len(D) - 1
  OBVIOUS
<1>3. Len(S) <= 1
  <2>1. i \in 1 .. Len(D) /\ Len(D) - i = 1 /\ D[i].c = "#"
    BY <1>2
  <2>2. 1 + Len(S) <= 2
    BY <2>1 DEF Dialogue, SentShape
  <2> QED BY <1>1, <2>2
<1>4. S[1].c # "-"
  BY <1>1 DEF Dialogue, SentShape
<1>5. S[1].q = k /\ \A j \in 1 .. Len(D) : D[j].q = k
  BY <1>1, <1>4 DEF Dialogue, SentShape
<1>6. Len(I) = 0 /\ md # "run" /\ s \notin Active
  BY <1>1, <1>4 DEF Dialogue, Turns, Speaking
<1> QED BY <1>1, <1>3, <1>5, <1>6 DEF Drops

LEMMA InboundMore ==
  ASSUME BaseInv, UNCHANGED rxVars, NEW T, IsSeq(T), to_board' = to_board \o T
  PROVE  Joins(Inbound, T, Inbound')
<1>1. PICK h : h = IF rx_valid THEN <<rx_data>> ELSE <<>>
  OBVIOUS
<1>2. IsSeq(h) /\ Inbound = h \o to_board
  BY <1>1, SeqOfOne, SeqOfNone DEF Inbound
<1>3. UNCHANGED <<rx_valid, rx_data>>
  BY DEF rxVars
<1>4. Inbound' = h \o (to_board \o T)
  BY <1>1, <1>3 DEF Inbound
<1>5. (h \o to_board) \o T = h \o (to_board \o T)
  <2>1. PICK b : b = to_board
    OBVIOUS
  <2>2. IsSeq(b)
    BY <2>1, LinesAre
  <2>3. (h \o b) \o T = h \o (b \o T)
    BY <1>2, <2>2, SeqAssoc
  <2> QED BY <2>1, <2>3
<1>6. Inbound' = Inbound \o T
  BY <1>2, <1>4, <1>5
<1> QED BY <1>6, LinesAre, JoinsIs

LEMMA InboundSame ==
  ASSUME UNCHANGED <<rxVars, to_board>>
  PROVE  Inbound' = Inbound
BY DEF rxVars, Inbound

(* What a request is.                                                      *)
LEMMA RequestOf ==
  ASSUME BaseInv, NaksMeant, Len(asked) # 0
  PROVE  request \in Commands /\ ~HasNak(request) /\ Len(asked) \in Nat \ {0}
<1>1. asked \in Seq(Commands) /\ Len(asked) \in Nat \ {0}
  BY LinesAre DEF BaseInv, TalkInv, TagInv
<1>2. Len(asked) \in 1 .. Len(asked) /\ DOMAIN asked = 1 .. Len(asked)
  BY <1>1
<1>3. asked[Len(asked)] \in Commands
  BY <1>1, <1>2, ElementOfSeq
<1> QED BY <1>1, <1>2, <1>3 DEF NaksMeant, request

Resent(text) == \E T : T = Tagged(text, Len(asked)) /\ Joins(Inbound, T, Inbound')

LEMMA TurnAsks ==
  ASSUME BaseInv, Turning, NaksMeant, dbg = "ack", Again(Frame(request.text)),
         UNCHANGED <<rxVars, asked>>, Len(Sent') = 0, Len(dbg_in') = 0, mode # "run",
         ~Has(Inbound, "$"), ~Has(Inbound, "-"), parser_state \in Active => Len(Inbound) = 0
  PROVE  /\ Dialogue(Inbound', Sent', dbg_in', Len(asked), q, parser_state, mode, dbg')
         /\ \/ dbg' = "gone" /\ Inbound' = Inbound
            \/ dbg' = "ack" /\ Resent(Frame(request.text))
<1>1. Dialogue(Inbound, Sent, dbg_in, Len(asked), q, parser_state, mode, dbg)
  BY DEF Turning, Talking
<1>2. Len(asked) # 0
  BY <1>1 DEF Dialogue, Turns
<1>3. PICK I, S, S2, D2 : I = Inbound /\ S = Sent /\ S2 = Sent' /\ D2 = dbg_in'
  OBVIOUS
<1>4. CASE dbg' = "gone" /\ UNCHANGED to_board
  <2>1. Inbound' = Inbound
    BY <1>4, InboundSame
  <2>2. Dialogue(I, S2, D2, Len(asked), q, parser_state, mode, "gone")
    BY <1>1, <1>3, TurnGivesUp
  <2> QED BY <1>3, <1>4, <2>1, <2>2
<1>5. CASE dbg' = dbg /\ Send(Frame(request.text), Len(asked))
  <2>1. PICK T, J : T = Tagged(Frame(request.text), Len(asked)) /\ J = Inbound'
    OBVIOUS
  <2>2. Asking(T, Len(asked)) /\ IsSeq(T) /\ Len(asked) \in Nat \ {0}
    BY <1>2, <2>1, RequestOf, AskingOf
  <2>3. Joins(I, T, J)
    BY <1>3, <1>5, <2>1, <2>2, InboundMore DEF Send
  <2>4. Dialogue(J, S2, D2, Len(asked), q, parser_state, mode, "ack")
    BY <1>1, <1>3, <2>2, <2>3, TurnSends
  <2> QED BY <1>3, <1>5, <2>1, <2>3, <2>4 DEF Resent
<1> QED BY <1>4, <1>5 DEF Again

LEMMA TurnNaksReply ==
  ASSUME BaseInv, Turning, dbg = "reply", Again(<<"-">>),
         UNCHANGED <<rxVars, asked>>, Len(Sent') = 0, Len(dbg_in') = 0, mode # "run",
         Len(Inbound) = 0
  PROVE  /\ Dialogue(Inbound', Sent', dbg_in', Len(asked), q, parser_state, mode, dbg')
         /\ \/ dbg' = "gone" /\ Inbound' = Inbound
            \/ dbg' = "reply" /\ Resent(<<"-">>)
<1>1. Dialogue(Inbound, Sent, dbg_in, Len(asked), q, parser_state, mode, dbg)
  BY DEF Turning, Talking
<1>2. parser_state \notin Active
  BY <1>1 DEF Dialogue, Turns
<1>3. PICK I, S, S2, D2 : I = Inbound /\ S = Sent /\ S2 = Sent' /\ D2 = dbg_in'
  OBVIOUS
<1>4. CASE dbg' = "gone" /\ UNCHANGED to_board
  <2>1. Inbound' = Inbound
    BY <1>4, InboundSame
  <2>2. ~Has(I, "$") /\ ~Has(I, "-")
    BY <1>3 DEF Has
  <2>3. Dialogue(I, S2, D2, Len(asked), q, parser_state, mode, "gone")
    BY <1>1, <1>2, <1>3, <2>2, TurnGivesUp
  <2> QED BY <1>3, <1>4, <2>1, <2>3
<1>5. CASE dbg' = dbg /\ Send(<<"-">>, Len(asked))
  <2>1. PICK T, J : T = Tagged(<<"-">>, Len(asked)) /\ J = Inbound'
    OBVIOUS
  <2>2. Mark(T, "-", Len(asked)) /\ IsSeq(T)
    BY <2>1, MarkOf
  <2>3. Joins(I, T, J)
    BY <1>3, <1>5, <2>1, <2>2, InboundMore DEF Send
  <2>4. Dialogue(J, S2, D2, Len(asked), q, parser_state, mode, "reply")
    BY <1>1, <1>2, <1>3, <2>2, <2>3, TurnMarks
  <2> QED BY <1>3, <1>5, <2>1, <2>3, <2>4 DEF Resent
<1> QED BY <1>4, <1>5 DEF Again

LEMMA TurnTimeout ==
  ASSUME BaseInv, Turning, NaksMeant, Timeout
  PROVE  /\ Turning' /\ Sent' = Sent /\ UNCHANGED <<asked, parserVars>>
         /\ \/ Inbound' = Inbound /\ dbg' = "gone"
            \/ dbg = "ack" /\ dbg' = "ack" /\ Resent(Frame(request.text))
            \/ dbg = "reply" /\ dbg' = "reply" /\ Resent(<<"-">>)
         /\ Len(Inbound) = 0
<1>1. /\ to_board = <<>> /\ to_host = <<>> /\ out = <<>> /\ mode = "getc" /\ ~rx_valid
      /\ dbg_in' = <<>>
      /\ UNCHANGED <<stubVars, parserVars, rxVars, to_host, asked, accepted>>
  BY DEF Timeout, Silent
<1>2. UNCHANGED <<mode, out, debugger_attached, q, parser_state, rx_errors>>
  BY <1>1 DEF stubVars, parserVars, rxVars
<1>3. Len(Inbound) = 0
  BY <1>1, InboundEmpty
<1>4. Sent' = Sent
  BY <1>1, <1>2 DEF Sent
<1>5. Len(Sent') = 0
  <2>1. <<>> \o <<>> = <<>>
    BY SeqOfNone, NoneJoins
  <2>2. Sent = <<>>
    BY <1>1, <2>1 DEF Sent
  <2> QED BY <1>4, <2>2
<1>6. Len(dbg_in') = 0 /\ mode # "run" /\ ~Has(Inbound, "$") /\ ~Has(Inbound, "-")
  BY <1>1, <1>3 DEF Has
<1>7. /\ Dialogue(Inbound', Sent', dbg_in', Len(asked), q, parser_state, mode, dbg')
      /\ \/ Inbound' = Inbound /\ dbg' = "gone"
         \/ dbg = "ack" /\ dbg' = "ack" /\ Resent(Frame(request.text))
         \/ dbg = "reply" /\ dbg' = "reply" /\ Resent(<<"-">>)
  <2>1. CASE dbg = "ack" /\ Again(Frame(request.text))
    BY <1>1, <1>3, <1>5, <1>6, <2>1, TurnAsks
  <2>2. CASE dbg = "reply" /\ Again(<<"-">>)
    BY <1>1, <1>3, <1>5, <1>6, <2>2, TurnNaksReply
  <2> QED BY <2>1, <2>2 DEF Timeout
<1>8. AskedInv'
  BY <1>1, <1>2, <1>7 DEF Turning, AskedInv
<1>9. Talking'
  BY <1>1, <1>2, <1>7 DEF Talking
<1> QED BY <1>1, <1>2, <1>3, <1>4, <1>7, <1>8, <1>9 DEF Turning

(* It reads a byte.                                                        *)
LEMMA ReadsByte ==
  ASSUME BaseInv, Read
  PROVE  /\ dbg \in {"ack", "reply"} /\ to_host # <<>> /\ Drops(Sent, Sent')
         /\ UNCHANGED <<stubVars, parserVars, rxVars, asked, mode, out, debugger_attached, q,
                        parser_state, rx_errors>>
         /\ \/ dbg_in = <<>> /\ Sent[1].c # "$" /\ ReadMark(Sent[1])
            \/ /\ Sent[1].c # "$" /\ dbg_in # <<>>
               /\ Complete(Append(dbg_in, Sent[1])) /\ ReadPacket(Append(dbg_in, Sent[1]))
            \/ /\ \/ dbg_in # <<>> /\ dbg_in' = Append(dbg_in, Sent[1])
                  \/ Sent[1].c = "$" /\ dbg_in' = <<Sent[1]>>
               /\ UNCHANGED <<dbg, to_board, accepted>>
<1>1. /\ dbg \in {"ack", "reply"} /\ to_host # <<>> /\ to_host' = Tail(to_host)
      /\ UNCHANGED <<stubVars, parserVars, rxVars, asked>>
  BY DEF Read
<1>2. UNCHANGED <<mode, out, debugger_attached, q, parser_state, rx_errors>>
  BY <1>1 DEF stubVars, parserVars, rxVars
<1>3. Drops(Sent, Sent') /\ Head(to_host) = Sent[1]
  BY <1>1, <1>2, SentLess
<1>4. PICK b : b = Head(to_host)
  OBVIOUS
<1>5. PICK bytes : bytes = IF b.c = "$" THEN <<b>> ELSE Append(dbg_in, b)
  OBVIOUS
<1>6. \/ dbg_in = <<>> /\ b.c # "$" /\ ReadMark(b)
      \/ Complete(bytes) /\ dbg_in # <<>> /\ ReadPacket(bytes)
      \/ /\ dbg_in # <<>> \/ b.c = "$"
         /\ dbg_in' = bytes /\ UNCHANGED <<dbg, to_board, accepted>>
  BY <1>4, <1>5 DEF Read
<1>7. b.c = "$" => ~Complete(bytes)
  <2>1. Len(<<b>>) = 1
    OBVIOUS
  <2> QED BY <1>5, <2>1 DEF Complete
<1> QED BY <1>1, <1>2, <1>3, <1>4, <1>5, <1>6, <1>7

LEMMA TurnReadMark ==
  ASSUME BaseInv, Turning, NaksMeant, Read, dbg_in = <<>>, ReadMark(Sent[1])
  PROVE  /\ Dialogue(Inbound', Sent', dbg_in', Len(asked), q, parser_state, mode, dbg')
         /\ dbg' # "idle" /\ accepted' = accepted
         /\ \/ /\ dbg = "ack" /\ Sent[1].c = "-" /\ dbg' = "ack" /\ Resent(Frame(request.text))
               /\ ~Has(Inbound, "$") /\ ~Has(Inbound, "-") /\ parser_state \notin Active
            \/ Inbound' = Inbound /\ (dbg' = "ack" => dbg = "ack" /\ Sent[1].c # "+")
<1>1. dbg \in {"ack", "reply"} /\ Drops(Sent, Sent') /\ UNCHANGED <<rxVars, asked>>
  BY ReadsByte
<1>2. Dialogue(Inbound, Sent, dbg_in, Len(asked), q, parser_state, mode, dbg)
  BY DEF Turning, Talking
<1>3. PICK I, S, S2 : I = Inbound /\ S = Sent /\ S2 = Sent'
  OBVIOUS
<1>4. UNCHANGED <<dbg_in, accepted>> /\ Len(dbg_in) = 0 /\ Len(dbg_in) \in Nat
  BY LinesAre DEF ReadMark
<1>5. CASE dbg = "ack" /\ Sent[1].c = "-"
  <2>1. /\ Len(Sent') = 0 /\ mode # "run"
        /\ ~Has(Inbound, "$") /\ ~Has(Inbound, "-") /\ parser_state \notin Active
    <3>1. /\ Len(S2) = 0 /\ mode # "run"
          /\ ~Has(I, "$") /\ ~Has(I, "-") /\ parser_state \notin Active
      BY <1>1, <1>2, <1>3, <1>5, NakHeard
    <3> QED BY <1>3, <3>1
  <2>2. Again(Frame(request.text)) /\ Len(dbg_in') = 0
    BY <1>4, <1>5 DEF ReadMark
  <2>3. /\ Dialogue(Inbound', Sent', dbg_in', Len(asked), q, parser_state, mode, dbg')
        /\ \/ dbg' = "gone" /\ Inbound' = Inbound
           \/ dbg' = "ack" /\ Resent(Frame(request.text))
    BY <1>1, <1>5, <2>1, <2>2, TurnAsks
  <2> QED BY <1>4, <1>5, <2>1, <2>3
<1>6. CASE ~(dbg = "ack" /\ Sent[1].c = "-")
  <2>1. UNCHANGED to_board /\ IF dbg = "ack" /\ Sent[1].c = "+" THEN dbg' = "reply" ELSE dbg' = dbg
    BY <1>6 DEF ReadMark
  <2>2. Inbound' = Inbound
    BY <1>1, <2>1, InboundSame
  <2>3. CASE dbg = "ack" /\ Sent[1].c = "+"
    <3>1. Dialogue(I, S2, dbg_in, Len(asked), q, parser_state, mode, "reply")
      BY <1>1, <1>2, <1>3, <1>4, <2>3, TurnHears
    <3> QED BY <1>3, <1>4, <2>1, <2>2, <2>3, <3>1
  <2>4. CASE ~(dbg = "ack" /\ Sent[1].c = "+")
    <3>1. Dialogue(I, S2, dbg_in, Len(asked), q, parser_state, mode, dbg)
      BY <1>1, <1>2, <1>3, <1>4, TurnLoses
    <3> QED BY <1>1, <1>3, <1>4, <2>1, <2>2, <2>4, <3>1
  <2> QED BY <2>3, <2>4
<1> QED BY <1>5, <1>6

(* The reply that is accepted.                                             *)
LEMMA BodyTags ==
  ASSUME NEW bytes, IsSeq(bytes), NEW k, \A i \in 1 .. Len(bytes) : bytes[i].q = k
  PROVE  \A i \in DOMAIN Body(bytes) : Body(bytes)[i].q = k
<1>1. Len(bytes) \in Nat
  BY DEF IsSeq
<1>2. PICK s : s = Body(bytes)
  OBVIOUS
<1>3. PICK V : V = {bytes[i] : i \in 1 .. Len(bytes)}
  OBVIOUS
<1>4. \A i \in 2 .. Len(bytes) - 3 : bytes[i] \in V
  BY <1>1, <1>3
<1>5. 2 \in Int /\ Len(bytes) - 3 \in Int
  BY <1>1
<1>6. s \in Seq(V)
  BY <1>2, <1>4, <1>5, SubSeqProperties DEF Body
<1>7. \A v \in V : v.q = k
  BY <1>3
<1>8. \A i \in DOMAIN s : s[i] \in V
  BY <1>6
<1> QED BY <1>2, <1>7, <1>8

LEMMA TurnReadPacket ==
  ASSUME BaseInv, Turning, Read, dbg_in # <<>>, NEW bytes, bytes = Append(dbg_in, Sent[1]),
         Complete(bytes), ReadPacket(bytes)
  PROVE  /\ Dialogue(Inbound', Sent', dbg_in', Len(asked), q, parser_state, mode, dbg')
         /\ dbg' = "idle" => \A i \in DOMAIN accepted' : accepted'[i].q = Len(asked)
         /\ Len(Inbound) = 0 /\ parser_state \notin Active
         /\ (dbg' = "ack" => dbg = "ack" /\ Sent[1].c # "+")
         /\ Inbound' = Inbound \/ Resent(<<"-">>) \/ Resent(<<"+">>)
<1>1. dbg \in {"ack", "reply"} /\ Drops(Sent, Sent') /\ UNCHANGED <<rxVars, asked>>
  BY ReadsByte
<1>2. Dialogue(Inbound, Sent, dbg_in, Len(asked), q, parser_state, mode, dbg)
  BY DEF Turning, Talking
<1>3. PICK I, S, S2, D2 : I = Inbound /\ S = Sent /\ S2 = Sent' /\ D2 = dbg_in'
  OBVIOUS
<1>4. PICK b : b = <<Sent[1]>>
  OBVIOUS
<1>5. IsSeq(b) /\ Len(b) = 1 /\ b[1] = Sent[1]
  BY <1>4, SeqOfOne
<1>6. IsSeq(bytes) /\ Joins(dbg_in, b, bytes)
  <2>1. bytes = dbg_in \o b
    BY <1>4, LinesAre, AppendIs
  <2> QED BY <1>5, <2>1, LinesAre, JoinsIs
<1>7. /\ Len(dbg_in) \in Nat /\ Len(bytes) = Len(dbg_in) + 1 /\ Len(dbg_in) >= 2
      /\ dbg_in[Len(dbg_in) - 1].c = "#" /\ Len(dbg_in) # 0
  <2>1. Len(dbg_in) \in Nat /\ Len(bytes) = Len(dbg_in) + 1 /\ Len(bytes) > 2
    BY <1>5, <1>6, LinesAre DEF Joins, Complete
  <2>2. PICK i : i = Len(bytes) - 2
    OBVIOUS
  <2>3. i \in 1 .. Len(bytes) /\ i <= Len(dbg_in) /\ i = Len(dbg_in) - 1 /\ bytes[i].c = "#"
    BY <2>1, <2>2 DEF Complete
  <2>4. dbg_in[i].c = "#"
    BY <1>6, <2>3 DEF Joins
  <2> QED BY <2>1, <2>3, <2>4
<1>8. /\ Len(S2) = 0 /\ Len(I) = 0 /\ mode # "run" /\ parser_state \notin Active
      /\ S[1].q = Len(asked) /\ \A i \in 1 .. Len(dbg_in) : dbg_in[i].q = Len(asked)
  BY <1>1, <1>2, <1>3, <1>7, LinesAre, PacketHeard
<1>9. dbg_in' = <<>> /\ Len(dbg_in') = 0
  BY DEF ReadPacket
<1>10. Sent[1].c # "+"
  <2>1. 1 \in 1 .. Len(Sent)
    BY <1>1 DEF Drops
  <2> QED BY <1>2, <1>7, <2>1 DEF Dialogue, SentShape
<1>11. CASE dbg = "reply" /\ Again(<<"-">>)
  <2>1. Len(Sent') = 0 /\ Len(Inbound) = 0
    BY <1>3, <1>8
  <2>2. /\ Dialogue(Inbound', Sent', dbg_in', Len(asked), q, parser_state, mode, dbg')
        /\ \/ dbg' = "gone" /\ Inbound' = Inbound
           \/ dbg' = "reply" /\ Resent(<<"-">>)
    BY <1>1, <1>8, <1>9, <1>11, <2>1, TurnNaksReply
  <2> QED BY <1>8, <2>1, <2>2
<1>12. CASE /\ Send(<<"+">>, Len(asked))
            /\ IF dbg = "reply" THEN dbg' = "idle" /\ accepted' = Body(bytes)
               ELSE UNCHANGED <<dbg, accepted>>
  <2>1. PICK T, J, d2 : T = Tagged(<<"+">>, Len(asked)) /\ J = Inbound' /\ d2 = dbg'
    OBVIOUS
  <2>2. Mark(T, "+", Len(asked)) /\ IsSeq(T)
    BY <2>1, MarkOf
  <2>3. Joins(I, T, J)
    BY <1>1, <1>3, <1>12, <2>1, <2>2, InboundMore DEF Send
  <2>4. d2 = dbg \/ (dbg = "reply" /\ d2 = "idle")
    BY <1>12, <2>1
  <2>5. Dialogue(J, S2, D2, Len(asked), q, parser_state, mode, d2)
    BY <1>1, <1>2, <1>3, <1>8, <1>9, <2>2, <2>3, <2>4, TurnMarks
  <2>6. Dialogue(Inbound', Sent', dbg_in', Len(asked), q, parser_state, mode, dbg')
    BY <1>3, <2>1, <2>5
  <2>7. ASSUME dbg' = "idle" PROVE \A i \in DOMAIN accepted' : accepted'[i].q = Len(asked)
    <3>1. accepted' = Body(bytes)
      BY <1>1, <1>12, <2>7
    <3>2. ASSUME NEW i \in 1 .. Len(bytes) PROVE bytes[i].q = Len(asked)
      <4>1. CASE i <= Len(dbg_in)
        <5>1. i \in 1 .. Len(dbg_in) /\ bytes[i] = dbg_in[i]
          BY <1>6, <1>7, <4>1 DEF Joins
        <5> QED BY <1>8, <5>1
      <4>2. CASE ~(i <= Len(dbg_in))
        <5>1. i - Len(dbg_in) = 1
          BY <1>7, <4>2
        <5>2. bytes[i] = Sent[1]
          BY <1>5, <1>6, <4>2, <5>1 DEF Joins
        <5> QED BY <1>3, <1>8, <5>2
      <4> QED BY <4>1, <4>2
    <3>3. PICK n : n = Len(asked)
      OBVIOUS
    <3>4. \A i \in DOMAIN Body(bytes) : Body(bytes)[i].q = n
      BY <1>6, <3>2, <3>3, BodyTags
    <3> QED BY <3>1, <3>3, <3>4
  <2>8. Resent(<<"+">>)
    BY <1>3, <2>1, <2>3 DEF Resent
  <2>9. dbg' = "ack" => dbg = "ack"
    BY <2>1, <2>4
  <2> QED BY <1>3, <1>8, <1>10, <2>6, <2>7, <2>8, <2>9
<1> QED BY <1>11, <1>12 DEF ReadPacket

LEMMA TurnReadOn ==
  ASSUME BaseInv, Turning, Read, UNCHANGED <<dbg, to_board>>,
         \/ dbg_in # <<>> /\ dbg_in' = Append(dbg_in, Sent[1])
         \/ Sent[1].c = "$" /\ dbg_in' = <<Sent[1]>>
  PROVE  /\ Dialogue(Inbound', Sent', dbg_in', Len(asked), q, parser_state, mode, dbg')
         /\ Inbound' = Inbound /\ Sent[1].c # "+"
<1>1. dbg \in {"ack", "reply"} /\ Drops(Sent, Sent') /\ UNCHANGED <<rxVars, asked>>
  BY ReadsByte
<1>2. Dialogue(Inbound, Sent, dbg_in, Len(asked), q, parser_state, mode, dbg)
  BY DEF Turning, Talking
<1>3. PICK I, S, S2, D2 : I = Inbound /\ S = Sent /\ S2 = Sent' /\ D2 = dbg_in'
  OBVIOUS
<1>4. PICK b : b = <<Sent[1]>>
  OBVIOUS
<1>5. IsSeq(b) /\ Len(b) = 1 /\ b[1] = Sent[1]
  BY <1>4, SeqOfOne
<1>6. Sent[1].c \notin {"+", "-"}
  <2>1. CASE dbg_in # <<>>
    <3>1. Len(dbg_in) # 0
      BY <2>1, LinesAre, SeqLength
    <3>2. 1 \in 1 .. Len(Sent)
      BY <1>1 DEF Drops
    <3> QED BY <1>2, <3>1, <3>2 DEF Dialogue, SentShape
  <2> QED BY <2>1
<1>7. Joins(dbg_in, b, D2) \/ (D2 = b /\ S[1].c = "$")
  <2>1. dbg_in' = Append(dbg_in, Sent[1]) => dbg_in' = dbg_in \o b
    BY <1>4, LinesAre, AppendIs
  <2>2. Joins(dbg_in, b, dbg_in \o b)
    BY <1>5, LinesAre, JoinsIs
  <2> QED BY <1>3, <1>4, <2>1, <2>2
<1>8. Dialogue(I, S2, D2, Len(asked), q, parser_state, mode, dbg)
  <2>1. Drops(S, S2) /\ S[1].c \notin {"+", "-"} /\ Len(b) = 1 /\ b[1] = S[1]
    BY <1>1, <1>3, <1>5, <1>6
  <2>2. Len(I) \in Nat /\ Len(dbg_in) \in Nat
    BY <1>3, LinesAre
  <2> QED BY <1>1, <1>2, <1>3, <1>7, <2>1, <2>2, TurnReadsOn
<1>9. Inbound' = Inbound
  BY <1>1, InboundSame
<1> QED BY <1>3, <1>6, <1>8, <1>9

LEMMA TurnRead ==
  ASSUME BaseInv, Turning, NaksMeant, Read
  PROVE  /\ Turning' /\ Drops(Sent, Sent') /\ UNCHANGED <<asked, parserVars>>
         /\ dbg' = "ack" => dbg = "ack" /\ Sent[1].c # "+"
         /\ \/ Inbound' = Inbound
            \/ /\ Resent(Frame(request.text))
               /\ ~Has(Inbound, "$") /\ ~Has(Inbound, "-") /\ parser_state \notin Active
            \/ /\ Resent(<<"-">>) \/ Resent(<<"+">>)
               /\ Len(Inbound) = 0 /\ parser_state \notin Active
<1>1. /\ dbg \in {"ack", "reply"} /\ Drops(Sent, Sent')
      /\ UNCHANGED <<parserVars, asked, mode, out, debugger_attached, q, parser_state, rx_errors>>
  BY ReadsByte
<1>2. /\ Dialogue(Inbound', Sent', dbg_in', Len(asked), q, parser_state, mode, dbg')
      /\ dbg' = "idle" => \A i \in DOMAIN accepted' : accepted'[i].q = Len(asked)
      /\ dbg' = "ack" => dbg = "ack" /\ Sent[1].c # "+"
      /\ \/ Inbound' = Inbound
         \/ /\ Resent(Frame(request.text))
            /\ ~Has(Inbound, "$") /\ ~Has(Inbound, "-") /\ parser_state \notin Active
         \/ /\ Resent(<<"-">>) \/ Resent(<<"+">>)
            /\ Len(Inbound) = 0 /\ parser_state \notin Active
  <2>1. CASE dbg_in = <<>> /\ ReadMark(Sent[1])
    <3>1. (Sent[1].c = "-") => Sent[1].c # "+"
      OBVIOUS
    <3> QED BY <2>1, <3>1, TurnReadMark
  <2>2. CASE /\ dbg_in # <<>>
             /\ Complete(Append(dbg_in, Sent[1])) /\ ReadPacket(Append(dbg_in, Sent[1]))
    <3>1. PICK bytes : bytes = Append(dbg_in, Sent[1])
      OBVIOUS
    <3> QED BY <2>2, <3>1, TurnReadPacket
  <2>3. CASE /\ \/ dbg_in # <<>> /\ dbg_in' = Append(dbg_in, Sent[1])
                \/ Sent[1].c = "$" /\ dbg_in' = <<Sent[1]>>
             /\ UNCHANGED <<dbg, to_board, accepted>>
    <3>1. dbg' # "idle" /\ dbg' = dbg
      BY <1>1, <2>3
    <3> QED BY <2>3, <3>1, TurnReadOn
  <2> QED BY <2>1, <2>2, <2>3, ReadsByte
<1>3. AskedInv'
  BY <1>1, <1>2 DEF Turning, AskedInv
<1>4. Talking'
  BY <1>1, <1>2 DEF Talking
<1> QED BY <1>1, <1>2, <1>3, <1>4 DEF Turning

(* It asks for the next thing.                                             *)
LEMMA AskedMore ==
  ASSUME BaseInv, NEW cmd \in Commands, Ask(cmd)
  PROVE  /\ Len(asked') = Len(asked) + 1 /\ asked' # <<>> /\ Len(asked') \in Nat \ {0}
         /\ asked'[Len(asked')] = cmd /\ \A i \in 1 .. Len(asked) : asked'[i] = asked[i]
         /\ asked' \in Seq(Commands)
<1>1. asked \in Seq(Commands) /\ asked' = Append(asked, cmd)
  BY DEF BaseInv, TalkInv, TagInv, Ask
<1>2. asked' \in Seq(Commands) /\ Len(asked') = Len(asked) + 1 /\ Len(asked) \in Nat
      /\ \A i \in 1 .. Len(asked) + 1 : asked'[i] = IF i <= Len(asked) THEN asked[i] ELSE cmd
  BY <1>1
<1>3. Len(asked) + 1 \in 1 .. Len(asked) + 1 /\ ~(Len(asked) + 1 <= Len(asked))
      /\ \A i \in 1 .. Len(asked) : i \in 1 .. Len(asked) + 1 /\ i <= Len(asked)
  BY <1>2
<1> QED BY <1>2, <1>3

LEMMA TurnAsk ==
  ASSUME BaseInv, Turning, NEW cmd \in Commands, Ask(cmd), ~HasNak(cmd)
  PROVE  /\ Turning' /\ Len(Sent) = 0 /\ Sent' = Sent /\ parser_state \notin Active
         /\ UNCHANGED parserVars /\ dbg = "idle"
         /\ ~Has(Inbound, "$") /\ ~Has(Inbound, "-")
         /\ \E T : T = Tagged(Frame(cmd.text), Len(asked')) /\ Joins(Inbound, T, Inbound')
<1>1. /\ dbg = "idle" /\ dbg' = "ack" /\ dbg_in' = <<>> /\ (asked = <<>> => mode # "run")
      /\ Send(Frame(cmd.text), Len(asked'))
      /\ UNCHANGED <<stubVars, parserVars, rxVars, to_host>>
  BY DEF Ask
<1>2. UNCHANGED <<mode, out, debugger_attached, q, parser_state, rx_errors>>
  BY <1>1 DEF stubVars, parserVars, rxVars
<1>3. Dialogue(Inbound, Sent, dbg_in, Len(asked), q, parser_state, mode, dbg)
  BY DEF Turning, Talking
<1>4. /\ Len(Sent) = 0 /\ mode # "run" /\ parser_state \notin Active
      /\ ~Has(Inbound, "$") /\ ~Has(Inbound, "-")
  <2>1. mode # "run"
    BY <1>1, <1>3, LinesAre DEF Dialogue, Turns
  <2> QED BY <1>1, <1>3, <2>1 DEF Dialogue, Turns, Coming
<1>5. Sent' = Sent /\ Len(dbg_in') = 0
  BY <1>1, <1>2 DEF Sent
<1>6. PICK I, S, S2, D2, J : I = Inbound /\ S = Sent /\ S2 = Sent' /\ D2 = dbg_in' /\ J = Inbound'
  OBVIOUS
<1>7. PICK g, T : g = Len(asked') /\ T = Tagged(Frame(cmd.text), g)
  OBVIOUS
<1>8. g \in Nat \ {0}
  BY <1>7, AskedMore
<1>9. Asking(T, g) /\ IsSeq(T)
  BY <1>7, AskingOf
<1>10. Joins(I, T, J)
  BY <1>1, <1>6, <1>7, <1>9, InboundMore DEF Send
<1>11. Dialogue(J, S2, D2, g, q, parser_state, mode, "ack")
  BY <1>3, <1>4, <1>5, <1>6, <1>8, <1>9, <1>10, TurnSends
<1>12. Talking'
  BY <1>1, <1>2, <1>6, <1>7, <1>11 DEF Talking
<1>13. AskedInv'
  BY <1>1, AskedMore DEF AskedInv
<1> QED BY <1>1, <1>2, <1>4, <1>5, <1>6, <1>7, <1>10, <1>12, <1>13 DEF Turning

(***************************************************************************)
(* The invariant, and the replies.                                         *)
(***************************************************************************)
LEMMA NaksMeantBefore ==
  ASSUME BaseInv, [Next]_vars, NaksMeant'
  PROVE  /\ NaksMeant /\ ~FramingError
         /\ \A cmd \in Commands : Ask(cmd) => ~HasNak(cmd)
<1>1. misframed \in Nat
  BY DEF BaseInv, FaultInv
<1>2. misframed' = misframed \/ misframed' = misframed + 1
  BY DEF Next, StubStep, PutByte, Deliver, GarbleInput, FramingError, LoseOutput, Ask, Read,
         Timeout, vars, lineVars, faultVars
<1>3. misframed' = 0
  BY DEF NaksMeant
<1>4. misframed = 0 /\ misframed' # misframed + 1
  BY <1>1, <1>2, <1>3
<1>5. UNCHANGED asked \/ \E cmd \in Commands : Ask(cmd)
  BY DEF Next, StubStep, PutByte, Deliver, GarbleInput, FramingError, LoseOutput, Receive, Read,
         Timeout, vars, dbgVars
<1>6. ASSUME NEW cmd \in Commands, Ask(cmd)
      PROVE  ~HasNak(cmd) /\ \A i \in DOMAIN asked : ~HasNak(asked[i])
  <2>1. /\ Len(asked') = Len(asked) + 1 /\ Len(asked') \in Nat \ {0}
        /\ asked'[Len(asked')] = cmd /\ \A i \in 1 .. Len(asked) : asked'[i] = asked[i]
        /\ asked' \in Seq(Commands)
    BY <1>6, AskedMore
  <2>2. DOMAIN asked = 1 .. Len(asked)
    BY DEF BaseInv, TalkInv, TagInv
  <2>3. DOMAIN asked' = 1 .. Len(asked')
    BY <2>1
  <2>4. \A i \in 1 .. Len(asked') : ~HasNak(asked'[i])
    BY <2>3 DEF NaksMeant
  <2>5. Len(asked) \in Nat
    BY LinesAre
  <2>6. Len(asked') \in 1 .. Len(asked') /\ \A i \in 1 .. Len(asked) : i \in 1 .. Len(asked')
    BY <2>1, <2>5
  <2> QED BY <2>1, <2>2, <2>4, <2>6
<1>7. \A i \in DOMAIN asked : ~HasNak(asked[i])
  BY <1>5, <1>6 DEF NaksMeant
<1> QED BY <1>4, <1>6, <1>7 DEF NaksMeant, FramingError

LEMMA TurnSame ==
  ASSUME Turning, UNCHANGED vars
  PROVE  Turning' /\ Sent' = Sent /\ Inbound' = Inbound
<1>1. UNCHANGED <<mode, out, debugger_attached, q, parser_state, rx_valid, rx_data, rx_errors,
                  to_board, to_host, dbg, dbg_in, asked, accepted>>
  BY DEF vars, stubVars, parserVars, rxVars, lineVars, dbgVars
<1>2. Sent' = Sent /\ Inbound' = Inbound
  BY <1>1 DEF Sent, Inbound
<1> QED BY <1>1, <1>2 DEF Turning, AskedInv, Talking

LEMMA TurnStep ==
  ASSUME BaseInv, TurnInv, ForeignJunk, [Next]_vars
  PROVE  TurnInv'
<1> SUFFICES ASSUME NaksMeant' PROVE Turning'
  BY DEF TurnInv
<1>1. NaksMeant /\ ~FramingError /\ \A cmd \in Commands : Ask(cmd) => ~HasNak(cmd)
  BY NaksMeantBefore
<1>2. Turning
  BY <1>1 DEF TurnInv
<1>3. CASE StubStep
  <2>1. UNCHANGED <<lineVars, dbgVars>> /\ (Stop \/ CheckErrors \/ HandleByte)
    BY <1>3 DEF StubStep
  <2> QED BY <1>2, <2>1, TurnStop, TurnCheckErrors, TurnHandleByte
<1>4. CASE PutByte
  BY <1>2, <1>4, TurnPutByte
<1>5. CASE Deliver
  BY <1>2, <1>5, TurnDeliver
<1>6. CASE GarbleInput
  BY <1>2, <1>6, TurnGarble
<1>7. CASE LoseOutput
  BY <1>2, <1>7, TurnLoseOutput
<1>8. ASSUME NEW cmd \in Commands, Ask(cmd) PROVE Turning'
  BY <1>1, <1>2, <1>8, TurnAsk
<1>9. CASE Read
  BY <1>1, <1>2, <1>9, TurnRead
<1>10. CASE Timeout
  BY <1>1, <1>2, <1>10, TurnTimeout
<1>11. CASE UNCHANGED vars
  BY <1>2, <1>11, TurnSame
<1> QED BY <1>1, <1>3, <1>4, <1>5, <1>6, <1>7, <1>8, <1>9, <1>10, <1>11 DEF Next

LEMMA BaseStep == BaseInv /\ [Next]_vars => BaseInv'
BY TalkStep, StoreStep, ReadStep, FaultStep DEF BaseInv

LEMMA BaseInit == Init => BaseInv
<1> SUFFICES ASSUME Init PROVE BaseInv
  OBVIOUS
<1>1. TalkInv /\ StoreInv /\ FaultInv
  BY TalkInit, StoreInit, LinkInit DEF LinkInv
<1>2. ReadInv
  BY SeqOfNone DEF Init, ReadInv
<1> QED BY <1>1, <1>2 DEF BaseInv

LEMMA TurnInit == Init => TurnInv
<1> SUFFICES ASSUME Init PROVE Turning
  BY DEF TurnInv
<1>1. /\ mode = "run" /\ out = <<>> /\ rx_valid = FALSE /\ rx_errors = FALSE /\ q = 0
      /\ debugger_attached = FALSE /\ parser_state = "WAIT_START" /\ to_board = <<>>
      /\ to_host = <<>> /\ dbg = "idle" /\ dbg_in = <<>> /\ asked = <<>> /\ accepted = <<>>
  BY DEF Init, StubInit, ParserInit
<1>2. <<>> \o <<>> = <<>> /\ Len(<<>>) = 0
  BY SeqOfNone, NoneJoins
<1>3. Inbound = <<>> /\ Sent = <<>>
  BY <1>1, <1>2 DEF Inbound, Sent
<1>4. PICK z : z = <<>>
  OBVIOUS
<1>5. Len(z) = 0
  BY <1>2, <1>4
<1>6. Dialogue(z, z, z, 0, 0, "WAIT_START", "run", "idle")
  BY <1>5 DEF Dialogue, LineShape, ReadShape, SentShape, Turns, Speaking, Coming, Has, Active
<1>7. Talking
  BY <1>1, <1>2, <1>3, <1>4, <1>6 DEF Talking
<1> QED BY <1>1, <1>7 DEF Turning, AskedInv

(* Two sides that take turns: the invariant behind the replies.            *)
THEOREM TurnInvariance == ForeignJunk => (Spec => [](BaseInv /\ TurnInv))
<1> SUFFICES ASSUME ForeignJunk PROVE Spec => [](BaseInv /\ TurnInv)
  OBVIOUS
<1>1. Init => BaseInv /\ TurnInv
  BY BaseInit, TurnInit
<1>2. BaseInv /\ TurnInv /\ [Next]_vars => (BaseInv /\ TurnInv)'
  BY BaseStep, TurnStep
<1> QED BY <1>1, <1>2, PTL DEF Spec

(* RepliesMatch: whatever number of bytes the line garbles or loses, the   *)
(* debugger takes no reply of one request for that of another, as long as  *)
(* no byte is flagged and no request holds a -.                            *)
THEOREM RepliesAreOfTheirRequests == ForeignJunk => (Spec => []RepliesMatch)
<1> SUFFICES ASSUME ForeignJunk PROVE Spec => []RepliesMatch
  OBVIOUS
<1>1. TurnInv => RepliesMatch
  BY DEF TurnInv, Turning, AskedInv, RepliesMatch
<1>2. Spec => [](BaseInv /\ TurnInv)
  BY TurnInvariance
<1> QED BY <1>1, <1>2, PTL

(***************************************************************************)
(* What the parser collects is the last request, x, framed as y, or shows  *)
(* that a byte of it was hit.                                              *)
(***************************************************************************)
HitBy(p) == \E i \in 1 .. Len(p) : p[i] = Junk
Carries(I, y) ==
  \A i \in 1 .. Len(I) : I[i].c = "$" =>
    Len(I) - i = Len(y) - 1 /\ \A j \in i .. Len(I) : I[j].c = y[j - i + 1]
InStep(I, p, x, y) ==
  /\ Len(p) <= Len(x) /\ \A i \in 1 .. Len(p) : p[i] = x[i]
  /\ Len(I) = Len(x) + 3 - Len(p)
  /\ \A i \in 1 .. Len(I) : I[i].c \in {y[Len(p) + 1 + i], Junk}
Tracks(I, s, p, x, y) ==
  /\ Carries(I, y)
  /\ s = "PAYLOAD" => HitBy(p) \/ InStep(I, p, x, y)
  /\ s \in {"CHECKSUM_HIGH", "CHECKSUM_LOW"} => HitBy(p) \/ p = x
FramedAs(x, y) ==
  /\ IsSeq(x) /\ Len(x) \in Nat /\ \A i \in 1 .. Len(x) : x[i] # "#"
  /\ Len(y) = Len(x) + 4 /\ y[Len(x) + 2] = "#"
  /\ \A i \in 1 .. Len(x) : y[i + 1] = x[i]

LEMMA FramedRequest ==
  ASSUME NEW cmd \in Commands
  PROVE  FramedAs(cmd.text, Frame(cmd.text))
<1>1. PICK x, y : x = cmd.text /\ y = Frame(cmd.text)
  OBVIOUS
<1>2. x \in Seq(Char) /\ Len(x) \in Nat /\ \A i \in 1 .. Len(x) : x[i] \notin {"$", "#"}
  BY <1>1, RequestText
<1>3. Len(y) = Len(x) + 4 /\ y[Len(x) + 2] = "#" /\ \A i \in 1 .. Len(x) : y[i + 1] = x[i]
  BY <1>1, <1>2, FrameParts
<1> QED BY <1>1, <1>2, <1>3 DEF FramedAs, IsSeq

LEMMA CarriesDrops ==
  ASSUME NEW I, NEW J, NEW y, Carries(I, y), Drops(I, J)
  PROVE  Carries(J, y)
<1> SUFFICES ASSUME NEW i \in 1 .. Len(J), J[i].c = "$"
             PROVE  Len(J) - i = Len(y) - 1 /\ \A j \in i .. Len(J) : J[j].c = y[j - i + 1]
  BY DEF Carries
<1>1. PICK g : g = i + 1
  OBVIOUS
<1>2. g \in 1 .. Len(I) /\ I[g].c = "$"
  BY <1>1 DEF Drops
<1>3. Len(I) - g = Len(y) - 1 /\ \A j \in g .. Len(I) : I[j].c = y[j - g + 1]
  BY <1>2 DEF Carries
<1>4. Len(J) - i = Len(I) - g
  BY <1>1 DEF Drops
<1>5. ASSUME NEW j \in i .. Len(J) PROVE J[j].c = y[j - i + 1]
  <2>1. PICK h : h = j + 1
    OBVIOUS
  <2>2. h \in g .. Len(I) /\ J[j] = I[h] /\ h - g + 1 = j - i + 1
    BY <1>1, <2>1 DEF Drops
  <2> QED BY <1>3, <2>2
<1> QED BY <1>3, <1>4, <1>5

LEMMA TracksSkips ==
  ASSUME NEW I, NEW s, NEW p, NEW x, NEW y, NEW J, NEW s2, NEW p2,
         Tracks(I, s, p, x, y), Drops(I, J), s2 \notin Active
  PROVE  Tracks(J, s2, p2, x, y)
BY CarriesDrops DEF Tracks, Active

LEMMA TracksBegins ==
  ASSUME NEW I, NEW s, NEW p, NEW x, NEW y, NEW J, NEW p2,
         Tracks(I, s, p, x, y), Drops(I, J), I[1].c = "$", Len(p2) = 0, FramedAs(x, y)
  PROVE  Tracks(J, "PAYLOAD", p2, x, y)
<1>1. 1 \in 1 .. Len(I) /\ Len(I) \in Nat /\ Len(J) = Len(I) - 1
  BY DEF Drops
<1>2. Len(I) - 1 = Len(y) - 1 /\ \A j \in 1 .. Len(I) : I[j].c = y[j - 1 + 1]
  BY <1>1 DEF Tracks, Carries
<1>3. \A j \in 1 .. Len(J) : J[j].c = y[1 + j]
  <2> SUFFICES ASSUME NEW j \in 1 .. Len(J) PROVE J[j].c = y[1 + j]
    OBVIOUS
  <2>1. PICK h : h = j + 1
    OBVIOUS
  <2>2. h \in 1 .. Len(I) /\ J[j] = I[h] /\ h - 1 + 1 = 1 + j
    BY <1>1, <2>1 DEF Drops
  <2> QED BY <1>2, <2>2
<1>4. InStep(J, p2, x, y)
  BY <1>1, <1>2, <1>3 DEF InStep, FramedAs
<1> QED BY <1>4, CarriesDrops DEF Tracks

(* A byte is stored.                                                       *)
LEMMA TracksStores ==
  ASSUME NEW I, NEW p, NEW x, NEW y, NEW J, NEW p2, NEW c,
         Tracks(I, "PAYLOAD", p, x, y), Drops(I, J), I[1].c = c, c # "#", FramedAs(x, y),
         Len(p) \in Nat, Len(p2) = Len(p) + 1, p2[Len(p) + 1] = c,
         \A i \in 1 .. Len(p) : p2[i] = p[i]
  PROVE  Tracks(J, "PAYLOAD", p2, x, y)
<1>1. CASE HitBy(p)
  <2>1. HitBy(p2)
    BY <1>1 DEF HitBy
  <2> QED BY <2>1, CarriesDrops DEF Tracks
<1>2. CASE c = Junk
  <2>1. Len(p) + 1 \in 1 .. Len(p2)
    OBVIOUS
  <2>2. HitBy(p2)
    BY <1>2, <2>1 DEF HitBy
  <2> QED BY <2>2, CarriesDrops DEF Tracks
<1>3. CASE ~HitBy(p) /\ c # Junk
  <2>1. /\ Len(p) <= Len(x) /\ \A i \in 1 .. Len(p) : p[i] = x[i]
        /\ Len(I) = Len(x) + 3 - Len(p)
        /\ \A i \in 1 .. Len(I) : I[i].c \in {y[Len(p) + 1 + i], Junk}
    BY <1>3 DEF Tracks, InStep
  <2>2. c = y[Len(p) + 1 + 1]
    <3>1. 1 \in 1 .. Len(I)
      BY DEF Drops
    <3> QED BY <1>3, <2>1, <3>1
  <2>3. Len(p) < Len(x)
    <3> SUFFICES ASSUME Len(p) = Len(x) PROVE FALSE
      BY <2>1 DEF FramedAs
    <3>1. Len(p) + 1 + 1 = Len(x) + 2
      BY DEF FramedAs
    <3> QED BY <2>2, <3>1 DEF FramedAs
  <2>4. c = x[Len(p) + 1]
    <3>1. PICK h : h = Len(p) + 1
      OBVIOUS
    <3>2. h \in 1 .. Len(x) /\ Len(p) + 1 + 1 = h + 1
      BY <2>3, <3>1 DEF FramedAs
    <3> QED BY <2>2, <3>1, <3>2 DEF FramedAs
  <2>5. \A i \in 1 .. Len(p2) : p2[i] = x[i]
    BY <2>1, <2>4
  <2>6. \A i \in 1 .. Len(J) : J[i].c \in {y[Len(p2) + 1 + i], Junk}
    <3> SUFFICES ASSUME NEW i \in 1 .. Len(J) PROVE J[i].c \in {y[Len(p2) + 1 + i], Junk}
      OBVIOUS
    <3>1. PICK g : g = i + 1
      OBVIOUS
    <3>2. g \in 1 .. Len(I) /\ J[i] = I[g] /\ Len(p) + 1 + g = Len(p2) + 1 + i
      BY <3>1 DEF Drops
    <3> QED BY <2>1, <3>2
  <2>7. Len(J) = Len(x) + 3 - Len(p2) /\ Len(p2) <= Len(x)
    BY <2>1, <2>3 DEF Drops, FramedAs
  <2>8. InStep(J, p2, x, y)
    BY <2>5, <2>6, <2>7 DEF InStep
  <2> QED BY <2>8, CarriesDrops DEF Tracks
<1> QED BY <1>1, <1>2, <1>3

LEMMA SameSeq ==
  ASSUME NEW s, NEW t, IsSeq(s), IsSeq(t), Len(s) = Len(t), \A i \in 1 .. Len(s) : s[i] = t[i]
  PROVE  s = t
<1>1. PICK S : s \in Seq(S)
  BY DEF IsSeq
<1>2. PICK T : t \in Seq(T)
  BY DEF IsSeq
<1>3. PICK A : A = S \cup T
  OBVIOUS
<1>4. s \in Seq(A) /\ t \in Seq(A)
  BY <1>1, <1>2, <1>3, SeqMonotonic
<1> QED BY <1>4, SeqEqual

(* The payload ends.                                                       *)
LEMMA TracksEnds ==
  ASSUME NEW I, NEW s, NEW p, NEW x, NEW y, NEW J, NEW s2,
         Tracks(I, s, p, x, y), Drops(I, J), FramedAs(x, y), IsSeq(p), Len(p) \in Nat, Junk # "#",
         \/ s = "PAYLOAD" /\ s2 = "CHECKSUM_HIGH" /\ I[1].c = "#"
         \/ s = "CHECKSUM_HIGH" /\ s2 = "CHECKSUM_LOW"
  PROVE  Tracks(J, s2, p, x, y)
<1>1. HitBy(p) \/ p = x
  <2>1. CASE s = "CHECKSUM_HIGH"
    BY <2>1 DEF Tracks
  <2>2. CASE s = "PAYLOAD" /\ I[1].c = "#" /\ ~HitBy(p)
    <3>1. /\ Len(p) <= Len(x) /\ \A i \in 1 .. Len(p) : p[i] = x[i]
          /\ Len(I) = Len(x) + 3 - Len(p)
          /\ \A i \in 1 .. Len(I) : I[i].c \in {y[Len(p) + 1 + i], Junk}
      BY <2>2 DEF Tracks, InStep
    <3>2. "#" = y[Len(p) + 1 + 1]
      <4>1. 1 \in 1 .. Len(I)
        BY DEF Drops
      <4> QED BY <2>2, <3>1, <4>1
    <3>3. Len(p) = Len(x)
      <4> SUFFICES ASSUME Len(p) < Len(x) PROVE FALSE
        BY <3>1 DEF FramedAs
      <4>1. PICK h : h = Len(p) + 1
        OBVIOUS
      <4>2. h \in 1 .. Len(x) /\ Len(p) + 1 + 1 = h + 1
        BY <4>1 DEF FramedAs
      <4> QED BY <3>2, <4>2 DEF FramedAs
    <3>4. IsSeq(x)
      BY DEF FramedAs
    <3> QED BY <3>1, <3>3, <3>4, SameSeq
  <2> QED BY <2>1, <2>2
<1> QED BY <1>1, CarriesDrops DEF Tracks

(* A request is sent, or a mark.                                           *)
LEMMA TracksSends ==
  ASSUME NEW I, NEW s, NEW p, NEW x, NEW y, NEW T, NEW J,
         Joins(I, T, J), Len(T) = Len(y), \A i \in 1 .. Len(y) : T[i].c = y[i],
         \A i \in 1 .. Len(J) : J[i].c = "$" => i = Len(I) + 1,
         s \in Active => HitBy(p)
  PROVE  Tracks(J, s, p, x, y)
<1>1. ASSUME NEW i \in 1 .. Len(J), J[i].c = "$"
      PROVE  Len(J) - i = Len(y) - 1 /\ \A j \in i .. Len(J) : J[j].c = y[j - i + 1]
  <2>1. i = Len(I) + 1 /\ Len(I) \in Nat /\ Len(y) \in Nat /\ Len(J) = Len(I) + Len(y)
    BY <1>1 DEF Joins
  <2>2. ASSUME NEW j \in i .. Len(J) PROVE J[j].c = y[j - i + 1]
    <3>1. PICK h : h = j - Len(I)
      OBVIOUS
    <3>2. j \in 1 .. Len(J) /\ ~(j <= Len(I)) /\ h \in 1 .. Len(y) /\ h = j - i + 1
      BY <2>1, <3>1
    <3>3. J[j] = T[h]
      BY <3>1, <3>2 DEF Joins
    <3> QED BY <3>2, <3>3
  <2> QED BY <2>1, <2>2
<1> QED BY <1>1 DEF Tracks, Carries, Active

LEMMA TracksMarks ==
  ASSUME NEW I, NEW s, NEW p, NEW x, NEW y, NEW T, NEW J, NEW c, NEW g,
         Joins(I, T, J), Len(I) = 0, Mark(T, c, g), c # "$", s \in Active => HitBy(p)
  PROVE  Tracks(J, s, p, x, y)
<1>1. ASSUME NEW i \in 1 .. Len(J) PROVE J[i].c = c
  <2>1. i = 1 /\ ~(i <= Len(I)) /\ i - Len(I) = 1
    BY DEF Joins, Mark
  <2>2. J[i] = T[1]
    BY <2>1 DEF Joins
  <2> QED BY <2>2 DEF Mark
<1> QED BY <1>1 DEF Tracks, Carries, Active

LEMMA TracksHit ==
  ASSUME NEW I, NEW s, NEW p, NEW x, NEW y, NEW J, Tracks(I, s, p, x, y), Hit(I, J), Junk # "$"
  PROVE  Tracks(J, s, p, x, y)
<1>1. Len(J) = Len(I) /\ Len(I) \in Nat
      /\ \A i \in 1 .. Len(I) : J[i] = I[i] \/ (i = 1 /\ J[i].c = Junk)
  <2> SUFFICES ASSUME NEW i \in 1 .. Len(I), i # 1 PROVE J[i] = I[i]
    BY DEF Hit
  <2>1. i \in 2 .. Len(I)
    BY DEF Hit
  <2> QED BY <2>1 DEF Hit
<1>2. Carries(J, y)
  <2> SUFFICES ASSUME NEW i \in 1 .. Len(J), J[i].c = "$"
               PROVE  Len(J) - i = Len(y) - 1 /\ \A j \in i .. Len(J) : J[j].c = y[j - i + 1]
    BY DEF Carries
  <2>1. I[i].c = "$"
    BY <1>1
  <2>2. Len(I) - i = Len(y) - 1 /\ \A j \in i .. Len(I) : I[j].c = y[j - i + 1]
    BY <1>1, <2>1 DEF Tracks, Carries
  <2>3. ASSUME NEW j \in i .. Len(J) PROVE J[j] = I[j]
    <3>1. j \in 1 .. Len(I) /\ (j = 1 => i = 1)
      BY <1>1
    <3> QED BY <1>1, <3>1
  <2> QED BY <1>1, <2>2, <2>3
<1>3. InStep(I, p, x, y) => InStep(J, p, x, y)
  <2> SUFFICES ASSUME InStep(I, p, x, y) PROVE InStep(J, p, x, y)
    OBVIOUS
  <2>1. \A i \in 1 .. Len(I) : I[i].c \in {y[Len(p) + 1 + i], Junk}
    BY DEF InStep
  <2>2. \A i \in 1 .. Len(J) : J[i].c \in {y[Len(p) + 1 + i], Junk}
    BY <1>1, <2>1
  <2> QED BY <1>1, <2>2 DEF InStep
<1> QED BY <1>2, <1>3 DEF Tracks

(* Nothing is left of a request whose packet the parser waits for.         *)
LEMMA TracksSilent ==
  ASSUME NEW I, NEW s, NEW p, NEW x, NEW y, NEW k,
         Tracks(I, s, p, x, y), ReadShape(I, s, k), FramedAs(x, y), Len(I) = 0, Len(p) \in Nat,
         s \in Active
  PROVE  HitBy(p)
<1>1. s = "PAYLOAD"
  BY DEF ReadShape, Active
<1> SUFFICES ASSUME InStep(I, p, x, y) PROVE FALSE
  BY <1>1 DEF Tracks
<1> QED BY DEF InStep, FramedAs

(***************************************************************************)
(* A continue is owed an ack until it has run.                             *)
(***************************************************************************)
Following == asked # <<>> => Tracks(Inbound, parser_state, payload, request.text, Frame(request.text))
Owed == IF dbg = "ack" /\ request.op = "c" /\ ~Has(Sent, "+") THEN 1 ELSE 0
Running == Following /\ resumes + Owed <= Continues + lost
RunInv == NaksMeant => Running
CountInv == resumes \in Nat /\ BoundsInv

LEMMA HasJoins ==
  ASSUME NEW S, NEW T, NEW S2, NEW c, Joins(S, T, S2), Has(S, c)
  PROVE  Has(S2, c)
<1>1. PICK i \in 1 .. Len(S) : S[i].c = c
  BY DEF Has
<1>2. i \in 1 .. Len(S2) /\ i <= Len(S) /\ S2[i] = S[i]
  BY DEF Joins
<1> QED BY <1>1, <1>2 DEF Has

LEMMA SaysMore ==
  ASSUME BaseInv, UNCHANGED to_host, NEW c, Has(Sent, c),
         out' = out \/ \E T : IsSeq(T) /\ out' = out \o T
  PROVE  Has(Sent', c)
<1>1. PICK S, S2 : S = Sent /\ S2 = Sent'
  OBVIOUS
<1>2. CASE out' = out
  <2>1. Sent' = Sent
    BY <1>2 DEF Sent
  <2> QED BY <1>1, <2>1
<1>3. ASSUME NEW T, IsSeq(T), out' = out \o T PROVE Has(Sent', c)
  <2>1. Joins(S, T, S2)
    BY <1>1, <1>3, SentMore
  <2>2. Has(S2, c)
    BY <1>1, <2>1, HasJoins
  <2> QED BY <1>1, <2>2
<1> QED BY <1>2, <1>3

LEMMA OwedFits == Owed \in {0, 1}
BY DEF Owed

LEMMA OwedStays ==
  ASSUME UNCHANGED asked, dbg' = "ack" => dbg = "ack",
         dbg' = "ack" /\ Has(Sent, "+") => Has(Sent', "+")
  PROVE  Owed' <= Owed
<1>1. request' = request
  BY DEF request
<1>2. PICK S, S2 : S = Sent /\ S2 = Sent'
  OBVIOUS
<1>3. /\ Owed = IF dbg = "ack" /\ request.op = "c" /\ ~Has(S, "+") THEN 1 ELSE 0
      /\ Owed' = IF dbg' = "ack" /\ request.op = "c" /\ ~Has(S2, "+") THEN 1 ELSE 0
  BY <1>1, <1>2 DEF Owed
<1>4. dbg' = "ack" /\ Has(S, "+") => Has(S2, "+")
  BY <1>2
<1> QED BY <1>3, <1>4

(* Counting the continues.                                                 *)
Those == {i \in DOMAIN asked : asked[i].op = "c"}

LEMMA ContinuesCount ==
  ASSUME BaseInv
  PROVE  /\ Continues \in Nat /\ IsFiniteSet(Those) /\ Continues = Cardinality(Those)
         /\ Those \subseteq 1 .. Len(asked)
<1>1. DOMAIN asked = 1 .. Len(asked) /\ Len(asked) \in Nat
  BY DEF BaseInv, TalkInv, TagInv
<1>2. IsFiniteSet(1 .. Len(asked))
  BY <1>1, FS_Interval
<1>3. Those \in SUBSET (1 .. Len(asked))
  BY <1>1 DEF Those
<1>4. IsFiniteSet(Those)
  BY <1>2, <1>3, FS_Subset
<1>5. Cardinality(Those) \in Nat
  BY <1>4, FS_CardinalityType
<1> QED BY <1>3, <1>4, <1>5 DEF Continues, Those

LEMMA ContinuesMore ==
  ASSUME BaseInv, NEW cmd \in Commands, Ask(cmd)
  PROVE  Continues' = IF cmd.op = "c" THEN Continues + 1 ELSE Continues
<1>1. /\ Len(asked') = Len(asked) + 1 /\ Len(asked') \in Nat \ {0}
      /\ asked'[Len(asked')] = cmd /\ \A i \in 1 .. Len(asked) : asked'[i] = asked[i]
      /\ asked' \in Seq(Commands) /\ Len(asked) \in Nat
  BY AskedMore, LinesAre
<1>2. DOMAIN asked = 1 .. Len(asked) /\ DOMAIN asked' = 1 .. Len(asked')
  BY <1>1 DEF BaseInv, TalkInv, TagInv
<1>3. PICK n, A, B : n = Len(asked) /\ A = Those /\ B = Those'
  OBVIOUS
<1>4. \A i : i \in A <=> i \in 1 .. n /\ asked[i].op = "c"
  BY <1>2, <1>3 DEF Those
<1>5. \A i : i \in B <=> i \in 1 .. n + 1 /\ asked'[i].op = "c"
  BY <1>1, <1>2, <1>3 DEF Those
<1>6. \A i : i \in 1 .. n + 1 <=> i \in 1 .. n \/ i = n + 1
  BY <1>1, <1>3
<1>7. asked'[n + 1] = cmd /\ n + 1 \notin 1 .. n
  BY <1>1, <1>3
<1>8. IsFiniteSet(A) /\ Continues = Cardinality(A) /\ Continues' = Cardinality(B)
  BY <1>3, ContinuesCount DEF Continues, Those
<1>9. \A i \in 1 .. n : asked'[i] = asked[i]
  BY <1>1, <1>3
<1>10. CASE cmd.op = "c"
  <2>1. B = A \cup {n + 1}
    BY <1>4, <1>5, <1>6, <1>7, <1>9, <1>10
  <2>2. n + 1 \notin A
    BY <1>4, <1>7
  <2> QED BY <1>8, <1>10, <2>1, <2>2, FS_AddElement
<1>11. CASE cmd.op # "c"
  <2>1. B = A
    BY <1>4, <1>5, <1>6, <1>7, <1>9, <1>11
  <2> QED BY <1>8, <1>11, <2>1
<1> QED BY <1>10, <1>11

(* A payload that was hit means nothing.                                   *)
LEMMA HitMeansNothing ==
  ASSUME ForeignJunk, NEW p, HitBy(p)
  PROVE  Meaning(p).op # "c"
<1> DEFINE known == {k \in Commands : k.text = p}
<1>1. known = {}
  <2> SUFFICES ASSUME NEW k \in Commands, k.text = p PROVE FALSE
    OBVIOUS
  <2>1. PICK i \in 1 .. Len(p) : p[i] = Junk
    BY DEF HitBy
  <2> QED BY <2>1 DEF ForeignJunk
<1>2. Meaning(p) = IF known = {} THEN [op |-> "unknown"] ELSE CHOOSE k \in known : TRUE
  BY DEF Meaning
<1> QED BY <1>1, <1>2

LEMMA PayloadIs ==
  ASSUME CountInv
  PROVE  IsSeq(payload) /\ Len(payload) \in Nat
BY SeqLength DEF CountInv, BoundsInv, BufferInv, IsSeq

LEMMA LastRequest ==
  ASSUME BaseInv, asked # <<>>
  PROVE  request \in Commands
<1>1. asked \in Seq(Commands) /\ Len(asked) \in Nat /\ Len(asked) # 0
  BY LinesAre DEF BaseInv, TalkInv, TagInv
<1>2. Len(asked) \in 1 .. Len(asked)
  BY <1>1
<1> QED BY <1>1, <1>2, ElementOfSeq DEF request

LEMMA FollowingSame ==
  ASSUME Following, UNCHANGED <<asked, parser_state, payload>>, Inbound' = Inbound
  PROVE  Following'
<1>1. request' = request
  BY DEF request
<1> QED BY <1>1 DEF Following

LEMMA FollowsHandle ==
  ASSUME BaseInv, CountInv, Following, ForeignJunk, HandleByte, UNCHANGED <<lineVars, dbgVars>>
  PROVE  Following'
<1>1. UNCHANGED <<asked, to_board>>
  BY DEF lineVars, dbgVars
<1>2. request' = request
  BY <1>1 DEF request
<1> SUFFICES ASSUME asked # <<>>
             PROVE  Tracks(Inbound', parser_state', payload', request.text, Frame(request.text))
  BY <1>1, <1>2 DEF Following
<1>3. /\ rx_valid /\ ~rx_valid'
      /\ \/ parser_state' \notin Active
         \/ Starts \/ Collects
  BY HandlesByte DEF Serves, Skips, Naks
<1>4. Drops(Inbound, to_board) /\ Inbound[1] = rx_data
  BY <1>3, InboundHeld
<1>5. Inbound' = to_board
  BY <1>1, <1>3, InboundEmptyNext
<1>6. PICK I, x, y : I = Inbound /\ x = request.text /\ y = Frame(request.text)
  OBVIOUS
<1>7. PICK p, s, p2, s2, J : /\ p = payload /\ s = parser_state
                             /\ p2 = payload' /\ s2 = parser_state' /\ J = to_board
  OBVIOUS
<1>8. FramedAs(x, y)
  BY <1>6, LastRequest, FramedRequest
<1>9. Tracks(I, s, p, x, y)
  BY <1>6, <1>7 DEF Following
<1>10. Drops(I, J) /\ I[1] = rx_data /\ IsSeq(p) /\ Len(p) \in Nat /\ Junk # "#"
  BY <1>4, <1>6, <1>7, PayloadIs DEF ForeignJunk
<1>11. Tracks(J, s2, p2, x, y)
  <2>1. CASE s2 \notin Active
    BY <1>9, <1>10, <2>1, TracksSkips
  <2>2. CASE Starts
    <3>1. I[1].c = "$" /\ s2 = "PAYLOAD" /\ p2 = <<>>
      BY <1>7, <1>10, <2>2 DEF Starts
    <3>2. Len(p2) = 0
      BY <3>1
    <3> QED BY <1>8, <1>9, <1>10, <3>1, <3>2, TracksBegins
  <2>3. CASE Collects
    <3>1. \/ s = "PAYLOAD" /\ s2 = "PAYLOAD" /\ rx_data.c # "#" /\ p2 = Append(p, rx_data.c)
          \/ s = "PAYLOAD" /\ s2 = "CHECKSUM_HIGH" /\ rx_data.c = "#" /\ p2 = p
          \/ s = "CHECKSUM_HIGH" /\ s2 = "CHECKSUM_LOW" /\ p2 = p
      BY <1>7, <2>3 DEF Collects
    <3>2. CASE s = "PAYLOAD" /\ s2 = "PAYLOAD" /\ rx_data.c # "#" /\ p2 = Append(p, rx_data.c)
      <4>1. PICK c : c = rx_data.c
        OBVIOUS
      <4>2. Len(p2) = Len(p) + 1 /\ p2[Len(p) + 1] = c /\ \A i \in 1 .. Len(p) : p2[i] = p[i]
        BY <1>10, <3>2, <4>1 DEF IsSeq
      <4> QED BY <1>8, <1>9, <1>10, <3>2, <4>1, <4>2, TracksStores
    <3>3. CASE /\ p2 = p
               /\ \/ s = "PAYLOAD" /\ s2 = "CHECKSUM_HIGH" /\ rx_data.c = "#"
                  \/ s = "CHECKSUM_HIGH" /\ s2 = "CHECKSUM_LOW"
      <4>1. Tracks(J, s2, p, x, y)
        BY <1>8, <1>9, <1>10, <3>3, TracksEnds
      <4> QED BY <3>3, <4>1
    <3> QED BY <3>1, <3>2, <3>3
  <2> QED BY <1>3, <1>7, <2>1, <2>2, <2>3
<1> QED BY <1>5, <1>6, <1>7, <1>11

LEMMA FollowsSent ==
  ASSUME BaseInv, Turning, NEW cmd \in Commands, ~HasNak(cmd), NEW n, NEW T,
         T = Tagged(Frame(cmd.text), n), Joins(Inbound, T, Inbound'),
         ~Has(Inbound, "$"), ~Has(Inbound, "-"), UNCHANGED parserVars,
         parser_state \in Active => HitBy(payload)
  PROVE  Tracks(Inbound', parser_state', payload', cmd.text, Frame(cmd.text))
<1>1. PICK I, J, y, x : I = Inbound /\ J = Inbound' /\ y = Frame(cmd.text) /\ x = cmd.text
  OBVIOUS
<1>2. Asking(T, n)
  BY AskingOf
<1>3. IsSeq(y)
  BY <1>1, RequestText, SeqFrame DEF IsSeq
<1>4. Len(T) = Len(y) /\ \A i \in 1 .. Len(y) : T[i].c = y[i]
  <2>1. T = Tagged(y, n)
    BY <1>1
  <2>2. Len(T) = Len(y) /\ \A i \in 1 .. Len(y) : T[i] = [c |-> y[i], q |-> n]
    BY <1>3, <2>1, SeqTagged
  <2>3. ASSUME NEW i \in 1 .. Len(y) PROVE T[i].c = y[i]
    <3>1. T[i] = [c |-> y[i], q |-> n]
      BY <2>2
    <3> QED BY <3>1
  <2> QED BY <2>2, <2>3
<1>5. LineShape(I, Len(asked))
  BY <1>1 DEF Turning, Talking, Dialogue
<1>6. \A i \in 1 .. Len(J) : J[i].c = "$" => i = Len(I) + 1
  BY <1>1, <1>2, <1>5, LineSends
<1>7. Tracks(J, parser_state, payload, x, y)
  BY <1>1, <1>4, <1>6, TracksSends
<1>8. parser_state' = parser_state /\ payload' = payload
  BY DEF parserVars
<1> QED BY <1>1, <1>7, <1>8

LEMMA FollowsResent ==
  ASSUME BaseInv, Turning, NaksMeant, UNCHANGED <<asked, parserVars>>,
         \/ /\ Resent(Frame(request.text)) /\ ~Has(Inbound, "$") /\ ~Has(Inbound, "-")
         \/ /\ Resent(<<"-">>) \/ Resent(<<"+">>)
            /\ Len(Inbound) = 0,
         parser_state \in Active => HitBy(payload)
  PROVE  Following'
<1>1. request' = request
  BY DEF request
<1> SUFFICES ASSUME asked # <<>>
             PROVE  Tracks(Inbound', parser_state', payload', request.text, Frame(request.text))
  BY <1>1 DEF Following
<1>2. request \in Commands /\ ~HasNak(request)
  BY LinesAre, RequestOf
<1>3. CASE Resent(Frame(request.text)) /\ ~Has(Inbound, "$") /\ ~Has(Inbound, "-")
  <2>1. PICK T : T = Tagged(Frame(request.text), Len(asked)) /\ Joins(Inbound, T, Inbound')
    BY <1>3 DEF Resent
  <2>2. PICK cmd, n : cmd = request /\ n = Len(asked)
    OBVIOUS
  <2>3. T = Tagged(Frame(cmd.text), n) /\ cmd \in Commands /\ ~HasNak(cmd)
    BY <1>2, <2>1, <2>2
  <2>4. Tracks(Inbound', parser_state', payload', cmd.text, Frame(cmd.text))
    BY <1>3, <2>1, <2>3, FollowsSent
  <2> QED BY <2>2, <2>4
<1>4. ASSUME NEW c \in {"+", "-"}, Resent(<<c>>), Len(Inbound) = 0
      PROVE  Tracks(Inbound', parser_state', payload', request.text, Frame(request.text))
  <2>1. PICK T : T = Tagged(<<c>>, Len(asked)) /\ Joins(Inbound, T, Inbound')
    BY <1>4 DEF Resent
  <2>2. PICK n : n = Len(asked)
    OBVIOUS
  <2>3. Mark(T, c, n)
    BY <2>1, <2>2, MarkOf
  <2>4. PICK I, J, x, y : I = Inbound /\ J = Inbound' /\ x = request.text /\ y = Frame(request.text)
    OBVIOUS
  <2>5. Tracks(J, parser_state, payload, x, y)
    BY <1>4, <2>1, <2>3, <2>4, TracksMarks
  <2>6. parser_state' = parser_state /\ payload' = payload
    BY DEF parserVars
  <2> QED BY <2>4, <2>5, <2>6
<1> QED BY <1>3, <1>4

(* When a request is run, its ack is not on its way yet.                   *)
LEMMA ServesTheRequest ==
  ASSUME BaseInv, Turning, Following, ForeignJunk, HandleByte, Serves,
         UNCHANGED <<lineVars, dbgVars>>, mode' = "run"
  PROVE  Owed = 1
<1>1. /\ Len(asked) # 0 /\ dbg = "ack" /\ Len(Sent) = 0
      /\ Meaning(payload).op = "c"
  BY TurnServed
<1>2. asked # <<>> /\ parser_state = "CHECKSUM_LOW"
  BY <1>1, LinesAre DEF Serves
<1>3. HitBy(payload) \/ payload = request.text
  BY <1>2 DEF Following, Tracks
<1>4. payload = request.text
  BY <1>1, <1>3, HitMeansNothing
<1>5. request.op = "c"
  BY <1>1, <1>2, <1>4, LastRequest, MeansItself
<1>6. ~Has(Sent, "+")
  BY <1>1 DEF Has
<1> QED BY <1>1, <1>5, <1>6 DEF Owed

(* The count, step by step.                                                *)
LEMMA Fewer ==
  \A r, c, l \in Nat : \A a, b \in {0, 1} :
    /\ b <= a /\ r + a <= c + l => r + b <= c + l
    /\ r + a <= c + l => r + b <= c + (l + 1)
    /\ r + 0 <= c + l => r + b <= (c + 1) + l
OBVIOUS

LEMMA CountsOn ==
  ASSUME BaseInv, CountInv, Running, Following', UNCHANGED <<asked, resumes, lost>>, Owed' <= Owed
  PROVE  Running'
<1>1. Continues' = Continues
  BY DEF Continues
<1>2. /\ resumes \in Nat /\ lost \in Nat /\ Continues \in Nat
      /\ resumes + Owed <= Continues + lost
  BY ContinuesCount DEF BaseInv, FaultInv, CountInv, Running
<1>3. PICK a, b : a = Owed /\ b = Owed'
  OBVIOUS
<1>4. a \in {0, 1} /\ b \in {0, 1}
  BY <1>3, OwedFits DEF Owed
<1>5. resumes + b <= Continues + lost
  <2>1. PICK r, c, l : r = resumes /\ c = Continues /\ l = lost
    OBVIOUS
  <2>2. r \in Nat /\ c \in Nat /\ l \in Nat /\ b <= a /\ r + a <= c + l
    BY <1>2, <1>3, <2>1
  <2>3. r + b <= c + l
    BY <1>4, <2>2, Fewer
  <2> QED BY <2>1, <2>3
<1> QED BY <1>1, <1>3, <1>5 DEF Running

LEMMA RunStop ==
  ASSUME BaseInv, CountInv, Running, Stop, UNCHANGED <<lineVars, dbgVars, resumes>>
  PROVE  Running'
<1>1. UNCHANGED <<asked, to_board, to_host, dbg, lost>>
  BY DEF lineVars, dbgVars, faultVars
<1>2. /\ parser_state' = "WAIT_START" /\ UNCHANGED rxVars
      /\ \/ out' = out
         \/ \E r : CleanText(r) /\ out' = out \o Tagged(Frame(r), q)
  BY StopSays
<1>3. Inbound' = Inbound /\ request' = request
  BY <1>1, <1>2, InboundSame DEF request
<1>4. Following'
  BY <1>1, <1>2, <1>3 DEF Following, Running, Tracks
<1>5. out' = out \/ \E T : IsSeq(T) /\ out' = out \o T
  BY <1>2, PacketOf
<1>6. Has(Sent, "+") => Has(Sent', "+")
  BY <1>1, <1>5, SaysMore
<1> QED BY <1>1, <1>4, <1>6, OwedStays, CountsOn

LEMMA RunHandle ==
  ASSUME BaseInv, CountInv, Turning, Running, ForeignJunk, HandleByte,
         UNCHANGED <<lineVars, dbgVars>>,
         resumes' = IF mode' = "run" THEN resumes + 1 ELSE resumes
  PROVE  Running'
<1>1. UNCHANGED <<asked, to_board, to_host, dbg, lost>>
  BY DEF lineVars, dbgVars, faultVars
<1>2. Following'
  BY FollowsHandle DEF Running
<1>3. CASE Serves
  <2>1. Has(Sent', "+")
    BY <1>3, TurnServed
  <2>2. CASE mode' # "run"
    BY <1>1, <1>2, <2>1, <2>2, OwedStays, CountsOn
  <2>3. CASE mode' = "run"
    <3>1. Owed = 1
      BY <1>3, <2>3, ServesTheRequest DEF Running
    <3>2. Owed' = 0
      BY <2>1 DEF Owed
    <3>3. Continues' = Continues
      BY <1>1 DEF Continues
    <3>4. resumes \in Nat /\ resumes + 1 <= Continues + lost /\ resumes' = resumes + 1
      BY <2>3, <3>1 DEF CountInv, Running
    <3>5. resumes' + 0 <= Continues + lost
      BY <3>4
    <3> QED BY <1>1, <1>2, <3>2, <3>3, <3>5 DEF Running
  <2> QED BY <2>2, <2>3
<1>4. CASE ~Serves
  <2>1. mode' = "loop" /\ (Starts \/ Skips \/ Collects \/ Naks)
    BY <1>4, HandlesByte
  <2>2. out' = out \/ \E T : IsSeq(T) /\ out' = out \o T
    <3>1. IsSeq(Tagged(Frame(last_reply), q)) /\ IsSeq(Tagged(<<"-">>, q))
      BY PacketOf, MarkOf DEF BaseInv, StoreInv
    <3> QED BY <2>1, <3>1 DEF Starts, Skips, Collects, Naks
  <2>3. Has(Sent, "+") => Has(Sent', "+")
    BY <1>1, <2>2, SaysMore
  <2> QED BY <1>1, <1>2, <2>1, <2>3, OwedStays, CountsOn
<1> QED BY <1>3, <1>4

LEMMA RunStub ==
  ASSUME BaseInv, CountInv, Turning, Running, ForeignJunk, StubStep
  PROVE  Running'
<1>1. /\ UNCHANGED <<lineVars, dbgVars>> /\ (Stop \/ CheckErrors \/ HandleByte)
      /\ resumes' = IF mode # "run" /\ mode' = "run" THEN resumes + 1 ELSE resumes
  BY DEF StubStep
<1>2. CASE Stop
  BY <1>1, <1>2, RunStop DEF Stop
<1>3. CASE CheckErrors
  <2>1. /\ UNCHANGED <<parserVars, out, rx_valid, rx_data, resumes>>
    BY <1>1, <1>3 DEF CheckErrors, Turning
  <2>2. UNCHANGED <<asked, to_board, to_host, dbg, lost, parser_state, payload>>
    BY <1>1, <2>1 DEF lineVars, dbgVars, faultVars, parserVars
  <2>3. Inbound' = Inbound /\ Sent' = Sent
    BY <2>1, <2>2 DEF Inbound, Sent
  <2> QED BY <2>1, <2>2, <2>3, FollowingSame, OwedStays, CountsOn DEF Running
<1>4. CASE HandleByte
  <2>1. mode # "run"
    BY <1>4, HandleByteIs
  <2> QED BY <1>1, <1>4, <2>1, RunHandle
<1> QED BY <1>1, <1>2, <1>3, <1>4

LEMMA RunQuiet ==
  ASSUME BaseInv, CountInv, Running, Sent' = Sent, Inbound' = Inbound,
         UNCHANGED <<asked, dbg, resumes, lost, parserVars>>
  PROVE  Running'
<1>1. UNCHANGED <<parser_state, payload>>
  BY DEF parserVars
<1> QED BY <1>1, FollowingSame, OwedStays, CountsOn DEF Running

LEMMA RunGarble ==
  ASSUME BaseInv, CountInv, Turning, Running, ForeignJunk, GarbleInput
  PROVE  Running'
<1>1. Hit(Inbound, Inbound') /\ Sent' = Sent
  BY TurnGarble
<1>2. UNCHANGED <<asked, dbg, resumes, lost, parser_state, payload>>
  BY DEF GarbleInput, Receive, dbgVars, histVars, parserVars
<1>3. request' = request
  BY <1>2 DEF request
<1>4. Following'
  <2> SUFFICES ASSUME asked # <<>>
               PROVE  Tracks(Inbound', parser_state, payload, request.text, Frame(request.text))
    BY <1>2, <1>3 DEF Following
  <2>1. PICK I, J, x, y : I = Inbound /\ J = Inbound' /\ x = request.text /\ y = Frame(request.text)
    OBVIOUS
  <2>2. Tracks(I, parser_state, payload, x, y)
    BY <2>1 DEF Following, Running
  <2>3. Hit(I, J) /\ Junk # "$"
    BY <1>1, <2>1 DEF ForeignJunk
  <2>4. Tracks(J, parser_state, payload, x, y)
    BY <2>2, <2>3, TracksHit
  <2> QED BY <2>1, <2>4
<1> QED BY <1>1, <1>2, <1>4, OwedStays, CountsOn

LEMMA RunLoses ==
  ASSUME BaseInv, CountInv, Turning, Running, LoseOutput
  PROVE  Running'
<1>1. Inbound' = Inbound
  BY TurnLoseOutput
<1>2. UNCHANGED <<asked, resumes, parser_state, payload>> /\ lost' = lost + 1
  BY DEF LoseOutput, dbgVars, histVars, parserVars
<1>3. Following'
  BY <1>1, <1>2, FollowingSame DEF Running
<1>4. Continues' = Continues
  BY <1>2 DEF Continues
<1>5. /\ resumes \in Nat /\ lost \in Nat /\ Continues \in Nat
      /\ resumes + Owed <= Continues + lost
  BY ContinuesCount DEF BaseInv, FaultInv, CountInv, Running
<1>6. PICK a, b : a = Owed /\ b = Owed'
  OBVIOUS
<1>7. a \in {0, 1} /\ b \in {0, 1}
  BY <1>6, OwedFits DEF Owed
<1>8. resumes + b <= Continues + (lost + 1)
  <2>1. PICK r, c, l : r = resumes /\ c = Continues /\ l = lost
    OBVIOUS
  <2>2. r \in Nat /\ c \in Nat /\ l \in Nat /\ r + a <= c + l
    BY <1>5, <1>6, <2>1
  <2>3. r + b <= c + (l + 1)
    BY <1>7, <2>2, Fewer
  <2> QED BY <2>1, <2>3
<1> QED BY <1>2, <1>3, <1>4, <1>6, <1>8 DEF Running

LEMMA RunAsk ==
  ASSUME BaseInv, CountInv, Turning, Running, NEW cmd \in Commands, Ask(cmd), ~HasNak(cmd)
  PROVE  Running'
<1>1. /\ parser_state \notin Active /\ UNCHANGED parserVars /\ dbg = "idle"
      /\ ~Has(Inbound, "$") /\ ~Has(Inbound, "-")
      /\ \E T : T = Tagged(Frame(cmd.text), Len(asked')) /\ Joins(Inbound, T, Inbound')
  BY TurnAsk
<1>2. UNCHANGED <<resumes, lost>>
  BY DEF Ask, faultVars, histVars
<1>3. request' = cmd
  BY AskedMore DEF request
<1>4. Following'
  <2>1. PICK n : n = Len(asked')
    OBVIOUS
  <2>2. Tracks(Inbound', parser_state', payload', cmd.text, Frame(cmd.text))
    BY <1>1, <2>1, FollowsSent
  <2> QED BY <1>3, <2>2 DEF Following
<1>5. Continues' = IF cmd.op = "c" THEN Continues + 1 ELSE Continues
  BY ContinuesMore
<1>6. Owed = 0 /\ (cmd.op # "c" => Owed' = 0)
  BY <1>1, <1>3 DEF Owed
<1>7. /\ resumes \in Nat /\ lost \in Nat /\ Continues \in Nat
      /\ resumes + 0 <= Continues + lost
  BY <1>6, ContinuesCount DEF BaseInv, FaultInv, CountInv, Running
<1>8. PICK b, k : b = Owed' /\ k = Continues'
  OBVIOUS
<1>9. b \in {0, 1}
  BY <1>8 DEF Owed
<1>10. resumes + b <= k + lost
  <2>1. PICK r, c, l : r = resumes /\ c = Continues /\ l = lost
    OBVIOUS
  <2>2. r \in Nat /\ c \in Nat /\ l \in Nat /\ r + 0 <= c + l
    BY <1>7, <2>1
  <2>3. CASE cmd.op = "c"
    <3>1. k = c + 1
      BY <1>5, <1>8, <2>1, <2>3
    <3>2. r + b <= (c + 1) + l
      BY <1>9, <2>2, Fewer
    <3> QED BY <2>1, <3>1, <3>2
  <2>4. CASE cmd.op # "c"
    <3>1. k = c /\ b = 0
      BY <1>5, <1>6, <1>8, <2>1, <2>4
    <3> QED BY <2>1, <2>2, <3>1
  <2> QED BY <2>3, <2>4
<1> QED BY <1>2, <1>4, <1>8, <1>10 DEF Running

LEMMA RunRead ==
  ASSUME BaseInv, CountInv, Turning, Running, NaksMeant, Read
  PROVE  Running'
<1>1. UNCHANGED <<asked, parserVars, resumes, lost, parser_state, payload>>
  BY DEF Read, faultVars, histVars, parserVars
<1>2. /\ Drops(Sent, Sent') /\ (dbg' = "ack" => dbg = "ack" /\ Sent[1].c # "+")
      /\ \/ Inbound' = Inbound
         \/ /\ Resent(Frame(request.text))
            /\ ~Has(Inbound, "$") /\ ~Has(Inbound, "-") /\ parser_state \notin Active
         \/ /\ Resent(<<"-">>) \/ Resent(<<"+">>)
            /\ Len(Inbound) = 0 /\ parser_state \notin Active
  BY TurnRead
<1>3. Following'
  BY <1>1, <1>2, FollowingSame, FollowsResent DEF Running
<1>4. ASSUME dbg' = "ack", Has(Sent, "+") PROVE FALSE
  <2>1. PICK i \in 1 .. Len(Sent) : Sent[i].c = "+"
    BY <1>4 DEF Has
  <2>2. i = 1
    BY <2>1 DEF Turning, Talking, Dialogue, SentShape
  <2> QED BY <1>2, <1>4, <2>1, <2>2
<1>5. Owed' <= Owed
  BY <1>1, <1>2, <1>4, OwedStays
<1> QED BY <1>1, <1>3, <1>5, CountsOn

LEMMA RunTimeout ==
  ASSUME BaseInv, CountInv, Turning, Running, NaksMeant, Timeout
  PROVE  Running'
<1>1. UNCHANGED <<asked, parserVars, resumes, lost, parser_state, payload>>
  BY DEF Timeout, faultVars, histVars, parserVars
<1>2. /\ Sent' = Sent /\ Len(Inbound) = 0
      /\ \/ Inbound' = Inbound /\ dbg' = "gone"
         \/ dbg = "ack" /\ dbg' = "ack" /\ Resent(Frame(request.text))
         \/ dbg = "reply" /\ dbg' = "reply" /\ Resent(<<"-">>)
  BY TurnTimeout
<1>3. ~Has(Inbound, "$") /\ ~Has(Inbound, "-")
  BY <1>2 DEF Has
<1>4. ASSUME asked # <<>>, parser_state \in Active PROVE HitBy(payload)
  <2>1. PICK I, x, y : I = Inbound /\ x = request.text /\ y = Frame(request.text)
    OBVIOUS
  <2>2. Tracks(I, parser_state, payload, x, y) /\ FramedAs(x, y)
    BY <1>4, <2>1, LastRequest, FramedRequest DEF Running, Following
  <2>3. ReadShape(I, parser_state, Len(asked)) /\ Len(I) = 0
    BY <1>2, <2>1 DEF Turning, Talking, Dialogue
  <2> QED BY <1>4, <2>2, <2>3, PayloadIs, TracksSilent
<1>5. Following'
  <2>1. CASE asked = <<>>
    BY <1>1, <2>1 DEF Following
  <2>2. CASE Inbound' = Inbound
    BY <1>1, <2>2, FollowingSame DEF Running
  <2>3. CASE asked # <<>> /\ (Resent(Frame(request.text)) \/ Resent(<<"-">>))
    BY <1>1, <1>2, <1>3, <1>4, <2>3, FollowsResent
  <2> QED BY <1>2, <2>1, <2>2, <2>3
<1>6. Owed' <= Owed
  BY <1>1, <1>2, OwedStays
<1> QED BY <1>1, <1>5, <1>6, CountsOn

LEMMA RunStep ==
  ASSUME BaseInv, CountInv, TurnInv, RunInv, ForeignJunk, [Next]_vars
  PROVE  RunInv'
<1> SUFFICES ASSUME NaksMeant' PROVE Running'
  BY DEF RunInv
<1>1. NaksMeant /\ ~FramingError /\ \A cmd \in Commands : Ask(cmd) => ~HasNak(cmd)
  BY NaksMeantBefore
<1>2. Turning /\ Running
  BY <1>1 DEF TurnInv, RunInv
<1>3. CASE StubStep
  BY <1>2, <1>3, RunStub
<1>4. CASE PutByte
  <2>1. Sent' = Sent /\ Inbound' = Inbound
    BY <1>2, <1>4, TurnPutByte
  <2>2. UNCHANGED <<asked, dbg, resumes, lost, parserVars>>
    BY <1>4 DEF PutByte, faultVars, dbgVars, histVars
  <2> QED BY <1>2, <2>1, <2>2, RunQuiet
<1>5. CASE Deliver
  <2>1. Sent' = Sent /\ Inbound' = Inbound
    BY <1>2, <1>5, TurnDeliver
  <2>2. UNCHANGED <<asked, dbg, resumes, lost, parserVars>>
    BY <1>5 DEF Deliver, Receive, faultVars, dbgVars, histVars
  <2> QED BY <1>2, <2>1, <2>2, RunQuiet
<1>6. CASE GarbleInput
  BY <1>2, <1>6, RunGarble
<1>7. CASE LoseOutput
  BY <1>2, <1>7, RunLoses
<1>8. ASSUME NEW cmd \in Commands, Ask(cmd) PROVE Running'
  BY <1>1, <1>2, <1>8, RunAsk
<1>9. CASE Read
  BY <1>1, <1>2, <1>9, RunRead
<1>10. CASE Timeout
  BY <1>1, <1>2, <1>10, RunTimeout
<1>11. CASE UNCHANGED vars
  <2>1. Sent' = Sent /\ Inbound' = Inbound
    BY <1>2, <1>11, TurnSame
  <2>2. UNCHANGED <<asked, dbg, resumes, lost, parserVars>>
    BY <1>11 DEF vars, lineVars, faultVars, dbgVars, histVars
  <2> QED BY <1>2, <2>1, <2>2, RunQuiet
<1> QED BY <1>1, <1>3, <1>4, <1>5, <1>6, <1>7, <1>8, <1>9, <1>10, <1>11 DEF Next

LEMMA CountStep == CountInv /\ [Next]_vars => CountInv'
<1> SUFFICES ASSUME CountInv, [Next]_vars PROVE CountInv'
  OBVIOUS
<1>1. resumes' = resumes \/ resumes' = resumes + 1
  BY DEF Next, StubStep, PutByte, Deliver, GarbleInput, FramingError, LoseOutput, Receive, Ask,
         Read, Timeout, vars, histVars
<1>2. BoundsInv'
  BY BoundsStep DEF CountInv
<1> QED BY <1>1, <1>2 DEF CountInv

LEMMA RunInit == Init => CountInv /\ RunInv
<1> SUFFICES ASSUME Init PROVE CountInv /\ RunInv
  OBVIOUS
<1>1. BaseInv /\ BoundsInv
  BY BaseInit, BoundsInit
<1>2. resumes = 0 /\ lost = 0 /\ dbg = "idle" /\ asked = <<>>
  BY DEF Init
<1>3. Continues \in Nat /\ Owed = 0
  BY <1>1, <1>2, ContinuesCount DEF Owed
<1>4. Following
  BY <1>2 DEF Following
<1>5. 0 + 0 <= Continues + 0
  BY <1>3
<1> QED BY <1>1, <1>2, <1>3, <1>4, <1>5 DEF CountInv, RunInv, Running

(* RunsOnce: the program is resumed once for each continue, and once more  *)
(* at most for each byte lost on its way to the debugger, however many     *)
(* bytes are garbled.                                                      *)
THEOREM RunsOnceForEachContinue == ForeignJunk => (Spec => []RunsOnce)
<1> SUFFICES ASSUME ForeignJunk PROVE Spec => []RunsOnce
  OBVIOUS
<1> DEFINE Inv == BaseInv /\ CountInv /\ TurnInv /\ RunInv
<1>1. Init => Inv
  BY BaseInit, TurnInit, RunInit
<1>2. Inv /\ [Next]_vars => Inv'
  BY BaseStep, CountStep, TurnStep, RunStep
<1>3. Inv => RunsOnce
  <2> SUFFICES ASSUME Inv, NaksMeant PROVE resumes <= Continues + lost
    BY DEF RunsOnce
  <2>1. /\ resumes \in Nat /\ lost \in Nat /\ Continues \in Nat
        /\ resumes + Owed <= Continues + lost
    BY ContinuesCount DEF BaseInv, FaultInv, CountInv, RunInv, Running
  <2>2. PICK a : a = Owed
    OBVIOUS
  <2>3. a \in {0, 1}
    BY <2>2, OwedFits
  <2> QED BY <2>1, <2>2, <2>3
<1> HIDE DEF Inv
<1> QED BY <1>1, <1>2, <1>3, PTL DEF Spec

(***************************************************************************)
(* While all goes well: the rest of the request is on its way to a parser  *)
(* that has the beginning, x of sums w framed as y, or the debugger has an *)
(* ack coming, or the reply to it.  I, S, D are the lines of above; s, n,  *)
(* a and r are the parser's state, length, sum and first digit.            *)
(***************************************************************************)
Rest(I, y, n) == Len(I) = Len(y) - n /\ \A i \in 1 .. Len(I) : I[i].c = y[n + i]
Arriving(I, s, n, a, r, x, w, y) ==
  \/ Has(I, "$")
  \/ s = "PAYLOAD" /\ n <= Len(x) /\ a = w[n] /\ Rest(I, y, n + 1)
  \/ s = "CHECKSUM_HIGH" /\ a = w[Len(x)] /\ Rest(I, y, Len(x) + 2)
  \/ s = "CHECKSUM_LOW" /\ a = w[Len(x)] /\ r = (a \div 16) * 16 /\ Rest(I, y, Len(x) + 3)

IsReply(z) == \E r : CleanText(r) /\ z = Frame(r)
Replying(S, D) ==
  \E z : /\ IsReply(z) /\ Len(S) # 0 /\ Rest(S, z, Len(D))
         /\ \A i \in 1 .. Len(D) : D[i].c = z[i]
Acking(S, stopping) ==
  /\ Len(S) # 0 /\ S[1].c = "+"
  /\ \/ Len(S) = 1 /\ stopping
     \/ \E z : /\ IsReply(z) /\ Len(S) = Len(z) + 1
               /\ \A i \in 1 .. Len(z) : S[i + 1].c = z[i]

Spelled(x, w, y) ==
  /\ FramedAs(x, y) /\ \A i \in 1 .. Len(x) : x[i] # "$"
  /\ w[0] = 0 /\ \A i \in 0 .. Len(x) : w[i] \in 0 .. 255
  /\ \A i \in 1 .. Len(x) : w[i] = (w[i - 1] + Weight[x[i]]) % 256
  /\ y[Len(x) + 3] = hex_digits[(w[Len(x)] \div 16) + 1]
  /\ y[Len(x) + 4] = hex_digits[(w[Len(x)] % 16) + 1]

LEMMA SpelledRequest ==
  ASSUME NEW cmd \in Commands
  PROVE  Spelled(cmd.text, Sums(cmd.text), Frame(cmd.text))
<1>1. PICK x, w, y : x = cmd.text /\ w = Sums(cmd.text) /\ y = Frame(cmd.text)
  OBVIOUS
<1>2. x \in Seq(Char) /\ Len(x) \in Nat /\ \A i \in 1 .. Len(x) : x[i] \notin {"$", "#"}
  BY <1>1, RequestText
<1>3. FramedAs(x, y)
  BY <1>1, FramedRequest
<1>4. /\ w[0] = 0 /\ \A i \in 0 .. Len(x) : w[i] \in 0 .. 255
      /\ \A i \in 1 .. Len(x) : w[i] = (w[i - 1] + Weight[x[i]]) % 256
  <2>1. x \in Seq(Char)
    BY <1>2
  <2>2. /\ Sums(x)[0] = 0 /\ \A i \in 0 .. Len(x) : Sums(x)[i] \in 0 .. 255
        /\ \A i \in 1 .. Len(x) : Sums(x)[i] = (Sums(x)[i - 1] + Weight[x[i]]) % 256
    BY <2>1, SumsGrow
  <2>3. w = Sums(x)
    BY <1>1
  <2> QED BY <2>2, <2>3
<1>5. Sum(x) = w[Len(x)]
  BY <1>1 DEF Sum
<1>6. /\ y[Len(x) + 3] = hex_digits[(Sum(x) \div 16) + 1]
      /\ y[Len(x) + 4] = hex_digits[(Sum(x) % 16) + 1]
  BY <1>1, <1>2, FrameParts
<1>7. Spelled(x, w, y)
  BY <1>2, <1>3, <1>4, <1>5, <1>6 DEF Spelled
<1> QED BY <1>1, <1>7

(* A reply begins with its only $ and has a # in front of the digits only. *)
LEMMA ReplyShape ==
  ASSUME NEW z, IsReply(z)
  PROVE  /\ IsSeq(z) /\ Len(z) \in Nat /\ Len(z) >= 4 /\ z[1] = "$" /\ z[Len(z) - 2] = "#"
         /\ \A i \in 1 .. Len(z) : /\ i # 1 => z[i] \notin {"$", "+", "-"}
                                   /\ z[i] = "#" => i = Len(z) - 2
<1>1. PICK r : CleanText(r) /\ z = Frame(r)
  BY DEF IsReply
<1>2. r \in Seq(Char) /\ IsSeq(r) /\ Len(r) \in Nat
  BY <1>1, CleanIsSeq DEF CleanText
<1>3. Len(z) = Len(r) + 4 /\ z[1] = "$" /\ z[Len(r) + 2] = "#" /\ IsSeq(z)
  BY <1>1, <1>2, FrameParts, SeqFrame
<1>4. PICK T : T = Tagged(z, 0)
  OBVIOUS
<1>5. Packet(T, 0)
  BY <1>1, <1>4, PacketOf
<1>6. Len(T) = Len(z) /\ \A i \in 1 .. Len(z) : T[i] = [c |-> z[i], q |-> 0]
  BY <1>3, <1>4, SeqTagged
<1>7. ASSUME NEW i \in 1 .. Len(z)
      PROVE  (i # 1 => z[i] \notin {"$", "+", "-"}) /\ (z[i] = "#" => i = Len(z) - 2)
  <2>0. T[i] = [c |-> z[i], q |-> 0] /\ Len(T) = Len(z)
    BY <1>6
  <2>1. T[i].c = z[i] /\ i \in 1 .. Len(T)
    BY <2>0
  <2>2. (i # 1 => T[i].c \notin {"$", "+", "-"}) /\ (T[i].c = "#" => i = Len(T) - 2)
    BY <1>5, <2>1 DEF Packet
  <2> QED BY <2>0, <2>1, <2>2
<1>8. Len(z) - 2 = Len(r) + 2 /\ Len(z) \in Nat /\ Len(z) >= 4
  BY <1>2, <1>3
<1> QED BY <1>3, <1>7, <1>8

(* One byte of the line is read.                                           *)
LEMMA RestDrops ==
  ASSUME NEW I, NEW J, NEW y, NEW n \in Nat, Rest(I, y, n), Drops(I, J)
  PROVE  Rest(J, y, n + 1) /\ I[1].c = y[n + 1]
<1>1. Len(J) = Len(y) - (n + 1)
  BY DEF Rest, Drops
<1>2. ASSUME NEW i \in 1 .. Len(J) PROVE J[i].c = y[(n + 1) + i]
  <2>1. PICK g : g = i + 1
    OBVIOUS
  <2>2. g \in 1 .. Len(I) /\ J[i] = I[g] /\ n + g = (n + 1) + i
    BY <2>1 DEF Drops
  <2>3. I[g].c = y[n + g]
    BY <2>2 DEF Rest
  <2> QED BY <2>2, <2>3
<1>3. 1 \in 1 .. Len(I)
  BY DEF Drops
<1> QED BY <1>1, <1>2, <1>3 DEF Rest

(* A byte that starts or goes on with the request.                         *)
LEMMA ArrivesStart ==
  ASSUME NEW I, NEW J, NEW x, NEW w, NEW y, NEW r, NEW k,
         Has(I, "$"), Drops(I, J), Carries(I, y), Spelled(x, w, y)
  PROVE  IF I[1].c = "$" THEN Arriving(J, "PAYLOAD", 0, 0, r, x, w, y) ELSE Has(J, "$")
<1>1. CASE I[1].c = "$"
  <2>1. Len(x) \in Nat /\ w[0] = 0 /\ 1 \in 1 .. Len(I)
    BY DEF Spelled, FramedAs, Drops
  <2>2. Len(I) - 1 = Len(y) - 1 /\ \A j \in 1 .. Len(I) : I[j].c = y[j - 1 + 1]
    BY <1>1, <2>1 DEF Carries
  <2>3. Rest(J, y, 1)
    <3>1. Len(J) = Len(y) - 1
      BY <2>2 DEF Drops
    <3>2. ASSUME NEW i \in 1 .. Len(J) PROVE J[i].c = y[1 + i]
      <4>1. PICK g : g = i + 1
        OBVIOUS
      <4>2. g \in 1 .. Len(I) /\ J[i] = I[g] /\ g - 1 + 1 = 1 + i
        BY <4>1 DEF Drops
      <4> QED BY <2>2, <4>2
    <3> QED BY <3>1, <3>2 DEF Rest
  <2> QED BY <1>1, <2>1, <2>3 DEF Arriving
<1>2. CASE I[1].c # "$"
  <2>1. PICK i \in 1 .. Len(I) : I[i].c = "$"
    BY DEF Has
  <2>2. i - 1 \in 1 .. Len(J) /\ J[i - 1] = I[i]
    BY <1>2, <2>1 DEF Drops
  <2> QED BY <1>2, <2>1, <2>2 DEF Has
<1> QED BY <1>1, <1>2

LEMMA ArrivesText ==
  ASSUME NEW I, NEW J, NEW x, NEW w, NEW y, NEW r, NEW n \in Nat,
         n <= Len(x), Rest(I, y, n + 1), Drops(I, J), Spelled(x, w, y)
  PROVE  /\ I[1].c # "$"
         /\ I[1].c = "#" => Arriving(J, "CHECKSUM_HIGH", n, w[n], r, x, w, y)
         /\ I[1].c # "#" => n < Len(x) /\ Arriving(J, "PAYLOAD", n + 1, (w[n] + Weight[I[1].c]) % 256,
                                                  r, x, w, y)
<1>1. Len(x) \in Nat /\ y[Len(x) + 2] = "#"
  BY DEF Spelled, FramedAs
<1>2. Rest(J, y, n + 2) /\ I[1].c = y[n + 2]
  <2>1. (n + 1) + 1 = n + 2 /\ n + 1 \in Nat
    OBVIOUS
  <2>2. Rest(J, y, (n + 1) + 1) /\ I[1].c = y[(n + 1) + 1]
    BY <2>1, RestDrops
  <2> QED BY <2>1, <2>2
<1>3. CASE n = Len(x)
  BY <1>1, <1>2, <1>3 DEF Arriving
<1>4. CASE n # Len(x)
  <2>1. n < Len(x) /\ n + 1 \in 1 .. Len(x) /\ (n + 1) - 1 = n /\ (n + 1) + 1 = n + 2
    BY <1>1, <1>4
  <2>2. y[(n + 1) + 1] = x[n + 1] /\ x[n + 1] \notin {"$", "#"}
    BY <2>1 DEF Spelled, FramedAs
  <2>3. w[n + 1] = (w[(n + 1) - 1] + Weight[x[n + 1]]) % 256
    BY <2>1 DEF Spelled
  <2>4. I[1].c = x[n + 1]
    BY <1>2, <2>1, <2>2
  <2>5. w[n + 1] = (w[n] + Weight[I[1].c]) % 256
    BY <2>1, <2>3, <2>4
  <2>6. Rest(J, y, (n + 1) + 1) /\ n + 1 <= Len(x)
    BY <1>1, <1>2, <2>1
  <2>7. Arriving(J, "PAYLOAD", n + 1, w[n + 1], r, x, w, y)
    BY <2>6 DEF Arriving
  <2> QED BY <2>1, <2>2, <2>4, <2>5, <2>7
<1> QED BY <1>3, <1>4

LEMMA ArrivesDigits ==
  ASSUME NEW I, NEW J, NEW x, NEW w, NEW y, NEW r, Drops(I, J), Spelled(x, w, y)
  PROVE  /\ Rest(I, y, Len(x) + 2) =>
              /\ I[1].c # "$" /\ IsHex(I[1].c)
              /\ Arriving(J, "CHECKSUM_LOW", 0, w[Len(x)], Nibble(I[1].c) * 16, x, w, y)
         /\ Rest(I, y, Len(x) + 3) =>
              /\ I[1].c # "$" /\ IsHex(I[1].c)
              /\ (w[Len(x)] \div 16) * 16 + Nibble(I[1].c) = w[Len(x)]
<1>1. PICK n, m, c : n = Len(x) /\ m = w[n] /\ c = I[1].c
  OBVIOUS
<1>2. n \in Nat /\ n \in 0 .. n
  BY <1>1 DEF Spelled, FramedAs
<1>3. m \in 0 .. 255
  BY <1>1, <1>2 DEF Spelled
<1>4. /\ (m \div 16) + 1 \in 1 .. 16 /\ ((m \div 16) + 1) - 1 = m \div 16
      /\ (m % 16) + 1 \in 1 .. 16 /\ ((m % 16) + 1) - 1 = m % 16
  BY <1>3, NibblesOf
<1>5. y[n + 3] = hex_digits[(m \div 16) + 1] /\ y[n + 4] = hex_digits[(m % 16) + 1]
  BY <1>1 DEF Spelled
<1>6. ASSUME Rest(I, y, n + 2)
      PROVE  c # "$" /\ IsHex(c) /\ Arriving(J, "CHECKSUM_LOW", 0, m, Nibble(c) * 16, x, w, y)
  <2>1. (n + 2) + 1 = n + 3 /\ n + 2 \in Nat
    BY <1>2
  <2>2. Rest(J, y, (n + 2) + 1) /\ c = y[(n + 2) + 1]
    BY <1>1, <1>6, <2>1, RestDrops
  <2>3. c = hex_digits[(m \div 16) + 1] /\ Rest(J, y, n + 3)
    BY <1>5, <2>1, <2>2
  <2>4. c # "$" /\ IsHex(c) /\ Nibble(c) = m \div 16
    BY <1>4, <2>3, DigitValue, DigitPlain
  <2> QED BY <1>1, <2>3, <2>4 DEF Arriving
<1>7. ASSUME Rest(I, y, n + 3)
      PROVE  c # "$" /\ IsHex(c) /\ (m \div 16) * 16 + Nibble(c) = m
  <2>1. (n + 3) + 1 = n + 4 /\ n + 3 \in Nat
    BY <1>2
  <2>2. c = y[(n + 3) + 1]
    BY <1>1, <1>7, <2>1, RestDrops
  <2>3. c = hex_digits[(m % 16) + 1]
    BY <1>5, <2>1, <2>2
  <2>4. c # "$" /\ IsHex(c) /\ Nibble(c) = m % 16
    BY <1>4, <2>3, DigitValue, DigitPlain
  <2> QED BY <1>3, <2>4, DigitsOf
<1> QED BY <1>1, <1>6, <1>7

LEMMA NothingArrives ==
  ASSUME NEW I, NEW s, NEW n \in Nat, NEW a, NEW r, NEW x, NEW w, NEW y, Spelled(x, w, y),
         Len(I) = 0 \/ (s \notin Active /\ ~Has(I, "$"))
  PROVE  ~Arriving(I, s, n, a, r, x, w, y)
<1>1. Len(x) \in Nat /\ Len(y) = Len(x) + 4
  BY DEF Spelled, FramedAs
<1>2. CASE Len(I) = 0
  <2>1. ~Has(I, "$")
    BY <1>2 DEF Has
  <2>2. n <= Len(x) => ~Rest(I, y, n + 1)
    BY <1>1, <1>2 DEF Rest
  <2>3. ~Rest(I, y, Len(x) + 2) /\ ~Rest(I, y, Len(x) + 3)
    BY <1>1, <1>2 DEF Rest
  <2> QED BY <2>1, <2>2, <2>3 DEF Arriving
<1>3. CASE s \notin Active /\ ~Has(I, "$")
  BY <1>3 DEF Arriving, Active
<1> QED BY <1>2, <1>3

(* The stub answers.                                                       *)
LEMMA TaggedIs ==
  ASSUME NEW z, IsSeq(z), NEW n, NEW T, T = Tagged(z, n)
  PROVE  IsSeq(T) /\ Len(T) = Len(z) /\ Len(T) \in Nat /\ \A i \in 1 .. Len(T) : T[i].c = z[i]
<1>1. IsSeq(T) /\ Len(T) = Len(z) /\ \A i \in 1 .. Len(z) : T[i] = [c |-> z[i], q |-> n]
  BY SeqTagged
<1>2. Len(T) \in Nat
  BY <1>1, SeqLength
<1>3. ASSUME NEW i \in 1 .. Len(T) PROVE T[i].c = z[i]
  <2>1. T[i] = [c |-> z[i], q |-> n]
    BY <1>1
  <2> QED BY <2>1
<1> QED BY <1>1, <1>2, <1>3

LEMMA JoinsSay ==
  ASSUME NEW S, NEW T, NEW S2, Joins(S, T, S2)
  PROVE  /\ Len(S2) = Len(S) + Len(T) /\ Len(S) \in Nat /\ Len(T) \in Nat
         /\ \A i \in 1 .. Len(S) : S2[i] = S[i]
         /\ \A i \in 1 .. Len(T) : S2[Len(S) + i] = T[i]
<1>1. Len(S2) = Len(S) + Len(T) /\ Len(S) \in Nat /\ Len(T) \in Nat
  BY DEF Joins
<1>2. ASSUME NEW i \in 1 .. Len(S) PROVE S2[i] = S[i]
  <2>1. i \in 1 .. Len(S2)
    BY <1>1
  <2> QED BY <2>1 DEF Joins
<1>3. ASSUME NEW i \in 1 .. Len(T) PROVE S2[Len(S) + i] = T[i]
  <2>1. PICK g : g = Len(S) + i
    OBVIOUS
  <2>2. g \in 1 .. Len(S2) /\ ~(g <= Len(S)) /\ g - Len(S) = i
    BY <1>1, <2>1
  <2>3. S2[g] = T[i]
    BY <2>2 DEF Joins
  <2> QED BY <2>1, <2>3
<1> QED BY <1>1, <1>2, <1>3

LEMMA ReplySaid ==
  ASSUME NEW z, IsReply(z), NEW n, NEW S, NEW S2, NEW D, Joins(S, Tagged(z, n), S2)
  PROVE  /\ Len(S) = 0 /\ Len(D) = 0 => Replying(S2, D)
         /\ \A b : Len(S) = 1 /\ S[1].c = "+" => Acking(S2, b)
<1>1. PICK T : T = Tagged(z, n)
  OBVIOUS
<1>2. IsSeq(z) /\ Len(z) \in Nat /\ Len(z) >= 4
  BY ReplyShape
<1>3. Len(T) = Len(z) /\ \A i \in 1 .. Len(z) : T[i].c = z[i]
  BY <1>1, <1>2, TaggedIs
<1>4. /\ Len(S2) = Len(S) + Len(z) /\ \A i \in 1 .. Len(S) : S2[i] = S[i]
      /\ \A i \in 1 .. Len(z) : S2[Len(S) + i] = T[i]
  BY <1>1, <1>3, JoinsSay
<1>5. ASSUME Len(S) = 0, Len(D) = 0 PROVE Replying(S2, D)
  <2>1. Len(S2) = Len(z) /\ Len(S2) # 0
    BY <1>2, <1>4, <1>5
  <2>2. ASSUME NEW i \in 1 .. Len(S2) PROVE S2[i].c = z[0 + i]
    <3>1. S2[0 + i] = T[i] /\ 0 + i = i
      BY <1>4, <1>5, <2>1
    <3> QED BY <1>3, <2>1, <3>1
  <2>3. Rest(S2, z, Len(D))
    BY <1>2, <1>5, <2>1, <2>2 DEF Rest
  <2>4. \A i \in 1 .. Len(D) : D[i].c = z[i]
    BY <1>5
  <2> QED BY <2>1, <2>3, <2>4 DEF Replying
<1>6. ASSUME NEW b, Len(S) = 1, S[1].c = "+" PROVE Acking(S2, b)
  <2>1. Len(S2) = Len(z) + 1 /\ Len(S2) # 0 /\ S2[1] = S[1]
    BY <1>2, <1>4, <1>6
  <2>2. ASSUME NEW i \in 1 .. Len(z) PROVE S2[i + 1].c = z[i]
    <3>1. S2[1 + i] = T[i] /\ 1 + i = i + 1
      BY <1>4, <1>6
    <3> QED BY <1>3, <3>1
  <2> QED BY <1>6, <2>1, <2>2 DEF Acking
<1> QED BY <1>5, <1>6

LEMMA AckSaid ==
  ASSUME NEW n, NEW S, NEW S2, Len(S) = 0
  PROVE  /\ Joins(S, Tagged(<<"+">>, n), S2) => Acking(S2, TRUE)
         /\ \A z, b : IsReply(z) /\ Joins(S, Tagged(<<"+">> \o z, n), S2) => Acking(S2, b)
<1>1. ASSUME Joins(S, Tagged(<<"+">>, n), S2) PROVE Acking(S2, TRUE)
  <2>1. PICK T : T = Tagged(<<"+">>, n)
    OBVIOUS
  <2>2. Len(T) = 1 /\ T[1].c = "+"
    BY <2>1, MarkOf DEF Mark
  <2>3. Len(S2) = 0 + 1 /\ S2[0 + 1] = T[1]
    BY <1>1, <2>1, <2>2, JoinsSay
  <2> QED BY <2>2, <2>3 DEF Acking
<1>2. ASSUME NEW z, NEW b, IsReply(z), Joins(S, Tagged(<<"+">> \o z, n), S2)
      PROVE  Acking(S2, b)
  <2>1. PICK f, T : f = <<"+">> \o z /\ T = Tagged(f, n)
    OBVIOUS
  <2>2. IsSeq(z) /\ Len(z) \in Nat
    BY <1>2, ReplyShape
  <2>3. PICK h : h = <<"+">>
    OBVIOUS
  <2>4. IsSeq(h) /\ Len(h) = 1 /\ h[1] = "+"
    BY <2>3, SeqOfOne
  <2>5. /\ IsSeq(f) /\ Len(f) = 1 + Len(z)
        /\ \A i \in 1 .. 1 + Len(z) : f[i] = IF i <= 1 THEN h[i] ELSE z[i - 1]
    <3>1. f = h \o z
      BY <2>1, <2>3
    <3>2. /\ IsSeq(h \o z) /\ Len(h \o z) = Len(h) + Len(z)
          /\ \A i \in 1 .. Len(h) + Len(z) :
               (h \o z)[i] = IF i <= Len(h) THEN h[i] ELSE z[i - Len(h)]
      BY <2>2, <2>4, SeqJoin
    <3> QED BY <2>4, <3>1, <3>2
  <2>6. Len(T) = Len(f) /\ \A i \in 1 .. Len(f) : T[i].c = f[i]
    <3>1. IsSeq(f) /\ T = Tagged(f, n)
      BY <2>1, <2>5
    <3>2. Len(Tagged(f, n)) = Len(f) /\ \A i \in 1 .. Len(f) : Tagged(f, n)[i].c = f[i]
      BY <3>1, TaggedIs
    <3> QED BY <3>1, <3>2
  <2>7. Len(S2) = 0 + Len(T) /\ \A i \in 1 .. Len(T) : S2[0 + i] = T[i]
    BY <1>2, <2>1, JoinsSay
  <2>8. Len(S2) = Len(z) + 1 /\ Len(S2) # 0
    BY <2>2, <2>5, <2>6, <2>7
  <2>9. ASSUME NEW g \in 1 .. Len(S2) PROVE S2[g].c = IF g <= 1 THEN h[g] ELSE z[g - 1]
    <3>1. S2[0 + g] = T[g] /\ 0 + g = g /\ g \in 1 .. Len(f) /\ g \in 1 .. 1 + Len(z)
      BY <2>2, <2>5, <2>6, <2>7
    <3> QED BY <2>5, <2>6, <3>1
  <2>10. S2[1].c = "+"
    BY <2>2, <2>4, <2>8, <2>9
  <2>11. ASSUME NEW i \in 1 .. Len(z) PROVE S2[i + 1].c = z[i]
    <3>1. PICK g : g = i + 1
      OBVIOUS
    <3>2. g \in 1 .. Len(S2) /\ ~(g <= 1) /\ g - 1 = i
      BY <2>2, <2>8, <3>1
    <3> QED BY <2>9, <3>1, <3>2
  <2> QED BY <1>2, <2>8, <2>10, <2>11 DEF Acking
<1> QED BY <1>1, <1>2

(* The debugger reads.                                                     *)
LEMMA AckRead ==
  ASSUME NEW S, NEW S2, NEW b, Acking(S, b), Drops(S, S2), NEW D, Len(D) = 0
  PROVE  S[1].c = "+" /\ (Replying(S2, D) \/ (Len(S2) = 0 /\ b))
<1>1. CASE Len(S) = 1 /\ b
  BY <1>1 DEF Acking, Drops
<1>2. ASSUME NEW z, IsReply(z), Len(S) = Len(z) + 1, \A i \in 1 .. Len(z) : S[i + 1].c = z[i]
      PROVE  Replying(S2, D)
  <2>1. Len(z) \in Nat /\ Len(z) >= 4
    BY <1>2, ReplyShape
  <2>2. Len(S2) = Len(z) /\ Len(S2) # 0
    BY <1>2, <2>1 DEF Drops
  <2>3. ASSUME NEW i \in 1 .. Len(S2) PROVE S2[i].c = z[0 + i]
    <3>1. S2[i] = S[i + 1] /\ i \in 1 .. Len(z) /\ 0 + i = i
      BY <2>2 DEF Drops
    <3> QED BY <1>2, <3>1
  <2>4. Rest(S2, z, Len(D))
    BY <2>1, <2>2, <2>3 DEF Rest
  <2>5. \A i \in 1 .. Len(D) : D[i].c = z[i]
    OBVIOUS
  <2> QED BY <1>2, <2>2, <2>4, <2>5 DEF Replying
<1> QED BY <1>1, <1>2 DEF Acking

LEMMA AppendDrops ==
  ASSUME NEW D, IsSeq(D), NEW e
  PROVE  /\ IsSeq(Append(D, e)) /\ Len(Append(D, e)) = Len(D) + 1 /\ Len(D) \in Nat
         /\ Append(D, e)[Len(D) + 1] = e /\ \A i \in 1 .. Len(D) : Append(D, e)[i] = D[i]
<1>1. PICK S : D \in Seq(S)
  BY DEF IsSeq
<1>2. Append(D, e) \in Seq(S \cup {e})
  BY <1>1
<1> QED BY <1>1, <1>2 DEF IsSeq

LEMMA TextsIs ==
  ASSUME NEW s, IsSeq(s), NEW t, t = Texts(s)
  PROVE  IsSeq(t) /\ Len(t) = Len(s) /\ \A i \in 1 .. Len(s) : t[i] = s[i].c
<1>1. Len(s) \in Nat
  BY SeqLength
<1>2. PICK V : V = {s[i].c : i \in 1 .. Len(s)}
  OBVIOUS
<1>3. t = [i \in 1 .. Len(s) |-> s[i].c]
  BY DEF Texts
<1>4. \A i \in 1 .. Len(s) : s[i].c \in V
  BY <1>2
<1>5. t \in Seq(V) /\ Len(t) = Len(s)
  BY <1>1, <1>3, <1>4
<1> QED BY <1>3, <1>5 DEF IsSeq

LEMMA WholeReply ==
  ASSUME NEW z, IsReply(z), NEW b, IsSeq(b), Len(b) = Len(z), \A i \in 1 .. Len(b) : b[i].c = z[i]
  PROVE  Intact(b)
<1>1. PICK r : CleanText(r) /\ z = Frame(r)
  BY DEF IsReply
<1>2. r \in Seq(Char) /\ IsSeq(r) /\ Len(r) \in Nat
  BY <1>1, CleanIsSeq DEF CleanText
<1>3. /\ IsSeq(z) /\ Len(z) = Len(r) + 4 /\ \A i \in 1 .. Len(r) : z[i + 1] = r[i]
  BY <1>1, <1>2, FrameParts, ReplyShape
<1>4. PICK t : t = Texts(b)
  OBVIOUS
<1>5. IsSeq(t) /\ Len(t) = Len(b) /\ \A i \in 1 .. Len(b) : t[i] = b[i].c
  BY <1>4, TextsIs
<1>6. t = z
  <2>1. \A i \in 1 .. Len(t) : t[i] = z[i]
    BY <1>5
  <2> QED BY <1>3, <1>5, <2>1, SameSeq
<1>7. PICK s : s = Body(b)
  OBVIOUS
<1>8. IsSeq(s) /\ Len(s) = Len(r) /\ \A i \in 1 .. Len(r) : s[i] = b[i + 1]
  <2>1. PICK V : V = {b[i] : i \in 1 .. Len(b)}
    OBVIOUS
  <2>2. \A i \in 2 .. Len(b) - 3 : b[i] \in V
    BY <1>2, <1>3, <2>1
  <2>3. 2 \in Int /\ Len(b) - 3 \in Int /\ Len(b) - 3 = Len(r) + 1
    BY <1>2, <1>3
  <2>4. /\ s \in Seq(V)
        /\ Len(s) = IF 2 <= Len(b) - 3 THEN Len(b) - 3 - 2 + 1 ELSE 0
        /\ \A i \in 1 .. Len(b) - 3 - 2 + 1 : s[i] = b[2 + i - 1]
    BY <1>7, <2>2, <2>3, SubSeqProperties DEF Body
  <2>5. IsSeq(s)
    BY <2>4 DEF IsSeq
  <2>6. Len(s) = Len(r)
    BY <1>2, <2>3, <2>4
  <2>7. ASSUME NEW i \in 1 .. Len(r) PROVE s[i] = b[i + 1]
    <3>1. i \in 1 .. Len(b) - 3 - 2 + 1 /\ 2 + i - 1 = i + 1
      BY <1>2, <2>3
    <3> QED BY <2>4, <3>1
  <2> QED BY <2>5, <2>6, <2>7
<1>9. PICK u : u = Texts(s)
  OBVIOUS
<1>10. u = r
  <2>1. IsSeq(u) /\ Len(u) = Len(s) /\ \A i \in 1 .. Len(s) : u[i] = s[i].c
    BY <1>8, <1>9, TextsIs
  <2>2. ASSUME NEW i \in 1 .. Len(u) PROVE u[i] = r[i]
    <3>1. u[i] = b[i + 1].c /\ i \in 1 .. Len(r)
      BY <1>8, <2>1
    <3>2. i + 1 \in 1 .. Len(b)
      BY <1>2, <1>3, <3>1
    <3>3. b[i + 1].c = z[i + 1]
      BY <3>2
    <3> QED BY <1>3, <3>1, <3>3
  <2> QED BY <1>2, <1>8, <2>1, <2>2, SameSeq
<1> QED BY <1>1, <1>4, <1>6, <1>7, <1>9, <1>10 DEF Intact

(* A reply is read to its end and not further.                             *)
LEMMA ReplyRead ==
  ASSUME NEW S, NEW S2, NEW D, IsSeq(D), Replying(S, D), Drops(S, S2), NEW b, b = Append(D, S[1])
  PROVE  /\ Len(D) = 0 <=> S[1].c = "$"
         /\ Complete(b) => Intact(b)
         /\ ~Complete(b) => Replying(S2, b)
<1>1. PICK z : /\ IsReply(z) /\ Len(S) # 0 /\ Rest(S, z, Len(D))
               /\ \A i \in 1 .. Len(D) : D[i].c = z[i]
  BY DEF Replying
<1>2. /\ Len(z) \in Nat /\ Len(z) >= 4 /\ z[1] = "$" /\ z[Len(z) - 2] = "#"
      /\ \A i \in 1 .. Len(z) : (i # 1 => z[i] # "$") /\ (z[i] = "#" => i = Len(z) - 2)
  BY <1>1, ReplyShape
<1>3. /\ IsSeq(b) /\ Len(b) = Len(D) + 1 /\ Len(D) \in Nat
      /\ b[Len(D) + 1] = S[1] /\ \A i \in 1 .. Len(D) : b[i] = D[i]
  BY AppendDrops
<1>4. Rest(S2, z, Len(D) + 1) /\ S[1].c = z[Len(D) + 1]
  BY <1>1, <1>3, RestDrops
<1>5. Len(S2) = Len(z) - Len(b) /\ Len(S2) \in Nat /\ Len(b) \in 1 .. Len(z)
  <2>1. Len(S) = Len(z) - Len(D) /\ Len(S2) = Len(S) - 1 /\ Len(S) \in Nat \ {0}
    BY <1>1 DEF Rest, Drops
  <2> QED BY <1>2, <1>3, <2>1
<1>6. ASSUME NEW i \in 1 .. Len(b) PROVE b[i].c = z[i]
  <2>1. CASE i = Len(D) + 1
    BY <1>3, <1>4, <2>1
  <2>2. CASE i # Len(D) + 1
    <3>1. i \in 1 .. Len(D)
      BY <1>3, <2>2
    <3> QED BY <1>1, <1>3, <3>1
  <2> QED BY <2>1, <2>2
<1>7. Len(D) = 0 <=> S[1].c = "$"
  BY <1>2, <1>3, <1>4, <1>5
<1>8. ASSUME Complete(b) PROVE Intact(b)
  <2>1. Len(b) > 2 /\ b[Len(b) - 2].c = "#"
    BY <1>8 DEF Complete
  <2>2. Len(b) - 2 \in 1 .. Len(b) /\ Len(b) - 2 \in 1 .. Len(z)
    BY <1>2, <1>5, <2>1
  <2>3. Len(b) = Len(z)
    BY <1>2, <1>5, <1>6, <2>1, <2>2
  <2> QED BY <1>1, <1>3, <1>6, <2>3, WholeReply
<1>9. ASSUME ~Complete(b) PROVE Replying(S2, b)
  <2>1. Len(S2) # 0
    <3> SUFFICES ASSUME Len(S2) = 0 PROVE FALSE
      OBVIOUS
    <3>1. Len(b) = Len(z) /\ Len(b) > 2 /\ Len(b) - 2 \in 1 .. Len(b)
      BY <1>2, <1>5
    <3>2. b[Len(b) - 2].c = "#"
      BY <1>2, <1>6, <3>1
    <3> QED BY <1>9, <3>1, <3>2 DEF Complete
  <2>2. Rest(S2, z, Len(b))
    BY <1>3, <1>4
  <2> QED BY <1>1, <1>6, <2>1, <2>2 DEF Replying
<1> QED BY <1>7, <1>8, <1>9

(***************************************************************************)
(* All goes well, or a fault has happened since the tries were counted: a  *)
(* try is paid for by a fault, and puts the two sides on track again.      *)
(***************************************************************************)
Stopping == mode = "run" /\ debugger_attached
Reaching == Arriving(Inbound, parser_state, Len(payload), checksum, received_checksum,
                     request.text, Sums(request.text), Frame(request.text))
OnTrack ==
  /\ dbg = "ack" => Acking(Sent, Stopping) \/ Reaching
  /\ dbg = "reply" => \/ Has(Inbound, "-") \/ Replying(Sent, dbg_in)
                      \/ Stopping /\ Len(Sent) = 0
AckedInv == Has(Sent, "+") \/ dbg = "reply" => parser_state = "WAIT_START"
Patient == /\ tries \in Nat /\ tries <= faults /\ (OnTrack \/ tries < faults)
           /\ dbg = "gone" => faults > MAX_TRIES
Patience == Patient /\ AckedInv
PatienceInv == NaksMeant => Patience

LEMMA FaultsCount ==
  ASSUME BaseInv
  PROVE  /\ faults \in Nat
         /\ UNCHANGED faultVars => faults' = faults
         /\ GarbleInput \/ LoseOutput => faults' = faults + 1
<1>1. garbled \in Nat /\ misframed \in Nat /\ lost \in Nat
  BY DEF BaseInv, FaultInv
<1>2. faults \in Nat
  BY <1>1 DEF faults
<1>3. UNCHANGED faultVars => faults' = faults
  BY DEF faults, faultVars
<1>4. ASSUME GarbleInput PROVE faults' = faults + 1
  <2>1. garbled' = garbled + 1 /\ misframed' = misframed /\ lost' = lost
    BY <1>4 DEF GarbleInput
  <2> QED BY <1>1, <2>1 DEF faults
<1>5. ASSUME LoseOutput PROVE faults' = faults + 1
  <2>1. garbled' = garbled /\ misframed' = misframed /\ lost' = lost + 1
    BY <1>5 DEF LoseOutput
  <2> QED BY <1>1, <2>1 DEF faults
<1> QED BY <1>2, <1>3, <1>4, <1>5

(* Nothing that OnTrack looks at changes.                                  *)
LEMMA OnTrackSame ==
  ASSUME OnTrack, Sent' = Sent, Inbound' = Inbound, Stopping => Stopping',
         UNCHANGED <<dbg, dbg_in, asked, parserVars>>
  PROVE  OnTrack'
<1>1. request' = request
  BY DEF request
<1>2. Reaching' = Reaching
  <2>1. UNCHANGED <<parser_state, payload, checksum, received_checksum>>
    BY DEF parserVars
  <2>2. PICK x, n : x = request.text /\ n = Len(payload)
    OBVIOUS
  <2>3. request'.text = x /\ Len(payload') = n
    BY <1>1, <2>1, <2>2
  <2> QED BY <2>1, <2>2, <2>3 DEF Reaching
<1>3. dbg = "ack" => Acking(Sent, Stopping') \/ Reaching
  BY DEF OnTrack, Acking
<1>4. dbg = "reply" => \/ Has(Inbound, "-") \/ Replying(Sent, dbg_in)
                       \/ Stopping' /\ Len(Sent) = 0
  BY DEF OnTrack
<1>5. PICK S, I, D, b : S = Sent /\ I = Inbound /\ D = dbg_in /\ b = Stopping'
  OBVIOUS
<1>6. dbg = "ack" => Acking(S, b) \/ Reaching'
  BY <1>2, <1>3, <1>5
<1>7. dbg = "reply" => Has(I, "-") \/ Replying(S, D) \/ (b /\ Len(S) = 0)
  BY <1>4, <1>5
<1>8. Sent' = S /\ Inbound' = I /\ dbg_in' = D /\ dbg' = dbg
  BY <1>5
<1> QED BY <1>5, <1>6, <1>7, <1>8 DEF OnTrack

LEMMA PatientOn ==
  ASSUME BaseInv, Patient, UNCHANGED <<tries, faultVars>>, OnTrack => OnTrack',
         dbg' = "gone" => dbg = "gone"
  PROVE  Patient'
BY FaultsCount DEF Patient

LEMMA PatientQuiet ==
  ASSUME BaseInv, Patience, Sent' = Sent, Inbound' = Inbound, Stopping => Stopping',
         UNCHANGED <<dbg, dbg_in, tries, faultVars, asked, parserVars>>
  PROVE  Patience'
<1>1. Patient'
  BY OnTrackSame, PatientOn DEF Patience
<1>2. AckedInv'
  <2>1. parser_state' = parser_state
    BY DEF parserVars
  <2>2. PICK S : S = Sent
    OBVIOUS
  <2>3. Has(S, "+") \/ dbg = "reply" => parser_state = "WAIT_START"
    BY <2>2 DEF Patience, AckedInv
  <2> QED BY <2>1, <2>2, <2>3 DEF AckedInv
<1> QED BY <1>1, <1>2 DEF Patience

(* A fault gives the debugger one more try.                                *)
LEMMA PatientFault ==
  ASSUME BaseInv, Turning, Patience, ForeignJunk, GarbleInput \/ LoseOutput
  PROVE  Patience'
<1>1. UNCHANGED <<tries, dbg, parser_state>>
  BY DEF GarbleInput, LoseOutput, Receive, dbgVars, parserVars
<1>2. Sent' = Sent \/ Drops(Sent, Sent')
  BY TurnGarble, TurnLoseOutput
<1>3. faults \in Nat /\ faults' = faults + 1 /\ tries <= faults
      /\ tries \in Nat /\ (dbg = "gone" => faults > MAX_TRIES)
  BY FaultsCount DEF Patience, Patient
<1>4. MAX_TRIES \in Nat
  BY LinkParams
<1>5. tries <= faults' /\ tries < faults' /\ (dbg = "gone" => faults' > MAX_TRIES)
  BY <1>3, <1>4
<1>6. Patient'
  BY <1>1, <1>3, <1>5 DEF Patient
<1>7. Has(Sent', "+") => Has(Sent, "+")
  <2>1. PICK S, S2 : S = Sent /\ S2 = Sent'
    OBVIOUS
  <2>2. S2 = S \/ Drops(S, S2)
    BY <1>2, <2>1
  <2>3. Has(S2, "+") => Has(S, "+")
    BY <2>2, HasDrops
  <2> QED BY <2>1, <2>3
<1>8. AckedInv'
  BY <1>1, <1>7 DEF AckedInv, Patience
<1> QED BY <1>6, <1>8 DEF Patience

(* The program stops: a debugger that waits is told.                       *)
LEMMA PatientStop ==
  ASSUME BaseInv, CountInv, Turning, Patience, Stop, UNCHANGED <<lineVars, dbgVars>>
  PROVE  Patience'
<1>1. UNCHANGED <<to_board, to_host, dbg, dbg_in, asked, tries, faultVars>>
  BY DEF lineVars, dbgVars
<1>2. /\ mode = "run" /\ mode' = "loop" /\ parser_state' = "WAIT_START"
      /\ UNCHANGED <<rxVars, debugger_attached, q>>
      /\ \/ ~debugger_attached /\ out' = out
         \/ debugger_attached /\ \E r : CleanText(r) /\ out' = out \o Tagged(Frame(r), q)
  BY StopSays
<1>3. AckedInv'
  BY <1>2 DEF AckedInv
<1>4. PICK I, S, D, S2 : I = Inbound /\ S = Sent /\ D = dbg_in /\ S2 = Sent'
  OBVIOUS
<1>5. /\ Len(I) = 0 /\ Len(D) = 0 /\ Len(S) \in Nat
      /\ \A i \in 1 .. Len(S) : S[i].c = "+" /\ (S[i].c = "+" => i = 1)
  <2>1. Dialogue(I, S, D, Len(asked), q, parser_state, "run", dbg)
    BY <1>2, <1>4 DEF Turning, Talking
  <2>2. Turns(I, S, D, Len(asked), q, parser_state, "run", dbg) /\ SentShape(S, D, Len(asked), q)
    BY <2>1 DEF Dialogue
  <2>3. Len(I) = 0 /\ Len(D) = 0 /\ \A i \in 1 .. Len(S) : S[i].c = "+"
    BY <2>2 DEF Turns
  <2> QED BY <1>4, <2>2, <2>3, LinesAre DEF SentShape
<1>6. Len(S) # 0 => Len(S) = 1 /\ S[1].c = "+"
  <2>1. Len(S) # 0 => Len(S) \in 1 .. Len(S) /\ 1 \in 1 .. Len(S)
    BY <1>5
  <2> QED BY <1>5, <2>1
<1>7. ~Has(I, "-")
  BY <1>5 DEF Has
<1>8. ASSUME NEW b PROVE (Acking(S, b) => Len(S) = 1 /\ S[1].c = "+" /\ b) /\ ~Replying(S, D)
  <2>1. Acking(S, b) => Len(S) = 1 /\ S[1].c = "+" /\ b
    <3> SUFFICES ASSUME Acking(S, b) PROVE Len(S) = 1 /\ S[1].c = "+" /\ b
      OBVIOUS
    <3>1. Len(S) = 1 /\ S[1].c = "+"
      BY <1>6 DEF Acking
    <3>2. ASSUME NEW z, IsReply(z), Len(S) = Len(z) + 1 PROVE FALSE
      BY <3>1, <3>2, ReplyShape
    <3> QED BY <3>1, <3>2 DEF Acking
  <2>2. ~Replying(S, D)
    <3> SUFFICES ASSUME NEW z, IsReply(z), Len(S) = Len(z) - Len(D) PROVE FALSE
      BY DEF Replying, Rest
    <3> QED BY <1>5, <1>6, ReplyShape
  <2> QED BY <2>1, <2>2
<1>9. ASSUME OnTrack, dbg = "ack" PROVE debugger_attached /\ Len(S) = 1 /\ S[1].c = "+"
  <2>1. ~Reaching
    <3>1. asked # <<>>
      BY <1>9, LinesAre DEF Turning, Talking, Dialogue, Turns
    <3>2. PICK x, w, y : x = request.text /\ w = Sums(request.text) /\ y = Frame(request.text)
      OBVIOUS
    <3>3. Spelled(x, w, y)
      BY <3>1, <3>2, LastRequest, SpelledRequest
    <3>4. PICK n : n = Len(payload) /\ n \in Nat
      BY PayloadIs
    <3>5. ~Arriving(I, parser_state, n, checksum, received_checksum, x, w, y)
      BY <1>5, <3>3, <3>4, NothingArrives
    <3> QED BY <1>4, <3>2, <3>4, <3>5 DEF Reaching
  <2>2. PICK b : b = Stopping
    OBVIOUS
  <2>3. Acking(S, b)
    BY <1>4, <1>9, <2>1, <2>2 DEF OnTrack
  <2> QED BY <1>8, <2>2, <2>3 DEF Stopping
<1>10. ASSUME OnTrack, dbg = "reply" PROVE debugger_attached /\ Len(S) = 0
  <2>1. Has(I, "-") \/ Replying(S, D) \/ (Stopping /\ Len(S) = 0)
    BY <1>4, <1>10 DEF OnTrack
  <2> QED BY <1>7, <1>8, <2>1 DEF Stopping
<1>11. ASSUME debugger_attached
       PROVE  /\ Len(S) = 1 /\ S[1].c = "+" => \A b : Acking(S2, b)
              /\ Len(S) = 0 => Replying(S2, D)
  <2>1. PICK r : CleanText(r) /\ out' = out \o Tagged(Frame(r), q)
    BY <1>2, <1>11
  <2>2. PICK z, n, T : z = Frame(r) /\ n = q /\ T = Tagged(z, n)
    OBVIOUS
  <2>3. IsReply(z) /\ out' = out \o T
    BY <2>1, <2>2 DEF IsReply
  <2>4. IsSeq(T)
    BY <2>1, <2>2, PacketOf
  <2>5. Joins(S, T, S2)
    BY <1>1, <1>4, <2>3, <2>4, SentMore
  <2> QED BY <1>5, <2>2, <2>3, <2>5, ReplySaid
<1>12. OnTrack => OnTrack'
  <2> SUFFICES ASSUME OnTrack PROVE OnTrack'
    OBVIOUS
  <2>1. PICK b : b = Stopping'
    OBVIOUS
  <2>2. dbg = "ack" => Acking(S2, b)
    BY <1>9, <1>11
  <2>3. dbg = "reply" => Replying(S2, D)
    BY <1>10, <1>11
  <2>4. Sent' = S2 /\ dbg_in' = D /\ dbg' = dbg
    BY <1>1, <1>4
  <2> QED BY <2>1, <2>2, <2>3, <2>4 DEF OnTrack
<1>13. Patient'
  BY <1>1, <1>12, PatientOn DEF Patience
<1> QED BY <1>3, <1>13 DEF Patience

(* A byte of the request on its way is taken in.                           *)
LEMMA RequestTaken ==
  ASSUME BaseInv, CountInv, Running, TextsFit, HandleByte, ~Serves, asked # <<>>, Reaching,
         UNCHANGED <<lineVars, dbgVars>>
  PROVE  Reaching'
<1>1. UNCHANGED <<to_board, asked>> /\ rx_valid /\ ~rx_valid'
  BY HandlesByte DEF lineVars, dbgVars
<1>2. request' = request /\ Inbound' = to_board
  BY <1>1, InboundEmptyNext DEF request
<1>3. Drops(Inbound, to_board) /\ Inbound[1] = rx_data
  BY <1>1, InboundHeld
<1>4. PICK x, w, y : x = request.text /\ w = Sums(request.text) /\ y = Frame(request.text)
  OBVIOUS
<1>5. Spelled(x, w, y) /\ Len(x) <= GDB_PACKET_CAPACITY
  BY <1>4, LastRequest, SpelledRequest DEF TextsFit
<1>6. PICK I, J, n, a, r, c : /\ I = Inbound /\ J = to_board /\ n = Len(payload)
                              /\ a = checksum /\ r = received_checksum /\ c = rx_data.c
  OBVIOUS
<1>7. Drops(I, J) /\ I[1].c = c /\ n \in Nat
  BY <1>3, <1>6, PayloadIs
<1>8. Carries(I, y)
  BY <1>4, <1>6 DEF Running, Following, Tracks
<1>9. Arriving(I, parser_state, n, a, r, x, w, y)
  BY <1>4, <1>6 DEF Reaching
<1>10. PICK event \in Events :
         /\ Feed(c, event)
         /\ event = "READY" => debugger_attached' /\ q' = rx_data.q
                               /\ DispatchPacket(payload, rx_data.q)
  BY <1>6 DEF HandleByte
<1>11. \/ Has(J, "$")
       \/ \E m \in Nat : /\ m = Len(payload')
                         /\ Arriving(J, parser_state', m, checksum', received_checksum', x, w, y)
  <2>1. CASE Has(I, "$")
    <3>1. CASE c = "$"
      <4>1. /\ parser_state' = "PAYLOAD" /\ checksum' = 0 /\ Len(payload') = 0
        BY <1>10, <3>1 DEF Feed, ParserStart
      <4>2. PICK k : k = received_checksum'
        OBVIOUS
      <4>3. Arriving(J, "PAYLOAD", 0, 0, k, x, w, y)
        BY <1>5, <1>7, <1>8, <2>1, <3>1, ArrivesStart
      <4> QED BY <4>1, <4>2, <4>3
    <3>2. CASE c # "$"
      BY <1>5, <1>7, <1>8, <2>1, <3>2, ArrivesStart
    <3> QED BY <3>1, <3>2
  <2>2. CASE parser_state = "PAYLOAD" /\ n <= Len(x) /\ a = w[n] /\ Rest(I, y, n + 1)
    <3>1. PICK k : k = received_checksum'
      OBVIOUS
    <3>2. /\ c # "$"
          /\ c = "#" => Arriving(J, "CHECKSUM_HIGH", n, w[n], k, x, w, y)
          /\ c # "#" => /\ n < Len(x)
                        /\ Arriving(J, "PAYLOAD", n + 1, (w[n] + Weight[c]) % 256, k, x, w, y)
      <4>1. PICK e : e = I[1].c
        OBVIOUS
      <4>2. /\ e # "$"
            /\ e = "#" => Arriving(J, "CHECKSUM_HIGH", n, w[n], k, x, w, y)
            /\ e # "#" => /\ n < Len(x)
                          /\ Arriving(J, "PAYLOAD", n + 1, (w[n] + Weight[e]) % 256, k, x, w, y)
        <5>1. n \in Nat /\ n <= Len(x) /\ Rest(I, y, n + 1) /\ Drops(I, J) /\ Spelled(x, w, y)
          BY <1>5, <1>7, <2>2
        <5>2. /\ I[1].c # "$"
              /\ I[1].c = "#" => Arriving(J, "CHECKSUM_HIGH", n, w[n], k, x, w, y)
              /\ I[1].c # "#" =>
                   /\ n < Len(x)
                   /\ Arriving(J, "PAYLOAD", n + 1, (w[n] + Weight[I[1].c]) % 256, k, x, w, y)
          BY <5>1, ArrivesText, ZenonT(30)
        <5> QED BY <4>1, <5>2
      <4> QED BY <1>7, <4>1, <4>2
    <3>3. Payload(c, event)
      BY <1>10, <2>2, <3>2 DEF Feed, ParserStep, WaitStart, ChecksumHigh, ChecksumLow, Discard
    <3>4. CASE c = "#"
      <4>1. parser_state' = "CHECKSUM_HIGH" /\ Len(payload') = n /\ checksum' = a
        BY <1>6, <3>3, <3>4 DEF Payload, Goto
      <4> QED BY <1>7, <2>2, <3>1, <3>2, <3>4, <4>1
    <3>5. CASE c # "#"
      <4>1. ~(n >= GDB_PACKET_CAPACITY)
        <5>1. Len(x) \in Nat /\ GDB_PACKET_CAPACITY \in Nat
          BY <1>5, PacketParams DEF Spelled, FramedAs
        <5> QED BY <1>5, <1>7, <3>2, <3>5, <5>1
      <4>2. Store(c) /\ parser_state' = "PAYLOAD"
        BY <1>6, <2>2, <3>3, <3>5, <4>1 DEF Payload
      <4>3. Len(payload') = n + 1
        BY <1>6, <4>2, PayloadIs, AppendDrops DEF Store
      <4>4. checksum' = (w[n] + Weight[c]) % 256
        BY <1>6, <2>2, <4>2 DEF Store
      <4>5. n + 1 \in Nat
        BY <1>7
      <4> QED BY <3>1, <3>2, <3>5, <4>2, <4>3, <4>4, <4>5
    <3> QED BY <3>4, <3>5
  <2>3. CASE parser_state = "CHECKSUM_HIGH" /\ a = w[Len(x)] /\ Rest(I, y, Len(x) + 2)
    <3>1. /\ c # "$" /\ IsHex(c)
          /\ Arriving(J, "CHECKSUM_LOW", 0, w[Len(x)], Nibble(c) * 16, x, w, y)
      BY <1>5, <1>7, <2>3, ArrivesDigits
    <3>2. ChecksumHigh(c, event)
      BY <1>10, <2>3, <3>1 DEF Feed, ParserStep, WaitStart, Payload, ChecksumLow, Discard
    <3>3. /\ parser_state' = "CHECKSUM_LOW" /\ Len(payload') = n /\ checksum' = w[Len(x)]
          /\ received_checksum' = Nibble(c) * 16
      BY <1>6, <2>3, <3>1, <3>2 DEF ChecksumHigh, Goto
    <3>4. PICK k, v : k = Nibble(c) * 16 /\ v = w[Len(x)]
      OBVIOUS
    <3>5. Arriving(J, "CHECKSUM_LOW", 0, v, k, x, w, y)
      BY <3>1, <3>4
    <3>6. Arriving(J, "CHECKSUM_LOW", n, v, k, x, w, y)
      BY <3>5 DEF Arriving
    <3> QED BY <1>7, <3>3, <3>4, <3>6
  <2>4. CASE /\ parser_state = "CHECKSUM_LOW" /\ a = w[Len(x)]
             /\ r = (a \div 16) * 16 /\ Rest(I, y, Len(x) + 3)
    <3>1. c # "$" /\ IsHex(c) /\ (w[Len(x)] \div 16) * 16 + Nibble(c) = w[Len(x)]
      BY <1>5, <1>7, <2>4, ArrivesDigits
    <3>2. ChecksumLow(c, event)
      BY <1>10, <2>4, <3>1 DEF Feed, ParserStep, WaitStart, Payload, ChecksumHigh, Discard
    <3>3. received_checksum + Nibble(c) = checksum
      BY <1>6, <2>4, <3>1
    <3>4. event = "READY" /\ parser_state' = "WAIT_START"
      BY <3>1, <3>2, <3>3 DEF ChecksumLow, Goto
    <3>5. Serves
      BY <1>6, <1>10, <2>4, <3>1, <3>4 DEF Serves, Active
    <3> QED BY <3>5
  <2> QED BY <1>9, <2>1, <2>2, <2>3, <2>4 DEF Arriving
<1>12. \E m : m = Len(payload') /\ Arriving(J, parser_state', m, checksum', received_checksum', x, w, y)
  BY <1>11 DEF Arriving
<1> QED BY <1>2, <1>4, <1>6, <1>12 DEF Reaching

(* The ack is out: the parser is ready for a nak of the reply.             *)
LEMMA ServesToStart ==
  ASSUME HandleByte, Serves
  PROVE  parser_state' = "WAIT_START"
<1>1. PICK event \in Events : Feed(rx_data.c, event)
  BY DEF HandleByte
<1>2. ChecksumLow(rx_data.c, event)
  BY <1>1 DEF Serves, Feed, ParserStep, WaitStart, Payload, ChecksumHigh, Discard
<1> QED BY <1>2 DEF ChecksumLow, Goto

LEMMA WaitsOn ==
  ASSUME HandleByte, rx_data.c # "$", parser_state = "WAIT_START"
  PROVE  /\ parser_state' = "WAIT_START"
         /\ rx_data.c = "-" => out' = out \o Tagged(Frame(last_reply), q)
         /\ rx_data.c # "-" => out' = out
<1>1. PICK event \in Events :
        /\ Feed(rx_data.c, event)
        /\ event # "READY" => React(event)
  BY DEF HandleByte
<1>2. WaitStart(rx_data.c, event)
  BY <1>1 DEF Feed, ParserStep, ChecksumLow, Payload, ChecksumHigh, Discard
<1>3. parser_state' = "WAIT_START" /\ event = IF rx_data.c = "-" THEN "RETRY" ELSE "NONE"
  BY <1>2 DEF WaitStart, Goto
<1> QED BY <1>1, <1>3 DEF React, Write

LEMMA HasNotJoins ==
  ASSUME NEW S, NEW T, NEW S2, NEW c, Joins(S, T, S2), Has(S2, c)
  PROVE  Has(S, c) \/ Has(T, c)
<1>1. PICK i \in 1 .. Len(S2) : S2[i].c = c
  BY DEF Has
<1>2. CASE i <= Len(S)
  <2>1. i \in 1 .. Len(S) /\ S2[i] = S[i]
    BY <1>2 DEF Joins
  <2> QED BY <1>1, <2>1 DEF Has
<1>3. CASE ~(i <= Len(S))
  <2>1. PICK g : g = i - Len(S)
    OBVIOUS
  <2>2. g \in 1 .. Len(T) /\ S2[i] = T[g]
    BY <1>3, <2>1 DEF Joins
  <2> QED BY <1>1, <2>2 DEF Has
<1> QED BY <1>2, <1>3

(* Where an ack is on its way or was read, the parser waits for a packet.  *)
LEMMA AckedHandle ==
  ASSUME BaseInv, Turning, AckedInv, HandleByte, UNCHANGED <<lineVars, dbgVars>>
  PROVE  AckedInv'
<1>1. UNCHANGED <<to_host, dbg>> /\ rx_valid
  BY HandlesByte DEF lineVars, dbgVars
<1>2. Drops(Inbound, to_board) /\ Inbound[1] = rx_data
  BY <1>1, InboundHeld
<1>3. PICK I, S, D, S2 : I = Inbound /\ S = Sent /\ D = dbg_in /\ S2 = Sent'
  OBVIOUS
<1>4. Dialogue(I, S, D, Len(asked), q, parser_state, mode, dbg)
  BY <1>3 DEF Turning, Talking
<1>5. I[1] = rx_data /\ 1 \in 1 .. Len(I)
  BY <1>2, <1>3 DEF Drops
<1>6. CASE Serves
  BY <1>6, ServesToStart DEF AckedInv
<1>7. CASE Has(S, "+") \/ dbg = "reply"
  <2>1. ~Has(I, "$")
    <3>1. CASE Has(S, "+")
      <4>1. Len(S) # 0
        <5>1. PICK i \in 1 .. Len(S) : S[i].c = "+"
          BY <3>1 DEF Has
        <5> QED BY <1>3, <5>1, LinesAre
      <4> QED BY <1>4, <4>1, SpeakerSilences
    <3>2. CASE dbg = "reply"
      BY <1>4, <3>2 DEF Dialogue, Turns, Coming
    <3> QED BY <1>7, <3>1, <3>2
  <2>2. rx_data.c # "$"
    BY <1>5, <2>1 DEF Has
  <2>3. parser_state = "WAIT_START"
    BY <1>3, <1>7 DEF AckedInv
  <2> QED BY <2>2, <2>3, WaitsOn DEF AckedInv
<1>8. CASE ~Serves /\ ~Has(S, "+") /\ dbg # "reply"
  <2>1. Starts \/ Skips \/ Collects \/ Naks
    BY <1>8, HandlesByte
  <2>2. ~Has(S2, "+")
    <3>1. CASE out' = out
      <4>1. S2 = S
        BY <1>1, <1>3, <3>1 DEF Sent
      <4> QED BY <1>8, <4>1
    <3>2. CASE Naks
      <4>1. PICK T : T = Tagged(<<"-">>, q)
        OBVIOUS
      <4>2. Len(T) = 1 /\ T[1].c = "-" /\ IsSeq(T)
        BY <4>1, MarkOf DEF Mark
      <4>3. Joins(S, T, S2)
        BY <1>1, <1>3, <3>2, <4>1, <4>2, SentMore DEF Naks
      <4>4. ~Has(T, "+")
        BY <4>2 DEF Has
      <4> QED BY <1>8, <4>3, <4>4, HasNotJoins
    <3>3. CASE Skips /\ rx_data.c = "-"
      <4>1. Has(I, "-")
        BY <1>5, <3>3 DEF Has
      <4> QED BY <1>4, <1>8, <4>1 DEF Dialogue, Turns
    <3> QED BY <2>1, <3>1, <3>2, <3>3 DEF Starts, Skips, Collects
  <2> QED BY <1>1, <1>3, <1>8, <2>2 DEF AckedInv
<1> QED BY <1>6, <1>7, <1>8

(* A request that arrives whole is acked, and answered but for a continue. *)
LEMMA RequestServed ==
  ASSUME BaseInv, Turning, HandleByte, Serves, UNCHANGED <<lineVars, dbgVars>>
  PROVE  OnTrack'
<1>1. UNCHANGED <<to_host, dbg>>
  BY DEF lineVars, dbgVars
<1>2. dbg = "ack" /\ Len(Sent) = 0
  BY TurnServed
<1>3. PICK n, S, S2 : n = rx_data.q /\ S = Sent /\ S2 = Sent'
  OBVIOUS
<1>4. mode # "run" /\ debugger_attached' /\ DispatchPacket(payload, n)
  BY <1>3, HandlesByte DEF Serves
<1>5. \/ mode' = "loop" /\ \E r : CleanText(r) /\ out' = out \o Tagged(<<"+">> \o Frame(r), n)
      \/ mode' = "run" /\ out' = out \o Tagged(<<"+">>, n)
  BY <1>4, DispatchClean DEF BaseInv
<1>6. PICK b : b = Stopping'
  OBVIOUS
<1>7. Acking(S2, b)
  <2>1. ASSUME NEW r, CleanText(r), out' = out \o Tagged(<<"+">> \o Frame(r), n)
        PROVE  Acking(S2, b)
    <3>1. PICK z, T : z = Frame(r) /\ T = Tagged(<<"+">> \o z, n)
      OBVIOUS
    <3>2. IsReply(z)
      BY <2>1, <3>1 DEF IsReply
    <3>3. IsSeq(T)
      BY <2>1, <3>1, AckedPacketOf
    <3>4. Joins(S, T, S2)
      BY <1>1, <1>3, <2>1, <3>1, <3>3, SentMore
    <3>5. Len(S) = 0 /\ Joins(S, Tagged(<<"+">> \o z, n), S2)
      BY <1>2, <1>3, <3>1, <3>4
    <3> QED BY <3>2, <3>5, AckSaid
  <2>2. CASE mode' = "run" /\ out' = out \o Tagged(<<"+">>, n)
    <3>1. b = TRUE
      BY <1>4, <1>6, <2>2 DEF Stopping
    <3>2. PICK T : T = Tagged(<<"+">>, n)
      OBVIOUS
    <3>3. IsSeq(T)
      BY <3>2, MarkOf
    <3>4. Joins(S, T, S2)
      BY <1>1, <1>3, <2>2, <3>2, <3>3, SentMore
    <3>5. Len(S) = 0 /\ Joins(S, Tagged(<<"+">>, n), S2)
      BY <1>2, <1>3, <3>2, <3>4
    <3> QED BY <3>1, <3>5, AckSaid
  <2> QED BY <1>5, <2>1, <2>2
<1> QED BY <1>1, <1>2, <1>3, <1>6, <1>7 DEF OnTrack

LEMMA OnTrackHandled ==
  ASSUME BaseInv, CountInv, Turning, Running, AckedInv, TextsFit, OnTrack, HandleByte, ~Serves,
         UNCHANGED <<lineVars, dbgVars>>
  PROVE  OnTrack'
<1>1. /\ UNCHANGED <<to_host, to_board, dbg, dbg_in, asked>> /\ rx_valid /\ ~rx_valid'
      /\ mode = "getc"
  BY HandlesByte DEF lineVars, dbgVars
<1>2. Drops(Inbound, to_board) /\ Inbound[1] = rx_data /\ Inbound' = to_board
  BY <1>1, InboundHeld, InboundEmptyNext
<1>3. PICK I, J, S, D, S2 : I = Inbound /\ J = to_board /\ S = Sent /\ D = dbg_in /\ S2 = Sent'
  OBVIOUS
<1>4. Dialogue(I, S, D, Len(asked), q, parser_state, mode, dbg)
  BY <1>3 DEF Turning, Talking
<1>5. Drops(I, J) /\ I[1] = rx_data /\ 1 \in 1 .. Len(I)
  BY <1>2, <1>3 DEF Drops
<1>6. ASSUME Len(S) # 0 PROVE S2 = S
  <2>1. ~Has(I, "$") /\ ~Has(I, "-") /\ parser_state \notin Active
    BY <1>4, <1>6, SpeakerSilences
  <2>2. rx_data.c # "$" /\ rx_data.c # "-"
    BY <1>5, <2>1 DEF Has
  <2>3. out' = out
    BY <2>1, <2>2, HandlesByte DEF Starts, Skips, Collects, Naks, Active
  <2> QED BY <1>1, <1>3, <2>3 DEF Sent
<1>7. PICK b, b2 : b = Stopping /\ b2 = Stopping'
  OBVIOUS
<1>8. ~b
  BY <1>1, <1>7 DEF Stopping
<1>9. CASE dbg = "ack"
  <2>1. Acking(S, b) \/ Reaching
    BY <1>3, <1>7, <1>9 DEF OnTrack
  <2>2. CASE Acking(S, b)
    <3>1. S2 = S
      BY <1>6, <2>2 DEF Acking
    <3>2. Acking(S2, b2)
      BY <1>8, <2>2, <3>1 DEF Acking
    <3> QED BY <1>1, <1>3, <1>7, <1>9, <3>2 DEF OnTrack
  <2>3. CASE Reaching
    <3>1. asked # <<>>
      BY <1>4, <1>9, LinesAre DEF Dialogue, Turns
    <3>2. Reaching'
      BY <2>3, <3>1, RequestTaken
    <3> QED BY <1>1, <1>9, <3>2 DEF OnTrack
  <2> QED BY <2>1, <2>2, <2>3
<1>10. CASE dbg = "reply"
  <2>1. Has(I, "-") \/ Replying(S, D)
    BY <1>3, <1>7, <1>8, <1>10 DEF OnTrack
  <2>2. CASE Replying(S, D)
    <3>1. Replying(S2, D)
      BY <1>6, <2>2 DEF Replying
    <3> QED BY <1>1, <1>3, <1>10, <3>1 DEF OnTrack
  <2>3. CASE Has(I, "-") /\ rx_data.c # "-"
    <3>1. PICK i \in 1 .. Len(I) : I[i].c = "-"
      BY <2>3 DEF Has
    <3>2. i - 1 \in 1 .. Len(J) /\ J[i - 1] = I[i]
      BY <1>5, <2>3, <3>1 DEF Drops
    <3>3. Has(J, "-")
      BY <3>1, <3>2 DEF Has
    <3> QED BY <1>1, <1>2, <1>3, <1>10, <3>3 DEF OnTrack
  <2>4. CASE Has(I, "-") /\ rx_data.c = "-"
    <3>1. parser_state = "WAIT_START"
      BY <1>10 DEF AckedInv
    <3>2. Len(S) = 0 /\ Len(D) = 0
      BY <1>4, <2>4 DEF Dialogue, Turns, Speaking
    <3>3. out' = out \o Tagged(Frame(last_reply), q)
      BY <2>4, <3>1, WaitsOn
    <3>4. PICK z, n, T : z = Frame(last_reply) /\ n = q /\ T = Tagged(z, n)
      OBVIOUS
    <3>5. IsReply(z) /\ IsSeq(T)
      BY <3>4, PacketOf DEF BaseInv, StoreInv, IsReply
    <3>6. Joins(S, T, S2)
      BY <1>1, <1>3, <3>3, <3>4, <3>5, SentMore
    <3>7. Replying(S2, D)
      BY <3>2, <3>4, <3>5, <3>6, ReplySaid
    <3> QED BY <1>1, <1>3, <1>10, <3>7 DEF OnTrack
  <2> QED BY <2>1, <2>2, <2>3, <2>4
<1>11. CASE dbg \notin {"ack", "reply"}
  BY <1>1, <1>11 DEF OnTrack
<1> QED BY <1>9, <1>10, <1>11

LEMMA PatientHandle ==
  ASSUME BaseInv, CountInv, Turning, Running, Patience, TextsFit, HandleByte,
         UNCHANGED <<lineVars, dbgVars>>
  PROVE  Patience'
<1>1. UNCHANGED <<tries, faultVars, dbg>>
  BY DEF lineVars, dbgVars
<1>2. AckedInv /\ AckedInv'
  BY AckedHandle DEF Patience
<1>3. OnTrack => OnTrack'
  BY <1>2, RequestServed, OnTrackHandled
<1>4. Patient'
  BY <1>1, <1>3, PatientOn DEF Patience
<1> QED BY <1>2, <1>4 DEF Patience

LEMMA NoneIsEmpty ==
  ASSUME NEW s, IsSeq(s)
  PROVE  Len(s) = 0 <=> s = <<>>
BY DEF IsSeq

(* What is sent again puts the two sides on track.                         *)
LEMMA SendsFirst ==
  ASSUME BaseInv, UNCHANGED rxVars, NEW z, IsSeq(z), Len(z) # 0, NEW n, Send(z, n)
  PROVE  Has(Inbound', z[1])
<1>1. PICK T : T = Tagged(z, n)
  OBVIOUS
<1>2. IsSeq(T) /\ Len(T) = Len(z) /\ Len(T) \in Nat /\ \A i \in 1 .. Len(T) : T[i].c = z[i]
  BY <1>1, TaggedIs
<1>3. Joins(Inbound, T, Inbound')
  BY <1>1, <1>2, InboundMore DEF Send
<1>4. PICK I, J : I = Inbound /\ J = Inbound'
  OBVIOUS
<1>5. /\ Len(J) = Len(I) + Len(T) /\ Len(I) \in Nat
      /\ \A i \in 1 .. Len(T) : J[Len(I) + i] = T[i]
  BY <1>3, <1>4, JoinsSay
<1>6. 1 \in 1 .. Len(T) /\ Len(I) + 1 \in 1 .. Len(J)
  BY <1>2, <1>5
<1>7. J[Len(I) + 1].c = z[1]
  BY <1>2, <1>5, <1>6
<1> QED BY <1>4, <1>6, <1>7 DEF Has

LEMMA PatientAgain ==
  ASSUME BaseInv, Patient, ~OnTrack, UNCHANGED <<rxVars, asked, faultVars>>, asked # <<>>,
         \/ dbg = "ack" /\ Again(Frame(request.text))
         \/ dbg = "reply" /\ Again(<<"-">>)
  PROVE  Patient'
<1>1. tries \in Nat /\ faults \in Nat /\ tries < faults /\ faults' = faults /\ MAX_TRIES \in Nat
  BY FaultsCount, LinkParams DEF Patient
<1>2. CASE tries = MAX_TRIES
  <2>1. dbg' = "gone" /\ tries' = tries
    BY <1>2 DEF Again
  <2> QED BY <1>1, <1>2, <2>1 DEF Patient, OnTrack
<1>3. CASE tries # MAX_TRIES
  <2>1. tries' = tries + 1 /\ dbg' = dbg
    BY <1>3 DEF Again
  <2>2. CASE dbg = "ack" /\ Send(Frame(request.text), Len(asked))
    <3>1. PICK x, z, n : x = request.text /\ z = Frame(x) /\ n = Len(asked)
      OBVIOUS
    <3>2. IsSeq(z) /\ Len(z) # 0 /\ z[1] = "$"
      <4>1. x \in Seq(Char) /\ Len(x) \in Nat
        BY <3>1, LastRequest, RequestText
      <4> QED BY <3>1, <4>1, FrameParts, SeqFrame DEF IsSeq
    <3>3. Has(Inbound', "$")
      BY <2>2, <3>1, <3>2, SendsFirst
    <3>4. Reaching'
      BY <3>3 DEF Reaching, Arriving
    <3>5. OnTrack'
      BY <2>1, <2>2, <3>4 DEF OnTrack
    <3> QED BY <1>1, <2>1, <2>2, <3>5 DEF Patient
  <2>3. CASE dbg = "reply" /\ Send(<<"-">>, Len(asked))
    <3>1. PICK z, n : z = <<"-">> /\ n = Len(asked)
      OBVIOUS
    <3>2. IsSeq(z) /\ Len(z) # 0 /\ z[1] = "-"
      BY <3>1, SeqOfOne
    <3>3. Has(Inbound', "-")
      BY <2>3, <3>1, <3>2, SendsFirst
    <3>4. OnTrack'
      BY <2>1, <2>3, <3>3 DEF OnTrack
    <3> QED BY <1>1, <2>1, <2>3, <3>4 DEF Patient
  <2> QED BY <1>3, <2>2, <2>3 DEF Again
<1> QED BY <1>2, <1>3

LEMMA PatientAsk ==
  ASSUME BaseInv, Turning, Patience, NEW cmd \in Commands, Ask(cmd), ~HasNak(cmd)
  PROVE  Patience'
<1>1. dbg' = "ack" /\ tries' = 0 /\ UNCHANGED <<rxVars, faultVars>>
      /\ Send(Frame(cmd.text), Len(asked'))
  BY DEF Ask
<1>2. Len(Sent) = 0 /\ Sent' = Sent
  BY TurnAsk
<1>3. AckedInv'
  <2>1. PICK S : S = Sent
    OBVIOUS
  <2>2. ~Has(S, "+")
    BY <1>2, <2>1 DEF Has
  <2> QED BY <1>1, <1>2, <2>1, <2>2 DEF AckedInv
<1>4. Has(Inbound', "$")
  <2>1. PICK x, z, n : x = cmd.text /\ z = Frame(x) /\ n = Len(asked')
    OBVIOUS
  <2>2. IsSeq(z) /\ Len(z) # 0 /\ z[1] = "$"
    <3>1. x \in Seq(Char) /\ Len(x) \in Nat
      BY <2>1, RequestText
    <3> QED BY <2>1, <3>1, FrameParts, SeqFrame DEF IsSeq
  <2> QED BY <1>1, <2>1, <2>2, SendsFirst
<1>5. OnTrack'
  BY <1>1, <1>4 DEF OnTrack, Reaching, Arriving
<1>6. faults' = faults /\ faults \in Nat
  BY <1>1, FaultsCount
<1>7. Patient'
  BY <1>1, <1>5, <1>6 DEF Patient
<1> QED BY <1>3, <1>7 DEF Patience

(* The debugger reads: on track, the ack or a byte of an intact reply.     *)
LEMMA OnTrackRead ==
  ASSUME BaseInv, CountInv, Turning, NaksMeant, Patience, OnTrack, Read
  PROVE  OnTrack' /\ tries' <= tries /\ tries' \in Nat /\ dbg' # "gone"
<1>1. /\ dbg \in {"ack", "reply"} /\ Drops(Sent, Sent')
      /\ UNCHANGED <<asked, mode, debugger_attached, parser_state>>
  BY ReadsByte
<1>2. PICK I, S, D, S2 : I = Inbound /\ S = Sent /\ D = dbg_in /\ S2 = Sent'
  OBVIOUS
<1>3. Dialogue(I, S, D, Len(asked), q, parser_state, mode, dbg)
  BY <1>2 DEF Turning, Talking
<1>4. Drops(S, S2) /\ Len(S) # 0 /\ 1 \in 1 .. Len(S) /\ IsSeq(D)
  BY <1>1, <1>2, LinesAre DEF Drops
<1>5. PICK b, t : b = Stopping /\ t = tries
  OBVIOUS
<1>6. t \in Nat /\ Stopping' = b
  BY <1>1, <1>5 DEF Patience, Patient, Stopping
<1>7. CASE dbg = "ack"
  <2>1. asked # <<>>
    BY <1>3, <1>7, LinesAre DEF Dialogue, Turns
  <2>2. ~Reaching
    <3>1. ~Has(I, "$") /\ parser_state \notin Active
      BY <1>3, <1>4, SpeakerSilences
    <3>2. PICK x, w, y : x = request.text /\ w = Sums(request.text) /\ y = Frame(request.text)
      OBVIOUS
    <3>3. Spelled(x, w, y)
      BY <2>1, <3>2, LastRequest, SpelledRequest
    <3>4. PICK n : n = Len(payload) /\ n \in Nat
      BY PayloadIs
    <3>5. ~Arriving(I, parser_state, n, checksum, received_checksum, x, w, y)
      BY <3>1, <3>3, <3>4, NothingArrives
    <3> QED BY <1>2, <3>2, <3>4, <3>5 DEF Reaching
  <2>3. Acking(S, b)
    BY <1>2, <1>5, <1>7, <2>2 DEF OnTrack
  <2>4. S[1].c = "+"
    BY <2>3 DEF Acking
  <2>5. Len(D) = 0
    BY <1>3, <1>4, <2>4 DEF Dialogue, SentShape
  <2>6. dbg_in = <<>>
    BY <1>2, <1>4, <2>5, NoneIsEmpty
  <2>7. ReadMark(Sent[1])
    BY <1>2, <2>4, <2>6, ReadsByte
  <2>8. dbg' = "reply" /\ tries' = 0 /\ dbg_in' = D
    BY <1>2, <1>7, <2>4, <2>7 DEF ReadMark
  <2>9. Replying(S2, D) \/ (b /\ Len(S2) = 0)
    BY <1>4, <2>3, <2>5, AckRead
  <2>10. OnTrack'
    BY <1>2, <1>6, <2>8, <2>9 DEF OnTrack
  <2> QED BY <1>5, <1>6, <2>8, <2>10
<1>8. CASE dbg = "reply"
  <2>1. ~Has(I, "-")
    BY <1>3, <1>4, SpeakerSilences
  <2>2. Replying(S, D)
    BY <1>2, <1>4, <1>8, <2>1 DEF OnTrack
  <2>3. PICK bytes : bytes = Append(D, S[1])
    OBVIOUS
  <2>4. /\ Len(D) = 0 <=> S[1].c = "$"
        /\ Complete(bytes) => Intact(bytes)
        /\ ~Complete(bytes) => Replying(S2, bytes)
    BY <1>4, <2>2, <2>3, ReplyRead
  <2>5. D = <<>> <=> S[1].c = "$"
    BY <1>4, <2>4, NoneIsEmpty
  <2>6. \/ /\ dbg' = "idle" /\ tries' = tries
        \/ /\ dbg' = dbg /\ tries' = tries /\ dbg_in' = bytes /\ ~Complete(bytes)
    <3>1. PICK c : c = Head(to_host)
      OBVIOUS
    <3>2. c = S[1]
      <4>1. to_host # <<>> /\ to_host' = Tail(to_host) /\ UNCHANGED out
        BY ReadsByte DEF Read
      <4> QED BY <1>2, <3>1, <4>1, SentLess
    <3>3. bytes = IF c.c = "$" THEN <<c>> ELSE Append(dbg_in, c)
      <4>1. CASE c.c = "$"
        <5>1. D = <<>>
          BY <2>5, <3>2, <4>1
        <5>2. Append(<<>>, c) = <<c>>
          OBVIOUS
        <5> QED BY <2>3, <3>2, <4>1, <5>1, <5>2
      <4> QED BY <1>2, <2>3, <3>2, <4>1
    <3>4. \/ dbg_in = <<>> /\ c.c # "$" /\ ReadMark(c)
          \/ Complete(bytes) /\ dbg_in # <<>> /\ ReadPacket(bytes)
          \/ ~Complete(bytes) /\ dbg_in' = bytes /\ UNCHANGED <<dbg, tries>>
      BY <3>1, <3>3 DEF Read
    <3>5. ~(dbg_in = <<>> /\ c.c # "$")
      BY <1>2, <2>5, <3>2
    <3>6. CASE Complete(bytes) /\ ReadPacket(bytes)
      BY <1>8, <2>4, <3>6 DEF ReadPacket
    <3> QED BY <3>4, <3>5, <3>6
  <2>7. CASE dbg' = "idle" /\ tries' = tries
    <3>1. OnTrack'
      BY <2>7 DEF OnTrack
    <3> QED BY <1>5, <1>6, <2>7, <3>1
  <2>8. CASE dbg' = dbg /\ tries' = tries /\ dbg_in' = bytes /\ ~Complete(bytes)
    <3>1. Replying(S2, bytes)
      BY <2>4, <2>8
    <3>2. OnTrack'
      BY <1>2, <1>8, <2>8, <3>1 DEF OnTrack
    <3> QED BY <1>5, <1>6, <1>8, <2>8, <3>2
  <2> QED BY <2>6, <2>7, <2>8
<1> QED BY <1>1, <1>7, <1>8

LEMMA PatientRead ==
  ASSUME BaseInv, CountInv, Turning, NaksMeant, Patience, Read
  PROVE  Patience'
<1>1. /\ UNCHANGED <<asked, rxVars, parser_state, faultVars>> /\ dbg \in {"ack", "reply"}
      /\ Drops(Sent, Sent')
  BY ReadsByte DEF Read
<1>2. PICK S, S2 : S = Sent /\ S2 = Sent'
  OBVIOUS
<1>3. AckedInv'
  <2>1. Has(S2, "+") => Has(S, "+")
    BY <1>1, <1>2, HasDrops
  <2>2. dbg' = "reply" => dbg = "reply" \/ Has(S, "+")
    <3> SUFFICES ASSUME dbg' = "reply", dbg = "ack" PROVE Has(S, "+")
      BY <1>1
    <3>1. 1 \in 1 .. Len(S)
      BY <1>1, <1>2 DEF Drops
    <3>2. PICK c : c = S[1]
      OBVIOUS
    <3>3. c.c = "+"
      <4>1. CASE ReadMark(c)
        BY <4>1 DEF ReadMark, Again
      <4>2. ASSUME NEW bytes, ReadPacket(bytes) PROVE FALSE
        BY <4>2 DEF ReadPacket
      <4> QED BY <1>2, <3>2, <4>1, <4>2, ReadsByte
    <3> QED BY <3>1, <3>2, <3>3 DEF Has
  <2> QED BY <1>1, <1>2, <2>1, <2>2 DEF AckedInv, Patience
<1>4. tries \in Nat /\ faults \in Nat /\ faults' = faults /\ tries <= faults
  BY <1>1, FaultsCount DEF Patience, Patient
<1>5. CASE OnTrack
  <2>1. OnTrack' /\ tries' <= tries /\ tries' \in Nat /\ dbg' # "gone"
    BY <1>5, OnTrackRead
  <2>2. tries' <= faults'
    BY <1>4, <2>1
  <2>3. Patient'
    BY <2>1, <2>2 DEF Patient
  <2> QED BY <1>3, <2>3 DEF Patience
<1>6. CASE ~OnTrack
  <2>1. tries < faults
    BY <1>6 DEF Patience, Patient
  <2>2. \/ dbg = "ack" /\ Again(Frame(request.text))
        \/ dbg = "reply" /\ Again(<<"-">>)
        \/ (tries' = tries \/ tries' = 0) /\ dbg' # "gone"
    <3>1. ASSUME NEW c, ReadMark(c)
          PROVE  \/ dbg = "ack" /\ Again(Frame(request.text))
                 \/ (tries' = tries \/ tries' = 0) /\ dbg' # "gone"
      BY <1>1, <3>1 DEF ReadMark
    <3>2. ASSUME NEW bytes, ReadPacket(bytes)
          PROVE  \/ dbg = "reply" /\ Again(<<"-">>)
                 \/ tries' = tries /\ dbg' # "gone"
      BY <1>1, <3>2 DEF ReadPacket
    <3>3. (\E c : ReadMark(c)) \/ (\E bytes : ReadPacket(bytes)) \/ UNCHANGED <<dbg, tries>>
      BY DEF Read
    <3> QED BY <1>1, <3>1, <3>2, <3>3
  <2>3. CASE (tries' = tries \/ tries' = 0) /\ dbg' # "gone"
    <3>1. tries' \in Nat /\ tries' <= faults' /\ tries' < faults'
      BY <1>4, <2>1, <2>3
    <3>2. Patient'
      BY <2>3, <3>1 DEF Patient
    <3> QED BY <1>3, <3>2 DEF Patience
  <2>4. CASE \/ dbg = "ack" /\ Again(Frame(request.text))
             \/ dbg = "reply" /\ Again(<<"-">>)
    <3>1. asked # <<>>
      BY <1>1, LinesAre DEF Turning, Talking, Dialogue, Turns
    <3>2. Patient'
      BY <1>1, <1>6, <2>4, <3>1, PatientAgain DEF Patience
    <3> QED BY <1>3, <3>2 DEF Patience
  <2> QED BY <2>2, <2>3, <2>4
<1> QED BY <1>5, <1>6

(* When it is silent everywhere, something went wrong.                     *)
LEMMA PatientTimeout ==
  ASSUME BaseInv, CountInv, Turning, NaksMeant, Patience, Timeout
  PROVE  Patience'
<1>1. /\ UNCHANGED <<asked, rxVars, faultVars, parser_state>> /\ mode = "getc"
      /\ to_host = <<>> /\ out = <<>>
      /\ \/ dbg = "ack" /\ Again(Frame(request.text))
         \/ dbg = "reply" /\ Again(<<"-">>)
  BY DEF Timeout, Silent, parserVars
<1>2. Sent' = Sent /\ Len(Inbound) = 0
  BY TurnTimeout
<1>3. PICK I, S, D : I = Inbound /\ S = Sent /\ D = dbg_in
  OBVIOUS
<1>4. Len(S) = 0 /\ Len(I) = 0
  <2>1. <<>> \o <<>> = <<>>
    BY SeqOfNone, NoneJoins
  <2> QED BY <1>1, <1>2, <1>3, <2>1 DEF Sent
<1>5. asked # <<>>
  BY <1>1, LinesAre DEF Turning, Talking, Dialogue, Turns
<1>6. ~Stopping
  BY <1>1 DEF Stopping
<1>7. ~OnTrack
  <2>1. ~Reaching
    <3>1. PICK x, w, y : x = request.text /\ w = Sums(request.text) /\ y = Frame(request.text)
      OBVIOUS
    <3>2. Spelled(x, w, y)
      BY <1>5, <3>1, LastRequest, SpelledRequest
    <3>3. PICK n : n = Len(payload) /\ n \in Nat
      BY PayloadIs
    <3>4. ~Arriving(I, parser_state, n, checksum, received_checksum, x, w, y)
      BY <1>4, <3>2, <3>3, NothingArrives
    <3> QED BY <1>3, <3>1, <3>3, <3>4 DEF Reaching
  <2>2. PICK b : b = Stopping
    OBVIOUS
  <2>3. ~Acking(S, b) /\ ~Replying(S, D) /\ ~Has(I, "-")
    BY <1>4 DEF Acking, Replying, Has
  <2>4. CASE dbg = "ack"
    BY <1>3, <2>1, <2>2, <2>3, <2>4 DEF OnTrack
  <2>5. CASE dbg = "reply"
    BY <1>3, <1>6, <2>3, <2>5 DEF OnTrack
  <2> QED BY <1>1, <2>4, <2>5
<1>8. Patient'
  BY <1>1, <1>5, <1>7, PatientAgain DEF Patience
<1>9. AckedInv'
  <2>1. dbg' = "reply" => dbg = "reply"
    BY <1>1 DEF Again
  <2>2. Has(S, "+") \/ dbg = "reply" => parser_state = "WAIT_START"
    BY <1>3 DEF Patience, AckedInv
  <2> QED BY <1>1, <1>2, <1>3, <2>1, <2>2 DEF AckedInv
<1> QED BY <1>8, <1>9 DEF Patience

LEMMA PatientStub ==
  ASSUME BaseInv, CountInv, Turning, Running, Patience, TextsFit, StubStep
  PROVE  Patience'
<1>1. UNCHANGED <<lineVars, dbgVars>> /\ (Stop \/ CheckErrors \/ HandleByte)
  BY DEF StubStep
<1>2. CASE Stop
  BY <1>1, <1>2, PatientStop
<1>3. CASE HandleByte
  BY <1>1, <1>3, PatientHandle
<1>4. CASE CheckErrors
  <2>1. mode = "loop" /\ UNCHANGED <<parserVars, out, rx_valid, rx_data>>
    BY <1>4 DEF CheckErrors, Turning
  <2>2. UNCHANGED <<to_board, to_host, dbg, dbg_in, tries, faultVars, asked>>
    BY <1>1 DEF lineVars, dbgVars
  <2>3. Inbound' = Inbound /\ Sent' = Sent
    BY <2>1, <2>2 DEF Inbound, Sent
  <2>4. ~Stopping
    BY <2>1 DEF Stopping
  <2> QED BY <2>1, <2>2, <2>3, <2>4, PatientQuiet
<1> QED BY <1>1, <1>2, <1>3, <1>4

LEMMA PatienceStep ==
  ASSUME BaseInv, CountInv, TurnInv, RunInv, PatienceInv, ForeignJunk, TextsFit, [Next]_vars
  PROVE  PatienceInv'
<1> SUFFICES ASSUME NaksMeant' PROVE Patience'
  BY DEF PatienceInv
<1>1. NaksMeant /\ ~FramingError /\ \A cmd \in Commands : Ask(cmd) => ~HasNak(cmd)
  BY NaksMeantBefore
<1>2. Turning /\ Running /\ Patience
  BY <1>1 DEF TurnInv, RunInv, PatienceInv
<1>3. CASE StubStep
  BY <1>2, <1>3, PatientStub
<1>4. CASE PutByte
  <2>1. Sent' = Sent /\ Inbound' = Inbound
    BY <1>2, <1>4, TurnPutByte
  <2>2. UNCHANGED <<mode, debugger_attached, dbg, dbg_in, tries, faultVars, asked, parserVars>>
    BY <1>4 DEF PutByte, dbgVars
  <2>3. Stopping => Stopping'
    BY <2>2 DEF Stopping
  <2> QED BY <1>2, <2>1, <2>2, <2>3, PatientQuiet
<1>5. CASE Deliver
  <2>1. Sent' = Sent /\ Inbound' = Inbound
    BY <1>2, <1>5, TurnDeliver
  <2>2. UNCHANGED <<mode, debugger_attached, dbg, dbg_in, tries, faultVars, asked, parserVars>>
    BY <1>5 DEF Deliver, Receive, stubVars, dbgVars
  <2>3. Stopping => Stopping'
    BY <2>2 DEF Stopping
  <2> QED BY <1>2, <2>1, <2>2, <2>3, PatientQuiet
<1>6. CASE GarbleInput \/ LoseOutput
  BY <1>2, <1>6, PatientFault
<1>7. ASSUME NEW cmd \in Commands, Ask(cmd) PROVE Patience'
  BY <1>1, <1>2, <1>7, PatientAsk
<1>8. CASE Read
  BY <1>1, <1>2, <1>8, PatientRead
<1>9. CASE Timeout
  BY <1>1, <1>2, <1>9, PatientTimeout
<1>10. CASE UNCHANGED vars
  <2>1. Sent' = Sent /\ Inbound' = Inbound
    BY <1>2, <1>10, TurnSame
  <2>2. UNCHANGED <<mode, debugger_attached, dbg, dbg_in, tries, faultVars, asked, parserVars>>
    BY <1>10 DEF vars, stubVars, lineVars, dbgVars
  <2>3. Stopping => Stopping'
    BY <2>2 DEF Stopping
  <2> QED BY <1>2, <2>1, <2>2, <2>3, PatientQuiet
<1> QED BY <1>1, <1>3, <1>4, <1>5, <1>6, <1>7, <1>8, <1>9, <1>10 DEF Next

LEMMA PatienceInit == Init => PatienceInv
<1> SUFFICES ASSUME Init PROVE Patience
  BY DEF PatienceInv
<1>1. /\ dbg = "idle" /\ tries = 0 /\ parser_state = "WAIT_START"
      /\ garbled = 0 /\ misframed = 0 /\ lost = 0
  BY DEF Init, StubInit, ParserInit
<1>2. faults = 0
  BY <1>1 DEF faults
<1>3. OnTrack /\ AckedInv
  BY <1>1 DEF OnTrack, AckedInv
<1> QED BY <1>1, <1>2, <1>3 DEF Patience, Patient

(* What wears out the patience of the debugger is the line, never the      *)
(* stub: before it gives up, more bytes were garbled or lost than it has   *)
(* tries.                                                                  *)
THEOREM PatienceInvariance == ForeignJunk /\ TextsFit => (Spec => []PatienceInv)
<1> SUFFICES ASSUME ForeignJunk, TextsFit PROVE Spec => []PatienceInv
  OBVIOUS
<1> DEFINE Inv == BaseInv /\ CountInv /\ TurnInv /\ RunInv /\ PatienceInv
<1>1. Init => Inv
  BY BaseInit, TurnInit, RunInit, PatienceInit
<1>2. Inv /\ [Next]_vars => Inv'
  BY BaseStep, CountStep, TurnStep, RunStep, PatienceStep
<1>3. Inv => PatienceInv
  OBVIOUS
<1> HIDE DEF Inv
<1> QED BY <1>1, <1>2, <1>3, PTL DEF Spec

(* SurvivesAFault: a debugger that asks more than once loses its session   *)
(* to no single fault, wherever it hits: the request or its checksum, the  *)
(* ack, the reply, or the report of a stop.                                *)
THEOREM FaultsAreSurvived ==
  ForeignJunk /\ TextsFit /\ MAX_TRIES >= 1 => (Spec => []SurvivesAFault)
<1> SUFFICES ASSUME ForeignJunk, TextsFit, MAX_TRIES >= 1 PROVE Spec => []SurvivesAFault
  OBVIOUS
<1>1. PatienceInv /\ BaseInv => SurvivesAFault
  <2> SUFFICES ASSUME NaksMeant, PatienceInv, BaseInv, dbg = "gone" PROVE faults > 1
    BY DEF SurvivesAFault
  <2>1. faults > MAX_TRIES
    BY DEF PatienceInv, Patience, Patient
  <2> QED BY <2>1, FaultsCount, LinkParams
<1>2. (Spec => []PatienceInv) /\ (Spec => [](BaseInv /\ TurnInv))
  BY PatienceInvariance, TurnInvariance
<1> QED BY <1>1, <1>2, PTL

=============================================================================
