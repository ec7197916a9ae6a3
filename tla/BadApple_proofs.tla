-------------------------- MODULE BadApple_proofs --------------------------
(***************************************************************************)
(* The media player for any asset, counter width, queue length and button  *)
(* filter.                                                                 *)
(***************************************************************************)
EXTENDS BadApple, FiniteSetTheorems, SequenceTheorems, TLAPS

(***************************************************************************)
(* The button.                                                             *)
(***************************************************************************)
N == STABLE_SAMPLES
KeyTypes == /\ sampled \in BOOLEAN /\ stable \in BOOLEAN /\ level \in BOOLEAN
            /\ paused \in BOOLEAN
            /\ count \in 0 .. N /\ samples \in [1 .. N -> BOOLEAN]
(* The last count samples are equal; the one before them is not, unless    *)
(* nothing but the released key was ever seen.                             *)
Quiet == sampled = FALSE /\ level = FALSE /\ \A i \in 1 .. N : samples[i] = FALSE
Counted == /\ \A i \in 1 .. N : i > N - count => samples[i] = sampled
           /\ Quiet \/ (count >= 1 /\ (count < N => samples[N - count] # sampled))
KeyInv == KeyTypes /\ Counted /\ stable = level

LEMMA Shift ==
  ASSUME NEW s \in [1 .. N -> BOOLEAN], NEW b \in BOOLEAN
  PROVE  /\ Append(Tail(s), b) \in [1 .. N -> BOOLEAN]
         /\ Append(Tail(s), b)[N] = b
         /\ \A i \in 1 .. N - 1 : Append(Tail(s), b)[i] = s[i + 1]
<1>1. N \in Nat \ {0}
  BY MediaAssumption DEF N
<1> HIDE DEF N
<1>2. s \in Seq(BOOLEAN) /\ Len(s) = N /\ s # <<>>
  <2>1. s \in Seq(BOOLEAN)
    BY <1>1, SeqDef
  <2>2. Len(s) = N
    BY <1>1, <2>1, LenProperties
  <2> QED BY <1>1, <2>1, <2>2
<1>3. /\ Tail(s) \in Seq(BOOLEAN) /\ Len(Tail(s)) = N - 1
      /\ \A i \in 1 .. N - 1 : Tail(s)[i] = s[i + 1]
  BY <1>1, <1>2, HeadTailProperties
<1> DEFINE r == Append(Tail(s), b)
<1>4. /\ r \in Seq(BOOLEAN) /\ Len(r) = N /\ r[N] = b
      /\ \A i \in 1 .. N - 1 : r[i] = s[i + 1]
  BY <1>1, <1>3, AppendProperties
<1>5. r \in [1 .. N -> BOOLEAN]
  <2> HIDE DEF r
  <2> QED BY <1>4, LenProperties
<1> QED BY <1>4, <1>5

LEMMA SampleCounts ==
  ASSUME KeyInv, NEW pressed \in BOOLEAN, Sample(pressed)
  PROVE  KeyInv' /\ ((paused' # paused) <=> (level' /\ ~level))
<1> DEFINE n == StableCount(pressed)
           s == samples'
<1>1. N \in Nat \ {0} /\ count \in 0 .. N /\ N = STABLE_SAMPLES
  BY MediaAssumption DEF KeyInv, KeyTypes, N
<1>2. /\ s \in [1 .. N -> BOOLEAN] /\ s[N] = pressed
      /\ \A i \in 1 .. N - 1 : s[i] = samples[i + 1]
  <2>1. samples \in [1 .. N -> BOOLEAN] /\ s = Append(Tail(samples), pressed)
    BY DEF Sample, KeyInv, KeyTypes
  <2> HIDE DEF s
  <2>2. s \in [1 .. N -> BOOLEAN]
    BY <2>1, Shift
  <2>3. s[N] = pressed
    BY <2>1, Shift
  <2>4. \A i \in 1 .. N - 1 : s[i] = samples[i + 1]
    BY ZenonT(60), <2>1, Shift
  <2> QED BY <2>2, <2>3, <2>4
<1>3. n = IF pressed = sampled THEN IF count < N THEN count + 1 ELSE count ELSE 1
  BY DEF StableCount, N
<1>4. n \in 1 .. N
  BY <1>1, <1>3
<1>5. sampled' = pressed /\ count' = n
  BY DEF Sample
<1>6. stable' = IF n = N /\ stable # pressed THEN pressed ELSE stable
  BY <1>1 DEF Sample
<1>7. level' = IF \A i \in 1 .. N : s[i] = pressed THEN pressed ELSE level
  <2>1. DOMAIN s = 1 .. N
    BY <1>2
  <2>2. level' = IF \A i \in DOMAIN s : s[i] = pressed THEN pressed ELSE level
    BY DEF Sample
  <2> QED BY <2>1, <2>2
<1>8. paused' = IF n = N /\ stable # pressed /\ pressed THEN ~paused ELSE paused
  BY <1>1 DEF Sample
<1> HIDE DEF n, s
<1>9. /\ \A i \in 1 .. N : i > N - count => samples[i] = sampled
      /\ Quiet \/ (count >= 1 /\ (count < N => samples[N - count] # sampled))
      /\ stable = level /\ sampled \in BOOLEAN /\ level \in BOOLEAN /\ paused \in BOOLEAN
  BY DEF KeyInv, KeyTypes, Counted
<1>10. \A i \in 1 .. N : i > N - n => s[i] = pressed
  <2> SUFFICES ASSUME NEW i \in 1 .. N, i > N - n PROVE s[i] = pressed
    OBVIOUS
  <2>1. CASE i = N
    BY <2>1, <1>2
  <2>2. CASE i < N
    <3>1. pressed = sampled /\ i + 1 > N - count /\ i + 1 \in 1 .. N
      BY <2>2, <1>1, <1>3, <1>4
    <3>2. samples[i + 1] = sampled
      BY <3>1, <1>9
    <3> QED BY <2>2, <3>1, <3>2, <1>1, <1>2
  <2> QED BY <1>1, <2>1, <2>2
<1>11. CASE Quiet /\ ~pressed
  <2>1. sampled = FALSE /\ level = FALSE /\ \A i \in 1 .. N : samples[i] = FALSE
    BY <1>11 DEF Quiet
  <2>2. \A i \in 1 .. N : s[i] = FALSE
    <3> SUFFICES ASSUME NEW i \in 1 .. N PROVE s[i] = FALSE
      OBVIOUS
    <3>1. i = N \/ (i \in 1 .. N - 1 /\ i + 1 \in 1 .. N)
      BY <1>1
    <3> QED BY <3>1, <2>1, <1>2, <1>11
  <2>3. level' = FALSE /\ stable' = FALSE /\ paused' = paused /\ sampled' = FALSE
    BY <2>1, <1>5, <1>6, <1>7, <1>8, <1>9, <1>11
  <2>4. Quiet'
    BY <2>2, <2>3 DEF Quiet, s
  <2>5. Counted'
    BY <1>1, <1>4, <1>5, <1>10, <2>4 DEF Counted, s
  <2>6. KeyTypes'
    <3>1. /\ sampled' \in BOOLEAN /\ stable' \in BOOLEAN /\ level' \in BOOLEAN
          /\ paused' \in BOOLEAN
      BY <2>3, <1>9
    <3>2. count' \in 0 .. N /\ samples' \in [1 .. N -> BOOLEAN]
      BY <1>1, <1>2, <1>4, <1>5 DEF s
    <3> QED BY <3>1, <3>2 DEF KeyTypes
  <2> QED BY <2>1, <2>3, <2>5, <2>6 DEF KeyInv
<1>12. CASE ~(Quiet /\ ~pressed)
  <2>1. n < N => s[N - n] # pressed
    <3> SUFFICES ASSUME n < N PROVE s[N - n] # pressed
      OBVIOUS
    <3>1. N - n \in 1 .. N - 1 /\ s[N - n] = samples[N - n + 1] /\ N - n + 1 \in 1 .. N
      BY <1>1, <1>2, <1>4
    <3>2. CASE pressed = sampled
      <4>1. n = count + 1 /\ count < N
        BY <3>2, <1>1, <1>3
      <4>2. ~Quiet
        BY <3>2, <1>9, <1>12 DEF Quiet
      <4>3. samples[N - count] # sampled /\ N - n + 1 = N - count
        BY <4>1, <4>2, <1>1, <1>9
      <4> QED BY <3>1, <3>2, <4>3
    <3>3. CASE pressed # sampled
      <4>1. n = 1 /\ N - n + 1 = N
        BY <3>3, <1>1, <1>3
      <4>2. samples[N] = sampled
        <5>1. CASE Quiet
          <6>1. N \in 1 .. N
            BY <1>1
          <6> QED BY <5>1, <6>1, Zenon DEF Quiet
        <5>2. CASE ~Quiet
          <6>1. count >= 1
            BY <5>2, <1>9
          <6> QED BY <6>1, <1>1, <1>9
        <5> QED BY <5>1, <5>2
      <4> QED BY <3>1, <3>3, <4>1, <4>2
    <3> QED BY <3>2, <3>3
  <2>2. (\A i \in 1 .. N : s[i] = pressed) <=> n = N
    <3>1. ASSUME n = N PROVE \A i \in 1 .. N : s[i] = pressed
      BY <3>1, <1>1, <1>10
    <3>2. ASSUME n # N PROVE \E i \in 1 .. N : s[i] # pressed
      <4>1. n < N /\ N - n \in 1 .. N
        BY <3>2, <1>1, <1>4
      <4> QED BY <4>1, <2>1
    <3> QED BY <3>1, <3>2
  <2>3. /\ level' = IF n = N THEN pressed ELSE level
        /\ level' \in BOOLEAN /\ stable' = level' /\ paused' \in BOOLEAN
        /\ (paused' # paused) <=> (level' /\ ~level)
    BY <2>2, <1>6, <1>7, <1>8, <1>9
  <2>4. Counted'
    BY <2>1, <1>1, <1>4, <1>5, <1>10 DEF Counted, s
  <2>5. KeyTypes'
    BY <2>3, <1>1, <1>2, <1>4, <1>5 DEF KeyTypes, s
  <2> QED BY <2>3, <2>4, <2>5 DEF KeyInv
<1> QED BY <1>11, <1>12

LEMMA KeyInvInit == Init => KeyInv
<1> SUFFICES ASSUME Init PROVE KeyInv
  OBVIOUS
<1>1. N \in Nat \ {0} /\ N = STABLE_SAMPLES
  BY MediaAssumption DEF N
<1>2. samples = [i \in 1 .. N |-> FALSE]
  BY <1>1 DEF Init
<1>3. samples \in [1 .. N -> BOOLEAN] /\ \A i \in 1 .. N : samples[i] = FALSE
  BY <1>2
<1>4. /\ sampled = FALSE /\ stable = FALSE /\ level = FALSE /\ paused = FALSE /\ count = 0
  BY DEF Init
<1>5. KeyTypes
  <2>1. count \in 0 .. N
    BY <1>1, <1>4
  <2> QED BY <1>3, <1>4, <2>1, Zenon DEF KeyTypes
<1> QED BY <1>3, <1>4, <1>5 DEF KeyInv, Counted, Quiet

(* Every other step leaves the button alone; only a new round touches the  *)
(* pause.                                                                  *)
LEMMA KeyFrame ==
  ASSUME Next \/ UNCHANGED vars, ~Button
  PROVE  UNCHANGED keyVars /\ (UNCHANGED paused \/ paused' = FALSE)
<1>1. CASE Playback
  BY <1>1 DEF Playback, Validate, WaitReady, Begin, Activate, While, ReadElapsed, CheckPaused,
    Pause, Silence, Paused, Restart, Resume, Reread, DrawFrame, NoEvent, PlayEvent, Progress,
    EndOfRound, End, Stop, keyVars, bitVars, envVars
<1>2. CASE Audio \/ LedLook \/ LedTake \/ VgaTick \/ VgaReady \/ \E t \in Tasks : Expire(t)
  BY <1>2 DEF Audio, LedLook, LedTake, VgaTick, VgaReady, Expire, keyVars, bitVars
<1>3. CASE UNCHANGED vars
  BY <1>3 DEF vars, envVars, keyVars, bitVars
<1> QED BY <1>1, <1>2, <1>3 DEF Next

LEMMA KeyInvNext ==
  KeyInv /\ [Next]_vars =>
    KeyInv' /\ (samples' # samples => ((paused' # paused) <=> (level' /\ ~level)))
<1> SUFFICES ASSUME KeyInv, [Next]_vars
             PROVE  KeyInv' /\ (samples' # samples => ((paused' # paused) <=> (level' /\ ~level)))
  OBVIOUS
<1>1. CASE Button
  BY <1>1, SampleCounts DEF Button
<1>2. CASE ~Button
  <2>1. UNCHANGED keyVars /\ (UNCHANGED paused \/ paused' = FALSE)
    BY <1>2, KeyFrame
  <2> QED BY <2>1 DEF KeyInv, KeyTypes, Counted, Quiet, keyVars
<1> QED BY <1>1, <1>2

(* KEY1 toggles once per press, for every length of the filter.            *)
THEOREM KeyToggles == Spec => OneTogglePerPress
<1>1. KeyInv /\ [Next]_vars =>
        [samples' # samples => ((paused' # paused) <=> (level' /\ ~level))]_vars
  BY KeyInvNext
<1> QED BY <1>1, KeyInvInit, KeyInvNext, PTL DEF Spec, OneTogglePerPress

(***************************************************************************)
(* Numbers.                                                                *)
(***************************************************************************)
LEMMA LeastOf ==
  ASSUME NEW S \in SUBSET Nat, S # {}
  PROVE  \E m \in S : \A k \in S : m <= k
<1>1. PICK m \in S : \A y \in S : <<y, m>> \notin OpToRel(<, Nat)
  BY NatLessThanWellFounded, WFMin
<1>2. ASSUME NEW k \in S PROVE m <= k
  <2>1. k \in Nat /\ m \in Nat /\ ~(k < m)
    BY <1>1 DEF OpToRel
  <2> QED BY <2>1
<1> QED BY <1>2

(* Induction along an interval, the predicate given as a set.              *)
LEMMA IntervalInduction ==
  ASSUME NEW m \in Nat, NEW S, 0 \in S, \A i \in 0 .. m - 1 : i \in S => i + 1 \in S
  PROVE  0 .. m \subseteq S
<1> DEFINE B == {i \in 0 .. m : i \notin S}
<1> SUFFICES ASSUME B # {} PROVE FALSE
  OBVIOUS
<1>1. PICK b \in B : \A k \in B : b <= k
  <2>1. B \in SUBSET Nat
    OBVIOUS
  <2> QED BY <2>1, LeastOf
<1>2. b \in 1 .. m /\ b \notin S /\ b - 1 \in 0 .. m - 1 /\ b - 1 \in 0 .. m /\ ~(b <= b - 1)
  OBVIOUS
<1>3. b - 1 \in S
  BY <1>1, <1>2
<1> QED BY <1>2, <1>3

(* The remainder of a difference or a sum of two readings of a counter.    *)
LEMMA Wrap ==
  ASSUME NEW w \in Nat \ {0}, NEW x \in Int
  PROVE  /\ x % w \in 0 .. w - 1
         /\ x \in 0 .. w - 1 => x % w = x
         /\ x \in -w .. -1 => x % w = x + w
  OBVIOUS

LEMMA WrapOver ==
  ASSUME NEW w \in Nat \ {0}, NEW x \in Nat, w <= x, x < w + w
  PROVE  x % w = x - w
  OBVIOUS

LEMMA WIsPositive == W \in Nat \ {0}
  BY MediaAssumption

(* k ticks later a difference that does not wrap is k larger.              *)
LEMMA SinceLater ==
  ASSUME NEW x \in 0 .. W - 1, NEW s \in 0 .. W - 1, NEW k \in Nat, ((x - s) % W) + k < W
  PROVE  /\ (x + k) % W \in 0 .. W - 1
         /\ (((x + k) % W) - s) % W = ((x - s) % W) + k
<1> DEFINE d == (x - s) % W
           y == (x + k) % W
<1>1. W \in Nat \ {0} /\ x - s \in Int /\ x + k \in Int
  BY WIsPositive
<1>2. /\ d \in 0 .. W - 1 /\ (x - s >= 0 => d = x - s) /\ (x - s < 0 => d = x - s + W)
  <2>1. x - s >= 0 => x - s \in 0 .. W - 1
    BY <1>1
  <2>2. x - s < 0 => x - s \in -W .. -1
    BY <1>1
  <2>3. /\ d \in 0 .. W - 1 /\ (x - s \in 0 .. W - 1 => d = x - s)
        /\ (x - s \in -W .. -1 => d = x - s + W)
    BY <1>1, Wrap
  <2> HIDE DEF d
  <2> QED BY <2>1, <2>2, <2>3
<1>3. k < W
  <2> HIDE DEF d
  <2> QED BY <1>1, <1>2
<1>4. /\ y \in 0 .. W - 1 /\ (x + k < W => y = x + k) /\ (x + k >= W => y = x + k - W)
  <2>1. y \in 0 .. W - 1
    BY <1>1, Wrap
  <2>2. ASSUME x + k < W PROVE y = x + k
    <3>1. x + k \in 0 .. W - 1
      BY <1>1, <2>2
    <3> QED BY <1>1, <3>1, Wrap
  <2>3. ASSUME x + k >= W PROVE y = x + k - W
    <3>1. x + k \in Nat /\ W <= x + k /\ x + k < W + W
      BY <1>1, <1>3, <2>3
    <3> DEFINE z == x + k
    <3>2. z \in Nat /\ W <= z /\ z < W + W
      BY <3>1
    <3> HIDE DEF z
    <3>3. z % W = z - W
      BY <1>1, <3>2, WrapOver
    <3> QED BY <1>1, <3>2, <3>3 DEF z
  <2> QED BY <2>1, <2>2, <2>3
<1>5. d + k < W
  OBVIOUS
<1> HIDE DEF d, y
<1>6. /\ y - s \in Int /\ (y - s = d + k \/ y - s = d + k - W)
      /\ d + k \in 0 .. W - 1 /\ d + k - W \in -W .. -1
  BY <1>1, <1>2, <1>3, <1>4, <1>5
<1>7. (y - s) % W = d + k
  <2>1. CASE y - s = d + k
    BY <1>1, <1>6, <2>1, Wrap
  <2>2. CASE y - s = d + k - W
    <3>1. (y - s) % W = y - s + W
      BY <1>1, <1>6, <2>2, Wrap
    <3> QED BY <1>1, <1>2, <1>4, <2>2, <3>1
  <2> QED BY <1>6, <2>1, <2>2
<1> QED BY <1>4, <1>7 DEF d, y

(* A start moved by the time since p is as far back as the old start was   *)
(* from p.                                                                 *)
LEMMA SinceMoved ==
  ASSUME NEW x \in 0 .. W - 1, NEW s \in 0 .. W - 1, NEW p \in 0 .. W - 1
  PROVE  /\ (s + ((x - p) % W)) % W \in 0 .. W - 1
         /\ (x - ((s + ((x - p) % W)) % W)) % W = (p - s) % W
<1> DEFINE d == (x - p) % W
           t == (s + d) % W
           e == (p - s) % W
<1>1. W \in Nat \ {0} /\ x - p \in Int /\ p - s \in Int
  BY WIsPositive
<1>2. d \in 0 .. W - 1 /\ (d = x - p \/ d = x - p + W)
  <2>1. x - p \in 0 .. W - 1 \/ x - p \in -W .. -1
    BY <1>1
  <2> QED BY <1>1, <2>1, Wrap
<1>3. e \in 0 .. W - 1 /\ (e = p - s \/ e = p - s + W)
  <2>1. p - s \in 0 .. W - 1 \/ p - s \in -W .. -1
    BY <1>1
  <2> QED BY <1>1, <2>1, Wrap
<1> HIDE DEF d, e
<1>4. t \in 0 .. W - 1 /\ (t = s + d \/ t = s + d - W)
  <2>1. s + d \in Int /\ t \in 0 .. W - 1
    BY <1>1, <1>2, Wrap
  <2>2. CASE s + d \in 0 .. W - 1
    BY <1>1, <2>1, <2>2, Wrap
  <2>3. CASE W <= s + d
    <3>1. s + d \in Nat /\ s + d < W + W
      BY <1>1, <1>2
    <3> DEFINE z == s + d
    <3>2. z \in Nat /\ W <= z /\ z < W + W
      BY <2>3, <3>1
    <3> HIDE DEF z
    <3>3. z % W = z - W
      BY <1>1, <3>2, WrapOver
    <3> QED BY <1>1, <1>2, <2>1, <3>2, <3>3 DEF z
  <2>4. s + d \in 0 .. W - 1 \/ W <= s + d
    BY <1>1, <1>2
  <2> QED BY <2>2, <2>3, <2>4
<1> HIDE DEF t
<1>5. x - t \in Int /\ (x - t = e \/ x - t = e - W) /\ e - W \in -W .. -1
  BY <1>1, <1>2, <1>3, <1>4
<1>6. (x - t) % W = e
  BY <1>1, <1>3, <1>5, Wrap
<1> QED BY <1>4, <1>6 DEF d, e, t

LEMMA Scaled ==
  ASSUME NEW m \in Int, NEW n \in Int, NEW c \in Nat, m <= n
  PROVE  m * c <= n * c
<1>1. PICK k \in Nat : n = m + k
  <2>1. n - m \in Nat /\ n = m + (n - m)
    OBVIOUS
  <2> QED BY <2>1
<1>2. (m + k) * c = m * c + k * c
  OBVIOUS
<1>3. k * c \in Nat /\ m * c \in Int
  OBVIOUS
<1> QED BY <1>1, <1>2, <1>3

LEMMA QuotientBetween ==
  ASSUME NEW t \in Nat, NEW c \in Nat \ {0}, NEW n \in Nat
  PROVE  /\ n * c <= t => n <= t \div c
         /\ t < n * c => t \div c < n
<1> DEFINE q == t \div c
<1>1. PICK r \in 0 .. c - 1 : t = c * q + r
  OBVIOUS
<1>2. q \in Nat
  OBVIOUS
<1> HIDE DEF q
<1>3. q * c = c * q /\ (q + 1) * c = c * q + c /\ c * q \in Nat
  BY <1>2
<1>4. ASSUME n * c <= t PROVE n <= q
  <2> SUFFICES ASSUME ~(n <= q) PROVE FALSE
    OBVIOUS
  <2>1. q + 1 <= n /\ q + 1 \in Int
    BY <1>2
  <2>2. (q + 1) * c <= n * c /\ n * c \in Nat
    BY <2>1, Scaled
  <2> QED BY <1>1, <1>3, <1>4, <2>2
<1>5. ASSUME t < n * c PROVE q < n
  <2> SUFFICES ASSUME ~(q < n) PROVE FALSE
    OBVIOUS
  <2>1. n <= q
    BY <1>2
  <2>2. n * c <= q * c /\ n * c \in Nat
    BY <1>2, <2>1, Scaled
  <2> QED BY <1>1, <1>3, <1>5, <2>2
<1> QED BY <1>4, <1>5 DEF q

(* The first second has a tick.                                            *)
LEMMA FirstSecond == SecondTicks(1) \in Nat \ {0}
<1> DEFINE x == 1 * TICKS_NUM + TICKS_DEN \div 2
<1>1. TICKS_DEN \in Nat \ {0} /\ TICKS_NUM \in Nat /\ TICKS_NUM >= TICKS_DEN
  BY MediaAssumption
<1>2. x \in Nat /\ 1 * TICKS_DEN <= x
  BY <1>1
<1> HIDE DEF x
<1>3. x \div TICKS_DEN \in Nat
  BY <1>1, <1>2
<1>4. 1 <= x \div TICKS_DEN
  BY <1>1, <1>2, QuotientBetween
<1> QED BY <1>3, <1>4 DEF x, SecondTicks

(***************************************************************************)
(* The time of the stream.                                                 *)
(***************************************************************************)
InPlay == {"activate", "while", "elapsed", "check", "pause", "resume", "reread", "frames",
           "events", "progress", "delay"}
Places == InPlay \cup Pausing \cup Free
Ticks  == 0 .. W - 1
D      == asset.duration
(* The ticks that this round may still take.                               *)
Room   == IF told THEN spare ELSE spare + PRINT_TICKS

ClockTypes == /\ vga \in Ticks /\ start \in Ticks /\ pause_start \in Ticks
              /\ spare \in Nat /\ told \in BOOLEAN /\ played \in Nat /\ elapsed \in Nat
              /\ next_second \in Nat \ {0} /\ asset \in Assets /\ pb \in Places
(* What was played, and what the round may still take, lie at most a round *)
(* behind the end, and behind the watermarks those.                        *)
PlayedBound ==
  /\ pb = "activate" => played + Room <= LONGEST
  /\ pb \in {"while", "delay"} => played + Room <= D + LONGEST + WATERMARK_TICKS
  /\ pb \in (InPlay \cup Pausing) \ {"activate", "while", "delay"} => played + Room <= D + LONGEST
TimeKept == /\ pb \in InPlay => Since(start) = played
            /\ pb \in Pausing => (pause_start - start) % W = played
ClockInv == /\ ClockTypes /\ PlayedBound /\ TimeKept
            /\ pb # "validate" => D \in 1 .. (W \div 2) - 1
            /\ "playback" \in asleep => pb \in {"while", "begin", "paused"}

LEMMA RoundTypes ==
  /\ ROUND_TICKS \in Nat \ {0} /\ PRINT_TICKS \in Nat /\ WATERMARK_TICKS \in Nat
  /\ LONGEST \in Nat \ {0} /\ LONGEST = ROUND_TICKS + PRINT_TICKS
  BY MediaAssumption DEF LONGEST

LEMMA RoomTypes ==
  ASSUME ClockInv
  PROVE  /\ Room \in Nat /\ spare <= Room
         /\ Room = IF told THEN spare ELSE spare + PRINT_TICKS
  BY RoundTypes DEF ClockInv, ClockTypes, Room

(* No stream is as long as the counter.                                    *)
LEMMA PlayedFits ==
  ASSUME ClockInv, pb \in InPlay
  PROVE  played + Room < W
<1>1. /\ W \in Nat \ {0} /\ D \in 1 .. (W \div 2) - 1
      /\ LONGEST + WATERMARK_TICKS < W \div 2
  BY MediaAssumption DEF ClockInv, InPlay
<1>2. D + LONGEST + WATERMARK_TICKS < W /\ LONGEST <= D + LONGEST + WATERMARK_TICKS
  BY <1>1, RoundTypes
<1>3. played + Room <= D + LONGEST + WATERMARK_TICKS
  BY <1>1, RoundTypes, RoomTypes DEF ClockInv, ClockTypes, PlayedBound
<1>4. played + Room \in Nat /\ D + LONGEST + WATERMARK_TICKS \in Nat
  BY <1>1, RoundTypes, RoomTypes DEF ClockInv, ClockTypes
<1> QED BY <1>1, <1>2, <1>3, <1>4

(* A place of a round is one in play.                                      *)
LEMMA RoundPlaces ==
  ASSUME ClockInv
  PROVE  InRound <=> pb \in InPlay
  BY DEF ClockInv, ClockTypes, Places, InRound, InPlay, Pausing, Free

(* The playback task runs only with nothing left for the audio task.       *)
LEMMA PlaybackRuns ==
  ASSUME Scheduled("playback")
  PROVE  "playback" \notin asleep /\ audio_queue = <<>> /\ failed = "none"
  BY DEF Scheduled, IsReady, Tasks, priority

LEMMA AssetTypes ==
  ASSUME NEW a \in Assets
  PROVE  /\ a.duration \in Nat /\ a.frames \in Nat /\ a.video \in Seq(Nat)
         /\ a.audio \in Seq([tick : Nat, hz : Nat, beat : BOOLEAN])
  BY MediaAssumption

LEMMA EventTypes ==
  ASSUME NEW a \in Assets, NEW i \in DOMAIN a.audio
  PROVE  a.audio[i].tick \in Nat /\ a.audio[i].hz \in Nat /\ a.audio[i].beat \in BOOLEAN
<1> DEFINE E == [tick : Nat, hz : Nat, beat : BOOLEAN]
           q == a.audio
<1>1. q \in Seq(E)
  BY AssetTypes
<1> HIDE DEF E, q
<1>2. \A k \in DOMAIN q : q[k] \in E
  BY <1>1
<1>3. a.audio[i] \in E
  BY <1>2 DEF q
<1> QED BY <1>3 DEF E

LEMMA ClockInvInit == Init => ClockInv
<1> SUFFICES ASSUME Init PROVE ClockInv
  OBVIOUS
<1>1. START \in Ticks /\ 0 \in Ticks
  BY MediaAssumption DEF Ticks
<1>2. pb = "validate" /\ asleep = {}
  BY DEF Init
<1>3. ClockTypes
  <2>1. spare \in Nat /\ told \in BOOLEAN /\ played \in Nat /\ elapsed \in Nat
    BY RoundTypes DEF Init
  <2>2. next_second \in Nat \ {0} /\ pb \in Places
    BY DEF Init, Places, Free
  <2> QED BY <1>1, <2>1, <2>2 DEF Init, ClockTypes
<1>4. PlayedBound /\ TimeKept
  BY <1>2 DEF PlayedBound, TimeKept, InPlay, Pausing
<1> QED BY <1>2, <1>3, <1>4 DEF ClockInv

(* A new round has all its ticks before it.                                *)
LEMMA NewRoom ==
  ASSUME NewRound
  PROVE  Room' = LONGEST /\ spare' \in Nat /\ told' \in BOOLEAN
  BY RoundTypes DEF NewRound, Room

LEMMA ClockStarts ==
  ASSUME ClockInv, Validate \/ WaitReady \/ Begin \/ Activate
  PROVE  ClockInv'
<1>1. asset' = asset /\ asset \in Assets /\ D \in Nat /\ D' = D
  BY AssetTypes DEF ClockInv, ClockTypes, D, Validate, WaitReady, Begin, Activate, envVars, mediaVars
<1>2. "playback" \notin asleep /\ asleep' = asleep
  BY PlaybackRuns DEF Validate, WaitReady, Begin, Activate, At, envVars
<1>3. CASE Validate \/ WaitReady
  <2>1. pb' \in {"validate", "wait", "begin"} /\ UNCHANGED <<vgaVars, timeVars>>
    BY <1>3 DEF Validate, WaitReady, At, envVars
  <2>2. pb' # "validate" => D \in 1 .. (W \div 2) - 1
    BY <1>1, <1>3 DEF Validate, WaitReady, At, Valid, ClockInv, D
  <2> QED BY <1>1, <1>2, <2>1, <2>2
          DEF ClockInv, ClockTypes, PlayedBound, TimeKept, InPlay, Places, Pausing, Free, vgaVars,
          roundVars, timeVars
<1>4. CASE Begin
  <2>1. (vga' - start') % W = 0
    <3>1. vga - vga = 0 /\ 0 % W = 0 /\ vga \in Int
      BY WIsPositive, Wrap DEF ClockInv, ClockTypes, Ticks
    <3> QED BY <1>4, <3>1 DEF Begin
  <2>2. Room' = LONGEST /\ spare' \in Nat /\ told' \in BOOLEAN
    BY <1>4, NewRoom DEF Begin
  <2> QED BY <1>1, <1>2, <1>4, <2>1, <2>2, RoundTypes
          DEF Begin, At, ClockInv, ClockTypes, PlayedBound, TimeKept, Since, InPlay, Places,
          Pausing, Free
<1>5. CASE Activate
  <2>1. /\ pb = "activate" /\ pb' = "while" /\ elapsed' = 0
        /\ UNCHANGED <<vga, spare, told, played, start, pause_start, next_second>>
    BY <1>5 DEF Activate, At, vgaVars, roundVars
  <2>2. played + Room <= LONGEST /\ Room' = Room /\ D \in 1 .. (W \div 2) - 1
    BY <2>1 DEF ClockInv, PlayedBound, Room
  <2>3. PlayedBound'
    BY <1>1, <2>1, <2>2, RoundTypes, RoomTypes
      DEF PlayedBound, ClockInv, ClockTypes, InPlay, Pausing
  <2> QED BY <1>1, <1>2, <2>1, <2>2, <2>3
          DEF ClockInv, ClockTypes, TimeKept, Since, InPlay, Places, Pausing
<1> QED BY <1>3, <1>4, <1>5

LEMMA ClockReads ==
  ASSUME ClockInv, While \/ ReadElapsed \/ Reread
  PROVE  ClockInv'
<1>1. /\ asset' = asset /\ asset \in Assets /\ D \in Nat /\ D' = D
      /\ UNCHANGED <<vga, start, pause_start, next_second, played, asleep>>
      /\ "playback" \notin asleep
  BY AssetTypes, PlaybackRuns
    DEF ClockInv, ClockTypes, D, While, ReadElapsed, Reread, At, envVars, mediaVars, vgaVars, timeVars
<1>2. pb \in InPlay /\ Since(start) = played /\ D \in 1 .. (W \div 2) - 1 /\ Since(start)' = played'
  BY <1>1 DEF While, ReadElapsed, Reread, At, InPlay, ClockInv, TimeKept, Since
<1>3. CASE While
  <2>1. /\ Room' = LONGEST /\ spare' \in Nat /\ told' \in BOOLEAN /\ elapsed' = elapsed
        /\ pb' = IF played < D THEN "elapsed" ELSE "end"
    BY <1>2, <1>3, NewRoom DEF While, D, timeVars
  <2>2. PlayedBound'
    BY <1>1, <1>2, <2>1, RoundTypes DEF PlayedBound, ClockInv, ClockTypes, InPlay, Pausing
  <2> QED BY <1>1, <1>2, <2>1, <2>2
          DEF ClockInv, ClockTypes, TimeKept, InPlay, Places, Pausing, Free
<1>4. CASE ReadElapsed \/ Reread
  <2>1. UNCHANGED <<spare, told>> /\ elapsed' = played /\ pb' \in {"check", "frames"}
    BY <1>2, <1>4 DEF ReadElapsed, Reread, envVars, vgaVars, roundVars
  <2>2. Room' = Room /\ pb \in {"elapsed", "reread"}
    BY <1>4, <2>1 DEF Room, ReadElapsed, Reread, At
  <2>3. PlayedBound'
    BY <1>1, <2>1, <2>2 DEF PlayedBound, ClockInv, InPlay, Pausing
  <2> QED BY <1>1, <1>2, <2>1, <2>3
          DEF ClockInv, ClockTypes, TimeKept, InPlay, Places, Pausing
<1> QED BY <1>3, <1>4

LEMMA ClockPauses ==
  ASSUME ClockInv, CheckPaused \/ Pause \/ Silence \/ Paused \/ Restart \/ Resume
  PROVE  ClockInv'
<1>1. /\ asset' = asset /\ asset \in Assets /\ D' = D /\ D \in 1 .. (W \div 2) - 1
      /\ UNCHANGED <<vga, spare, told, played, next_second>> /\ Room' = Room
      /\ "playback" \notin asleep
  BY PlaybackRuns DEF ClockInv, ClockTypes, D, Room, CheckPaused, Pause, Silence, Paused, Restart,
    Resume, At, envVars, mediaVars, vgaVars, roundVars, timeVars
<1>2. /\ pb \in {"check", "pause", "silence", "paused", "restart", "resume"}
      /\ pb' \in {"pause", "frames", "silence", "paused", "restart", "resume", "reread"}
  BY DEF CheckPaused, Pause, Silence, Paused, Restart, Resume, At
<1>3. PlayedBound'
  BY <1>1, <1>2 DEF PlayedBound, ClockInv, InPlay, Pausing
<1>4. "playback" \in asleep' => pb' \in {"while", "begin", "paused"}
  BY <1>1 DEF CheckPaused, Pause, Silence, Paused, Restart, Resume, At, envVars
<1>5. start' \in Ticks /\ pause_start' \in Ticks /\ TimeKept'
  <2>1. CASE CheckPaused \/ Silence \/ Paused \/ Resume
    <3>1. UNCHANGED <<start, pause_start>> /\ (pb \in InPlay <=> pb' \in InPlay)
          /\ (pb \in Pausing <=> pb' \in Pausing)
      BY <2>1 DEF CheckPaused, Silence, Paused, Resume, At, timeVars, InPlay, Pausing
    <3> QED BY <1>1, <3>1 DEF ClockInv, ClockTypes, TimeKept, Since
  <2>2. CASE Pause
    <3>1. start' = start /\ pause_start' = vga /\ pb' = "silence" /\ pb = "pause"
      BY <2>2 DEF Pause, At
    <3> QED BY <1>1, <3>1 DEF ClockInv, ClockTypes, TimeKept, Since, InPlay, Pausing
  <2>3. CASE Restart
    <3>1. /\ start' = (start + ((vga - pause_start) % W)) % W /\ pause_start' = 0
          /\ pb = "restart" /\ pb' = "resume"
      BY <2>3 DEF Restart, At, Since
    <3>2. start' \in Ticks /\ (vga' - start') % W = played' /\ 0 \in Ticks
      <4>1. vga \in Ticks /\ start \in Ticks /\ pause_start \in Ticks
        BY DEF ClockInv, ClockTypes
      <4>2. (pause_start - start) % W = played
        BY <3>1 DEF ClockInv, TimeKept, Pausing
      <4>3. /\ (start + ((vga - pause_start) % W)) % W \in Ticks
            /\ (vga - ((start + ((vga - pause_start) % W)) % W)) % W = (pause_start - start) % W
        BY <4>1, SinceMoved DEF Ticks
      <4>4. 0 \in Ticks
        BY WIsPositive DEF Ticks
      <4> QED BY <1>1, <3>1, <4>2, <4>3, <4>4
    <3> QED BY <3>1, <3>2 DEF TimeKept, Since, InPlay, Pausing
  <2> QED BY <2>1, <2>2, <2>3
<1>6. elapsed' \in Nat
  BY DEF ClockInv, ClockTypes, CheckPaused, Pause, Silence, Paused, Restart, Resume, timeVars
<1> QED BY <1>1, <1>2, <1>3, <1>4, <1>5, <1>6 DEF ClockInv, ClockTypes, Places, InPlay, Pausing

LEMMA ClockShows ==
  ASSUME ClockInv, DrawFrame \/ NoEvent \/ PlayEvent \/ Progress \/ EndOfRound \/ End \/ Stop
  PROVE  ClockInv'
<1>1. /\ asset' = asset /\ asset \in Assets /\ D \in Nat /\ D' = D /\ vga' = vga
      /\ UNCHANGED pause_start /\ "playback" \notin asleep /\ D \in 1 .. (W \div 2) - 1
  BY AssetTypes, PlaybackRuns DEF ClockInv, ClockTypes, D, DrawFrame, NoEvent, PlayEvent, Progress,
    EndOfRound, End, Stop, At, mediaVars, vgaVars, timeVars, envVars
<1>2. CASE DrawFrame \/ NoEvent \/ PlayEvent
  <2>1. /\ UNCHANGED <<start, elapsed, next_second, spare, told, played, asleep>>
        /\ pb \in {"frames", "events"} /\ pb' \in {"frames", "events", "progress"}
    BY <1>2 DEF DrawFrame, NoEvent, PlayEvent, At, vgaVars, roundVars, timeVars, envVars
  <2>2. PlayedBound' /\ TimeKept'
    BY <1>1, <2>1 DEF ClockInv, PlayedBound, TimeKept, Since, Room, InPlay, Pausing
  <2> QED BY <1>1, <2>1, <2>2 DEF ClockInv, ClockTypes, InPlay, Places
<1>3. CASE Progress
  <2>1. /\ UNCHANGED <<start, elapsed, told, played, asleep>> /\ pb = "progress" /\ pb' = "delay"
        /\ next_second' \in {next_second, next_second + 1}
        /\ spare' \in {spare, spare + WATERMARK_TICKS}
    BY <1>3 DEF Progress, At
  <2>2. next_second' \in Nat \ {0} /\ spare' \in Nat
    BY <2>1, RoundTypes DEF ClockInv, ClockTypes
  <2>6. Room' \in {Room, Room + WATERMARK_TICKS}
    <3>1. spare \in Nat /\ told' = told
      BY <2>1 DEF ClockInv, ClockTypes
    <3>2. CASE spare' = spare
      BY <3>1, <3>2 DEF Room
    <3>3. CASE spare' = spare + WATERMARK_TICKS
      <4>1. CASE told
        BY <3>1, <3>3, <4>1 DEF Room
      <4>2. CASE ~told
        BY <3>1, <3>3, <4>2, RoundTypes DEF Room
      <4> QED BY <4>1, <4>2
    <3> QED BY <2>1, <3>2, <3>3
  <2>3. played + Room <= D + LONGEST
    BY <2>1 DEF ClockInv, PlayedBound, InPlay, Pausing
  <2>4. PlayedBound'
    <3>1. played' + Room' <= D' + LONGEST + WATERMARK_TICKS
      <4>1. played \in Nat /\ Room \in Nat /\ played' = played
        BY <2>1, RoomTypes DEF ClockInv, ClockTypes
      <4>2. CASE Room' = Room
        BY <1>1, <2>3, <4>1, <4>2, RoundTypes
      <4>3. CASE Room' = Room + WATERMARK_TICKS
        BY <1>1, <2>3, <4>1, <4>3, RoundTypes
      <4> QED BY <2>6, <4>2, <4>3
    <3> QED BY <2>1, <3>1 DEF PlayedBound, InPlay, Pausing
  <2>5. TimeKept'
    BY <1>1, <2>1 DEF ClockInv, TimeKept, Since, InPlay, Pausing
  <2> QED BY <1>1, <2>1, <2>2, <2>4, <2>5 DEF ClockInv, ClockTypes, InPlay, Places
<1>4. CASE EndOfRound
  <2>1. /\ UNCHANGED <<start, elapsed, next_second, spare, told, played>>
        /\ pb = "delay" /\ pb' = "while"
    BY <1>4 DEF EndOfRound, At, vgaVars, roundVars, timeVars
  <2>2. PlayedBound' /\ TimeKept'
    BY <1>1, <2>1 DEF ClockInv, PlayedBound, TimeKept, Since, Room, InPlay, Pausing
  <2> QED BY <1>1, <2>1, <2>2 DEF ClockInv, ClockTypes, InPlay, Places
<1>5. CASE End
  <2>1. /\ UNCHANGED <<start, elapsed, next_second, spare, told, played, asleep>>
        /\ pb' \in {"end", "stop"}
    BY <1>5 DEF End, At, vgaVars, roundVars, timeVars
  <2> QED BY <1>1, <2>1
          DEF ClockInv, ClockTypes, PlayedBound, TimeKept, InPlay, Places, Pausing, Free
<1>6. CASE Stop
  <2>1. 0 \in Ticks /\ spare' \in Nat /\ told' \in BOOLEAN
    BY <1>6, WIsPositive, NewRoom DEF Ticks, Stop
  <2> QED BY <1>1, <1>6, <2>1
          DEF Stop, ClockInv, ClockTypes, PlayedBound, TimeKept, InPlay, Places, Pausing, Free
<1> QED BY <1>2, <1>3, <1>4, <1>5, <1>6

(* What the other tasks and the frame counter do to a round: k ticks pass, *)
(* and the r it has left before it are as many fewer.                      *)
Elapse(k, r) ==
  /\ vga' = (vga + k) % W \/ (k = 0 /\ vga' = vga)
  /\ played' = IF InRound THEN played + k ELSE played
  /\ spare' \in Nat /\ told' \in BOOLEAN /\ Room' = r
  /\ IF InRound THEN k + r <= Room ELSE UNCHANGED <<spare, told>>
  /\ UNCHANGED <<asset, failed, pb, timeVars, posVars>>
  /\ "playback" \in asleep' => "playback" \in asleep

LEMMA TimePasses ==
  ASSUME ClockInv, \/ Button \/ Audio \/ LedLook \/ LedTake \/ VgaTick \/ VgaReady
                   \/ (\E t \in Tasks : Expire(t)) \/ UNCHANGED vars
  PROVE  \E k \in Nat : \E r \in Nat : Elapse(k, r)
<1>1. /\ spare \in Nat /\ told \in BOOLEAN /\ played \in Nat /\ PRINT_TICKS \in Nat
      /\ Room = IF told THEN spare ELSE spare + PRINT_TICKS
  BY RoundTypes, RoomTypes DEF ClockInv, ClockTypes
<1>2. ASSUME UNCHANGED <<vga, played, spare, told, asset, failed, pb, timeVars, posVars>>,
             "playback" \in asleep' => "playback" \in asleep
      PROVE  Elapse(0, Room) /\ Room \in Nat
  <2>1. Room' = Room /\ Room \in Nat /\ 0 + Room <= Room /\ played + 0 = played
    <3>1. Room' = Room
      BY <1>2 DEF Room
    <3> QED BY <1>1, <3>1, RoomTypes
  <2> QED BY <1>1, <1>2, <2>1 DEF Elapse
<1>3. CASE VgaTick
  <2>1. /\ vga' = (vga + 1) % W /\ played' = IF InRound THEN played + 1 ELSE played
        /\ told' = told /\ asleep' = asleep /\ UNCHANGED <<asset, failed, pb, timeVars, posVars>>
        /\ IF InRound THEN 1 <= spare /\ spare' = spare - 1 ELSE spare' = spare
    BY <1>3 DEF VgaTick, Pass, Take, mediaVars, pbVars
  <2>2. CASE InRound
    <3>1. PICK s \in Nat : spare' = s /\ spare = s + 1
      BY <1>1, <2>1, <2>2
    <3>2. Room' = IF told THEN s ELSE s + PRINT_TICKS
      BY <2>1, <3>1 DEF Room
    <3>3. PICK r \in Nat : Room' = r /\ 1 + r <= Room
      BY <1>1, <3>1, <3>2
    <3> QED BY <1>1, <2>1, <2>2, <3>1, <3>3 DEF Elapse
  <2>3. CASE ~InRound
    <3>1. Room' = Room /\ Room \in Nat
      BY <2>1, <2>3, RoomTypes DEF Room
    <3> QED BY <1>1, <2>1, <2>3, <3>1 DEF Elapse
  <2> QED BY <2>2, <2>3
<1>4. CASE Button
  <2>1. PICK pressed \in BOOLEAN : Sample(pressed)
    BY <1>4 DEF Button
  <2>2. asleep' = asleep /\ UNCHANGED <<asset, failed, pb, timeVars, posVars>>
    BY <2>1 DEF Sample, mediaVars, pbVars
  <2>3. CASE UNCHANGED <<paused, vga, roundVars, played>>
    BY <1>2, <2>2, <2>3 DEF roundVars
  <2>4. CASE Message
    <3>1. PICK k \in 0 .. PRINT_TICKS :
            /\ Pass(k) /\ told' = (told \/ InRound)
            /\ IF told THEN Take(k) ELSE UNCHANGED spare
      BY <2>4 DEF Message
    <3>2. k \in Nat /\ k <= PRINT_TICKS
      BY <1>1
    <3>3. CASE InRound
      <4>1. told' = TRUE
        BY <3>1, <3>3
      <4>2. PICK r \in Nat : spare' = r /\ k + r <= Room
        <5>1. CASE told
          <6>1. spare - k \in Nat /\ spare' = spare - k /\ Room = spare
            BY <1>1, <3>1, <3>2, <3>3, <5>1 DEF Take
          <6> QED BY <1>1, <3>2, <6>1
        <5>2. CASE ~told
          BY <1>1, <3>1, <3>2, <5>2
        <5> QED BY <5>1, <5>2
      <4>3. Room' = r
        BY <4>1, <4>2 DEF Room
      <4> QED BY <2>2, <3>1, <3>2, <3>3, <4>1, <4>2, <4>3 DEF Elapse, Pass
    <3>4. CASE ~InRound
      <4>1. UNCHANGED <<spare, told>>
        BY <1>1, <3>1, <3>4 DEF Take
      <4>2. Room' = Room /\ Room \in Nat
        BY <4>1, RoomTypes DEF Room
      <4> QED BY <1>1, <2>2, <3>1, <3>2, <3>4, <4>1, <4>2 DEF Elapse, Pass
    <3> QED BY <3>3, <3>4
  <2> QED BY <2>1, <2>3, <2>4 DEF Sample
<1>5. CASE \/ Audio \/ LedLook \/ LedTake \/ VgaReady \/ (\E t \in Tasks : Expire(t))
           \/ UNCHANGED vars
  <2>1. /\ UNCHANGED <<vga, played, spare, told, asset, failed, pb, timeVars, posVars>>
        /\ "playback" \in asleep' => "playback" \in asleep
    BY <1>5 DEF Audio, LedLook, LedTake, VgaReady, Expire, Sleep, vars, envVars, mediaVars, vgaVars,
      roundVars, pbVars
  <2> QED BY <1>2, <2>1
<1> QED BY <1>3, <1>4, <1>5

LEMMA ClockRunsOn ==
  ASSUME ClockInv, NEW k \in Nat, NEW r \in Nat, Elapse(k, r)
  PROVE  ClockInv'
<1>1. /\ asset' = asset /\ D' = D /\ start' = start /\ pause_start' = pause_start /\ pb' = pb
      /\ elapsed' = elapsed /\ next_second' = next_second
  BY DEF Elapse, D, timeVars
<1>2. vga \in Ticks /\ start \in Ticks /\ played \in Nat /\ played' \in Nat /\ Room \in Nat
  BY RoomTypes DEF ClockInv, ClockTypes, Elapse
<1>3. vga' \in Ticks
  <2>1. vga + k \in Int
    BY <1>2 DEF Ticks
  <2> QED BY <1>2, <2>1, WIsPositive, Wrap DEF Ticks, Elapse
<1>4. Room' = r
  BY DEF Elapse
<1>5. CASE pb \in InPlay
  <2>1. played' = played + k /\ k + r <= Room /\ Since(start) = played /\ played + k < W
    <3>1. InRound /\ played + Room < W
      BY <1>5, RoundPlaces, PlayedFits
    <3>2. played' = played + k /\ k + r <= Room /\ Since(start) = played
      BY <1>5, <3>1 DEF Elapse, ClockInv, TimeKept
    <3> QED BY <1>2, <3>1, <3>2, WIsPositive
  <2>2. Since(start)' = played'
    <3>1. CASE vga' = (vga + k) % W
      BY <1>1, <1>2, <2>1, <3>1, SinceLater DEF Since, Ticks
    <3>2. CASE k = 0 /\ vga' = vga
      BY <1>1, <1>2, <2>1, <3>2 DEF Since
    <3> QED BY <3>1, <3>2 DEF Elapse
  <2>3. (played + k) + r <= played + Room
    BY <1>2, <2>1
  <2>4. PlayedBound'
    <3>1. ASSUME NEW b \in Int, played + Room <= b PROVE played' + Room' <= b
      <4>1. (played + k) + r <= b
        BY <1>2, <2>3, <3>1
      <4> QED BY <1>4, <2>1, <4>1
    <3>2. D \in Int /\ D + LONGEST \in Int /\ D + LONGEST + WATERMARK_TICKS \in Int /\ LONGEST \in Int
      BY RoundTypes, AssetTypes DEF D, ClockInv, ClockTypes
    <3> QED BY <1>1, <3>1, <3>2 DEF PlayedBound, ClockInv
  <2> QED BY <1>1, <1>2, <1>3, <1>5, <2>2, <2>4
          DEF ClockInv, ClockTypes, TimeKept, InPlay, Pausing, Elapse
<1>6. CASE pb \notin InPlay
  <2>1. UNCHANGED <<spare, told, played>> /\ Room' = Room
    BY <1>6, RoundPlaces DEF Elapse, Room
  <2>2. PlayedBound' /\ TimeKept'
    BY <1>1, <1>6, <2>1 DEF ClockInv, PlayedBound, TimeKept, InPlay
  <2> QED BY <1>1, <1>2, <1>3, <2>1, <2>2 DEF ClockInv, ClockTypes, Elapse
<1> QED BY <1>5, <1>6

LEMMA ClockInvNext == ClockInv /\ [Next]_vars => ClockInv'
<1> SUFFICES ASSUME ClockInv, [Next]_vars PROVE ClockInv'
  OBVIOUS
<1>1. CASE Playback
  BY <1>1, ClockStarts, ClockReads, ClockPauses, ClockShows DEF Playback
<1>2. CASE ~Playback
  <2>1. PICK k \in Nat, r \in Nat : Elapse(k, r)
    BY <1>2, TimePasses DEF Next
  <2> QED BY <2>1, ClockRunsOn
<1> QED BY <1>1, <1>2

(* What the player takes for the time of the stream is the time that was   *)
(* played: the subtractions of the 16 bit counter never lose a turn,       *)
(* wherever in a round a pause begins and however long a message holds the *)
(* round up.                                                               *)
THEOREM TimeOfTheStream == Spec => LogicalTime
<1>1. ClockInv /\ [Next]_vars =>
        [(pb = "elapsed" /\ pb' = "check") \/ (pb = "reread" /\ pb' = "frames")
           => elapsed' = played]_vars
  <2> SUFFICES ASSUME ClockInv, Next,
                      (pb = "elapsed" /\ pb' = "check") \/ (pb = "reread" /\ pb' = "frames")
               PROVE  elapsed' = played
    OBVIOUS
  <2>1. Playback
    <3>1. ~Playback => \E k \in Nat : \E r \in Nat : Elapse(k, r)
      BY TimePasses DEF Next
    <3> QED BY <3>1 DEF Elapse
  <2>2. ReadElapsed \/ Reread
    BY <2>1 DEF Playback, Validate, WaitReady, Begin, Activate, While, CheckPaused, Pause, Silence,
      Paused, Restart, Resume, DrawFrame, NoEvent, PlayEvent, Progress, EndOfRound, End, Stop, At
  <2>3. elapsed' = Since(start) /\ pb \in InPlay
    BY <2>2 DEF ReadElapsed, Reread, At, InPlay
  <2> QED BY <2>3 DEF ClockInv, TimeKept
<1> QED BY <1>1, ClockInvInit, ClockInvNext, PTL DEF Spec, LogicalTime

(***************************************************************************)
(* The sound: the queue holds at most the note that the buzzer is to play. *)
(***************************************************************************)
Streaming == InPlay \cup Pausing \cup {"end"}
NoteOfPlace ==
  IF pb \in Streaming \ {"paused", "restart", "resume"} THEN current_hz ELSE 0
Sounding(hz) == IF audio_queue = <<>> THEN buzzer = HalfPeriod(hz) ELSE audio_queue = <<hz>>
SoundInv == Sounding(NoteOfPlace)

(***************************************************************************)
(* Pictures and notes: nothing that was shown is ahead of the time, and    *)
(* nothing due is left out behind the loops over frames and events.  The   *)
(* watermarks are printed soon after the first second.                     *)
(***************************************************************************)
NotAhead(t) == /\ frame > 0 => (frame - 1) * VIDEO_PERIOD_TICKS <= t
               /\ \A i \in 1 .. audio_index : asset.audio[i].tick <= t
AllDrawn(t)  == frame = asset.frames \/ frame * VIDEO_PERIOD_TICKS > t
AllPlayed(t) == audio_index = Len(asset.audio) \/ Event.tick > t
Fresh == frame = 0 /\ audio_index = 0 /\ current_hz = 0

Second == SecondTicks(1)
InTime == /\ Room <= LONGEST /\ NotAhead(played)
          /\ next_second = 1 => played + Room < Second + LONGEST + LONGEST
Reading == /\ NotAhead(elapsed) /\ elapsed <= played /\ played + Room <= elapsed + LONGEST
           /\ next_second = 1 => played + Room < Second + LONGEST + LONGEST
Shown == /\ NotAhead(elapsed) /\ elapsed <= played /\ AllDrawn(elapsed) /\ AllPlayed(elapsed)
         /\ next_second = 1 => elapsed < Second
         /\ \/ played + Room <= elapsed + LONGEST
            \/ /\ next_second > 1 /\ Second <= elapsed
               /\ played + Room <= elapsed + LONGEST + WATERMARK_TICKS
               /\ played + Room < Second + LONGEST + LONGEST + WATERMARK_TICKS
Unread == /\ Fresh /\ elapsed = 0 /\ played + Room <= LONGEST /\ "playback" \notin asleep

Position == /\ frame \in 0 .. asset.frames /\ audio_index \in 0 .. Len(asset.audio)
            /\ current_hz = IF audio_index = 0 THEN 0 ELSE asset.audio[audio_index].hz
            /\ cursor = Cursors(asset)[frame]
ByPlace ==
  /\ pb = "activate" => Fresh
  /\ pb = "while" => Unread \/ Shown
  /\ pb \in {"elapsed", "pause", "silence", "paused", "restart", "resume", "reread"} => InTime
  /\ pb \in {"check", "frames", "events", "progress"} => Reading
  /\ pb \in {"events", "progress"} => AllDrawn(elapsed)
  /\ pb = "progress" => AllPlayed(elapsed)
  /\ pb = "delay" => Shown
  /\ pb = "end" => PlayedInTime
StreamInv == /\ pb # "validate" => Valid(asset)
             /\ pb \in Streaming => Position
             /\ ByPlace

(***************************************************************************)
(* The frames of a valid asset lie one behind the other up to its end.     *)
(***************************************************************************)
(* One frame further, and the cursors of m frames.                         *)
Further(a, f, c) ==
  IF /\ c \in 1 .. Len(a.video) /\ FrameFits(a, c) /\ IndexesFit(a, c)
     /\ (f = 1 => Word(a, c) = VGA_BITMAP_WORDS)
  THEN NextFrame(a, c) ELSE 0
Walks(a, m, g) == g = [f \in 0 .. m |-> IF f = 0 THEN 1 ELSE Further(a, f, g[f - 1])]

LEMMA WalkExists ==
  ASSUME NEW a, NEW m \in Nat
  PROVE  \E g : Walks(a, m, g)
<1> DEFINE S == {i \in Nat : \E g : Walks(a, i, g)}
<1>1. 0 \in S
  <2> DEFINE g == [f \in 0 .. 0 |-> 1]
  <2>1. Walks(a, 0, g)
    BY DEF Walks
  <2> QED BY <2>1
<1>2. ASSUME NEW i \in 0 .. m - 1, i \in S PROVE i + 1 \in S
  <2>1. PICK g : Walks(a, i, g)
    BY <1>2
  <2> DEFINE h == [f \in 0 .. i + 1 |-> IF f = i + 1 THEN Further(a, f, g[i]) ELSE g[f]]
  <2>2. ASSUME NEW f \in 0 .. i + 1
        PROVE  h[f] = IF f = 0 THEN 1 ELSE Further(a, f, h[f - 1])
    <3>1. CASE f = i + 1
      <4>1. f - 1 = i /\ h[f] = Further(a, f, g[i]) /\ h[i] = g[i] /\ f # 0
        BY <3>1
      <4> HIDE DEF h
      <4> QED BY <4>1
    <3>2. CASE f \in 0 .. i
      <4>1. h[f] = g[f] /\ (f # 0 => h[f - 1] = g[f - 1])
        BY <3>2
      <4>2. g[f] = IF f = 0 THEN 1 ELSE Further(a, f, g[f - 1])
        BY <2>1, <3>2 DEF Walks
      <4> HIDE DEF h
      <4> QED BY <4>1, <4>2
    <3> QED BY <3>1, <3>2
  <2>3. Walks(a, i + 1, h)
    <3>1. h = [f \in 0 .. i + 1 |-> h[f]]
      OBVIOUS
    <3> HIDE DEF h
    <3> QED BY <2>2, <3>1 DEF Walks
  <2> QED BY <2>3
<1>3. 0 .. m \subseteq S
  <2> HIDE DEF S
  <2> QED BY <1>1, <1>2, IntervalInduction
<1> QED BY <1>3

LEMMA CursorsWalk ==
  ASSUME NEW a \in Assets
  PROVE  Walks(a, a.frames, Cursors(a))
<1>1. \E g : Walks(a, a.frames, g)
  BY WalkExists, AssetTypes
<1>2. Cursors(a) = CHOOSE g : Walks(a, a.frames, g)
  BY DEF Cursors, Walks, Further
<1> QED BY <1>1, <1>2

LEMMA CursorsFit ==
  ASSUME NEW a \in Assets, Valid(a)
  PROVE  /\ Cursors(a)[0] = 1 /\ Cursors(a)[a.frames] = Len(a.video) + 1
         /\ \A f \in 0 .. a.frames - 1 :
              LET c == Cursors(a)[f]
              IN /\ c \in 1 .. Len(a.video) /\ FrameFits(a, c) /\ IndexesFit(a, c)
                 /\ Cursors(a)[f + 1] = NextFrame(a, c)
<1> DEFINE g == Cursors(a)
           m == a.frames
           S == {i \in Nat : g[m - i] # 0}
           Good(c) == c \in 1 .. Len(a.video) /\ FrameFits(a, c) /\ IndexesFit(a, c)
<1>1. m \in Nat /\ Len(a.video) \in Nat
  BY AssetTypes
<1>2. \A f \in 0 .. m : g[f] = IF f = 0 THEN 1 ELSE Further(a, f, g[f - 1])
  <2>1. g = [f \in 0 .. m |-> IF f = 0 THEN 1 ELSE Further(a, f, g[f - 1])]
    BY CursorsWalk DEF Walks
  <2> HIDE DEF g
  <2> QED BY <2>1
<1>3. g[m] = Len(a.video) + 1
  BY DEF Valid
<1> HIDE DEF g, m
<1>4. ASSUME NEW f \in 1 .. m, g[f] # 0
      PROVE  Good(g[f - 1]) /\ g[f] = NextFrame(a, g[f - 1])
  <2>1. g[f] = Further(a, f, g[f - 1])
    BY <1>1, <1>2
  <2> QED BY <1>4, <2>1 DEF Further
<1>5. ASSUME NEW i \in 0 .. m - 1, i \in S PROVE i + 1 \in S
  <2>1. m - i \in 1 .. m /\ g[m - i] # 0 /\ (m - i) - 1 = m - (i + 1)
    BY <1>1, <1>5
  <2>2. g[m - (i + 1)] \in 1 .. Len(a.video)
    BY <2>1, <1>4
  <2> QED BY <2>2, <1>1
<1>6. 0 \in S
  BY <1>1, <1>3
<1>7. 0 .. m \subseteq S
  <2> HIDE DEF S
  <2> QED BY <1>1, <1>5, <1>6, IntervalInduction
<1>8. ASSUME NEW f \in 0 .. m - 1 PROVE Good(g[f]) /\ g[f + 1] = NextFrame(a, g[f])
  <2>1. f + 1 \in 1 .. m /\ m - (f + 1) \in 0 .. m /\ m - (m - (f + 1)) = f + 1 /\ (f + 1) - 1 = f
    BY <1>1
  <2>2. g[f + 1] # 0
    BY <2>1, <1>7
  <2> HIDE DEF Good
  <2> QED BY <2>1, <2>2, <1>4
<1>9. g[0] = 1
  BY <1>1, <1>2
<1> QED BY <1>3, <1>8, <1>9 DEF g, m

(* The events are in the order of their ticks.                             *)
LEMMA TicksInOrder ==
  ASSUME NEW a \in Assets, AudioInOrder(a),
         NEW i \in DOMAIN a.audio, NEW j \in DOMAIN a.audio, i < j
  PROVE  a.audio[i].tick < a.audio[j].tick
<1> DEFINE n == Len(a.audio)
           T(k) == a.audio[k].tick
           S == {k \in Nat : k = 0 \/ i + k > n \/ T(i) < T(i + k)}
<1>1. n \in Nat /\ DOMAIN a.audio = 1 .. n /\ i \in 1 .. n /\ j \in 1 .. n
  BY SMTT(30), AssetTypes
<1>2. \A k \in 1 .. n : T(k) \in Nat
  BY EventTypes, <1>1
<1>3. \A k \in 1 .. n : k > 1 => T(k) > T(k - 1)
  BY <1>1 DEF AudioInOrder
<1> HIDE DEF T, n
<1>4. ASSUME NEW k \in 0 .. n - 1, k \in S PROVE k + 1 \in S
  <2>1. CASE i + (k + 1) > n
    BY <2>1, <1>1
  <2>2. CASE i + (k + 1) <= n
    <3>1. /\ i + (k + 1) \in 1 .. n /\ i + (k + 1) > 1 /\ (i + (k + 1)) - 1 = i + k
          /\ i + k \in 1 .. n
      BY <1>1, <2>2
    <3>2. T(i + k) < T(i + (k + 1)) /\ T(i) \in Nat /\ T(i + k) \in Nat /\ T(i + (k + 1)) \in Nat
      BY <3>1, <1>1, <1>2, <1>3
    <3>3. k = 0 => i + k = i
      BY <1>1
    <3>4. T(i) <= T(i + k)
      BY <1>1, <1>4, <3>1, <3>2, <3>3
    <3> QED BY <3>2, <3>4
  <2> QED BY <1>1, <2>1, <2>2
<1>5. 0 \in S /\ n \in Nat
  BY <1>1
<1>6. 0 .. n \subseteq S
  <2> HIDE DEF S
  <2> QED BY <1>4, <1>5, IntervalInduction
<1>7. j - i \in 0 .. n /\ j - i # 0 /\ i + (j - i) = j /\ ~(j > n)
  BY <1>1
<1>8. j - i \in S
  BY <1>6, <1>7
<1> QED BY <1>7, <1>8 DEF T

(***************************************************************************)
(* The sound follows.                                                      *)
(***************************************************************************)
LEMMA QueueOfOne ==
  ASSUME NEW hz
  PROVE  /\ Append(<<>>, hz) = <<hz>> /\ <<hz>> \o <<>> = <<hz>> /\ <<hz>> # <<>>
         /\ Head(<<hz>>) = hz /\ Tail(<<hz>>) = <<>>
<1>1. <<hz>> \in Seq({hz})
  OBVIOUS
<1> QED BY <1>1

(* An empty queue always has room.                                         *)
LEMMA RoomIfEmpty == audio_queue = <<>> => HasRoom
  BY MediaAssumption DEF HasRoom

LEMMA SoundInvInit == Init => SoundInv
  BY DEF Init, SoundInv, Sounding, NoteOfPlace, Streaming, InPlay, Pausing, HalfPeriod

LEMMA SoundStarts ==
  ASSUME SoundInv, \/ Validate \/ WaitReady \/ Begin \/ Activate \/ While \/ ReadElapsed
                   \/ CheckPaused \/ Pause \/ Silence \/ Paused \/ Restart
  PROVE  SoundInv'
<1>1. audio_queue = <<>> /\ buzzer' = buzzer
  BY PlaybackRuns DEF Validate, WaitReady, Begin, Activate, While, ReadElapsed, CheckPaused,
    Pause, Silence, Paused, Restart, At, audioVars, envVars
<1>2. buzzer = HalfPeriod(NoteOfPlace)
  BY <1>1 DEF SoundInv, Sounding
<1>3. CASE Silence
  <2>1. audio_queue' = <<0>> /\ pb' = "paused"
    BY <1>1, <1>3, QueueOfOne DEF Silence, SendFront
  <2> QED BY <2>1, QueueOfOne DEF SoundInv, Sounding, NoteOfPlace
<1>4. CASE ~Silence
  <2>1. audio_queue' = audio_queue
    BY <1>4
      DEF Validate, WaitReady, Begin, Activate, While, ReadElapsed, CheckPaused, Pause, Paused,
      Restart, audioVars, envVars
  <2>2. NoteOfPlace' = NoteOfPlace
    <3>1. CASE Begin
      BY <3>1 DEF Begin, At, NoteOfPlace, Streaming, InPlay, Pausing
    <3>2. CASE Validate \/ WaitReady \/ Activate \/ While
      BY <3>2 DEF Validate, WaitReady, Activate, While, At, NoteOfPlace, Streaming, InPlay, Pausing,
        posVars
    <3>3. CASE ReadElapsed \/ CheckPaused \/ Pause \/ Paused \/ Restart
      BY <3>3 DEF ReadElapsed, CheckPaused, Pause, Paused, Restart, At, NoteOfPlace, Streaming,
        InPlay, Pausing, posVars
    <3> QED BY <1>4, <3>1, <3>2, <3>3
  <2> QED BY <1>1, <1>2, <2>1, <2>2 DEF SoundInv, Sounding, HalfPeriod
<1> QED BY <1>3, <1>4

LEMMA SoundPlays ==
  ASSUME SoundInv, \/ Resume \/ Reread \/ DrawFrame \/ NoEvent \/ PlayEvent \/ Progress
                   \/ EndOfRound \/ End \/ Stop
  PROVE  SoundInv'
<1>1. audio_queue = <<>> /\ buzzer' = buzzer
  BY PlaybackRuns DEF Resume, Reread, DrawFrame, NoEvent, PlayEvent, Progress, EndOfRound, End, Stop,
    At, audioVars, envVars
<1>2. buzzer = HalfPeriod(NoteOfPlace)
  BY <1>1 DEF SoundInv, Sounding
<1>3. CASE Resume
  <2>1. audio_queue' = <<current_hz>> /\ NoteOfPlace' = current_hz
    BY <1>1, <1>3, QueueOfOne DEF Resume, SendFront, NoteOfPlace, Streaming, InPlay, posVars
  <2> QED BY <2>1, QueueOfOne DEF SoundInv, Sounding
<1>4. CASE Reread \/ DrawFrame \/ NoEvent \/ Progress \/ EndOfRound \/ Stop
  <2>1. audio_queue' = audio_queue /\ current_hz' = current_hz
    BY <1>4 DEF Reread, DrawFrame, NoEvent, Progress, EndOfRound, Stop, audioVars, envVars, posVars
  <2>2. NoteOfPlace' = NoteOfPlace
    BY <1>4, <2>1 DEF Reread, DrawFrame, NoEvent, Progress, EndOfRound, Stop, At, NoteOfPlace,
      Streaming, InPlay, Pausing
  <2> QED BY <1>1, <1>2, <2>1, <2>2 DEF SoundInv, Sounding, HalfPeriod
<1>5. CASE PlayEvent
  <2>1. NoteOfPlace = current_hz /\ NoteOfPlace' = current_hz'
    BY <1>5 DEF PlayEvent, At, NoteOfPlace, Streaming, InPlay
  <2>2. CASE current_hz' = current_hz /\ audio_queue' = audio_queue
    BY <1>1, <1>2, <2>1, <2>2 DEF SoundInv, Sounding, HalfPeriod
  <2>3. CASE current_hz' = Event.hz /\ SendBack(Event.hz)
    <3>1. audio_queue' = <<current_hz'>>
      BY <1>1, <2>3, QueueOfOne DEF SendBack
    <3> QED BY <2>1, <3>1, QueueOfOne DEF SoundInv, Sounding
  <2> QED BY <1>5, <2>2, <2>3 DEF PlayEvent, Play
<1>6. CASE End
  <2>1. CASE pb' = "stop"
    <3>1. audio_queue' = <<0>>
      BY <1>1, <1>6, <2>1, QueueOfOne DEF End, SendBack, At
    <3> QED BY <2>1, <3>1, QueueOfOne DEF SoundInv, Sounding, NoteOfPlace, Streaming, InPlay, Pausing
  <2>2. CASE audio_queue' = audio_queue /\ pb' = pb
    <3>1. NoteOfPlace' = NoteOfPlace
      BY <1>6, <2>2 DEF End, NoteOfPlace, posVars
    <3> QED BY <1>1, <1>2, <2>2, <3>1 DEF SoundInv, Sounding, HalfPeriod
  <2> QED BY <1>6, <2>1, <2>2 DEF End
<1> QED BY <1>3, <1>4, <1>5, <1>6

LEMMA SoundInvNext == SoundInv /\ [Next]_vars => SoundInv'
<1> SUFFICES ASSUME SoundInv, [Next]_vars PROVE SoundInv'
  OBVIOUS
<1>1. CASE Playback
  BY <1>1, SoundStarts, SoundPlays DEF Playback
<1>2. CASE Audio
  <2>1. audio_queue # <<>>
    BY <1>2 DEF Audio, Scheduled, IsReady
  <2>2. audio_queue = <<NoteOfPlace>> /\ NoteOfPlace' = NoteOfPlace
    BY <1>2, <2>1 DEF Audio, SoundInv, Sounding, NoteOfPlace, pbVars, posVars
  <2>3. audio_queue' = <<>> /\ buzzer' = HalfPeriod(NoteOfPlace)
    BY <1>2, <2>2, QueueOfOne DEF Audio
  <2> QED BY <2>2, <2>3 DEF SoundInv, Sounding, HalfPeriod
<1>3. CASE \/ Button \/ LedLook \/ LedTake \/ VgaTick \/ VgaReady \/ (\E t \in Tasks : Expire(t))
           \/ UNCHANGED vars
  <2>1. UNCHANGED <<audio_queue, buzzer, pb, current_hz>>
    BY <1>3 DEF Button, Sample, LedLook, LedTake, VgaTick, VgaReady, Expire, vars, envVars,
      audioVars, pbVars, posVars
  <2> QED BY <2>1 DEF SoundInv, Sounding, NoteOfPlace, HalfPeriod
<1> QED BY <1>1, <1>2, <1>3 DEF Next

(***************************************************************************)
(* The stream keeps up.                                                    *)
(***************************************************************************)
LEMMA PositionTypes ==
  ASSUME ClockInv, Position
  PROVE  /\ asset \in Assets /\ asset.frames \in Nat /\ Len(asset.audio) \in Nat
         /\ DOMAIN asset.audio = 1 .. Len(asset.audio)
         /\ frame \in Nat /\ frame <= asset.frames /\ audio_index \in Nat
         /\ audio_index <= Len(asset.audio) /\ current_hz \in Nat
         /\ (frame - 1) * VIDEO_PERIOD_TICKS \in Int /\ frame * VIDEO_PERIOD_TICKS \in Nat
         /\ \A i \in 1 .. Len(asset.audio) :
              asset.audio[i].tick \in Nat /\ asset.audio[i].hz \in Nat
<1>1. asset \in Assets /\ frame \in 0 .. asset.frames /\ audio_index \in 0 .. Len(asset.audio)
  BY DEF ClockInv, ClockTypes, Position
<1>2. asset.frames \in Nat /\ Len(asset.audio) \in Nat /\ DOMAIN asset.audio = 1 .. Len(asset.audio)
  BY <1>1, AssetTypes
<1>3. \A i \in 1 .. Len(asset.audio) : asset.audio[i].tick \in Nat /\ asset.audio[i].hz \in Nat
  BY <1>1, <1>2, EventTypes
<1>4. current_hz \in Nat
  BY <1>1, <1>2, <1>3 DEF Position
<1>5. VIDEO_PERIOD_TICKS \in Nat
  BY MediaAssumption
<1> QED BY <1>1, <1>2, <1>3, <1>4, <1>5

LEMMA NotAheadLater ==
  ASSUME ClockInv, Position, NEW t \in Nat, NEW u \in Nat, t <= u, NotAhead(t)
  PROVE  NotAhead(u)
<1>1. frame > 0 => (frame - 1) * VIDEO_PERIOD_TICKS <= u
  BY PositionTypes DEF NotAhead
<1>2. ASSUME NEW i \in 1 .. audio_index PROVE asset.audio[i].tick <= u
  <2>1. asset.audio[i].tick <= t /\ asset.audio[i].tick \in Nat
    BY PositionTypes DEF NotAhead
  <2> QED BY <2>1
<1> QED BY <1>1, <1>2 DEF NotAhead

LEMMA FreshNotAhead == Fresh => \A t : NotAhead(t)
  BY DEF Fresh, NotAhead

(* What the last look at the clock left out was due too late to be         *)
(* counted on.                                                             *)
LEMMA EndFindsAll ==
  ASSUME ClockInv, Position, Valid(asset), AllDrawn(elapsed), AllPlayed(elapsed),
         \A t \in Nat : elapsed < t => D < t + LastRound(t)
  PROVE  PlayedInTime
<1>1. /\ asset.frames \in Nat /\ VIDEO_PERIOD_TICKS \in Nat /\ elapsed \in Nat /\ D \in Nat
      /\ asset \in Assets /\ AudioInOrder(asset)
  BY MediaAssumption, AssetTypes DEF ClockInv, ClockTypes, D, Valid
<1>2. ASSUME NEW t \in Nat, elapsed < t PROVE ~DueInTime(t)
  <2>1. LastRound(t) \in Nat
    BY RoundTypes DEF LastRound
  <2>2. D < t + LastRound(t)
    BY <1>2
  <2>3. ~(t + LastRound(t) <= D)
    BY <1>1, <2>1, <2>2
  <2> QED BY <2>3 DEF DueInTime, D
<1>3. ASSUME NEW f \in 0 .. asset.frames - 1, ~(f < frame)
      PROVE  ~DueInTime(f * VIDEO_PERIOD_TICKS)
  <2>1. frame # asset.frames /\ frame <= f /\ frame \in Int /\ f \in Nat
    BY <1>1, <1>3, PositionTypes
  <2>2. frame * VIDEO_PERIOD_TICKS <= f * VIDEO_PERIOD_TICKS
    BY <1>1, <2>1, Scaled
  <2>3. frame * VIDEO_PERIOD_TICKS > elapsed /\ frame * VIDEO_PERIOD_TICKS \in Nat
    BY <2>1, PositionTypes DEF AllDrawn
  <2>4. f * VIDEO_PERIOD_TICKS \in Nat
    BY <1>1, <2>1
  <2>5. elapsed < f * VIDEO_PERIOD_TICKS
    BY <1>1, <2>2, <2>3, <2>4
  <2> QED BY <1>2, <2>4, <2>5
<1>4. ASSUME NEW i \in DOMAIN asset.audio, ~(i <= audio_index)
      PROVE  ~DueInTime(asset.audio[i].tick)
  <2>1. /\ audio_index + 1 \in DOMAIN asset.audio /\ audio_index # Len(asset.audio)
        /\ i = audio_index + 1 \/ audio_index + 1 < i
    BY <1>4, PositionTypes
  <2>2. Event.tick > elapsed /\ Event = asset.audio[audio_index + 1]
    BY <2>1 DEF AllPlayed, Event
  <2>3. audio_index + 1 < i => asset.audio[audio_index + 1].tick < asset.audio[i].tick
    BY <1>1, <2>1, TicksInOrder
  <2>4. asset.audio[i].tick \in Nat /\ asset.audio[audio_index + 1].tick \in Nat
    BY <1>1, <2>1, EventTypes
  <2>5. elapsed < asset.audio[i].tick
    BY <1>1, <2>1, <2>2, <2>3, <2>4
  <2> QED BY <1>2, <2>4, <2>5
<1> QED BY <1>3, <1>4 DEF PlayedInTime

LEMMA StreamInvInit == Init => StreamInv /\ FailsOnlyAtTheEnd
  BY DEF Init, StreamInv, FailsOnlyAtTheEnd, Streaming, InPlay, Pausing, ByPlace

LEMMA StreamBegins ==
  ASSUME ClockInv, StreamInv, Validate \/ WaitReady \/ Begin \/ Activate
  PROVE  StreamInv'
<1>1. asset' = asset /\ asset \in Assets
  BY DEF Validate, WaitReady, Begin, Activate, mediaVars, envVars, ClockInv, ClockTypes
<1>2. CASE Validate \/ WaitReady
  BY <1>1, <1>2 DEF Validate, WaitReady, At, StreamInv, Streaming, InPlay, Pausing, ByPlace
<1>3. CASE Begin
  <2>1. Valid(asset) /\ Fresh' /\ pb' = "activate" /\ cursor' = 1
    BY <1>3 DEF Begin, At, StreamInv, Fresh
  <2>2. asset.frames \in Nat /\ Len(asset.audio) \in Nat /\ Cursors(asset)[0] = 1
    BY <1>1, <2>1, AssetTypes, CursorsFit
  <2>3. Position'
    BY <1>1, <2>1, <2>2 DEF Position, Fresh
  <2> QED BY <1>1, <2>1, <2>3 DEF StreamInv, ByPlace
<1>4. CASE Activate
  <2>1. /\ Valid(asset) /\ Position /\ Fresh /\ played + Room <= LONGEST
        /\ "playback" \notin asleep
    BY <1>4, PlaybackRuns
      DEF Activate, At, StreamInv, ByPlace, Streaming, InPlay, ClockInv, PlayedBound
  <2>2. Position' /\ Fresh'
    BY <1>1, <1>4, <2>1 DEF Activate, Position, Fresh, posVars
  <2>3. /\ pb' = "while" /\ elapsed' = 0 /\ played' = played /\ Room' = Room
        /\ "playback" \notin asleep'
    BY <1>4, <2>1 DEF Activate, vgaVars, roundVars, Room
  <2>4. Unread'
    BY <2>1, <2>2, <2>3 DEF Unread
  <2> QED BY <1>1, <2>1, <2>2, <2>3, <2>4 DEF StreamInv, ByPlace
<1> QED BY <1>2, <1>3, <1>4

(* Steps that show nothing leave the position in the stream alone.         *)
LEMMA SamePosition ==
  ASSUME UNCHANGED <<asset, posVars>>
  PROVE  /\ Position' <=> Position
         /\ Fresh' <=> Fresh
         /\ PlayedInTime' <=> PlayedInTime
         /\ Valid(asset)' <=> Valid(asset)
         /\ \A t : /\ NotAhead(t)' <=> NotAhead(t)
                   /\ AllDrawn(t)' <=> AllDrawn(t)
                   /\ AllPlayed(t)' <=> AllPlayed(t)
  BY DEF Position, Fresh, PlayedInTime, DueInTime, LastRound, WatermarksEarly, posVars, NotAhead,
     AllDrawn, AllPlayed, Event

LEMMA TimeTypes ==
  ASSUME ClockInv
  PROVE  /\ played \in Nat /\ elapsed \in Nat /\ Room \in Nat /\ next_second \in Nat \ {0}
         /\ D \in Nat /\ LONGEST \in Nat \ {0} /\ WATERMARK_TICKS \in Nat /\ Second \in Nat \ {0}
  BY RoundTypes, RoomTypes, FirstSecond, AssetTypes DEF ClockInv, ClockTypes, D, Second

LEMMA StreamLooks ==
  ASSUME ClockInv, StreamInv, While
  PROVE  StreamInv'
<1>1. /\ UNCHANGED <<asset, posVars>> /\ played' = played /\ next_second' = next_second
      /\ Room' = LONGEST /\ pb = "while" /\ "playback" \notin asleep
      /\ pb' = IF Since(start) < D THEN "elapsed" ELSE "end"
  BY PlaybackRuns, NewRoom DEF While, At, envVars, mediaVars, timeVars, D
<1>2. Valid(asset) /\ Position /\ (Unread \/ Shown) /\ Since(start) = played
  BY <1>1 DEF StreamInv, Streaming, InPlay, ByPlace, ClockInv, TimeKept
<1>3. Valid(asset)' /\ Position'
  BY <1>1, <1>2, SamePosition
<1>4. NotAhead(played)
  <2>1. CASE Unread
    BY <2>1, FreshNotAhead DEF Unread
  <2>2. CASE Shown
    BY <1>2, <2>2, NotAheadLater, TimeTypes DEF Shown
  <2> QED BY <1>2, <2>1, <2>2
<1>5. CASE pb' = "elapsed"
  <2>1. NotAhead(played)'
    BY <1>1, <1>4, SamePosition
  <2>2. ASSUME next_second = 1 PROVE played + LONGEST < Second + LONGEST + LONGEST
    <3>1. CASE Unread
      BY <3>1, TimeTypes DEF Unread
    <3>2. CASE Shown
      BY <2>2, <3>2, TimeTypes DEF Shown
    <3> QED BY <1>2, <3>1, <3>2
  <2>3. InTime'
    BY <1>1, <2>1, <2>2, RoundTypes DEF InTime, Second
  <2> QED BY <1>3, <1>5, <2>3 DEF StreamInv, ByPlace
<1>6. CASE pb' = "end"
  <2>1. D <= played
    BY <1>1, <1>2, <1>6, TimeTypes
  <2>2. ASSUME Unread PROVE PlayedInTime
    <3>1. ~(LONGEST < D)
      BY <2>1, <2>2, TimeTypes DEF Unread
    <3>2. \A t : ~DueInTime(t)
      BY <3>1 DEF DueInTime, D
    <3> QED BY <3>2 DEF PlayedInTime
  <2>3. ASSUME Shown PROVE PlayedInTime
    <3>1. ASSUME NEW t \in Nat, elapsed < t PROVE D < t + LastRound(t)
      <4>1. LastRound(t) \in {LONGEST, LONGEST + WATERMARK_TICKS}
        BY DEF LastRound
      <4>2. CASE played + Room <= elapsed + LONGEST
        BY <2>1, <3>1, <4>1, <4>2, TimeTypes
      <4>3. CASE /\ Second <= elapsed
                 /\ played + Room <= elapsed + LONGEST + WATERMARK_TICKS
                 /\ played + Room < Second + LONGEST + LONGEST + WATERMARK_TICKS
        <5>1. ~WatermarksEarly
          <6>1. ~(Second + LONGEST + LONGEST + WATERMARK_TICKS <= D)
            BY <2>1, <4>3, TimeTypes
          <6>2. Second + 2 * LONGEST + WATERMARK_TICKS = Second + LONGEST + LONGEST + WATERMARK_TICKS
            BY TimeTypes
          <6> QED BY <6>1, <6>2 DEF WatermarksEarly, Second, D
        <5>2. ~(t <= Second)
          BY <3>1, <4>3, TimeTypes
        <5>3. LastRound(t) = LONGEST + WATERMARK_TICKS
          BY <5>1, <5>2 DEF LastRound, Second
        <5> QED BY <2>1, <3>1, <4>3, <5>3, TimeTypes
      <4> QED BY <2>3, <4>2, <4>3 DEF Shown
    <3>2. AllDrawn(elapsed) /\ AllPlayed(elapsed)
      BY <2>3 DEF Shown
    <3> QED BY <1>2, <3>1, <3>2, EndFindsAll
  <2>4. PlayedInTime'
    BY <1>1, <1>2, <2>2, <2>3, SamePosition
  <2> QED BY <1>3, <1>6, <2>4 DEF StreamInv, ByPlace
<1> QED BY <1>1, <1>5, <1>6

LEMMA StreamReads ==
  ASSUME ClockInv, StreamInv, ReadElapsed \/ Reread
  PROVE  StreamInv'
<1>1. /\ UNCHANGED <<asset, posVars, played, next_second>> /\ Room' = Room
      /\ pb \in {"elapsed", "reread"} /\ pb' \in {"check", "frames"} /\ elapsed' = Since(start)
  BY DEF ReadElapsed, Reread, At, envVars, mediaVars, vgaVars, roundVars, Room
<1>2. Valid(asset) /\ Position /\ InTime /\ elapsed' = played
  BY <1>1 DEF StreamInv, Streaming, InPlay, ByPlace, ClockInv, TimeKept
<1>3. Valid(asset)' /\ Position'
  BY <1>1, <1>2, SamePosition
<1>4. played <= played /\ played + Room <= played + LONGEST
  BY <1>2, TimeTypes DEF InTime
<1>5. NotAhead(elapsed)'
  <2>1. NotAhead(elapsed)' <=> NotAhead(played)
    BY <1>1, <1>2 DEF NotAhead, posVars
  <2> QED BY <1>2, <2>1 DEF InTime
<1>6. Reading'
  BY <1>1, <1>2, <1>4, <1>5 DEF Reading, InTime, Second
<1> QED BY <1>1, <1>3, <1>6 DEF StreamInv, ByPlace

LEMMA StreamPauses ==
  ASSUME ClockInv, StreamInv, CheckPaused \/ Pause \/ Silence \/ Paused \/ Restart \/ Resume
  PROVE  StreamInv'
<1>1. UNCHANGED <<asset, posVars, played, next_second>> /\ Room' = Room
  BY DEF CheckPaused, Pause, Silence, Paused, Restart, Resume, envVars, mediaVars, vgaVars,
    roundVars, timeVars, Room
<1>2. pb \in {"check", "pause", "silence", "paused", "restart", "resume"}
  BY DEF CheckPaused, Pause, Silence, Paused, Restart, Resume, At
<1>3. Valid(asset) /\ Position
  BY <1>2 DEF StreamInv, Streaming, InPlay, Pausing
<1>4. Valid(asset)' /\ Position'
  BY <1>1, <1>3, SamePosition
<1>5. ASSUME InTime PROVE InTime'
  BY <1>1, <1>5, SamePosition DEF InTime, Second
<1>6. CASE CheckPaused
  <2>1. Reading /\ (pb' = IF paused THEN "pause" ELSE "frames") /\ elapsed' = elapsed
    BY <1>6 DEF CheckPaused, At, StreamInv, ByPlace, timeVars
  <2>2. NotAhead(played) /\ Room <= LONGEST
    <3>1. Room <= LONGEST
      BY <2>1, TimeTypes DEF Reading
    <3> QED BY <1>3, <2>1, <3>1, NotAheadLater, TimeTypes DEF Reading
  <2>3. InTime'
    BY <1>5, <2>1, <2>2 DEF InTime, Reading
  <2>4. Reading'
    BY <1>1, <2>1, SamePosition DEF Reading, Second
  <2> QED BY <1>4, <2>1, <2>3, <2>4 DEF StreamInv, ByPlace
<1>7. CASE Pause \/ Silence \/ Paused \/ Restart \/ Resume
  <2>1. InTime
    BY <1>7 DEF Pause, Silence, Paused, Restart, Resume, At, StreamInv, ByPlace, Pausing
  <2>2. pb' \in {"silence", "paused", "restart", "resume", "reread"}
    BY <1>7 DEF Pause, Silence, Paused, Restart, Resume, At
  <2> QED BY <1>4, <1>5, <2>1, <2>2 DEF StreamInv, ByPlace, Pausing
<1> QED BY <1>6, <1>7

LEMMA StreamDraws ==
  ASSUME ClockInv, StreamInv, FailsOnlyAtTheEnd, DrawFrame
  PROVE  StreamInv' /\ FailsOnlyAtTheEnd'
<1>1. /\ UNCHANGED <<asset, audio_index, current_hz, elapsed, played, next_second>> /\ Room' = Room
      /\ pb = "frames" /\ failed = "none"
  BY DEF DrawFrame, vgaVars, roundVars, timeVars, Room, At, Scheduled
<1>2. Valid(asset) /\ Position /\ Reading
  BY <1>1 DEF StreamInv, Streaming, InPlay, ByPlace
<1>3. /\ elapsed \in Nat /\ frame \in Nat /\ asset.frames \in Nat /\ asset \in Assets
      /\ frame <= asset.frames /\ frame * VIDEO_PERIOD_TICKS \in Nat
  BY <1>2, PositionTypes DEF ClockInv, ClockTypes
<1>4. CASE ~FrameDue
  <2>1. AllDrawn(elapsed)
    BY <1>3, <1>4 DEF FrameDue, AllDrawn
  <2>2. UNCHANGED <<frame, cursor, failed>> /\ pb' = "events"
    BY <1>4 DEF DrawFrame
  <2>3. Valid(asset)' /\ Position'
    BY <1>1, <1>2, <2>2, SamePosition DEF posVars
  <2>4. Reading' /\ AllDrawn(elapsed)'
    BY <1>1, <1>2, <2>1, <2>2 DEF Reading, NotAhead, AllDrawn, Second
  <2> QED BY <1>1, <2>2, <2>3, <2>4 DEF StreamInv, ByPlace, FailsOnlyAtTheEnd
<1>5. CASE FrameDue
  <2>1. /\ cursor = Cursors(asset)[frame] /\ frame \in 0 .. asset.frames - 1
        /\ frame * VIDEO_PERIOD_TICKS <= elapsed
    BY <1>2, <1>3, <1>5 DEF FrameDue, Position
  <2>2. /\ cursor \in 1 .. Len(asset.video) /\ FrameFits(asset, cursor) /\ IndexesFit(asset, cursor)
        /\ Cursors(asset)[frame + 1] = NextFrame(asset, cursor)
    BY <1>2, <1>3, <2>1, CursorsFit
  <2>3. cursor <= Len(asset.video)
    BY <1>3, <2>2, AssetTypes
  <2>4. cursor' = NextFrame(asset, cursor) /\ frame' = frame + 1 /\ UNCHANGED <<failed, pb>>
    BY <1>5, <2>2, <2>3 DEF DrawFrame
  <2>5. Position'
    BY <1>1, <1>2, <1>3, <2>1, <2>2, <2>4 DEF Position
  <2>6. NotAhead(elapsed)'
    <3>1. (frame' - 1) * VIDEO_PERIOD_TICKS <= elapsed'
      <4>1. frame' - 1 = frame
        BY <1>3, <2>4
      <4> QED BY <1>1, <2>1, <4>1
    <3> QED BY <1>1, <1>2, <3>1 DEF NotAhead, Reading
  <2>7. Reading'
    BY <1>1, <1>2, <2>6 DEF Reading, Second
  <2> QED BY <1>1, <1>2, <2>4, <2>5, <2>7 DEF StreamInv, ByPlace, FailsOnlyAtTheEnd
<1> QED BY <1>4, <1>5

(* In a valid asset no event is late or out of order.                      *)
LEMMA NoBadEvent ==
  ASSUME ClockInv, Position, Valid(asset)
  PROVE  ~EventBad
<1>1. /\ AudioInOrder(asset) /\ asset \in Assets /\ asset.duration \in Nat
      /\ audio_index \in Nat /\ Len(asset.audio) \in Nat
      /\ DOMAIN asset.audio = 1 .. Len(asset.audio)
      /\ \A i \in 1 .. Len(asset.audio) : asset.audio[i].tick \in Nat
  BY PositionTypes, AssetTypes DEF Valid
<1>2. ASSUME audio_index < Len(asset.audio) PROVE Event.tick < asset.duration /\ Event.tick \in Nat
  <2>1. audio_index + 1 \in 1 .. Len(asset.audio)
    BY <1>1, <1>2
  <2> QED BY <1>1, <2>1 DEF AudioInOrder, Event
<1>3. ASSUME audio_index < Len(asset.audio), audio_index > 0
      PROVE  asset.audio[audio_index].tick < Event.tick /\ asset.audio[audio_index].tick \in Nat
  <2>1. /\ audio_index \in 1 .. Len(asset.audio) /\ audio_index + 1 \in 1 .. Len(asset.audio)
        /\ audio_index < audio_index + 1
    BY <1>1, <1>3
  <2> QED BY <1>1, <2>1, TicksInOrder DEF Event
<1>4. audio_index < Len(asset.audio) => ~(Event.tick >= asset.duration)
  BY <1>1, <1>2
<1>5. audio_index < Len(asset.audio) /\ audio_index > 0 =>
        ~(Event.tick <= asset.audio[audio_index].tick)
  BY <1>2, <1>3
<1> QED BY <1>4, <1>5 DEF EventBad

LEMMA StreamPlays ==
  ASSUME ClockInv, StreamInv, FailsOnlyAtTheEnd, NoEvent \/ PlayEvent
  PROVE  StreamInv' /\ FailsOnlyAtTheEnd'
<1>1. /\ UNCHANGED <<asset, frame, cursor, elapsed, played, next_second>> /\ Room' = Room
      /\ pb = "events" /\ failed = "none" /\ audio_queue = <<>>
  BY PlaybackRuns DEF NoEvent, PlayEvent, envVars, mediaVars, vgaVars, roundVars, timeVars, posVars,
    Room, At
<1>2. Valid(asset) /\ Position /\ Reading /\ AllDrawn(elapsed)
  BY <1>1 DEF StreamInv, Streaming, InPlay, ByPlace
<1>3. /\ elapsed \in Nat /\ audio_index \in Nat /\ Len(asset.audio) \in Nat
      /\ audio_index <= Len(asset.audio)
      /\ \A i \in 1 .. Len(asset.audio) : asset.audio[i].tick \in Nat /\ asset.audio[i].hz \in Nat
  BY <1>2, PositionTypes DEF ClockInv, ClockTypes
<1>4. AllDrawn(elapsed)'
  BY <1>1, <1>2 DEF AllDrawn
<1>5. CASE NoEvent
  <2>1. UNCHANGED <<failed, posVars>> /\ pb' = "progress"
    BY <1>5 DEF NoEvent, envVars, mediaVars
  <2>2. AllPlayed(elapsed)
    BY <1>3, <1>5 DEF NoEvent, EventDue, Event, AllPlayed
  <2>3. Valid(asset)' /\ Position'
    BY <1>1, <1>2, <2>1, SamePosition
  <2>4. Reading' /\ AllPlayed(elapsed)'
    BY <1>1, <1>2, <2>1, <2>2 DEF Reading, NotAhead, AllPlayed, Event, Second, posVars
  <2> QED BY <1>1, <1>4, <2>1, <2>3, <2>4 DEF StreamInv, ByPlace, FailsOnlyAtTheEnd
<1>6. CASE PlayEvent
  <2>1. ~EventBad /\ EventDue /\ HasRoom
    BY <1>1, <1>2, <1>6, NoBadEvent, RoomIfEmpty DEF PlayEvent
  <2>2. /\ pb' = "events" /\ audio_index + 1 \in 1 .. Len(asset.audio) /\ Event.tick <= elapsed
        /\ Event = asset.audio[audio_index + 1]
    BY <1>1, <1>3, <1>6, <2>1 DEF PlayEvent, EventDue, Event
  <2>3. CASE failed' = "hz" /\ UNCHANGED <<audio_index, current_hz>>
    <3>1. Valid(asset)' /\ Position'
      BY <1>1, <1>2, <2>3, SamePosition DEF posVars
    <3>2. Reading'
      BY <1>1, <1>2, <2>3 DEF Reading, NotAhead, Second
    <3> QED BY <1>4, <2>2, <2>3, <3>1, <3>2 DEF StreamInv, ByPlace, FailsOnlyAtTheEnd
  <2>4. CASE audio_index' = audio_index + 1 /\ current_hz' = Event.hz /\ UNCHANGED failed
    <3>1. Position'
      <4>1. audio_index' \in 0 .. Len(asset.audio) /\ audio_index' # 0
        BY <1>3, <2>2, <2>4
      <4> QED BY <1>1, <1>2, <2>2, <2>4, <4>1 DEF Position
    <3>2. NotAhead(elapsed)'
      <4>1. \A i \in 1 .. audio_index' : i \in 1 .. audio_index \/ i = audio_index + 1
        BY <1>3, <2>4
      <4> QED BY <1>1, <1>2, <2>2, <4>1 DEF NotAhead, Reading
    <3>3. Reading'
      BY <1>1, <1>2, <3>2 DEF Reading, Second
    <3> QED BY <1>1, <1>2, <1>4, <2>2, <2>4, <3>1, <3>3 DEF StreamInv, ByPlace, FailsOnlyAtTheEnd
  <2>5. \/ failed' = "hz" /\ UNCHANGED <<audio_index, current_hz>>
        \/ audio_index' = audio_index + 1 /\ current_hz' = Event.hz /\ UNCHANGED failed
    BY <1>6, <2>1 DEF PlayEvent, Play, Fail
  <2> QED BY <2>3, <2>4, <2>5
<1> QED BY <1>5, <1>6

(* The watermarks are the one thing that may make a round longer.          *)
LEMMA StreamRests ==
  ASSUME ClockInv, StreamInv, Progress \/ EndOfRound
  PROVE  StreamInv'
<1>1. UNCHANGED <<asset, posVars, elapsed, played>> /\ pb \in {"progress", "delay"}
  BY DEF Progress, EndOfRound, At, envVars, mediaVars, vgaVars, timeVars
<1>2. Valid(asset) /\ Position
  BY <1>1 DEF StreamInv, Streaming, InPlay
<1>3. Valid(asset)' /\ Position'
  BY <1>1, <1>2, SamePosition
<1>4. CASE EndOfRound
  <2>1. Shown /\ pb' = "while" /\ next_second' = next_second /\ Room' = Room
    BY <1>4 DEF EndOfRound, At, StreamInv, ByPlace, vgaVars, roundVars, timeVars, Room
  <2>2. Shown'
    BY <1>1, <2>1, SamePosition DEF Shown, Second
  <2> QED BY <1>3, <2>1, <2>2 DEF StreamInv, ByPlace
<1>5. CASE Progress
  <2>1. Reading /\ AllDrawn(elapsed) /\ AllPlayed(elapsed) /\ pb' = "delay" /\ told' = told
    BY <1>5 DEF Progress, At, StreamInv, ByPlace
  <2>2. NotAhead(elapsed)' /\ AllDrawn(elapsed)' /\ AllPlayed(elapsed)' /\ elapsed' <= played'
    BY <1>1, <2>1, SamePosition DEF Reading
  <2>3. CASE UNCHANGED spare /\ (next_second' = 1 => elapsed < Second)
    <3>1. Room' = Room
      BY <2>1, <2>3 DEF Room
    <3>2. Shown'
      BY <1>1, <2>1, <2>2, <2>3, <3>1 DEF Shown, Reading, Second
    <3> QED BY <1>3, <2>1, <3>2 DEF StreamInv, ByPlace
  <2>4. CASE /\ next_second = 1 /\ next_second' = 1 + 1 /\ spare' = spare + WATERMARK_TICKS
             /\ Second <= elapsed
    <3>1. Room' = Room + WATERMARK_TICKS
      <4>1. spare \in Nat
        BY DEF ClockInv, ClockTypes
      <4>2. CASE told
        BY <2>1, <2>4, <4>2 DEF Room
      <4>3. CASE ~told
        BY <2>1, <2>4, <4>1, <4>3, RoundTypes DEF Room
      <4> QED BY <4>2, <4>3
    <3>2. /\ played + (Room + WATERMARK_TICKS) <= elapsed + LONGEST + WATERMARK_TICKS
          /\ played + (Room + WATERMARK_TICKS) < Second + LONGEST + LONGEST + WATERMARK_TICKS
      BY <2>1, <2>4, TimeTypes DEF Reading
    <3>3. next_second' > 1 /\ next_second' # 1
      BY <2>4
    <3>4. Shown'
      BY <1>1, <2>2, <2>4, <3>1, <3>2, <3>3 DEF Shown, Second
    <3> QED BY <1>3, <2>1, <3>4 DEF StreamInv, ByPlace
  <2>5. \/ UNCHANGED spare /\ (next_second' = 1 => elapsed < Second)
        \/ /\ next_second = 1 /\ next_second' = 1 + 1 /\ spare' = spare + WATERMARK_TICKS
           /\ Second <= elapsed
    <3>1. CASE elapsed >= SecondTicks(next_second)
      <4>1. next_second' = next_second + 1 /\ next_second' # 1
        BY <1>5, <3>1, TimeTypes DEF Progress
      <4>2. next_second = 1 => Second <= elapsed
        BY <3>1, TimeTypes DEF Second
      <4> QED BY <1>5, <3>1, <4>1, <4>2 DEF Progress
    <3>2. CASE ~(elapsed >= SecondTicks(next_second))
      <4>1. UNCHANGED <<next_second, spare>>
        BY <1>5, <3>2 DEF Progress
      <4>2. next_second = 1 => elapsed < Second
        BY <3>2, TimeTypes DEF Second
      <4> QED BY <4>1, <4>2
    <3> QED BY <3>1, <3>2
  <2> QED BY <2>3, <2>4, <2>5
<1> QED BY <1>4, <1>5

LEMMA StreamStops ==
  ASSUME ClockInv, StreamInv, FailsOnlyAtTheEnd, End \/ Stop
  PROVE  StreamInv' /\ FailsOnlyAtTheEnd'
<1>1. UNCHANGED <<asset, posVars>> /\ failed = "none"
  BY DEF End, Stop, At, Scheduled, mediaVars
<1>2. Valid(asset) /\ Valid(asset)'
  BY <1>1, SamePosition DEF End, Stop, At, StreamInv
<1>3. CASE Stop \/ (End /\ pb' = "stop")
  <2>1. pb' \in {"begin", "stop"} /\ failed' = failed
    BY <1>3 DEF Stop, End, At, mediaVars, Fail
  <2> QED BY <1>1, <1>2, <2>1 DEF StreamInv, ByPlace, Streaming, InPlay, Pausing, FailsOnlyAtTheEnd
<1>4. CASE End /\ pb' # "stop"
  <2>1. /\ pb = "end" /\ pb' = "end" /\ failed' = "unfinished"
        /\ \/ frame # asset.frames \/ cursor # Len(asset.video) + 1
           \/ audio_index # Len(asset.audio)
    BY <1>4 DEF End, At, Fail
  <2>2. Position /\ PlayedInTime
    BY <2>1 DEF StreamInv, ByPlace, Streaming, Pausing
  <2>3. frame = asset.frames => cursor = Len(asset.video) + 1
    BY <1>2, <2>2, CursorsFit DEF Position, ClockInv, ClockTypes
  <2>4. Missing
    BY <2>1, <2>2, <2>3, PositionTypes DEF Missing
  <2>5. Missing' /\ PlayedInTime' /\ Position'
    BY <1>1, <2>2, <2>4, SamePosition DEF Missing, posVars
  <2> QED BY <1>2, <2>1, <2>5 DEF StreamInv, ByPlace, FailsOnlyAtTheEnd, Pausing
<1> QED BY <1>3, <1>4

(* Steps of the other tasks and of the frame counter.                      *)
LEMMA StreamWaits ==
  ASSUME ClockInv, StreamInv, FailsOnlyAtTheEnd, NEW k \in Nat, NEW r \in Nat, Elapse(k, r)
  PROVE  StreamInv' /\ FailsOnlyAtTheEnd'
<1>1. /\ UNCHANGED <<asset, failed, pb, elapsed, next_second, posVars>>
      /\ "playback" \in asleep' => "playback" \in asleep
  BY DEF Elapse, timeVars
<1>2. PICK p \in Nat : /\ played' = p /\ played <= p /\ Room' = r /\ r <= Room
                       /\ p + r <= played + Room
  <2>1. CASE InRound
    BY <2>1, TimeTypes DEF Elapse
  <2>2. CASE ~InRound
    <3>1. Room' = Room /\ played' = played /\ Room' = r
      BY <2>2 DEF Elapse, Room
    <3> QED BY <3>1, TimeTypes
  <2> QED BY <2>1, <2>2
<1>3. FailsOnlyAtTheEnd' /\ (Valid(asset)' <=> Valid(asset)) /\ (Position' <=> Position)
      /\ (Fresh' <=> Fresh) /\ (PlayedInTime' <=> PlayedInTime)
      /\ (NotAhead(elapsed)' <=> NotAhead(elapsed)) /\ (AllDrawn(elapsed)' <=> AllDrawn(elapsed))
      /\ (AllPlayed(elapsed)' <=> AllPlayed(elapsed))
  BY <1>1, SamePosition DEF FailsOnlyAtTheEnd, Missing, NotAhead, AllDrawn, AllPlayed, Event, posVars
<1>4. ASSUME NEW b \in Int
      PROVE  /\ played + Room <= b => p + r <= b
             /\ played + Room < b => p + r < b
  BY <1>2, <1>4, TimeTypes
<1>5. /\ LONGEST \in Int /\ elapsed + LONGEST \in Int /\ elapsed + LONGEST + WATERMARK_TICKS \in Int
      /\ Second + LONGEST + LONGEST \in Int /\ Second + LONGEST + LONGEST + WATERMARK_TICKS \in Int
  BY TimeTypes
<1>6. elapsed <= played => elapsed <= p
  BY <1>2, TimeTypes
<1>7. ASSUME pb \in Streaming, InTime PROVE InTime'
  <2>1. Position
    BY <1>7 DEF StreamInv
  <2>2. NotAhead(p)
    BY <1>2, <1>7, <2>1, NotAheadLater, TimeTypes DEF InTime
  <2>3. NotAhead(played)'
    BY <1>1, <1>2, <2>2 DEF NotAhead, posVars
  <2>4. r <= LONGEST
    BY <1>2, <1>7, TimeTypes DEF InTime
  <2> QED BY <1>1, <1>2, <1>4, <1>5, <1>7, <2>3, <2>4 DEF InTime, Second
<1>8. ASSUME Reading PROVE Reading'
  BY <1>1, <1>2, <1>3, <1>4, <1>5, <1>6, <1>8 DEF Reading, Second
<1>9. ASSUME Shown PROVE Shown'
  BY <1>1, <1>2, <1>3, <1>4, <1>5, <1>6, <1>9 DEF Shown, Second
<1>10. ASSUME Unread PROVE Unread'
  BY <1>1, <1>2, <1>3, <1>4, <1>5, <1>10 DEF Unread
<1>11. ByPlace'
  BY <1>1, <1>3, <1>7, <1>8, <1>9, <1>10 DEF StreamInv, ByPlace, Streaming, InPlay, Pausing
<1> QED BY <1>1, <1>3, <1>11 DEF StreamInv

LEMMA StreamInvNext == ClockInv /\ StreamInv /\ FailsOnlyAtTheEnd /\ [Next]_vars => StreamInv' /\ FailsOnlyAtTheEnd'
<1> SUFFICES ASSUME ClockInv, StreamInv, FailsOnlyAtTheEnd, [Next]_vars PROVE StreamInv' /\ FailsOnlyAtTheEnd'
  OBVIOUS
<1>1. CASE \/ Validate \/ WaitReady \/ Begin \/ Activate \/ While \/ ReadElapsed \/ CheckPaused
           \/ Pause \/ Silence \/ Paused \/ Restart \/ Resume \/ Reread \/ Progress \/ EndOfRound
  <2>1. StreamInv'
    BY <1>1, StreamBegins, StreamLooks, StreamReads, StreamPauses, StreamRests
  <2>2. failed' \in {"none", "asset"}
    BY <1>1, PlaybackRuns DEF Validate, WaitReady, Begin, Activate, While, ReadElapsed, CheckPaused,
      Pause, Silence, Paused, Restart, Resume, Reread, Progress, EndOfRound, At, Fail, mediaVars,
      envVars
  <2> QED BY <2>1, <2>2 DEF FailsOnlyAtTheEnd
<1>2. CASE DrawFrame \/ NoEvent \/ PlayEvent \/ End \/ Stop
  BY <1>2, StreamDraws, StreamPlays, StreamStops
<1>3. CASE ~Playback
  <2>1. PICK k \in Nat, r \in Nat : Elapse(k, r)
    BY <1>3, TimePasses DEF Next
  <2> QED BY <2>1, StreamWaits
<1> QED BY <1>1, <1>2, <1>3 DEF Playback

PlayerInv == ClockInv /\ SoundInv /\ StreamInv /\ FailsOnlyAtTheEnd

(* The inductive invariant of the player.                                  *)
THEOREM PlayerInvariance == Spec => []PlayerInv
<1>1. Init => PlayerInv
  BY ClockInvInit, SoundInvInit, StreamInvInit DEF PlayerInv
<1>2. PlayerInv /\ [Next]_vars => PlayerInv'
  BY ClockInvNext, SoundInvNext, StreamInvNext DEF PlayerInv
<1> QED BY <1>1, <1>2, PTL DEF Spec

(* A valid asset is played to its end, wherever a message, the watermarks  *)
(* or a pause come: no frame is cut off, no note is out of order or finds  *)
(* the queue full.  All that can be missing at the end was due in the      *)
(* ticks before it that the round of then may take.                        *)
THEOREM PlayerFailsOnlyAtTheEnd == Spec => []FailsOnlyAtTheEnd
<1>1. PlayerInv => FailsOnlyAtTheEnd
  BY DEF PlayerInv
<1> QED BY <1>1, PlayerInvariance, PTL

(***************************************************************************)
(* What is shown at the end of a round is that of its time.                *)
(***************************************************************************)
LEMMA FramesShown ==
  ASSUME ClockInv, Position, Valid(asset), NotAhead(elapsed), AllDrawn(elapsed)
  PROVE  frame = FramesDue(elapsed)
<1> DEFINE c == VIDEO_PERIOD_TICKS
           q == elapsed \div c
<1>1. c \in Nat \ {0} /\ elapsed \in Nat /\ asset.frames \in Nat \ {0}
  BY MediaAssumption, AssetTypes DEF ClockInv, ClockTypes, Valid
<1>2. frame \in Nat /\ frame <= asset.frames
  BY PositionTypes
<1>3. q \in Nat
  BY <1>1
<1>4. ASSUME frame > 0 PROVE frame - 1 \in Nat /\ frame - 1 <= q
  <2>1. frame - 1 \in Nat /\ (frame - 1) * c <= elapsed
    BY <1>2, <1>4 DEF NotAhead
  <2> QED BY <1>1, <2>1, QuotientBetween
<1>5. frame = asset.frames \/ q < frame
  <2>1. CASE frame # asset.frames
    <3>1. elapsed < frame * c
      BY <1>1, <1>2, <2>1, PositionTypes DEF AllDrawn
    <3> QED BY <1>1, <1>2, <3>1, QuotientBetween
  <2> QED BY <2>1
<1>6. FramesDue(elapsed) = IF q + 1 < asset.frames THEN q + 1 ELSE asset.frames
  BY DEF FramesDue
<1> HIDE DEF q
<1> QED BY <1>1, <1>2, <1>3, <1>4, <1>5, <1>6

LEMMA NoteSounds ==
  ASSUME ClockInv, Position, Valid(asset), NotAhead(elapsed), AllPlayed(elapsed)
  PROVE  current_hz = LastNote(elapsed)
<1> DEFINE due == {i \in DOMAIN asset.audio : asset.audio[i].tick <= elapsed}
           n == Len(asset.audio)
<1>1. /\ elapsed \in Nat /\ n \in Nat /\ DOMAIN asset.audio = 1 .. n /\ audio_index \in 0 .. n
      /\ asset \in Assets /\ AudioInOrder(asset)
  BY PositionTypes DEF ClockInv, ClockTypes, Valid, Position
<1>2. \A i \in 1 .. n : asset.audio[i].tick \in Nat
  BY PositionTypes
<1>3. ASSUME NEW i \in 1 .. n, i > audio_index PROVE asset.audio[i].tick > elapsed
  <2>1. /\ audio_index + 1 \in 1 .. n /\ audio_index # n
        /\ i = audio_index + 1 \/ audio_index + 1 < i
    BY <1>1, <1>3
  <2>2. asset.audio[audio_index + 1].tick > elapsed
    BY <2>1 DEF AllPlayed, Event
  <2>3. audio_index + 1 < i => asset.audio[audio_index + 1].tick < asset.audio[i].tick
    BY <1>1, <2>1, TicksInOrder
  <2> QED BY <1>1, <1>2, <2>1, <2>2, <2>3
<1>4. due = 1 .. audio_index
  <2>1. ASSUME NEW i \in due PROVE i \in 1 .. audio_index
    BY <1>1, <1>2, <1>3, <2>1
  <2>2. ASSUME NEW i \in 1 .. audio_index PROVE i \in due
    <3>1. i \in 1 .. n /\ asset.audio[i].tick <= elapsed
      BY <1>1, <2>2 DEF NotAhead
    <3> QED BY <1>1, <3>1
  <2> HIDE DEF due
  <2> QED BY <2>1, <2>2
<1>5. Cardinality(1 .. audio_index) = audio_index
  <2>1. 1 \in Int /\ audio_index \in Int
    BY <1>1
  <2> QED BY <1>1, <2>1, FS_Interval
<1>6. LastNote(elapsed) = IF due = {} THEN 0 ELSE asset.audio[Cardinality(due)].hz
  BY DEF LastNote
<1> HIDE DEF due
<1>7. CASE audio_index = 0
  <2>1. due = {}
    BY <1>4, <1>7
  <2> QED BY <1>6, <1>7, <2>1 DEF Position
<1>8. CASE audio_index # 0
  <2>1. audio_index \in 1 .. audio_index
    BY <1>1, <1>8
  <2>2. due # {} /\ Cardinality(due) = audio_index
    BY <1>4, <1>5, <2>1
  <2> QED BY <1>6, <1>8, <2>2 DEF Position
<1> QED BY <1>7, <1>8

(* Picture, note and buzzer are those of the time of the stream whenever   *)
(* the task sleeps, behind pauses, late rounds and turns of the counter.   *)
THEOREM PlayerStaysInSync == Spec => []InSync
<1>1. PlayerInv => InSync
  <2> SUFFICES ASSUME PlayerInv, "playback" \in asleep
               PROVE  (pb = "while" => PictureInSync) /\ BuzzerFollows
    BY DEF InSync
  <2>1. pb \in {"while", "begin", "paused"}
    BY DEF PlayerInv, ClockInv
  <2>2. ASSUME pb = "while" PROVE PictureInSync
    <3>1. /\ ClockInv /\ Position /\ Valid(asset) /\ NotAhead(elapsed)
          /\ AllDrawn(elapsed) /\ AllPlayed(elapsed)
      BY <2>2 DEF PlayerInv, StreamInv, ByPlace, Shown, Unread, Streaming, InPlay
    <3> QED BY <3>1, FramesShown, NoteSounds DEF PictureInSync
  <2>3. NoteOfPlace = IF pb = "while" THEN current_hz ELSE 0
    BY <2>1 DEF NoteOfPlace, Streaming, InPlay, Pausing
  <2>4. BuzzerFollows
    BY <2>3 DEF PlayerInv, SoundInv, Sounding, BuzzerFollows, HalfPeriod
  <2> QED BY <2>2, <2>4
<1> QED BY <1>1, PlayerInvariance, PTL
=============================================================================
