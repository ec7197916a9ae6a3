------------------------------ MODULE BadApple ------------------------------
(***************************************************************************)
(* firmware/apps/freertos/bad_apple_full.c: tasks that play a stream of   *)
(* frames and notes against the VGA frame counter, pause it when a key is  *)
(* pressed, and show the beat.                                             *)
(*                                                                         *)
(* A step is what a task does up to its next access to shared state.  The   *)
(* priorities decide which of the tasks may take one; the button task, of   *)
(* the highest, and the frame counter go in between any two.  Texts are    *)
(* left out but for the time they take.                                    *)
(***************************************************************************)
EXTENDS Integers, Sequences, SequencesExt, FiniteSets

CONSTANTS
  Assets,              \* [header_ok, duration, frames, video, audio]
  W,                   \* 2^16, the width of the frame counter
  VGA_BITMAP_WORDS, VIDEO_PERIOD_TICKS, AUDIO_QUEUE_LENGTH, MAX_HZ, CLOCK_HZ,
  ROUND_TICKS,         \* VGA ticks that fit in a round of the loop: 1
  PRINT_TICKS,         \* those that a key message takes: 2
  WATERMARK_TICKS,     \* those that the stack watermarks take, and a message in them: 8
  TICKS_NUM, TICKS_DEN,\* VGA ticks in a second: 1250 / 21
  STABLE_SAMPLES,      \* equal samples that make a level of KEY1: 3
  START                \* the frame counter at the start

LONGEST == ROUND_TICKS + PRINT_TICKS

ASSUME MediaAssumption ==
  /\ W \in Nat \ {0} /\ START \in 0 .. W - 1
  /\ ROUND_TICKS \in Nat \ {0} /\ PRINT_TICKS \in Nat /\ WATERMARK_TICKS \in Nat
  /\ LONGEST + WATERMARK_TICKS < W \div 2
  /\ TICKS_DEN \in Nat \ {0} /\ TICKS_NUM \in Nat /\ TICKS_NUM >= TICKS_DEN
  /\ STABLE_SAMPLES \in Nat \ {0} /\ VIDEO_PERIOD_TICKS \in Nat \ {0}
  /\ VGA_BITMAP_WORDS \in Nat \ {0} /\ AUDIO_QUEUE_LENGTH \in Nat \ {0}
  /\ \A a \in Assets :
       /\ a.duration \in Nat /\ a.frames \in Nat /\ a.video \in Seq(Nat)
       /\ a.audio \in Seq([tick : Nat, hz : Nat, beat : BOOLEAN])

VARIABLES
  asset,
  vga, vga_ready,                        \* the frame counter
  paused, active,                        \* media_state_bits
  audio_queue, buzzer,                   \* half period, 0 for silence
  asleep,                                \* tasks whose delay has not expired
  pb, start, elapsed, pause_start, next_second, frame, cursor, audio_index, current_hz,
  failed,                                \* the code of fail(), "none"
  sampled, stable, count,                \* button_task; count is stable_count
  led, notified,
  spare, told,                           \* VGA ticks this round may still take; a key
                                         \* message was printed in it
  played, samples, level                 \* history: VGA ticks of the stream, the last
                                         \* samples of KEY1, its level

mediaVars == <<asset, failed>>
roundVars == <<spare, told>>
vgaVars   == <<vga, vga_ready, roundVars, played>>
bitVars   == <<paused, active>>
audioVars == <<audio_queue, buzzer>>
timeVars  == <<start, elapsed, pause_start, next_second>>
posVars   == <<frame, cursor, audio_index, current_hz>>
pbVars    == <<pb, timeVars, posVars>>
keyVars   == <<sampled, stable, count, samples, level>>
ledVars   == <<led, notified>>
envVars   == <<mediaVars, vgaVars, bitVars, audioVars, asleep, keyVars, ledVars>>
vars      == <<envVars, pbVars>>

Tasks == {"playback", "audio", "led"}
priority == [t \in Tasks |->
  CASE t = "audio" -> 3 [] t = "playback" -> 2 [] t = "led" -> 1]

(* A blocking task is ready when what it waits for has come.               *)
IsReady(t) ==
  CASE t = "audio" -> audio_queue # <<>>
    [] t = "led"   -> "led" \notin asleep \/ (led = "take" /\ notified > 0)
    [] OTHER       -> t \notin asleep
Scheduled(t) == /\ failed = "none" /\ IsReady(t)
                /\ \A u \in Tasks : IsReady(u) => priority[u] <= priority[t]
Sleep(t) == asleep' = asleep \cup {t}

-----------------------------------------------------------------------------
(* The stream.  A frame is a count and that many pairs <<index, value>>,   *)
(* one word after the other; audio is [tick, hz, beat].                    *)
Word(a, c) == a.video[c]
FrameFits(a, c) ==       \* c <= Len(a.video)
  Word(a, c) <= VGA_BITMAP_WORDS /\ Word(a, c) <= (Len(a.video) - c) \div 2
IndexesFit(a, c) ==
  \A i \in 0 .. Word(a, c) - 1 : a.video[c + 1 + 2 * i] < VGA_BITMAP_WORDS
NextFrame(a, c) == c + 1 + 2 * Word(a, c)

(* validate_asset: the cursor after f frames, 0 if one of them is bad.     *)
Cursors(a) ==
  LET walk[f \in 0 .. a.frames] ==
        IF f = 0 THEN 1
        ELSE LET c == walk[f - 1]
             IN IF /\ c \in 1 .. Len(a.video) /\ FrameFits(a, c) /\ IndexesFit(a, c)
                   /\ (f = 1 => Word(a, c) = VGA_BITMAP_WORDS)
                THEN NextFrame(a, c) ELSE 0
  IN walk

AudioInOrder(a) ==
  \A i \in DOMAIN a.audio : /\ a.audio[i].tick < a.duration
                            /\ i > 1 => a.audio[i].tick > a.audio[i - 1].tick

(* Variant: words behind the last frame are not looked for.                *)
ValidTrailing(a) ==
  a.header_ok /\ a.duration \in 1 .. (W \div 2) - 1 /\ a.frames > 0
  /\ Cursors(a)[a.frames] > 0 /\ AudioInOrder(a)
Valid(a) ==
  a.header_ok /\ a.duration \in 1 .. (W \div 2) - 1 /\ a.frames > 0
  /\ Cursors(a)[a.frames] = Len(a.video) + 1 /\ AudioInOrder(a)

-----------------------------------------------------------------------------
(* Time passes between any two steps.  A round, from one look at the       *)
(* counter in the loop's condition to the next, has ROUND_TICKS for its    *)
(* own code: 96 words to draw, a progress line of 5 to 9 ms, a delay of    *)
(* 1 ms.  A message of the button task, 18 characters of 1.04 ms in a      *)
(* critical section, comes on top once: another press is 60 ms away.       *)
(* Outside the rounds, and in a pause once it is taken off the time, any   *)
(* number of ticks passes.                                                 *)
Pausing == {"silence", "paused", "restart"}
Free    == {"validate", "wait", "begin", "end", "stop"}
InRound == pb \notin Pausing \cup Free

Pass(k) == vga' = (vga + k) % W /\ played' = IF InRound THEN played + k ELSE played
Take(k) == IF InRound THEN k <= spare /\ spare' = spare - k ELSE UNCHANGED spare
NewRound == spare' = ROUND_TICKS /\ told' = FALSE

VgaTick ==
  /\ failed = "none" /\ Pass(1) /\ Take(1)
  /\ UNCHANGED <<mediaVars, vga_ready, told, bitVars, audioVars, asleep, pbVars, keyVars,
                 ledVars>>
(* The frame buffer is cleared.                                            *)
VgaReady ==
  /\ failed = "none" /\ ~vga_ready /\ vga_ready' = TRUE
  /\ UNCHANGED <<mediaVars, vga, roundVars, played, bitVars, audioVars, asleep, pbVars, keyVars,
                 ledVars>>

Message == \E k \in 0 .. PRINT_TICKS :
  /\ Pass(k) /\ told' = (told \/ InRound)
  /\ IF told THEN Take(k) ELSE UNCHANGED spare

-----------------------------------------------------------------------------
(* The playback task.                                                      *)
Since(s) == (vga - s) % W                       \* elapsed_vga_ticks
SecondTicks(s) == (s * TICKS_NUM + TICKS_DEN \div 2) \div TICKS_DEN
At(place) == pb = place /\ Scheduled("playback")
Fail(code) == failed' = code

Validate ==
  /\ At("validate")
  /\ IF Valid(asset) THEN pb' = "wait" /\ UNCHANGED failed
     ELSE Fail("asset") /\ UNCHANGED pb
  /\ UNCHANGED <<asset, vgaVars, bitVars, audioVars, asleep, timeVars, posVars, keyVars, ledVars>>

(* The wait for the display yields to no task of a lower priority.         *)
WaitReady ==
  /\ At("wait") /\ vga_ready /\ pb' = "begin"
  /\ UNCHANGED <<envVars, timeVars, posVars>>

Begin ==
  /\ At("begin") /\ pb' = "activate" /\ start' = vga /\ next_second' = 1
  /\ cursor' = 1 /\ audio_index' = 0 /\ frame' = 0 /\ current_hz' = 0
  /\ NewRound /\ played' = 0
  /\ UNCHANGED <<mediaVars, vga, vga_ready, bitVars, audioVars, asleep, elapsed, pause_start,
                 keyVars, ledVars>>

Activate ==
  /\ At("activate") /\ pb' = "while" /\ paused' = FALSE /\ active' = TRUE /\ elapsed' = 0
  /\ UNCHANGED <<mediaVars, vgaVars, audioVars, asleep, start, pause_start, next_second, posVars,
                 keyVars, ledVars>>

While ==
  /\ At("while") /\ pb' = (IF Since(start) < asset.duration THEN "elapsed" ELSE "end")
  /\ NewRound
  /\ UNCHANGED <<mediaVars, vga, vga_ready, played, bitVars, audioVars, asleep, timeVars, posVars,
                 keyVars, ledVars>>

ReadElapsed ==
  /\ At("elapsed") /\ pb' = "check" /\ elapsed' = Since(start)
  /\ UNCHANGED <<envVars, start, pause_start, next_second, posVars>>

(* xQueueSendToFront and xQueueSend, which wait for room unless told not   *)
(* to; the audio task preempts the sender.                                 *)
HasRoom == Len(audio_queue) < AUDIO_QUEUE_LENGTH
SendFront(hz) == HasRoom /\ audio_queue' = <<hz>> \o audio_queue
SendBack(hz)  == HasRoom /\ audio_queue' = Append(audio_queue, hz)

CheckPaused ==
  /\ At("check") /\ pb' = IF paused THEN "pause" ELSE "frames"
  /\ UNCHANGED <<envVars, timeVars, posVars>>

(* The elapsed time is not used again before it is read anew.              *)
Pause ==
  /\ At("pause") /\ pb' = "silence" /\ pause_start' = vga /\ elapsed' = 0
  /\ UNCHANGED <<envVars, start, next_second, posVars>>

Silence ==
  /\ At("silence") /\ pb' = "paused" /\ SendFront(0)
  /\ UNCHANGED <<mediaVars, vgaVars, bitVars, buzzer, asleep, timeVars, posVars, keyVars, ledVars>>

(* Variant: only the end of the stream ends a pause.                       *)
PausedForever ==
  /\ At("paused")
  /\ IF active THEN Sleep("playback") /\ UNCHANGED pb ELSE pb' = "restart" /\ UNCHANGED asleep
  /\ UNCHANGED <<mediaVars, vgaVars, bitVars, audioVars, timeVars, posVars, keyVars, ledVars>>
(* Variant: it yields instead of sleeping.                                 *)
PausedSpin ==
  /\ At("paused") /\ pb' = IF paused THEN "paused" ELSE "restart"
  /\ UNCHANGED <<envVars, timeVars, posVars>>
Paused ==
  /\ At("paused")
  /\ IF paused THEN Sleep("playback") /\ UNCHANGED pb ELSE pb' = "restart" /\ UNCHANGED asleep
  /\ UNCHANGED <<mediaVars, vgaVars, bitVars, audioVars, timeVars, posVars, keyVars, ledVars>>

(* Variant: the pause is not taken off the time.                           *)
RestartCounts ==
  /\ At("restart") /\ pb' = "resume" /\ pause_start' = 0
  /\ UNCHANGED <<envVars, start, elapsed, next_second, posVars>>
Restart ==
  /\ At("restart") /\ pb' = "resume"
  /\ start' = (start + Since(pause_start)) % W /\ pause_start' = 0
  /\ UNCHANGED <<envVars, elapsed, next_second, posVars>>

Resume ==
  /\ At("resume") /\ pb' = "reread" /\ SendFront(current_hz)
  /\ UNCHANGED <<mediaVars, vgaVars, bitVars, buzzer, asleep, timeVars, posVars, keyVars, ledVars>>

Reread ==
  /\ At("reread") /\ pb' = "frames" /\ elapsed' = Since(start)
  /\ UNCHANGED <<envVars, start, pause_start, next_second, posVars>>

(* The frames that are due, however many.                                  *)
FrameDue == frame < asset.frames /\ frame * VIDEO_PERIOD_TICKS <= elapsed
DrawFrame ==
  /\ At("frames")
  /\ \/ ~FrameDue /\ pb' = "events" /\ UNCHANGED <<failed, frame, cursor>>
     \/ /\ FrameDue /\ UNCHANGED pb
        /\ IF cursor <= Len(asset.video) /\ FrameFits(asset, cursor) /\ IndexesFit(asset, cursor)
           THEN cursor' = NextFrame(asset, cursor) /\ frame' = frame + 1 /\ UNCHANGED failed
           ELSE Fail("video") /\ UNCHANGED <<frame, cursor>>
  /\ UNCHANGED <<asset, vgaVars, bitVars, audioVars, asleep, timeVars, audio_index, current_hz,
                 keyVars, ledVars>>

(* The notes that are due.  The tick of the one before is that of the note *)
(* played last, previous_audio_tick.                                       *)
Event == asset.audio[audio_index + 1]
EventBad ==
  /\ audio_index < Len(asset.audio)
  /\ \/ Event.tick >= asset.duration
     \/ audio_index > 0 /\ Event.tick <= asset.audio[audio_index].tick
(* Variant: a note waits for the tick after its own.                       *)
EventDueLate == audio_index < Len(asset.audio) /\ Event.tick < elapsed
EventDue == audio_index < Len(asset.audio) /\ Event.tick <= elapsed

NoEvent ==
  /\ At("events") /\ ~EventBad /\ ~EventDue /\ pb' = "progress"
  /\ UNCHANGED <<envVars, timeVars, posVars>>

Play ==
  /\ audio_index' = audio_index + 1 /\ current_hz' = Event.hz /\ UNCHANGED failed
  /\ IF Event.hz # current_hz THEN SendBack(Event.hz) ELSE UNCHANGED audio_queue
PlayEvent ==
  /\ At("events") /\ (EventBad \/ EventDue)
  /\ notified' = IF ~EventBad /\ Event.hz <= MAX_HZ /\ Event.beat THEN notified + 1 ELSE notified
  /\ LET code == IF EventBad THEN "tick" ELSE IF Event.hz > MAX_HZ THEN "hz"
                 ELSE IF Event.hz # current_hz /\ ~HasRoom THEN "queue" ELSE "none"
     IN IF code = "none" THEN Play
        ELSE Fail(code) /\ UNCHANGED <<audio_queue, audio_index, current_hz>>
  /\ UNCHANGED <<asset, vgaVars, bitVars, buzzer, asleep, pb, timeVars, frame, cursor, keyVars, led>>

(* A progress line once per second, with the first the stack watermarks.   *)
Progress ==
  /\ At("progress") /\ pb' = "delay"
  /\ IF elapsed >= SecondTicks(next_second)
     THEN /\ next_second' = next_second + 1
          /\ spare' = IF next_second = 1 THEN spare + WATERMARK_TICKS ELSE spare
     ELSE UNCHANGED <<next_second, spare>>
  /\ UNCHANGED <<mediaVars, vga, vga_ready, told, played, bitVars, audioVars, asleep, start,
                 elapsed, pause_start, posVars, keyVars, ledVars>>

EndOfRound ==
  /\ At("delay") /\ pb' = "while" /\ Sleep("playback")
  /\ UNCHANGED <<mediaVars, vgaVars, bitVars, audioVars, timeVars, posVars, keyVars, ledVars>>

(* The end of the stream, and ten seconds later the next round.            *)
End ==
  /\ At("end")
  /\ IF frame = asset.frames /\ cursor = Len(asset.video) + 1 /\ audio_index = Len(asset.audio)
     THEN SendBack(0) /\ pb' = "stop" /\ UNCHANGED failed
     ELSE Fail("unfinished") /\ UNCHANGED <<audio_queue, pb>>
  /\ UNCHANGED <<asset, vgaVars, bitVars, buzzer, asleep, timeVars, posVars, keyVars, ledVars>>

(* What is local to a round of the stream goes out of scope.               *)
Stop ==
  /\ At("stop") /\ active' = FALSE /\ Sleep("playback") /\ pb' = "begin"
  /\ start' = 0 /\ elapsed' = 0 /\ next_second' = 1 /\ NewRound /\ played' = 0
  /\ UNCHANGED <<mediaVars, vga, vga_ready, paused, audioVars, pause_start, posVars, keyVars,
                 ledVars>>

Playback == \/ Validate \/ WaitReady \/ Begin \/ Activate \/ While \/ ReadElapsed
            \/ CheckPaused \/ Pause \/ Silence \/ Paused \/ Restart \/ Resume \/ Reread
            \/ DrawFrame \/ NoEvent \/ PlayEvent \/ Progress \/ EndOfRound
            \/ End \/ Stop

-----------------------------------------------------------------------------
(* The audio task alone writes the buzzer (drivers/buzzer.c).              *)
HalfPeriod(hz) == IF hz = 0 THEN 0 ELSE (CLOCK_HZ \div hz) \div 2
Audio ==
  /\ Scheduled("audio") /\ buzzer' = HalfPeriod(Head(audio_queue))
  /\ audio_queue' = Tail(audio_queue)
  /\ UNCHANGED <<mediaVars, vgaVars, bitVars, asleep, pbVars, keyVars, ledVars>>

(* The button task: STABLE_SAMPLES equal samples in a row are a level, and a *)
(* new press toggles the pause and tells so.  It has the highest priority    *)
(* and preempts the playback task at any place.                              *)
(* Variant: a bounce does not start the count over.                        *)
StableCountOn(pressed) ==
  IF pressed = sampled THEN IF count < STABLE_SAMPLES THEN count + 1 ELSE count ELSE count
StableCount(pressed) ==
  IF pressed = sampled THEN IF count < STABLE_SAMPLES THEN count + 1 ELSE count ELSE 1

Sample(pressed) ==
  LET n == StableCount(pressed)
      new == n = STABLE_SAMPLES /\ stable # pressed
  IN /\ failed = "none"
     /\ sampled' = pressed /\ count' = n
     /\ stable' = IF new THEN pressed ELSE stable
     /\ IF new /\ pressed THEN paused' = ~paused /\ Message
        ELSE UNCHANGED <<paused, vga, roundVars, played>>
     /\ samples' = Append(Tail(samples), pressed)
     /\ level' = IF \A i \in DOMAIN samples' : samples'[i] = pressed THEN pressed ELSE level
     /\ UNCHANGED <<mediaVars, vga_ready, active, audioVars, asleep, pbVars, ledVars>>
Button == \E pressed \in BOOLEAN : Sample(pressed)

(* The LED task shows the beats while the stream plays, a slow runner else. *)
LedLook ==
  /\ Scheduled("led") /\ led = "look" /\ Sleep("led")
  /\ IF active /\ ~paused THEN led' = "take" /\ UNCHANGED notified
     ELSE led' = "look" /\ notified' = 0
  /\ UNCHANGED <<mediaVars, vgaVars, bitVars, audioVars, pbVars, keyVars>>

LedTake ==
  /\ Scheduled("led") /\ led = "take" /\ led' = "look"
  /\ notified' = 0
  /\ asleep' = asleep \ {"led"}
  /\ UNCHANGED <<mediaVars, vgaVars, bitVars, audioVars, pbVars, keyVars>>

-----------------------------------------------------------------------------
(* A delay expires.  The ten seconds between two streams are enough for    *)
(* the LED task to take the beats that are left.                           *)
Expire(t) ==
  /\ failed = "none" /\ t \in asleep /\ asleep' = asleep \ {t}
  /\ (t = "playback" /\ pb = "begin" => notified = 0)
  /\ UNCHANGED <<mediaVars, vgaVars, bitVars, audioVars, pbVars, keyVars, ledVars>>

Init ==
  /\ asset \in Assets /\ vga = START /\ vga_ready = FALSE /\ paused = FALSE /\ active = FALSE
  /\ audio_queue = <<>> /\ buzzer = 0 /\ asleep = {} /\ failed = "none"
  /\ pb = "validate" /\ start = START /\ elapsed = 0 /\ pause_start = 0 /\ next_second = 1
  /\ frame = 0 /\ cursor = 1 /\ audio_index = 0 /\ current_hz = 0
  /\ sampled = FALSE /\ stable = FALSE /\ count = 0
  /\ led = "look" /\ notified = 0
  /\ spare = ROUND_TICKS /\ told = FALSE /\ played = 0
  /\ samples = [i \in 1 .. STABLE_SAMPLES |-> FALSE] /\ level = FALSE

Next == Playback \/ Audio \/ Button \/ LedLook \/ LedTake \/ VgaTick \/ VgaReady
        \/ \E t \in Tasks : Expire(t)

(* Tasks run, delays expire and the display goes on.  The LED task, of      *)
(* priority 1, runs when the others sleep, which they do most of the time.  *)
(* Each subscript is what every step of its action changes.                 *)
Fairness == /\ WF_<<pb, posVars, asleep, failed>>(Playback) /\ WF_audioVars(Audio)
            /\ WF_vga(VgaTick) /\ WF_vga_ready(VgaReady)
            /\ \A t \in {"playback", "led"} : WF_asleep(Expire(t))
            /\ SF_<<led, asleep>>(LedLook \/ LedTake)
Spec == Init /\ [][Next]_vars /\ Fairness

-----------------------------------------------------------------------------
(* An asset that passes validate_asset never stops the player before its   *)
(* end: no cursor runs out of its stream, no note is out of order, the     *)
(* queue has room.  At the end it may find something missing, but nothing  *)
(* that was due before the ticks its last round may take: those of a round *)
(* and a key message, and of the watermarks where this may be the round    *)
(* that prints them.  The frequency alone is first looked at when it is    *)
(* played.                                                                 *)
WatermarksEarly == SecondTicks(1) + 2 * LONGEST + WATERMARK_TICKS <= asset.duration
LastRound(t) == IF t <= SecondTicks(1) \/ WatermarksEarly THEN LONGEST
                ELSE LONGEST + WATERMARK_TICKS
DueInTime(t) == LONGEST < asset.duration /\ t + LastRound(t) <= asset.duration
Missing == frame < asset.frames \/ audio_index < Len(asset.audio)
PlayedInTime ==
  /\ \A f \in 0 .. asset.frames - 1 : DueInTime(f * VIDEO_PERIOD_TICKS) => f < frame
  /\ \A i \in DOMAIN asset.audio : DueInTime(asset.audio[i].tick) => i <= audio_index
FailsOnlyAtTheEnd ==
  \/ failed \in {"none", "asset", "hz"}
  \/ failed = "unfinished" /\ Missing /\ PlayedInTime

(* docs/BAD_APPLE_FUTURE.md: the logical time is that of the frame counter *)
(* without the pauses, however often the counter wraps in them and         *)
(* wherever in a round they begin.                                         *)
LogicalTime == [][(pb = "elapsed" /\ pb' = "check") \/ (pb = "reread" /\ pb' = "frames")
                  => elapsed' = played]_vars

(* Picture, note and buzzer are those of the logical time at the end of    *)
(* every round, through pauses and late rounds; during a pause the buzzer  *)
(* is silent, and behind it the note of the moment sounds again.           *)
LastNote(t) == LET due == {i \in DOMAIN asset.audio : asset.audio[i].tick <= t}
               IN IF due = {} THEN 0 ELSE asset.audio[Cardinality(due)].hz
FramesDue(t) == LET due == t \div VIDEO_PERIOD_TICKS + 1
                IN IF due < asset.frames THEN due ELSE asset.frames
PictureInSync == frame = FramesDue(elapsed) /\ current_hz = LastNote(elapsed)
BuzzerFollows == audio_queue = <<>> =>
                   buzzer = IF pb = "while" THEN HalfPeriod(current_hz) ELSE 0
InSync == "playback" \in asleep => (pb = "while" => PictureInSync) /\ BuzzerFollows

(* KEY1 toggles once per press, however it bounces: with enough equal      *)
(* samples in a row behind as many of the other kind.                      *)
OneTogglePerPress ==
  [][samples' # samples => ((paused' # paused) <=> (level' /\ ~level))]_vars

(* Once started the stream comes to its end unless it is paused, and a     *)
(* pause that is over does not hold it up.                                 *)
StreamEnds == []<>(~active \/ paused \/ failed # "none")

(* The LED task always gets to run again, also during a long pause: the    *)
(* playback task sleeps where it waits.                                    *)
LowPriorityRuns == /\ []<>("led" \in asleep \/ failed # "none")
                   /\ []<>("led" \notin asleep \/ failed # "none")
=============================================================================
