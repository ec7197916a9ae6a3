----------------------------- MODULE Acceptance -----------------------------
(***************************************************************************)
(* firmware/apps/freertos/freertos_acceptance.c: a coordinator that starts *)
(* workers one after the other and judges by what they leave behind.  Each *)
(* task is a program, a sequence of instructions <<operation, argument,    *)
(* code of the failure>>; the tick may come between any two.               *)
(*                                                                         *)
(* The heap checks before the scheduler starts, the texts and the contents *)
(* of the messages are left out, and the watchdog never bites: what it     *)
(* would end has to end by itself.                                         *)
(***************************************************************************)
EXTENDS RtosKernel

CONSTANTS
  STATIC_WORKER_COUNT, WAIT_TICKS, QUEUE_LENGTH,
  YIELDS, MESSAGES,     \* 4 turns of a yield worker, 8 messages
  ONE_SHOT, PERIOD,     \* 3 and 2 ticks
  STEPS_PER_TICK        \* a busy processor takes at least so many steps between ticks

ASSUME AcceptanceAssumption ==
  /\ \A n \in {WAIT_TICKS, QUEUE_LENGTH, YIELDS, MESSAGES, ONE_SHOT, PERIOD} : n \in Nat \ {0}
  /\ STATIC_WORKER_COUNT \in Nat /\ STEPS_PER_TICK \in Nat

VARIABLES
  verdict,                              \* "running", "pass", or the code of test_fail
  k, pc, critical,
  shared,                               \* the counters and flags of the test
  reg,                                  \* a counter between its load and its store
  yield_order, worker_count,
  since,                                \* ticks since the coordinator's start
  ahead,                                \* timing_worker: deadline - now
  queue, note, semaphore, holder, events, got,
  timers, commands, service,            \* the timer service, and where its task is
  heap, free_before, terminated,        \* blocks in use; those idle has to free
  steps                                 \* since the last tick

judgeVars  == <<verdict, shared, reg, yield_order, worker_count>>
timeVars   == <<since, ahead>>
objectVars == <<queue, note, semaphore, holder, events, got>>
timerVars  == <<timers, commands, service>>
heapVars   == <<heap, free_before, terminated>>
vars == <<k, pc, critical, judgeVars, timeVars, objectVars, timerVars, heapVars, steps>>

priority ==
  [coordinator |-> 2, watchdog |-> 1, idle |-> 0, daemon |-> 3, preempt |-> 3,
   yield_a |-> 1, yield_b |-> 1, timing |-> 1, producer |-> 3, notify_bit |-> 1,
   notify_count |-> 3, semaphore |-> 1, mutex_low |-> 1, mutex_mid |-> 2,
   mutex_high |-> 3, event_a |-> 1, event_b |-> 1, dynamic |-> 1]

-----------------------------------------------------------------------------
(* The workers.                                                            *)
Turns(n, turn) == FlattenSeq([i \in 1 .. n |-> turn])

(* Variant: the slot is taken without a critical section.                  *)
YieldWorkerOpen(id) ==
  Turns(YIELDS, << <<"load", "yield_index">>, <<"order", id>>, <<"store", "yield_index">>,
                   <<"yield">> >>)
  \o << <<"load", "yield_done">>, <<"store", "yield_done">> >>
YieldWorker(id) ==
  Turns(YIELDS, << <<"enter">>, <<"load", "yield_index">>, <<"order", id>>,
                   <<"store", "yield_index">>, <<"exit">>, <<"yield">> >>)
  \o << <<"load", "yield_done">>, <<"store", "yield_done">> >>

PreemptWorker == << <<"set", "preempt_ran">> >>
TimingWorker ==
  << <<"deadline">>, <<"delay_until", 2>>, <<"in_time", 2>>, <<"delay_until", 2>>,
     <<"in_time", 2>>, <<"delay_until", 2>>, <<"in_time", 2>>, <<"set", "timing_done">> >>
QueueProducer ==
  [n \in 1 .. MESSAGES |-> <<"send", n - 1, "fa020001">>] \o << <<"set", "queue_producer_done">> >>
NotificationBitsWorker == << <<"notify", 5>> >>
NotificationCountWorker == << <<"notify", 1>>, <<"notify", 1>>, <<"notify", 1>> >>
SemaphoreWorker == << <<"give", "", "fa030001">>, <<"give", "", "fa030001">> >>
MutexLowWorker ==
  << <<"lock", "", "fa030002">>, <<"set", "mutex_low_holds">>, <<"poll", "mutex_release_low">>,
     <<"unlock">>, <<"low_priority">>, <<"set", "mutex_low_done">> >>
MutexMidWorker == << <<"spin">>, <<"set", "mutex_mid_done">> >>
MutexHighWorker ==
  << <<"lock", "", "fa030004">>, <<"set", "mutex_high_done">>, <<"unlock">> >>
EventWorker(bit) == << <<"set_bits", bit>> >>
DynamicLifecycleWorker == << <<"set", "dynamic_task_done">> >>

-----------------------------------------------------------------------------
(* The coordinator.                                                        *)
Create(worker, code) == << <<"create", worker, code>> >>
Expect(code) == << <<"expect", "", code>> >>
WaitValue(code) == << <<"start">>, <<"wait", "", code>> >>

SchedulerAcceptance == FlattenSeq(<<
  Create("preempt", "fa010001"), Expect("fa010002"),
  Create("yield_a", "fa010003"), Create("yield_b", "fa010004"), WaitValue("fa015000"),
  Expect("fa010006"), Expect("fa01000b"), << <<"forget">> >>,
  Create("timing", "fa010008"), WaitValue("fa010009"), Expect("fa01000a"),
  Expect("fa020003"), Create("producer", "fa020004"), Expect("fa020005"),
  [n \in 1 .. MESSAGES |-> <<"receive", n - 1, "fa020007">>], WaitValue("fa020008"),
  Create("notify_bit", "fa020009"), << <<"notify_wait", 5, "fa02000a">> >>,
  Create("notify_count", "fa02000b"), << <<"notify_wait", 3, "fa02000c">> >>,
  Create("semaphore", "fa030006"), << <<"take", "", "fa030007">>, <<"take", "", "fa030008">> >>,
  Expect("fa030009"),
  Create("mutex_low", "fa03000a"), WaitValue("fa03000b"), Create("mutex_mid", "fa03000c"),
  Create("mutex_high", "fa03000d"), Expect("fa03000e"), << <<"set", "mutex_release_low">> >>,
  WaitValue("fa03000f"), WaitValue("fa030010"), WaitValue("fa030011"),
  Expect("fa030012"), Expect("fa030013") >>)

EventTimerAcceptance == FlattenSeq(<<
  Create("event_a", "fa040001"), Create("event_b", "fa040002"),
  << <<"wait_bits", "", "fa040003">> >>,
  << <<"timer_start", "one_shot">>, <<"timer_start", "periodic">> >>,
  WaitValue("fa050004"), WaitValue("fa050005"), << <<"delay", 5>> >>, Expect("fa050006") >>)

(* Variant: it does not wait for the idle task.                            *)
DynamicObjectAcceptanceHasty == FlattenSeq(<<
  << <<"delay", 20>>, <<"free_before">>, <<"allocate", 1>>, <<"free", 1>> >>, Expect("fa06000b"),
  << <<"free_before">>, <<"allocate", 1>> >>, << <<"create_dynamic", "dynamic">> >>,
  WaitValue("fa06000d"), << <<"pass">> >> >>)
DynamicObjectAcceptance == FlattenSeq(<<
  << <<"delay", 20>>, <<"free_before">>, <<"allocate", 1>>, <<"free", 1>> >>, Expect("fa06000b"),
  << <<"free_before">>, <<"allocate", 1>> >>, << <<"create_dynamic", "dynamic">> >>,
  WaitValue("fa06000d"), WaitValue("fa06000e"), << <<"pass">> >> >>)

Program ==
  [coordinator  |-> SchedulerAcceptance \o EventTimerAcceptance \o DynamicObjectAcceptance,
   preempt      |-> PreemptWorker,
   yield_a      |-> YieldWorker(1),
   yield_b      |-> YieldWorker(2),
   timing       |-> TimingWorker,
   producer     |-> QueueProducer,
   notify_bit   |-> NotificationBitsWorker,
   notify_count |-> NotificationCountWorker,
   semaphore    |-> SemaphoreWorker,
   mutex_low    |-> MutexLowWorker,
   mutex_mid    |-> MutexMidWorker,
   mutex_high   |-> MutexHighWorker,
   event_a      |-> EventWorker(1),
   event_b      |-> EventWorker(2),
   dynamic      |-> DynamicLifecycleWorker,
   watchdog     |-> << <<"delay", 0>> >>,
   idle         |-> <<>>,
   daemon       |-> <<>>]

(* What the coordinator expects, by the code of the failure.               *)
Turn(id) == {s \in DOMAIN yield_order : yield_order[s] = id}
Expected(code) ==
  CASE code = "fa010002" -> shared.preempt_ran = 1
    [] code = "fa015000" -> shared.yield_done = 2
    [] code = "fa010006" -> shared.yield_index = 2 * YIELDS
    [] code = "fa01000b" -> \A id \in {1, 2} : Cardinality(Turn(id)) = YIELDS
    [] code = "fa010009" -> shared.timing_done = 1
    [] code = "fa01000a" -> shared.timing_late = 0
    [] code = "fa020003" -> queue = <<>>
    [] code = "fa020005" -> Len(queue) = QUEUE_LENGTH
    [] code = "fa020008" -> shared.queue_producer_done = 1
    [] code = "fa030009" -> semaphore = 0
    [] code = "fa03000b" -> shared.mutex_low_holds = 1
    [] code = "fa03000e" -> k.prio["mutex_low"] = 3
    [] code = "fa03000f" -> shared.mutex_high_done = 1
    [] code = "fa030010" -> shared.mutex_low_done = 1
    [] code = "fa030011" -> shared.mutex_mid_done = 1
    [] code = "fa030012" -> shared.mutex_low_priority_after = 1
    [] code = "fa030013" -> shared.mutex_mid_spins # 0
    [] code = "fa050004" -> shared.one_shot_count = 1
    [] code = "fa050005" -> shared.periodic_count = 3
    [] code = "fa050006" -> shared.one_shot_count = 1 /\ shared.periodic_count = 3
    [] code = "fa06000b" -> heap = free_before
    [] code = "fa06000d" -> shared.dynamic_task_done = 1
    [] code = "fa06000e" -> heap = free_before

-----------------------------------------------------------------------------
Me == k.current
Running == verdict = "running" /\ pc[Me] \in DOMAIN Program[Me]
Instr == Program[Me][pc[Me]]
At(operation) == Running /\ Instr[1] = operation
Continue == pc' = [pc EXCEPT ![Me] = @ + 1]
Fail == verdict' = Instr[3]
Set(name, value) == shared' = [shared EXCEPT ![name] = value]

KeepTimeAndService == UNCHANGED <<timeVars, timerVars, heapVars>>

(* Loads, stores and critical sections.                                    *)
Compute ==
  /\ \/ At("load") /\ reg' = [reg EXCEPT ![Me] = shared[Instr[2]]]
        /\ UNCHANGED <<shared, yield_order, critical>>
     \/ At("store") /\ Set(Instr[2], reg[Me] + 1) /\ reg' = [reg EXCEPT ![Me] = 0]
        /\ UNCHANGED <<yield_order, critical>>
     \/ At("order") /\ yield_order' = [yield_order EXCEPT ![reg[Me]] = Instr[2]]
        /\ UNCHANGED <<shared, reg, critical>>
     \/ At("set") /\ Set(Instr[2], 1) /\ UNCHANGED <<reg, yield_order, critical>>
     \/ At("low_priority") /\ Set("mutex_low_priority_after", k.prio[Me])
        /\ UNCHANGED <<reg, yield_order, critical>>
     \/ At("enter") /\ critical' = TRUE /\ UNCHANGED <<shared, reg, yield_order>>
     \/ At("exit") /\ critical' = FALSE /\ UNCHANGED <<shared, reg, yield_order>>
     \/ At("forget")                    \* yield_order is not used again
        /\ yield_order' = [s \in DOMAIN yield_order |-> 0] /\ UNCHANGED <<shared, reg, critical>>
  /\ Continue /\ UNCHANGED <<verdict, k, worker_count, objectVars>> /\ KeepTimeAndService

(* Programs without an instruction left delete themselves; idle frees what *)
(* was not static.                                                         *)
Delete ==
  /\ verdict = "running" /\ Me \notin {"idle", "daemon", "watchdog"}
  /\ pc[Me] > Len(Program[Me])
  /\ k' = Block(k, "deleted", 0) /\ pc' = [pc EXCEPT ![Me] = 0]
  /\ terminated' = IF Me = "dynamic" THEN terminated + 1 ELSE terminated
  /\ UNCHANGED <<critical, judgeVars, timeVars, objectVars, timerVars, heap, free_before>>

Reclaim ==
  /\ verdict = "running" /\ Me = "idle" /\ terminated > 0
  /\ heap' = heap - terminated /\ terminated' = 0
  /\ UNCHANGED <<k, pc, critical, judgeVars, timeVars, objectVars, timerVars, free_before>>

(* create_worker, with as many stacks as there are workers.                *)
HasWorker == worker_count < STATIC_WORKER_COUNT
Start(worker) ==
  /\ k' = Preempt(Wake(k, worker)) /\ pc' = [pc EXCEPT ![Me] = @ + 1, ![worker] = 1]
CreateWorker ==
  /\ \/ /\ At("create")
        /\ IF HasWorker
           THEN Start(Instr[2]) /\ worker_count' = worker_count + 1 /\ UNCHANGED verdict
           ELSE Fail /\ UNCHANGED <<k, pc, worker_count>>
     \/ At("create_dynamic") /\ Start(Instr[2]) /\ UNCHANGED <<verdict, worker_count>>
  /\ UNCHANGED <<critical, shared, reg, yield_order, objectVars>> /\ KeepTimeAndService

(* test_expect, and wait_value and its like: look, give up, or look again  *)
(* at the next tick.                                                       *)
TestExpect ==
  /\ At("expect")
  /\ IF Expected(Instr[3]) THEN Continue /\ UNCHANGED verdict ELSE Fail /\ UNCHANGED pc
  /\ UNCHANGED <<k, critical, shared, reg, yield_order, worker_count, objectVars>>
  /\ KeepTimeAndService

StartWait ==
  /\ At("start") /\ since' = 0 /\ Continue
  /\ UNCHANGED <<k, critical, judgeVars, ahead, objectVars, timerVars, heapVars>>

(* Variant: the time is taken anew each time.                              *)
LookRestart ==
  /\ At("wait")
  /\ IF Expected(Instr[3]) THEN Continue /\ since' = 0 /\ UNCHANGED <<verdict, k>>
     ELSE IF since >= WAIT_TICKS THEN Fail /\ UNCHANGED <<pc, k, since>>
     ELSE k' = Block(k, "delay", 1) /\ since' = 0 /\ UNCHANGED <<pc, verdict>>
  /\ UNCHANGED <<critical, shared, reg, yield_order, worker_count, ahead, objectVars,
                 timerVars, heapVars>>
Look ==
  /\ At("wait")
  /\ IF Expected(Instr[3]) THEN Continue /\ since' = 0 /\ UNCHANGED <<verdict, k>>
     ELSE IF since >= WAIT_TICKS THEN Fail /\ UNCHANGED <<pc, k, since>>
     ELSE k' = Block(k, "delay", 1) /\ UNCHANGED <<pc, since, verdict>>
  /\ UNCHANGED <<critical, shared, reg, yield_order, worker_count, ahead, objectVars,
                 timerVars, heapVars>>

(* Delays and yields.                                                      *)
Sleep ==
  /\ \/ At("delay") /\ k' = Block(k, "delay", Instr[2]) /\ Continue /\ UNCHANGED shared
     \/ At("yield") /\ k' = Switch(k) /\ Continue /\ UNCHANGED shared
     \/ At("poll") /\ UNCHANGED shared
        /\ IF shared[Instr[2]] = 0 THEN k' = Block(k, "delay", 1) /\ UNCHANGED pc
           ELSE Continue /\ UNCHANGED k
     \/ At("spin")
        /\ IF shared.mutex_high_done = 0
           THEN Set("mutex_mid_spins", 1) /\ k' = Switch(k) /\ UNCHANGED pc
           ELSE Continue /\ UNCHANGED <<shared, k>>
  /\ UNCHANGED <<verdict, critical, reg, yield_order, worker_count, objectVars>>
  /\ KeepTimeAndService

(* vTaskDelayUntil yields also if its time has come already.               *)
Timing ==
  /\ \/ At("deadline") /\ ahead' = 0 /\ UNCHANGED <<k, shared>>
     \/ /\ At("delay_until") /\ ahead' = ahead + Instr[2] /\ UNCHANGED shared
        /\ k' = IF ahead' > 0 THEN Block(k, "delay", ahead') ELSE Switch(k)
     \/ /\ At("in_time") /\ UNCHANGED <<ahead, k>>
        /\ IF ahead > 0 \/ - ahead > Instr[2] THEN Set("timing_late", 1) ELSE UNCHANGED shared
  /\ Continue
  /\ UNCHANGED <<verdict, critical, reg, yield_order, worker_count, since, objectVars,
                 timerVars, heapVars>>

-----------------------------------------------------------------------------
(* Kernel objects: a call that cannot go on blocks and is tried again when *)
(* it is woken, or fails when its time was up.                             *)
TimedOut == k.on[Me] = "timeout"
BlockOn(object) ==
  IF TimedOut THEN Fail /\ UNCHANGED <<k, pc>>
  ELSE k' = Block(k, object, WAIT_TICKS) /\ UNCHANGED <<pc, verdict>>
Served == Continue /\ UNCHANGED verdict
Waker(object) == k' = WakeFirst([k EXCEPT !.on[Me] = "none"], object)
Fresh == k' = [k EXCEPT !.on[Me] = "none"]

Queue ==
  /\ \/ At("send") /\ IF Len(queue) < QUEUE_LENGTH
                      THEN queue' = Append(queue, Instr[2]) /\ Waker("items") /\ Served
                      ELSE BlockOn("space") /\ UNCHANGED queue
     \/ At("receive") /\ IF queue # <<>>
                         THEN /\ queue' = Tail(queue) /\ Waker("space")
                              /\ IF Head(queue) = Instr[2] THEN Served ELSE Fail /\ UNCHANGED pc
                         ELSE BlockOn("items") /\ UNCHANGED queue
  /\ UNCHANGED <<critical, shared, reg, yield_order, worker_count, note, semaphore, holder,
                 events, got>> /\ KeepTimeAndService

(* Notifications to the coordinator: bits and counts add up alike here.    *)
Notification ==
  /\ \/ At("notify") /\ note' = note + Instr[2] /\ Waker("note") /\ Served
     \/ At("notify_wait")
        /\ IF note # 0
           THEN note' = 0 /\ Fresh /\ IF note = Instr[2] THEN Served ELSE Fail /\ UNCHANGED pc
           ELSE BlockOn("note") /\ UNCHANGED note
  /\ UNCHANGED <<critical, shared, reg, yield_order, worker_count, queue, semaphore, holder,
                 events, got>> /\ KeepTimeAndService

Semaphore ==
  /\ \/ At("give") /\ IF semaphore < 2
                      THEN semaphore' = semaphore + 1 /\ Waker("semaphore") /\ Served
                      ELSE Fail /\ UNCHANGED <<pc, k, semaphore>>
     \/ At("take") /\ IF semaphore > 0
                      THEN semaphore' = semaphore - 1 /\ Fresh /\ Served
                      ELSE BlockOn("semaphore") /\ UNCHANGED semaphore
  /\ UNCHANGED <<critical, shared, reg, yield_order, worker_count, queue, note, holder, events,
                 got>> /\ KeepTimeAndService

Mutex ==
  /\ \/ At("lock") /\ IF holder = "none" THEN holder' = Me /\ Fresh /\ Served
                      ELSE IF TimedOut THEN Fail /\ UNCHANGED <<k, pc, holder>>
                      ELSE /\ k' = Block(IF k.prio[holder] < k.prio[Me]
                                         THEN SetPriority(k, holder, k.prio[Me]) ELSE k,
                                         "mutex", WAIT_TICKS)
                           /\ UNCHANGED <<pc, verdict, holder>>
     \/ /\ At("unlock") /\ holder' = "none" /\ Served
        /\ LET own == SetPriority(k, Me, priority[Me])
           IN k' = IF Waiting(own, "mutex") = {} THEN Preempt(own) ELSE WakeFirst(own, "mutex")
  /\ UNCHANGED <<critical, shared, reg, yield_order, worker_count, queue, note, semaphore,
                 events, got>> /\ KeepTimeAndService

(* The event group hands the bits to the waiting task when all are set.    *)
EventGroup ==
  /\ \/ /\ At("set_bits") /\ Served
        /\ IF Waiting(k, "events") # {} /\ events \cup {Instr[2]} = {1, 2}
           THEN events' = {} /\ got' = TRUE /\ Waker("events")
           ELSE events' = events \cup {Instr[2]} /\ UNCHANGED <<got, k>>
     \/ At("wait_bits")
        /\ IF got \/ events = {1, 2} THEN got' = FALSE /\ events' = {} /\ Fresh /\ Served
           ELSE BlockOn("events") /\ UNCHANGED <<got, events>>
  /\ UNCHANGED <<critical, shared, reg, yield_order, worker_count, queue, note, semaphore,
                 holder>> /\ KeepTimeAndService

Heap ==
  /\ \/ At("free_before") /\ free_before' = heap /\ UNCHANGED heap
     \/ At("allocate") /\ heap' = heap + Instr[2] /\ UNCHANGED free_before
     \/ At("free") /\ heap' = heap - Instr[2] /\ UNCHANGED free_before
  /\ Continue
  /\ UNCHANGED <<k, critical, judgeVars, timeVars, objectVars, timerVars, terminated>>

Pass ==
  /\ At("pass") /\ verdict' = "pass"
  /\ UNCHANGED <<k, pc, critical, shared, reg, yield_order, worker_count, timeVars, objectVars,
                 timerVars, heapVars>>

-----------------------------------------------------------------------------
(* The timer service: a task of the highest priority that calls back what  *)
(* has run out, then obeys its commands, and sleeps until the next.        *)
Period(timer) == IF timer = "one_shot" THEN ONE_SHOT ELSE PERIOD
TimerStart ==
  /\ At("timer_start") /\ commands' = Append(commands, <<"start", Instr[2]>>)
  /\ timers' = [timers EXCEPT ![Instr[2]] = [on |-> FALSE, left |-> Period(Instr[2])]]
  /\ Waker("commands") /\ Continue
  /\ UNCHANGED <<critical, judgeVars, timeVars, objectVars, service, heapVars>>

Daemon(place) == verdict = "running" /\ Me = "daemon" /\ service = place
Late == {timer \in DOMAIN timers : timers[timer].on /\ timers[timer].left <= 0}
Active == {timer \in DOMAIN timers : timers[timer].on}

OneShotCallback == Set("one_shot_count", shared.one_shot_count + 1) /\ UNCHANGED commands
PeriodicCallback ==
  /\ Set("periodic_count", shared.periodic_count + 1)
  /\ commands' = IF shared.periodic_count = 2 THEN Append(commands, <<"stop", "periodic">>)
                 ELSE commands

CallBack ==
  /\ Daemon("expired") /\ Late # {}
  /\ LET timer == CHOOSE x \in Late : \A y \in Late : timers[x].left <= timers[y].left
         again == timers[timer].left + PERIOD
     IN IF timer = "one_shot"
        THEN /\ OneShotCallback /\ service' = "commands"
             /\ timers' = [timers EXCEPT !.one_shot = [on |-> FALSE, left |-> 0]]
        ELSE /\ PeriodicCallback
             /\ service' = IF again > 0 THEN "commands" ELSE "expired"
             /\ timers' = [timers EXCEPT !.periodic.left = again]
  /\ UNCHANGED <<k, pc, critical, verdict, reg, yield_order, worker_count, timeVars,
                 objectVars, heapVars>>

Obey ==
  /\ Daemon("commands")
  /\ IF commands = <<>> THEN service' = "expired" /\ UNCHANGED <<commands, timers>>
     ELSE /\ commands' = Tail(commands) /\ UNCHANGED service
          /\ LET c == Head(commands)
             IN timers' = IF c[1] = "start" THEN [timers EXCEPT ![c[2]].on = TRUE]
                          ELSE [timers EXCEPT ![c[2]] = [on |-> FALSE, left |-> 0]]
  /\ UNCHANGED <<k, pc, critical, judgeVars, timeVars, objectVars, heapVars>>

AwaitTimer ==
  /\ Daemon("expired") /\ Late = {} /\ service' = "commands"
  /\ k' = IF commands # <<>> THEN k
          ELSE Block(k, "commands",
                     IF Active = {} THEN 0 ELSE Min({timers[x].left : x \in Active}))
  /\ UNCHANGED <<pc, critical, judgeVars, timeVars, objectVars, timers, commands, heapVars>>

-----------------------------------------------------------------------------
(* A tick may come after any step, but not before its time.                *)
Idles == Me = "idle" /\ terminated = 0
Counts == [name \in {"preempt_ran", "yield_index", "yield_done", "timing_done", "timing_late",
                     "queue_producer_done", "mutex_low_holds", "mutex_release_low",
                     "mutex_low_done", "mutex_low_priority_after", "mutex_high_done",
                     "mutex_mid_done", "mutex_mid_spins", "one_shot_count", "periodic_count",
                     "dynamic_task_done"} |-> 0]
CoordinatorWaits == Program["coordinator"][pc["coordinator"]][1] = "wait"
Pending(timer) == timers[timer].on \/ \E i \in DOMAIN commands : commands[i] = <<"start", timer>>

TickInterrupt ==
  /\ verdict = "running" /\ ~critical
  /\ Idles \/ steps = STEPS_PER_TICK
  /\ k' = Tick(k)
  /\ since' = IF CoordinatorWaits THEN since + 1 ELSE 0
  /\ ahead' = IF pc["timing"] > 1 THEN ahead - 1 ELSE 0
  /\ timers' = [x \in DOMAIN timers |->
                 IF Pending(x) THEN [timers[x] EXCEPT !.left = @ - 1] ELSE timers[x]]
  /\ steps' = 0
  /\ UNCHANGED <<pc, critical, judgeVars, objectVars, commands, service, heapVars>>

(* main, and vTaskStartScheduler.                                          *)
Started == {"coordinator", "watchdog", "idle", "daemon"}
Init ==
  /\ verdict = "running" /\ critical = FALSE
  /\ k = [current |-> "daemon", prio |-> priority,
          ready |-> [p \in Priorities |->
                      <<END>> \o SetToSeq({t \in Started : priority[t] = p})],
          on |-> [t \in Tasks |-> IF t \in Started THEN "none" ELSE "deleted"],
          left |-> [t \in Tasks |-> 0]]
  /\ pc = [t \in Tasks |-> IF t \in {"coordinator", "watchdog"} THEN 1 ELSE 0]
  /\ shared = Counts /\ reg = [t \in Tasks |-> 0] /\ worker_count = 0
  /\ yield_order = [slot \in 0 .. 2 * YIELDS - 1 |-> 0]
  /\ since = 0 /\ ahead = 0 /\ steps = 0
  /\ queue = <<>> /\ note = 0 /\ semaphore = 0 /\ holder = "none" /\ events = {} /\ got = FALSE
  /\ timers = [x \in {"one_shot", "periodic"} |-> [on |-> FALSE, left |-> 0]]
  /\ commands = <<>> /\ service = "commands"
  /\ heap = 0 /\ free_before = 0 /\ terminated = 0

TaskStep ==
  /\ \/ Compute \/ Delete \/ Reclaim \/ CreateWorker \/ TestExpect \/ StartWait \/ Look
     \/ Sleep \/ Timing \/ Queue \/ Notification \/ Semaphore \/ Mutex \/ EventGroup
     \/ Heap \/ Pass \/ TimerStart \/ CallBack \/ Obey \/ AwaitTimer
  /\ steps' = IF steps < STEPS_PER_TICK THEN steps + 1 ELSE steps
Next == TaskStep \/ TickInterrupt

(* The processor executes and the timer ticks.                             *)
Spec == Init /\ [][Next]_vars /\ WF_vars(TaskStep) /\ WF_vars(TickInterrupt)

-----------------------------------------------------------------------------
(* docs/FREERTOS_PORT_DESIGN.md, Gate 6: the test passes.  It may fail     *)
(* wrongly in two places only.  The yield workers count themselves without *)
(* a critical section, and a count may be lost although both have taken    *)
(* all their turns and are gone; and a tick may take mutex_mid away each   *)
(* time before it has spun once.                                           *)
CountIsLost == /\ verdict = "fa015000" /\ shared.yield_done = 1
               /\ shared.yield_index = 2 * YIELDS
               /\ {"yield_a", "yield_b"} \subseteq Waiting(k, "deleted")
NeverSpun == verdict = "fa030013" /\ shared.mutex_mid_spins = 0 /\ shared.mutex_mid_done = 1
FailsOnlyForARace == verdict \in {"running", "pass"} \/ CountIsLost \/ NeverSpun

(* Whatever the ticks do, the test passes with all it took given back:     *)
(* nobody holds the mutex or a lent priority, no message, no count and no  *)
(* block of the heap is left.                                              *)
PassesClean ==
  verdict = "pass" =>
    /\ holder = "none" /\ k.prio = priority /\ queue = <<>> /\ note = 0 /\ semaphore = 0
    /\ events = {} /\ heap = 0 /\ terminated = 0 /\ Active = {} /\ commands = <<>>
    /\ worker_count = STATIC_WORKER_COUNT

(* The test comes to a verdict without the watchdog.                       *)
AcceptanceEnds == <>(verdict # "running")
=============================================================================
