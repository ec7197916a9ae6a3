---------------------------- MODULE FreeRtosPort ----------------------------
(***************************************************************************)
(* firmware/freertos/port.c and portmacro.h, with the trap entry of        *)
(* runtime/trap_entry.S: critical sections, yields, the tick interrupt,    *)
(* and the kernel of FreeRTOS as far as it calls the port or is called.    *)
(*                                                                         *)
(* A step of a task is an instruction, or a run of instructions that no    *)
(* interrupt can part.                                                     *)
(***************************************************************************)
EXTENDS MachineTimer, ReadyLists

CONSTANTS
  Tasks, Prio,
  COUNTS_PER_TICK,
  NONE,
  First,                 \* the task created last at the highest priority
  Idle,                  \* the kernel's own task
  START,                 \* mtime at boot
  MAX_TIME,              \* bound on mtime
  MAX_NEST,              \* bound on nested critical sections
  OPS                    \* OPS[t]: bound on the kernel calls of a task

ASSUME PortAssumption ==
  /\ IsFiniteSet(Tasks) /\ Prio \in [Tasks -> Priorities] /\ END \notin Tasks
  /\ \A t \in Tasks : Prio[t] <= Prio[First]
  /\ COUNTS_PER_TICK \in 1 .. HALF - 1 /\ START \in Time /\ MAX_TIME \in Nat
  /\ MAX_NEST \in Nat \ {0} /\ OPS \in [Tasks -> Nat]
  /\ First \in Tasks /\ Idle \in Tasks /\ NONE \notin Nat

VARIABLES
  mie, mtie,                              \* mstatus.MIE, mie.MTIE
  trap,                                   \* where trap_dispatch is, "none" outside
  cause, mpie,                            \* mpie[t]: mstatus.MPIE of t's frame
  freertos_trap_depth, freertos_yield_pending, next_compare,
  pxCurrentTCB, ready, waiting, wake,     \* kernel: the lists a task is in
  xTickCount, xPendedTicks, suspended, xYieldPending, uxCriticalNesting,
  pc, ret, blocks,                        \* where a task is in its kernel call
  hi0, lo, began,                         \* machine_timer_now(); began is history
  calls                                   \* kernel calls a task has made

portVars == <<mie, mtie, trap, cause, mpie, freertos_trap_depth, freertos_yield_pending,
              next_compare>>
listVars == <<pxCurrentTCB, ready, waiting, wake>>
tickVars == <<xTickCount, xPendedTicks, suspended, xYieldPending>>
taskVars == <<uxCriticalNesting, pc, ret, blocks, calls>>
nowVars  == <<hi0, lo, began>>
vars     == <<timerVars, portVars, listVars, tickVars, taskVars, nowVars>>

TaskPlaces == {"app", "crit", "enable", "check", "clear", "ecall", "suspended", "decide",
               "resume", "pended", "resumed", "hi0", "lo", "hi1"}
TrapPlaces == {"none", "dispatch", "tick", "exit"} \cup SetCompareParts

Ready == ReadyTasks(ready)
Runs(t, place) == trap = "none" /\ pxCurrentTCB = t /\ pc[t] = place
Goto(t, place) == pc' = [pc EXCEPT ![t] = place]

-----------------------------------------------------------------------------
(* Critical sections.                                                      *)
(* vTaskEnterCritical: portDISABLE_INTERRUPTS, then the nesting count.     *)
EnterCritical(t) ==
  /\ mie' = FALSE /\ uxCriticalNesting' = [uxCriticalNesting EXCEPT ![t] = @ + 1]

(* vTaskExitCritical: the outermost one enables interrupts.                *)
ExitCritical(t) ==
  /\ Runs(t, "crit")
  /\ uxCriticalNesting' = [uxCriticalNesting EXCEPT ![t] = @ - 1]
  /\ IF uxCriticalNesting[t] = 1 THEN Goto(t, "enable") ELSE UNCHANGED pc
  /\ UNCHANGED <<timerVars, portVars, listVars, tickVars, ret, blocks, calls, nowVars>>

(* freertos_port_enable_interrupts, instruction by instruction: from here  *)
(* on the timer may interrupt.                                             *)
Enable(t) ==
  /\ Runs(t, "enable") /\ mie' = TRUE /\ Goto(t, "check")
  /\ UNCHANGED <<timerVars, mtie, trap, cause, mpie, freertos_trap_depth,
                 freertos_yield_pending, next_compare, listVars, tickVars,
                 uxCriticalNesting, ret, blocks, calls, nowVars>>

(* Variant: the deferred yield is forgotten.                               *)
CheckPendingNever(t) ==
  /\ Runs(t, "check") /\ pc' = [pc EXCEPT ![t] = ret[t]]
  /\ UNCHANGED <<timerVars, portVars, listVars, tickVars, uxCriticalNesting, ret, blocks,
                 calls, nowVars>>
CheckPending(t) ==
  /\ Runs(t, "check")
  /\ Goto(t, IF freertos_yield_pending /\ freertos_trap_depth = 0 THEN "clear" ELSE ret[t])
  /\ UNCHANGED <<timerVars, portVars, listVars, tickVars, uxCriticalNesting, ret, blocks,
                 calls, nowVars>>

ClearPending(t) ==
  /\ Runs(t, "clear") /\ freertos_yield_pending' = FALSE /\ Goto(t, "ecall")
  /\ UNCHANGED <<timerVars, mie, mtie, trap, cause, mpie, freertos_trap_depth, next_compare,
                 listVars, tickVars, uxCriticalNesting, ret, blocks, calls, nowVars>>

-----------------------------------------------------------------------------
(* Traps: the processor masks interrupts and keeps the old mask in the     *)
(* frame that trap_entry saves on the task's stack.                        *)
EnterTrap(c, enabled) ==
  /\ trap' = "dispatch" /\ cause' = c /\ mie' = FALSE
  /\ mpie' = [mpie EXCEPT ![pxCurrentTCB] = enabled]
  /\ UNCHANGED <<mtie, freertos_trap_depth, freertos_yield_pending, next_compare>>

(* portYIELD, also from within a critical section.                         *)
Ecall == EnterTrap("ecall", mie)

Yield(t) ==
  /\ Runs(t, "ecall") /\ Ecall /\ Goto(t, ret[t])
  /\ UNCHANGED <<timerVars, listVars, tickVars, uxCriticalNesting, ret, blocks, calls, nowVars>>

TimerInterrupt ==
  /\ trap = "none" /\ mie /\ mtie /\ irq /\ EnterTrap("timer", TRUE)
  /\ UNCHANGED <<timerVars, listVars, tickVars, taskVars, nowVars>>

(* vTaskSwitchContext: put off while the scheduler is suspended.           *)
SwitchContext ==
  IF suspended THEN xYieldPending' = TRUE /\ UNCHANGED <<pxCurrentTCB, ready>>
  ELSE /\ xYieldPending' = FALSE
       /\ pxCurrentTCB' = SwitchedTo(ready) /\ ready' = SwitchedLists(ready)

(* trap_dispatch for an ecall: one that was made with interrupts masked    *)
(* comes from a critical section and may not switch.                       *)
(* Variant: it does.                                                       *)
DispatchEcallAlways ==
  /\ trap = "dispatch" /\ cause = "ecall" /\ trap' = "exit"
  /\ freertos_trap_depth' = freertos_trap_depth + 1
  /\ SwitchContext /\ UNCHANGED freertos_yield_pending
  /\ UNCHANGED <<timerVars, mie, mtie, cause, mpie, next_compare, waiting, wake, xTickCount,
                 xPendedTicks, suspended, taskVars, nowVars>>
DispatchEcall ==
  /\ trap = "dispatch" /\ cause = "ecall" /\ trap' = "exit"
  /\ freertos_trap_depth' = freertos_trap_depth + 1
  /\ IF mpie[pxCurrentTCB] THEN SwitchContext /\ UNCHANGED freertos_yield_pending
     ELSE freertos_yield_pending' = TRUE /\ UNCHANGED <<pxCurrentTCB, ready, xYieldPending>>
  /\ UNCHANGED <<timerVars, mie, mtie, cause, mpie, next_compare, waiting, wake, xTickCount,
                 xPendedTicks, suspended, taskVars, nowVars>>

(* trap_dispatch for the timer: the next tick is due one period after this *)
(* one was, however late it is handled.                                    *)
(* Variant: one period from now.                                           *)
DispatchTimerFromNow ==
  /\ trap = "dispatch" /\ cause = "timer" /\ trap' = "raise_lo"
  /\ freertos_trap_depth' = freertos_trap_depth + 1
  /\ next_compare' = Plus(mtime, COUNTS_PER_TICK)
  /\ UNCHANGED <<timerVars, mie, mtie, cause, mpie, freertos_yield_pending, listVars,
                 tickVars, taskVars, nowVars>>
(* Variant: the same tick again.                                           *)
DispatchTimerAgain ==
  /\ trap = "dispatch" /\ cause = "timer" /\ trap' = "raise_lo"
  /\ freertos_trap_depth' = freertos_trap_depth + 1
  /\ next_compare' = next_compare
  /\ UNCHANGED <<timerVars, mie, mtie, cause, mpie, freertos_yield_pending, listVars,
                 tickVars, taskVars, nowVars>>
DispatchTimer ==
  /\ trap = "dispatch" /\ cause = "timer" /\ trap' = "raise_lo"
  /\ freertos_trap_depth' = freertos_trap_depth + 1
  /\ next_compare' = Plus(next_compare, COUNTS_PER_TICK)
  /\ UNCHANGED <<timerVars, mie, mtie, cause, mpie, freertos_yield_pending, listVars,
                 tickVars, taskVars, nowVars>>

SetComparePart ==
  /\ trap \in SetCompareParts /\ SetCompare(trap, next_compare)
  /\ trap' = CASE trap = "raise_lo" -> "set_hi" [] trap = "set_hi" -> "set_lo"
               [] trap = "set_lo" -> IF mtie THEN "tick" ELSE "exit"
  /\ UNCHANGED <<mie, mtie, cause, mpie, freertos_trap_depth, freertos_yield_pending,
                 next_compare, listVars, tickVars, taskVars, nowVars>>

(* xTaskIncrementTick on a running scheduler, and whether it asks for a    *)
(* switch.                                                                 *)
Expired == {t \in Tasks : wake[t] = xTickCount + 1}
WithExpired == MakeAllReady(ready, Prio, Expired)
TickSwitches == \/ xYieldPending \/ \E t \in Expired : Prio[t] > Prio[pxCurrentTCB]
                \/ Cardinality(Members(WithExpired[Prio[pxCurrentTCB]])) > 1
Wakes == wake' = [t \in Tasks |-> IF t \in Expired THEN NONE ELSE wake[t]]

Tick ==
  /\ trap = "tick" /\ trap' = "exit"
  /\ IF suspended
     THEN xPendedTicks' = xPendedTicks + 1
          /\ UNCHANGED <<xTickCount, xYieldPending, pxCurrentTCB, ready, wake>>
     ELSE /\ xTickCount' = xTickCount + 1 /\ Wakes /\ UNCHANGED xPendedTicks
          /\ IF TickSwitches
             THEN /\ xYieldPending' = FALSE /\ ready' = SwitchedLists(WithExpired)
                  /\ pxCurrentTCB' = SwitchedTo(WithExpired)
             ELSE ready' = WithExpired /\ UNCHANGED <<pxCurrentTCB, xYieldPending>>
  /\ UNCHANGED <<timerVars, mie, mtie, cause, mpie, freertos_trap_depth,
                 freertos_yield_pending, next_compare, waiting, suspended, taskVars, nowVars>>

(* The end of trap_dispatch, or of xPortStartScheduler: the frame of the   *)
(* current task is restored, with its own interrupt mask.                  *)
(* Variant: the trap depth only grows.                                      *)
RestoreDeep ==
  /\ trap = "exit" /\ trap' = "none" /\ mie' = mpie[pxCurrentTCB]
  /\ mpie' = [mpie EXCEPT ![pxCurrentTCB] = TRUE] /\ cause' = "none"
  /\ mtie' = TRUE
  /\ UNCHANGED <<timerVars, freertos_trap_depth, freertos_yield_pending, next_compare, listVars,
                 tickVars, taskVars, nowVars>>
Restore ==
  /\ trap = "exit" /\ trap' = "none" /\ mie' = mpie[pxCurrentTCB]
  /\ mpie' = [mpie EXCEPT ![pxCurrentTCB] = TRUE] /\ cause' = "none"
  /\ freertos_trap_depth' = IF mtie THEN freertos_trap_depth - 1 ELSE freertos_trap_depth
  /\ mtie' = TRUE
  /\ UNCHANGED <<timerVars, freertos_yield_pending, next_compare, listVars, tickVars,
                 taskVars, nowVars>>

-----------------------------------------------------------------------------
(* The kernel calls of a task.                                             *)
Call(t) == Runs(t, "app") /\ calls[t] < OPS[t] /\ calls' = [calls EXCEPT ![t] = @ + 1]

BeginCritical(t) ==
  /\ Call(t) /\ EnterCritical(t) /\ Goto(t, "crit") /\ ret' = [ret EXCEPT ![t] = "app"]
  /\ UNCHANGED <<timerVars, mtie, trap, cause, mpie, freertos_trap_depth,
                 freertos_yield_pending, next_compare, listVars, tickVars, blocks, nowVars>>

NestCritical(t) ==
  /\ Runs(t, "crit") /\ uxCriticalNesting[t] < MAX_NEST /\ ret[t] = "app" /\ EnterCritical(t)
  /\ calls[t] < OPS[t] /\ calls' = [calls EXCEPT ![t] = @ + 1]
  /\ UNCHANGED <<timerVars, mtie, trap, cause, mpie, freertos_trap_depth,
                 freertos_yield_pending, next_compare, listVars, tickVars, pc, ret, blocks,
                 nowVars>>

(* A notification or a queue operation in a critical section unblocks u,   *)
(* and yields at once if u is more urgent.                                 *)
Give(t, u) ==
  /\ Runs(t, "crit") /\ ret[t] = "app" /\ u \in waiting
  /\ waiting' = waiting \ {u} /\ ready' = MakeReady(ready, Prio, u)
  /\ wake' = [wake EXCEPT ![u] = NONE] /\ UNCHANGED pxCurrentTCB
  /\ IF Prio[u] > Prio[t] THEN Ecall ELSE UNCHANGED portVars
  /\ UNCHANGED <<timerVars, tickVars, taskVars, nowVars>>

TaskYield(t) ==
  /\ Call(t) /\ Ecall /\ UNCHANGED <<pc, ret>>
  /\ UNCHANGED <<timerVars, listVars, tickVars, uxCriticalNesting, blocks, nowVars>>

(* A call that blocks: vTaskSuspendAll, a critical section that looks      *)
(* whether it must, the task leaves its ready list for the delayed list,   *)
(* xTaskResumeAll, and a yield unless that yielded.  The idle task, which   *)
(* has no hook, never makes one.                                           *)
SuspendAll(t) ==
  /\ t # Idle /\ Call(t) /\ suspended' = TRUE /\ Goto(t, "suspended")
  /\ UNCHANGED <<timerVars, portVars, listVars, xTickCount, xPendedTicks, xYieldPending,
                 uxCriticalNesting, ret, blocks, nowVars>>

LookWhether(t) ==
  /\ Runs(t, "suspended") /\ EnterCritical(t) /\ Goto(t, "crit")
  /\ ret' = [ret EXCEPT ![t] = "decide"]
  /\ UNCHANGED <<timerVars, mtie, trap, cause, mpie, freertos_trap_depth,
                 freertos_yield_pending, next_compare, listVars, tickVars, blocks, calls,
                 nowVars>>

Delay(t) ==
  /\ Runs(t, "decide") /\ Goto(t, "resume") /\ blocks' = [blocks EXCEPT ![t] = TRUE]
  /\ ready' = Unready(ready, Prio, t)
  /\ \/ wake' = [wake EXCEPT ![t] = xTickCount + 1] /\ UNCHANGED waiting
     \/ waiting' = waiting \cup {t} /\ UNCHANGED wake
  /\ UNCHANGED <<timerVars, portVars, pxCurrentTCB, tickVars, uxCriticalNesting, ret, calls,
                 nowVars>>

(* The call has what it waits for after all.                               *)
DontBlock(t) ==
  /\ Runs(t, "decide") /\ Goto(t, "resume") /\ blocks' = [blocks EXCEPT ![t] = FALSE]
  /\ UNCHANGED <<timerVars, portVars, listVars, tickVars, uxCriticalNesting, ret, calls,
                 nowVars>>

ResumeAll(t) ==
  /\ Runs(t, "resume") /\ EnterCritical(t) /\ Goto(t, "pended") /\ suspended' = FALSE
  /\ UNCHANGED <<timerVars, mtie, trap, cause, mpie, freertos_trap_depth,
                 freertos_yield_pending, next_compare, listVars, xTickCount, xPendedTicks,
                 xYieldPending, ret, blocks, calls, nowVars>>

CatchUpTick(t) ==
  /\ Runs(t, "pended") /\ xPendedTicks > 0 /\ xPendedTicks' = xPendedTicks - 1
  /\ xTickCount' = xTickCount + 1 /\ Wakes /\ ready' = WithExpired
  /\ xYieldPending' = TickSwitches
  /\ UNCHANGED <<timerVars, portVars, pxCurrentTCB, waiting, suspended, taskVars, nowVars>>

(* A yield that is due is made inside the critical section, so that it is  *)
(* taken at its end, in place of the caller's own.                         *)
FinishResume(t) ==
  /\ Runs(t, "pended") /\ xPendedTicks = 0 /\ Goto(t, "crit")
  /\ ret' = [ret EXCEPT ![t] = IF xYieldPending \/ ~blocks[t] THEN "app" ELSE "resumed"]
  /\ blocks' = [blocks EXCEPT ![t] = FALSE]
  /\ IF xYieldPending THEN Ecall ELSE UNCHANGED portVars
  /\ UNCHANGED <<timerVars, listVars, tickVars, uxCriticalNesting, calls, nowVars>>

YieldBlocked(t) ==
  /\ Runs(t, "resumed") /\ Ecall /\ Goto(t, "app") /\ ret' = [ret EXCEPT ![t] = "app"]
  /\ UNCHANGED <<timerVars, listVars, tickVars, uxCriticalNesting, blocks, calls, nowVars>>

-----------------------------------------------------------------------------
(* machine_timer_now(), in a task that may be interrupted between reads.   *)
NowUnchanged == UNCHANGED <<timerVars, portVars, listVars, tickVars, uxCriticalNesting, ret,
                            blocks>>
BeginNow(t) ==
  /\ Call(t) /\ Goto(t, "hi0") /\ began' = [began EXCEPT ![t] = mtime]
  /\ UNCHANGED <<hi0, lo>> /\ NowUnchanged
ReadHi0(t) ==
  /\ Runs(t, "hi0") /\ Goto(t, "lo") /\ hi0' = [hi0 EXCEPT ![t] = mtime.hi]
  /\ UNCHANGED <<lo, began, calls>> /\ NowUnchanged
ReadLo(t) ==
  /\ Runs(t, "lo") /\ Goto(t, "hi1") /\ lo' = [lo EXCEPT ![t] = mtime.lo]
  /\ UNCHANGED <<hi0, began, calls>> /\ NowUnchanged
ReadHi1(t) ==
  /\ Runs(t, "hi1") /\ hi0' = [hi0 EXCEPT ![t] = 0] /\ lo' = [lo EXCEPT ![t] = 0]
  /\ IF NowRetry(hi0[t], mtime.hi) THEN Goto(t, "hi0") /\ UNCHANGED began
     ELSE Goto(t, "app") /\ began' = [began EXCEPT ![t] = START]
  /\ UNCHANGED calls /\ NowUnchanged

-----------------------------------------------------------------------------
(* The frame of a new task: its interrupts are enabled by the first mret.  *)
pxPortInitialiseStack == [t \in Tasks |-> TRUE]

(* xPortStartScheduler, on the start-up stack with interrupts masked.      *)
Init ==
  /\ mtime = START /\ mtimecmp = [hi |-> HALF - 1, lo |-> HALF - 1]
  /\ mie = FALSE /\ mtie = FALSE /\ trap = "raise_lo" /\ cause = "none"
  /\ mpie = pxPortInitialiseStack
  /\ freertos_trap_depth = 0 /\ freertos_yield_pending = FALSE
  /\ next_compare = Plus(START, COUNTS_PER_TICK)
  /\ pxCurrentTCB = First
  /\ ready = [p \in Priorities |-> <<END>> \o SetToSeq({t \in Tasks : Prio[t] = p})]
  /\ waiting = {} /\ wake = [t \in Tasks |-> NONE]
  /\ xTickCount = 0 /\ xPendedTicks = 0 /\ suspended = FALSE /\ xYieldPending = FALSE
  /\ uxCriticalNesting = [t \in Tasks |-> 0] /\ pc = [t \in Tasks |-> "app"]
  /\ ret = [t \in Tasks |-> "app"] /\ blocks = [t \in Tasks |-> FALSE]
  /\ calls = [t \in Tasks |-> 0]
  /\ hi0 = [t \in Tasks |-> 0] /\ lo = [t \in Tasks |-> 0] /\ began = [t \in Tasks |-> START]

ClockStep ==
  /\ Count(mtime) < MAX_TIME /\ Clock
  /\ UNCHANGED <<portVars, listVars, tickVars, taskVars, nowVars>>

TrapStep == DispatchEcall \/ DispatchTimer \/ SetComparePart \/ Tick \/ Restore

(* What a task in a kernel call goes on to do.                             *)
KernelStep(t) ==
  \/ ExitCritical(t) \/ Enable(t) \/ CheckPending(t) \/ ClearPending(t) \/ Yield(t)
  \/ LookWhether(t) \/ Delay(t) \/ DontBlock(t) \/ ResumeAll(t) \/ CatchUpTick(t) \/ FinishResume(t)
  \/ YieldBlocked(t) \/ ReadHi0(t) \/ ReadLo(t) \/ ReadHi1(t)

(* What a task may choose to do.                                           *)
TaskChoice(t) ==
  \/ BeginCritical(t) \/ NestCritical(t) \/ (\E u \in Tasks : Give(t, u))
  \/ TaskYield(t) \/ SuspendAll(t) \/ BeginNow(t)

Next == \/ ClockStep \/ TimerInterrupt \/ TrapStep
        \/ \E t \in Tasks : KernelStep(t) \/ TaskChoice(t)

(* The processor executes: traps and kernel calls go on.  What a task does *)
(* in between, and how fast time passes, is left open.                     *)
Fairness == WF_vars(TimerInterrupt) /\ WF_vars(TrapStep)
            /\ \A t \in Tasks : WF_vars(KernelStep(t))
Spec == Init /\ [][Next]_vars /\ Fairness

-----------------------------------------------------------------------------
TypeOK ==
  /\ mtime \in Time /\ mtimecmp \in Time /\ next_compare \in Time
  /\ mie \in BOOLEAN /\ mtie \in BOOLEAN /\ trap \in TrapPlaces
  /\ mpie \in [Tasks -> BOOLEAN] /\ freertos_yield_pending \in BOOLEAN
  /\ freertos_trap_depth = IF mtie /\ trap \notin {"none", "dispatch"} THEN 1 ELSE 0
  /\ pxCurrentTCB \in Tasks /\ pc \in [Tasks -> TaskPlaces]
  /\ uxCriticalNesting \in [Tasks -> 0 .. MAX_NEST]
  /\ waiting \cap Ready = {} /\ \A t \in Ready : wake[t] = NONE

(* docs/FREERTOS_PORT_DESIGN.md: no other task runs while one is in a      *)
(* critical section, although the kernel yields inside of it and the timer *)
(* runs on.                                                                *)
CriticalIsExclusive == \A t \in Tasks : uxCriticalNesting[t] > 0 => pxCurrentTCB = t

(* A yield put off is not lost: outside the kernel a task of the highest   *)
(* ready priority runs, and one that blocks has left the processor before  *)
(* its call returns.                                                       *)
HighestRuns ==
  trap = "none" /\ pc[pxCurrentTCB] = "app" =>
    pxCurrentTCB \in Ready /\ \A t \in Ready : Prio[t] <= Prio[pxCurrentTCB]

(* Ticks: however long interrupts were masked, no tick comes early and     *)
(* none is lost for good.                                                  *)
Elapsed == (Count(mtime) - Count(START)) \div COUNTS_PER_TICK
NeverAhead == xTickCount + xPendedTicks <= Elapsed
CatchesUp == []<>(xTickCount + xPendedTicks >= Elapsed)

(* A reading of the timer lies between the start and the end of the call,  *)
(* with whatever came between its three accesses.                          *)
NowNotTorn ==
  [][\A t \in Tasks : pc[t] = "hi1" /\ pc'[t] = "app" =>
       LET now == NowResult(lo[t], mtime.hi)
       IN AtLeast(now, began[t]) /\ AtLeast(mtime, now)]_vars
=============================================================================
