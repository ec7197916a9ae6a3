------------------------ MODULE FreeRtosPort_proofs ------------------------
(***************************************************************************)
(* The port of FreeRTOS for any tasks, priorities, tick length and nesting *)
(* of critical sections.                                                   *)
(***************************************************************************)
EXTENDS FreeRtosPort, FiniteSetTheorems, SequenceTheorems, TLAPS

(***************************************************************************)
(* Critical sections.                                                      *)
(***************************************************************************)
Inside == {"crit", "pended"}
Returns == {"app", "decide", "resumed"}

MaskFrames == mpie = [t \in Tasks |-> mpie[t]]
PlaceTypes ==
  /\ uxCriticalNesting \in [Tasks -> Nat]
  /\ pc \in [Tasks -> TaskPlaces] /\ ret \in [Tasks -> Returns]

(* A task in a critical section is the current one; its interrupts are     *)
(* masked, and stay so in the frame while the trap of a yield runs.        *)
Masked ==
  \A t \in Tasks : uxCriticalNesting[t] > 0 =>
    /\ pxCurrentTCB = t /\ pc[t] \in Inside
    /\ trap \in {"none", "dispatch", "exit"}
    /\ trap = "none" => mie = FALSE
    /\ trap = "dispatch" => cause = "ecall"
    /\ trap # "none" => mpie[t] = FALSE

Nested == \A t \in Tasks : pc[t] \in Inside => uxCriticalNesting[t] > 0

CriticalInv == MaskFrames /\ PlaceTypes /\ Masked /\ Nested

LEMMA CriticalInit == Init => CriticalInv
<1> SUFFICES ASSUME Init PROVE CriticalInv
  OBVIOUS
<1>1. /\ mie = FALSE /\ mpie = [t \in Tasks |-> TRUE]
      /\ uxCriticalNesting = [t \in Tasks |-> 0]
      /\ pc = [t \in Tasks |-> "app"] /\ ret = [t \in Tasks |-> "app"]
  BY DEF Init, pxPortInitialiseStack
<1>2. MaskFrames /\ PlaceTypes
  <2>1. MaskFrames
    BY <1>1, SMT DEF MaskFrames
  <2>2. /\ uxCriticalNesting \in [Tasks -> Nat]
        /\ pc \in [Tasks -> TaskPlaces] /\ ret \in [Tasks -> Returns]
    BY <1>1, SMT DEF TaskPlaces, Returns
  <2> QED BY <2>1, <2>2 DEF PlaceTypes
<1>3. Masked /\ Nested
  BY <1>1, SMT DEF Masked, Nested, Inside
<1> QED BY <1>2, <1>3 DEF CriticalInv

(* A step that leaves masks, nesting, places and the current task alone.   *)
criticalVars == <<mie, mpie, uxCriticalNesting, pc, ret, pxCurrentTCB, trap, cause>>
LEMMA CriticalFrame == CriticalInv /\ UNCHANGED criticalVars => CriticalInv'
BY DEF criticalVars, CriticalInv, MaskFrames, PlaceTypes, Masked, Nested

(* Every task has a frame.                                                 *)
LEMMA FramesOfTask ==
  ASSUME MaskFrames, NEW t \in Tasks, KernelStep(t) \/ TaskChoice(t)
  PROVE  MaskFrames'
BY SMT DEF MaskFrames, KernelStep, TaskChoice, ExitCritical, Enable, CheckPending, ClearPending,
   Yield, LookWhether, Delay, DontBlock, ResumeAll, CatchUpTick, FinishResume, YieldBlocked,
   ReadHi0, ReadLo, ReadHi1, BeginCritical, NestCritical, Give, TaskYield, SuspendAll, BeginNow,
   EnterCritical, Ecall, EnterTrap, NowUnchanged, portVars
LEMMA FramesOfTrap ==
  ASSUME MaskFrames, TimerInterrupt \/ TrapStep
  PROVE  MaskFrames'
BY SMT DEF MaskFrames, TimerInterrupt, TrapStep, DispatchEcall, DispatchTimer, SetComparePart, Tick,
   Restore, EnterTrap

LEMMA CriticalEnter ==
  ASSUME CriticalInv, NEW t \in Tasks,
         BeginCritical(t) \/ NestCritical(t) \/ LookWhether(t) \/ ResumeAll(t)
  PROVE  PlaceTypes' /\ Masked' /\ Nested'
BY SMT DEF BeginCritical, NestCritical, LookWhether, ResumeAll, EnterCritical, Call, Runs, Goto,
   CriticalInv, MaskFrames, PlaceTypes, Masked, Nested, TaskPlaces, Inside, Returns, listVars

LEMMA CriticalExit ==
  ASSUME CriticalInv, NEW t \in Tasks, ExitCritical(t)
  PROVE  PlaceTypes' /\ Masked' /\ Nested'
BY SMT DEF ExitCritical, Runs, Goto, portVars, listVars,
   CriticalInv, MaskFrames, PlaceTypes, Masked, Nested, TaskPlaces, Inside, Returns

LEMMA CriticalEnable ==
  ASSUME CriticalInv, NEW t \in Tasks,
         Enable(t) \/ CheckPending(t) \/ ClearPending(t)
  PROVE  PlaceTypes' /\ Masked' /\ Nested'
BY SMT DEF Enable, CheckPending, ClearPending, Runs, Goto, portVars, listVars,
   CriticalInv, MaskFrames, PlaceTypes, Masked, Nested, TaskPlaces, Inside, Returns

LEMMA CriticalYield ==
  ASSUME CriticalInv, NEW t \in Tasks,
         Yield(t) \/ TaskYield(t) \/ FinishResume(t) \/ YieldBlocked(t)
         \/ \E u \in Tasks : Give(t, u)
  PROVE  PlaceTypes' /\ Masked' /\ Nested'
BY SMT DEF Yield, TaskYield, FinishResume, YieldBlocked, Give, Ecall, EnterTrap, Call, Runs, Goto,
   portVars, listVars, taskVars,
   CriticalInv, MaskFrames, PlaceTypes, Masked, Nested, TaskPlaces, Inside, Returns

LEMMA CriticalMove ==
  ASSUME CriticalInv, NEW t \in Tasks,
         \/ SuspendAll(t) \/ Delay(t) \/ DontBlock(t) \/ CatchUpTick(t)
         \/ BeginNow(t) \/ ReadHi0(t) \/ ReadLo(t) \/ ReadHi1(t)
  PROVE  PlaceTypes' /\ Masked' /\ Nested'
BY SMT DEF SuspendAll, Delay, DontBlock, CatchUpTick, BeginNow, ReadHi0, ReadLo, ReadHi1,
   NowUnchanged, Call, Runs, Goto, portVars, listVars, taskVars,
   CriticalInv, MaskFrames, PlaceTypes, Masked, Nested, TaskPlaces, Inside, Returns

LEMMA CriticalTrap ==
  ASSUME CriticalInv, TimerInterrupt \/ TrapStep
  PROVE  PlaceTypes' /\ Masked' /\ Nested'
<1>1. CASE TimerInterrupt
  BY <1>1, SMT DEF TimerInterrupt, EnterTrap, listVars, taskVars, CriticalInv, MaskFrames, PlaceTypes, Masked,
     Nested, Inside
<1>2. CASE DispatchEcall
  BY <1>2, SMT DEF DispatchEcall, SwitchContext, taskVars, CriticalInv, MaskFrames, PlaceTypes, Masked,
     Nested, Inside
<1>3. CASE DispatchTimer
  BY <1>3, SMT DEF DispatchTimer, listVars, taskVars, CriticalInv, MaskFrames, PlaceTypes, Masked,
     Nested, Inside
<1>4. CASE SetComparePart
  BY <1>4, SMT DEF SetComparePart, SetCompareParts, listVars, taskVars, CriticalInv, MaskFrames, PlaceTypes,
     Masked, Nested, Inside
<1>5. CASE Tick
  BY <1>5, SMT DEF Tick, taskVars, CriticalInv, MaskFrames, PlaceTypes, Masked, Nested, Inside
<1>6. CASE Restore
  BY <1>6, SMT DEF Restore, listVars, taskVars, CriticalInv, MaskFrames, PlaceTypes, Masked, Nested, Inside
<1> QED BY <1>1, <1>2, <1>3, <1>4, <1>5, <1>6 DEF TrapStep

LEMMA CriticalStep == CriticalInv /\ [Next]_vars => CriticalInv'
<1> SUFFICES ASSUME CriticalInv, [Next]_vars PROVE CriticalInv'
  OBVIOUS
<1>1. CASE ClockStep
  BY <1>1, CriticalFrame DEF ClockStep, criticalVars, portVars, listVars, taskVars
<1>2. CASE TimerInterrupt \/ TrapStep
  BY <1>2, CriticalTrap, FramesOfTrap DEF CriticalInv
<1>3. ASSUME NEW t \in Tasks, KernelStep(t) PROVE CriticalInv'
  <2>1. MaskFrames'
    BY <1>3, FramesOfTask DEF CriticalInv
  <2>2. PlaceTypes' /\ Masked' /\ Nested'
    BY <1>3, CriticalExit, CriticalEnable, CriticalYield, CriticalEnter, CriticalMove
    DEF KernelStep
  <2> QED BY <2>1, <2>2 DEF CriticalInv
<1>4. ASSUME NEW t \in Tasks, TaskChoice(t) PROVE CriticalInv'
  <2>1. MaskFrames'
    BY <1>4, FramesOfTask DEF CriticalInv
  <2>2. PlaceTypes' /\ Masked' /\ Nested'
    BY <1>4, CriticalYield, CriticalEnter, CriticalMove DEF TaskChoice
  <2> QED BY <2>1, <2>2 DEF CriticalInv
<1>5. CASE UNCHANGED vars
  BY <1>5, CriticalFrame DEF vars, criticalVars, portVars, listVars, taskVars
<1> QED BY <1>1, <1>2, <1>3, <1>4, <1>5 DEF Next

(* Masks, nesting and traps always agree.                                  *)
THEOREM CriticalInvariance == Spec => []CriticalInv
<1>1. Init => CriticalInv
  BY CriticalInit
<1>2. CriticalInv /\ [Next]_vars => CriticalInv'
  BY CriticalStep
<1> QED BY <1>1, <1>2, PTL DEF Spec

(* No other task runs while one is in a critical section.                  *)
THEOREM CriticalSectionsExclude == Spec => []CriticalIsExclusive
<1>1. CriticalInv => CriticalIsExclusive
  BY SMT DEF CriticalInv, Masked, CriticalIsExclusive
<1> QED BY <1>1, CriticalInvariance, PTL

(***************************************************************************)
(* Ticks.  Arithmetic first: points in time by their number of counts.     *)
(***************************************************************************)
LEMMA CountOfSum ==
  ASSUME NEW a \in Time, NEW n \in 0 .. HALF - 1
  PROVE  Plus(a, n) \in Time /\ Count(Plus(a, n)) = Count(a) + n
<1>1. HALF \in Nat \ {0, 1} /\ a.hi \in Nat /\ a.lo \in 0 .. HALF - 1
  BY HalfAssumption DEF Time
<1>2. CASE a.lo + n < HALF
  <2>1. Plus(a, n) = [hi |-> a.hi, lo |-> a.lo + n]
    BY <1>2 DEF Plus, Time
  <2> QED BY <1>1, <1>2, <2>1 DEF Time, Count
<1>3. CASE ~(a.lo + n < HALF)
  <2>1. Plus(a, n) = [hi |-> a.hi + 1, lo |-> a.lo + n - HALF]
    BY <1>3 DEF Plus
  <2>2. (a.hi + 1) * HALF = a.hi * HALF + HALF
    BY <1>1
  <2>3. a.lo + n - HALF \in 0 .. HALF - 1 /\ a.hi + 1 \in Nat
    BY <1>1, <1>3
  <2> QED BY <1>1, <2>1, <2>2, <2>3 DEF Time, Count
<1> QED BY <1>2, <1>3

LEMMA CountIsNat == ASSUME NEW a \in Time PROVE Count(a) \in Nat
BY HalfAssumption DEF Time, Count

LEMMA CountOrder ==
  ASSUME NEW a \in Time, NEW b \in Time, AtLeast(a, b)
  PROVE  Count(a) >= Count(b)
<1>1. /\ HALF \in Nat \ {0, 1} /\ a.hi \in Nat /\ a.lo \in 0 .. HALF - 1
      /\ b.hi \in Nat /\ b.lo \in 0 .. HALF - 1
  BY HalfAssumption DEF Time
<1>2. CASE a.hi = b.hi
  BY <1>1, <1>2 DEF AtLeast, Earlier, Count
<1>3. CASE a.hi >= b.hi + 1
  <2>1. PICK d \in Nat : a.hi = b.hi + 1 + d
    <3>1. a.hi - b.hi - 1 \in Nat /\ a.hi = b.hi + 1 + (a.hi - b.hi - 1)
      BY <1>1, <1>3
    <3> QED BY <3>1
  <2>2. d * HALF \in Nat
    BY <1>1
  <2>3. (b.hi + 1 + d) * HALF = b.hi * HALF + HALF + d * HALF
    BY <1>1
  <2>4. a.hi * HALF = b.hi * HALF + HALF + d * HALF /\ b.hi * HALF \in Nat
    BY <1>1, <2>1, <2>3
  <2> QED BY <1>1, <2>2, <2>4 DEF Count
<1> QED BY <1>1, <1>2, <1>3 DEF AtLeast, Earlier

LEMMA TicksElapsed ==
  ASSUME NEW n \in Nat, NEW d \in Nat, NEW c \in Nat \ {0}, n * c <= d
  PROVE  n <= d \div c
<1>1. PICK r \in 0 .. c - 1 : d = c * (d \div c) + r
  OBVIOUS
<1>2. d \div c \in Nat
  OBVIOUS
<1> DEFINE e == d \div c
<1> HIDE DEF e
<1>3. CASE n >= e + 1
  <2>1. PICK k \in Nat : n = e + 1 + k
    <3>1. n - e - 1 \in Nat /\ n = e + 1 + (n - e - 1)
      BY <1>2, <1>3 DEF e
    <3> QED BY <3>1
  <2>2. n * c = c * e + c + k * c /\ k * c \in Nat
    BY <1>2, <2>1 DEF e
  <2>3. d = c * e + r
    BY <1>1 DEF e
  <2>4. c * e \in Nat
    BY <1>2 DEF e
  <2> QED BY <2>2, <2>3, <2>4
<1> QED BY <1>2, <1>3 DEF e

(***************************************************************************)
(* Where the tick count and the compare value stand.                       *)
(***************************************************************************)
Counted == xTickCount + xPendedTicks
(* Periods that next_compare is ahead of the ticks counted: two from the   *)
(* dispatch of the timer up to the tick, else one.                         *)
Ahead == IF mtie = TRUE /\ trap \in SetCompareParts \cup {"tick"} THEN 2 ELSE 1

TimeTypes == mtime \in Time /\ mtimecmp \in Time /\ next_compare \in Time
TickTypes == /\ xTickCount \in Nat /\ xPendedTicks \in Nat
             /\ trap \in {"none", "dispatch", "tick"} => mtie = TRUE
(* The compare value is one period for each tick from the start, the time  *)
(* has come for all but the last of them, and when the timer interrupts    *)
(* also for that one.                                                      *)
Paced == /\ Count(next_compare) = Count(START) + (Counted + Ahead) * COUNTS_PER_TICK
         /\ Count(mtime) >= Count(START) + (Counted + Ahead - 1) * COUNTS_PER_TICK
         /\ trap = "dispatch" /\ cause = "timer" => Count(mtime) >= Count(next_compare)
(* The compare register follows in three steps.                            *)
Written == /\ trap \notin SetCompareParts => mtimecmp = next_compare
           /\ trap = "set_lo" => mtimecmp.hi = next_compare.hi
TickInv == TimeTypes /\ TickTypes /\ Paced /\ Written

LEMMA TickInit == Init => TickInv
<1> SUFFICES ASSUME Init PROVE TickInv
  OBVIOUS
<1>1. /\ mtime = START /\ mtimecmp = [hi |-> HALF - 1, lo |-> HALF - 1]
      /\ next_compare = Plus(START, COUNTS_PER_TICK)
      /\ mtie = FALSE /\ trap = "raise_lo" /\ xTickCount = 0 /\ xPendedTicks = 0
  BY DEF Init
<1>2. START \in Time /\ COUNTS_PER_TICK \in 0 .. HALF - 1 /\ HALF \in Nat \ {0, 1}
  BY PortAssumption, HalfAssumption
<1>3. next_compare \in Time /\ Count(next_compare) = Count(START) + COUNTS_PER_TICK
  BY <1>1, <1>2, CountOfSum
<1>4. Count(START) \in Nat /\ Ahead = 1 /\ Counted = 0
  BY <1>1, <1>2, CountIsNat DEF Ahead, Counted
<1>5. TimeTypes
  BY <1>1, <1>2, <1>3 DEF TimeTypes, Time
<1>6. Paced
  BY <1>1, <1>2, <1>3, <1>4 DEF Paced
<1>7. TickTypes /\ Written
  BY <1>1 DEF TickTypes, Written, SetCompareParts
<1> QED BY <1>5, <1>6, <1>7 DEF TickInv

(* A step that leaves time, ticks and traps alone.                         *)
pacedVars == <<mtime, mtimecmp, next_compare, mtie, xTickCount, xPendedTicks, trap, cause>>
LEMMA TickFrame == TickInv /\ UNCHANGED pacedVars => TickInv'
BY DEF pacedVars, TickInv, TimeTypes, TickTypes, Paced, Written, Counted, Ahead

LEMMA TickClock == ASSUME TickInv, ClockStep PROVE TickInv'
<1>1. /\ mtime' = Plus(mtime, 1)
      /\ UNCHANGED <<mtimecmp, next_compare, mtie, xTickCount, xPendedTicks, trap, cause>>
  BY DEF ClockStep, Clock, portVars, tickVars
<1>2. mtime' \in Time /\ Count(mtime)' = Count(mtime) + 1
  BY <1>1, CountOfSum, HalfAssumption DEF TickInv, TimeTypes, Count
<1>3. /\ Count(mtime) \in Nat /\ Count(next_compare) \in Nat /\ Count(START) \in Nat
      /\ COUNTS_PER_TICK \in Nat /\ Counted \in Nat /\ Ahead \in Nat
  BY CountIsNat, PortAssumption, HalfAssumption
  DEF TickInv, TimeTypes, TickTypes, Counted, Ahead
<1>4. UNCHANGED <<Counted, Ahead, Count(next_compare)>>
  BY <1>1 DEF Counted, Ahead, Count
<1>5. (Counted + Ahead - 1) * COUNTS_PER_TICK \in Int
  BY <1>3
<1>6. Paced'
  BY <1>1, <1>2, <1>3, <1>4, <1>5 DEF TickInv, Paced
<1> QED BY <1>1, <1>2, <1>6 DEF TickInv, TimeTypes, TickTypes, Written

(* The yields of tasks, and the ticks made up.                             *)
LEMMA TickTask ==
  ASSUME TickInv, NEW t \in Tasks, KernelStep(t) \/ TaskChoice(t)
  PROVE  TickInv'
<1>1. CASE UNCHANGED pacedVars
  BY <1>1, TickFrame
<1>2. CASE /\ trap = "none" /\ trap' = "dispatch" /\ cause' = "ecall"
           /\ UNCHANGED <<mtime, mtimecmp, next_compare, mtie, xTickCount, xPendedTicks>>
  BY <1>2 DEF TickInv, TimeTypes, TickTypes, Paced, Written, Counted, Ahead, Count, SetCompareParts
<1>3. CASE CatchUpTick(t)
  <2>1. /\ UNCHANGED <<mtime, mtimecmp, next_compare, mtie, trap, cause>>
        /\ xPendedTicks > 0 /\ xPendedTicks' = xPendedTicks - 1
        /\ xTickCount' = xTickCount + 1
    BY <1>3 DEF CatchUpTick, timerVars, portVars
  <2>2. xTickCount' \in Nat /\ xPendedTicks' \in Nat /\ UNCHANGED <<Counted, Ahead>>
    BY <2>1 DEF TickInv, TickTypes, Counted, Ahead
  <2> QED BY <2>1, <2>2 DEF TickInv, TimeTypes, TickTypes, Paced, Written, Count
<1>4. KernelStep(t) => \/ UNCHANGED pacedVars \/ CatchUpTick(t)
                       \/ /\ trap = "none" /\ trap' = "dispatch" /\ cause' = "ecall"
                          /\ UNCHANGED <<mtime, mtimecmp, next_compare, mtie, xTickCount,
                                         xPendedTicks>>
  BY DEF KernelStep, ExitCritical, Enable, CheckPending, ClearPending, Yield, LookWhether, Delay,
     DontBlock, ResumeAll, FinishResume, YieldBlocked, ReadHi0, ReadLo, ReadHi1, NowUnchanged,
     Ecall, EnterTrap, Runs, timerVars, portVars, tickVars, pacedVars
<1>5. TaskChoice(t) => \/ UNCHANGED pacedVars
                       \/ /\ trap = "none" /\ trap' = "dispatch" /\ cause' = "ecall"
                          /\ UNCHANGED <<mtime, mtimecmp, next_compare, mtie, xTickCount,
                                         xPendedTicks>>
  BY DEF TaskChoice, BeginCritical, NestCritical, Give, TaskYield, SuspendAll, BeginNow,
     NowUnchanged, Call, Ecall, EnterTrap, Runs, timerVars, portVars, tickVars, pacedVars
<1> QED BY <1>1, <1>2, <1>3, <1>4, <1>5

(* The timer interrupts at or behind next_compare.                         *)
LEMMA TickInterrupt == ASSUME TickInv, TimerInterrupt PROVE TickInv'
<1>1. /\ trap = "none" /\ irq /\ trap' = "dispatch" /\ cause' = "timer"
      /\ UNCHANGED <<mtime, mtimecmp, next_compare, mtie, xTickCount, xPendedTicks>>
  BY DEF TimerInterrupt, EnterTrap, timerVars, tickVars
<1>2. mtimecmp = next_compare
  BY <1>1 DEF TickInv, Written, SetCompareParts
<1>3. Count(mtime) >= Count(next_compare)
  BY <1>1, <1>2, CountOrder DEF TickInv, TimeTypes, irq
<1>4. UNCHANGED <<Counted, Ahead, Count(mtime), Count(next_compare)>>
  BY <1>1 DEF Counted, Ahead, Count, SetCompareParts
<1>5. Paced'
  BY <1>3, <1>4 DEF TickInv, Paced
<1> QED BY <1>1, <1>2, <1>5 DEF TickInv, TimeTypes, TickTypes, Written

LEMMA TickDispatch == ASSUME TickInv, DispatchTimer PROVE TickInv'
<1>1. /\ trap = "dispatch" /\ cause = "timer" /\ trap' = "raise_lo" /\ mtie = TRUE
      /\ next_compare' = Plus(next_compare, COUNTS_PER_TICK)
      /\ UNCHANGED <<mtime, mtimecmp, mtie, xTickCount, xPendedTicks>>
  BY DEF DispatchTimer, timerVars, tickVars, TickInv, TickTypes
<1>2. COUNTS_PER_TICK \in 0 .. HALF - 1 /\ HALF \in Nat /\ START \in Time
  BY PortAssumption, HalfAssumption
<1>3. next_compare' \in Time /\ Count(next_compare)' = Count(next_compare) + COUNTS_PER_TICK
  BY <1>1, <1>2, CountOfSum DEF TickInv, TimeTypes, Count
<1>4. Ahead = 1 /\ Ahead' = 2 /\ Counted' = Counted /\ Count(mtime)' = Count(mtime)
  BY <1>1 DEF Ahead, Counted, Count, SetCompareParts
<1>5. Count(mtime) \in Nat /\ Count(START) \in Nat /\ Counted \in Nat
  BY <1>2, CountIsNat DEF TickInv, TimeTypes, TickTypes, Counted
<1>6. (Counted + 2) * COUNTS_PER_TICK = (Counted + 1) * COUNTS_PER_TICK + COUNTS_PER_TICK
  BY <1>2, <1>5
<1>7. /\ Count(next_compare) = Count(START) + (Counted + 1) * COUNTS_PER_TICK
      /\ Count(mtime) >= Count(next_compare)
  BY <1>1, <1>4 DEF TickInv, Paced
<1>8. (Counted + 1) * COUNTS_PER_TICK \in Nat
  BY <1>2, <1>5
<1>9. Paced'
  <2>1. Count(next_compare)' = Count(START) + (Counted' + Ahead') * COUNTS_PER_TICK
    BY <1>2, <1>3, <1>4, <1>5, <1>6, <1>7, <1>8
  <2>2. Count(mtime)' >= Count(START) + (Counted' + Ahead' - 1) * COUNTS_PER_TICK
    <3>1. Counted' + Ahead' - 1 = Counted + 1
      BY <1>4, <1>5
    <3> QED BY <3>1, <1>4, <1>7
  <2> QED BY <1>1, <2>1, <2>2 DEF Paced
<1> QED BY <1>1, <1>3, <1>9 DEF TickInv, TimeTypes, TickTypes, Written, SetCompareParts

LEMMA TickSetCompare == ASSUME TickInv, SetComparePart PROVE TickInv'
<1>1. /\ trap \in SetCompareParts /\ SetCompare(trap, next_compare)
      /\ trap' = CASE trap = "raise_lo" -> "set_hi" [] trap = "set_hi" -> "set_lo"
                   [] trap = "set_lo" -> IF mtie THEN "tick" ELSE "exit"
      /\ UNCHANGED <<mtime, mtie, next_compare, xTickCount, xPendedTicks, cause>>
  BY DEF SetComparePart, SetCompare, tickVars
<1>2. /\ mtimecmp.hi \in Nat /\ mtimecmp.lo \in 0 .. HALF - 1
      /\ mtimecmp = [hi |-> mtimecmp.hi, lo |-> mtimecmp.lo]
      /\ next_compare.hi \in Nat /\ next_compare.lo \in 0 .. HALF - 1
      /\ next_compare = [hi |-> next_compare.hi, lo |-> next_compare.lo]
      /\ HALF - 1 \in 0 .. HALF - 1
  BY HalfAssumption DEF TickInv, TimeTypes, Time
<1>3. CASE trap = "raise_lo"
  <2>1. trap' = "set_hi" /\ mtimecmp' = [hi |-> mtimecmp.hi, lo |-> HALF - 1]
    BY <1>1, <1>2, <1>3 DEF SetCompare
  <2>2. mtimecmp' \in Time /\ Written'
    BY <1>2, <2>1 DEF Time, Written, SetCompareParts
  <2>3. UNCHANGED <<Counted, Ahead>>
    BY <1>1, <1>3, <2>1 DEF Counted, Ahead, SetCompareParts
  <2> QED BY <1>1, <2>1, <2>2, <2>3 DEF TickInv, TimeTypes, TickTypes, Paced, Count
<1>4. CASE trap = "set_hi"
  <2>1. trap' = "set_lo" /\ mtimecmp' = [hi |-> next_compare.hi, lo |-> mtimecmp.lo]
    BY <1>1, <1>2, <1>4 DEF SetCompare
  <2>2. mtimecmp' \in Time /\ Written'
    BY <1>1, <1>2, <2>1 DEF Time, Written, SetCompareParts
  <2>3. UNCHANGED <<Counted, Ahead>>
    BY <1>1, <1>4, <2>1 DEF Counted, Ahead, SetCompareParts
  <2> QED BY <1>1, <2>1, <2>2, <2>3 DEF TickInv, TimeTypes, TickTypes, Paced, Count
<1>5. CASE trap = "set_lo"
  <2>1. trap' = IF mtie THEN "tick" ELSE "exit"
    BY <1>1, <1>5
  <2>2. mtimecmp.hi = next_compare.hi
    BY <1>5 DEF TickInv, Written
  <2>3. mtimecmp' = [hi |-> next_compare.hi, lo |-> next_compare.lo]
    BY <1>1, <1>2, <1>5, <2>2 DEF SetCompare
  <2>4. mtimecmp' = next_compare'
    BY <1>1, <1>2, <2>3
  <2>5. UNCHANGED <<Counted, Ahead>>
    BY <1>1, <1>5, <2>1 DEF Counted, Ahead, SetCompareParts
  <2>6. mtimecmp' \in Time
    BY <1>1, <2>4 DEF TickInv, TimeTypes
  <2>7. Written' /\ TickTypes'
    BY <1>1, <2>1, <2>4 DEF TickInv, TickTypes, Written, SetCompareParts
  <2> QED BY <1>1, <2>1, <2>5, <2>6, <2>7 DEF TickInv, TimeTypes, Paced, Count
<1> QED BY <1>1, <1>3, <1>4, <1>5 DEF SetCompareParts

LEMMA TickCounts == ASSUME TickInv, Tick PROVE TickInv'
<1>1. /\ trap = "tick" /\ trap' = "exit" /\ mtie = TRUE
      /\ UNCHANGED <<mtime, mtimecmp, mtie, next_compare, cause>>
  BY DEF Tick, timerVars, TickInv, TickTypes
<1>2. \/ xTickCount' = xTickCount + 1 /\ xPendedTicks' = xPendedTicks
      \/ xTickCount' = xTickCount /\ xPendedTicks' = xPendedTicks + 1
  BY DEF Tick
<1>3. xTickCount' \in Nat /\ xPendedTicks' \in Nat /\ Counted' = Counted + 1
  BY <1>2 DEF TickInv, TickTypes, Counted
<1>4. Ahead = 2 /\ Ahead' = 1
  BY <1>1 DEF Ahead, SetCompareParts
<1>5. Counted \in Nat
  BY DEF TickInv, TickTypes, Counted
<1>6. Counted' + Ahead' = Counted + Ahead
  BY <1>3, <1>4, <1>5
<1>7. Count(mtime)' = Count(mtime) /\ Count(next_compare)' = Count(next_compare)
  BY <1>1 DEF Count
<1>8. Paced'
  <2>1. /\ Counted' + Ahead' - 1 = Counted + Ahead - 1
        /\ (Counted' + Ahead') * COUNTS_PER_TICK = (Counted + Ahead) * COUNTS_PER_TICK
    BY <1>3, <1>4, <1>5
  <2>2. /\ Count(next_compare) = Count(START) + (Counted + Ahead) * COUNTS_PER_TICK
        /\ Count(mtime) >= Count(START) + (Counted + Ahead - 1) * COUNTS_PER_TICK
    BY DEF TickInv, Paced
  <2>3. /\ Count(next_compare)' = Count(START) + (Counted' + Ahead') * COUNTS_PER_TICK
        /\ Count(mtime)' >= Count(START) + (Counted' + Ahead' - 1) * COUNTS_PER_TICK
    BY <1>7, <2>1, <2>2
  <2> QED BY <1>1, <2>3 DEF Paced
<1>9. TickTypes' /\ Written'
  BY <1>1, <1>3 DEF TickInv, TickTypes, Written, SetCompareParts
<1> QED BY <1>1, <1>8, <1>9 DEF TickInv, TimeTypes

(* The end of a trap, or of the start.                                     *)
LEMMA TickRestore == ASSUME TickInv, DispatchEcall \/ Restore PROVE TickInv'
<1>1. CASE DispatchEcall
  BY <1>1 DEF DispatchEcall, timerVars, tickVars, TickInv, TimeTypes, TickTypes, Paced, Written, Counted,
     Ahead, Count, SetCompareParts
<1>2. CASE Restore
  BY <1>2 DEF Restore, timerVars, tickVars, TickInv, TimeTypes, TickTypes, Paced, Written, Counted,
     Ahead, Count, SetCompareParts
<1> QED BY <1>1, <1>2

LEMMA TickStep == TickInv /\ [Next]_vars => TickInv'
<1> SUFFICES ASSUME TickInv, [Next]_vars PROVE TickInv'
  OBVIOUS
<1>1. CASE ClockStep
  BY <1>1, TickClock
<1>2. CASE TimerInterrupt
  BY <1>2, TickInterrupt
<1>3. CASE TrapStep
  BY <1>3, TickRestore, TickDispatch, TickSetCompare, TickCounts DEF TrapStep
<1>4. ASSUME NEW t \in Tasks, KernelStep(t) \/ TaskChoice(t) PROVE TickInv'
  BY <1>4, TickTask
<1>5. CASE UNCHANGED vars
  BY <1>5, TickFrame DEF vars, pacedVars, timerVars, portVars, tickVars
<1> QED BY <1>1, <1>2, <1>3, <1>4, <1>5 DEF Next

(* Ticks, compare value and time always keep step.                         *)
THEOREM TickInvariance == Spec => []TickInv
<1> QED BY TickInit, TickStep, PTL DEF Spec

(* No tick is counted before its time, however late they are handled.      *)
THEOREM TicksNeverAhead == Spec => []NeverAhead
<1>1. ASSUME TickInv PROVE NeverAhead
  <2>1. /\ Count(mtime) \in Nat /\ Count(START) \in Nat /\ Counted \in Nat
        /\ COUNTS_PER_TICK \in Nat \ {0} /\ Ahead \in {1, 2}
    BY <1>1, CountIsNat, PortAssumption, HalfAssumption
    DEF TickInv, TimeTypes, TickTypes, Counted, Ahead
  <2>2. Counted * COUNTS_PER_TICK <= Count(mtime) - Count(START)
    <3>1. Count(mtime) >= Count(START) + (Counted + Ahead - 1) * COUNTS_PER_TICK
      BY <1>1 DEF TickInv, Paced
    <3>2. CASE Ahead = 1
      <4>1. Counted + Ahead - 1 = Counted
        BY <2>1, <3>2
      <4>2. Counted * COUNTS_PER_TICK \in Nat
        BY <2>1
      <4> QED BY <2>1, <3>1, <4>1, <4>2
    <3>3. CASE Ahead = 2
      <4>1. (Counted + Ahead - 1) * COUNTS_PER_TICK = Counted * COUNTS_PER_TICK + COUNTS_PER_TICK
        BY <2>1, <3>3
      <4>2. Counted * COUNTS_PER_TICK \in Nat
        BY <2>1
      <4> QED BY <2>1, <3>1, <4>1, <4>2
    <3> QED BY <2>1, <3>2, <3>3
  <2>3. Count(mtime) - Count(START) \in Nat
    <3>1. Counted * COUNTS_PER_TICK \in Nat
      BY <2>1
    <3> QED BY <2>1, <2>2, <3>1
  <2>4. Counted <= (Count(mtime) - Count(START)) \div COUNTS_PER_TICK
    BY <2>1, <2>2, <2>3, TicksElapsed
  <2> QED BY <2>4 DEF NeverAhead, Elapsed, Counted
<1> QED BY <1>1, TickInvariance, PTL

(***************************************************************************)
(* Types, masks and the suspended scheduler.                               *)
(***************************************************************************)
(* Where a task has interrupts masked, and where it has the scheduler      *)
(* suspended.                                                              *)
Closed == {"crit", "pended", "enable"}
InSuspend(t) == \/ pc[t] \in {"suspended", "decide", "resume"}
                \/ /\ pc[t] \in {"crit", "enable", "check", "clear", "ecall"}
                   /\ ret[t] = "decide"

FlagTypes ==
  /\ mie \in BOOLEAN /\ mtie \in BOOLEAN /\ mpie \in [Tasks -> BOOLEAN]
  /\ freertos_yield_pending \in BOOLEAN /\ suspended \in BOOLEAN /\ xYieldPending \in BOOLEAN
  /\ blocks \in [Tasks -> BOOLEAN] /\ pxCurrentTCB \in Tasks
  /\ trap \in TrapPlaces /\ cause \in {"none", "ecall", "timer"}

(* The mask is a matter of the place of the current task; in a trap, of    *)
(* its frame.  A trap of the timer found interrupts enabled.               *)
FromTimer == trap \in {"tick"} \cup SetCompareParts \/ (trap = "dispatch" /\ cause = "timer")
MaskedWhere ==
  /\ \A t \in Tasks : t # pxCurrentTCB => mpie[t] /\ pc[t] \notin Closed
  /\ trap = "none" => (mie <=> pc[pxCurrentTCB] \notin Closed)
  /\ trap # "none" => (mpie[pxCurrentTCB] <=> pc[pxCurrentTCB] \notin Closed)
  /\ FromTimer => pc[pxCurrentTCB] \notin Closed

TrapDepth ==
  /\ trap \in {"none", "dispatch"} => mtie
  /\ trap = "dispatch" => cause \in {"ecall", "timer"}
  /\ freertos_trap_depth = IF mtie /\ trap \notin {"none", "dispatch"} THEN 1 ELSE 0

(* Only the current task has the scheduler suspended, and never idle.      *)
SuspendedWhere ==
  /\ suspended => InSuspend(pxCurrentTCB)
  /\ \A t \in Tasks : InSuspend(t) => t = pxCurrentTCB /\ suspended
  /\ pc[Idle] \notin {"suspended", "decide", "resume"} /\ ret[Idle] # "decide"

PlaceInv == CriticalInv /\ FlagTypes /\ MaskedWhere /\ TrapDepth /\ SuspendedWhere

(***************************************************************************)
(* The lists of the kernel.                                                *)
(***************************************************************************)
(* A circular list: its end item once, no task twice.                      *)
Items == Tasks \cup {END}
Circular(list) ==
  /\ list \in Seq(Items) /\ END \in ToSet(list)
  /\ \A i, j \in DOMAIN list : list[i] = list[j] => i = j
Lists(r) ==
  /\ r = [p \in Priorities |-> r[p]]
  /\ \A p \in Priorities : Circular(r[p]) /\ \A t \in Members(r[p]) : Prio[t] = p
ReadyInv == Lists(ready)
WaitInv ==
  /\ xTickCount \in Nat /\ xPendedTicks \in Nat
  /\ waiting \subseteq Tasks /\ waiting \cap Ready = {}
  /\ wake \in [Tasks -> Nat \cup {NONE}]
  /\ \A t \in Ready \cup waiting : wake[t] = NONE
  /\ Idle \in Ready

(***************************************************************************)
(* Why a task runs although it may not be the one to.                      *)
(***************************************************************************)
NoneAbove == \A t \in Ready : Prio[t] <= Prio[pxCurrentTCB]
Served == pxCurrentTCB \in Ready /\ NoneAbove
WillYield == freertos_yield_pending \/ (trap = "dispatch" /\ cause = "ecall")
Reason ==
  \/ Served
  \/ pc[pxCurrentTCB] = "resume" /\ NoneAbove /\ blocks[pxCurrentTCB]
  \/ /\ pc[pxCurrentTCB] = "pended" /\ (NoneAbove \/ xYieldPending)
     /\ pxCurrentTCB \in Ready \/ blocks[pxCurrentTCB]
  \/ /\ pc[pxCurrentTCB] \in {"crit", "enable", "check"} /\ ~suspended
     /\ ret[pxCurrentTCB] = "resumed" \/ WillYield
  \/ pc[pxCurrentTCB] \in {"clear", "ecall"} /\ ~suspended
  \/ pc[pxCurrentTCB] = "resumed"
  \/ /\ trap = "dispatch" /\ cause = "ecall" /\ ~suspended
     /\ pc[pxCurrentTCB] \notin Closed

ScheduleInv == PlaceInv /\ ReadyInv /\ WaitInv /\ Reason

(***************************************************************************)
(* Lists.                                                                  *)
(***************************************************************************)
LEMMA CircularItems ==
  ASSUME NEW list, Circular(list)
  PROVE  /\ list \in Seq(Items) /\ Len(list) \in Nat \ {0} /\ list # <<>>
         /\ DOMAIN list = 1 .. Len(list) /\ \A i \in 1 .. Len(list) : list[i] \in Items
         /\ ToSet(list) \subseteq Items /\ Members(list) \subseteq Tasks
<1>1. /\ list \in Seq(Items) /\ Len(list) \in Nat /\ DOMAIN list = 1 .. Len(list)
      /\ list \in [1 .. Len(list) -> Items]
  BY LenProperties DEF Circular
<1>2. \A i \in 1 .. Len(list) : list[i] \in Items
  BY <1>1
<1>3. PICK i \in DOMAIN list : list[i] = END
  BY DEF Circular, ToSet
<1>4. Len(list) # 0 /\ list # <<>>
  BY <1>1, <1>3
<1>5. ToSet(list) \subseteq Items /\ Members(list) \subseteq Tasks
  BY <1>1, <1>2 DEF ToSet, Members, Items
<1> QED BY <1>1, <1>2, <1>4, <1>5

LEMMA RotateList ==
  ASSUME NEW list, Circular(list)
  PROVE  /\ Circular(Rotate(list)) /\ ToSet(Rotate(list)) = ToSet(list)
         /\ Len(Rotate(list)) = Len(list)
         /\ Rotate(list)[1] = list[IF Len(list) = 1 THEN 1 ELSE 2]
<1> DEFINE n == Len(list)
           r == Rotate(list)
<1>1. /\ list \in Seq(Items) /\ n \in Nat \ {0} /\ list # <<>>
      /\ DOMAIN list = 1 .. n /\ \A i \in 1 .. n : list[i] \in Items
  BY CircularItems
<1>2. /\ Tail(list) \in Seq(Items) /\ Len(Tail(list)) = n - 1
      /\ \A i \in 1 .. n - 1 : Tail(list)[i] = list[i + 1]
  BY <1>1, HeadTailProperties
<1>3. Head(list) = list[1] /\ Head(list) \in Items
  BY <1>1
<1>4. /\ r \in Seq(Items) /\ Len(r) = n /\ r[n] = list[1]
      /\ \A i \in 1 .. n - 1 : r[i] = list[i + 1]
  BY <1>1, <1>2, <1>3, AppendProperties DEF Rotate
<1> HIDE DEF n, r
<1>5. DOMAIN r = 1 .. n
  BY <1>4, LenProperties
<1>6. ToSet(r) = ToSet(list)
  <2>1. ASSUME NEW i \in 1 .. n PROVE \E j \in 1 .. n : r[i] = list[j]
    BY <1>1, <1>4
  <2>2. ASSUME NEW i \in 1 .. n PROVE \E j \in 1 .. n : list[i] = r[j]
    <3>1. CASE i = 1
      BY <1>1, <1>4, <3>1
    <3>2. CASE i > 1
      <4>1. i - 1 \in 1 .. n - 1 /\ i - 1 \in 1 .. n /\ (i - 1) + 1 = i
        BY <1>1, <3>2
      <4> QED BY <1>4, <4>1
    <3> QED BY <3>1, <3>2
  <2>3. ToSet(r) = {r[i] : i \in 1 .. n} /\ ToSet(list) = {list[i] : i \in 1 .. n}
    BY <1>1, <1>5 DEF ToSet
  <2> QED BY <2>1, <2>2, <2>3
<1>7. ASSUME NEW i \in 1 .. n, NEW j \in 1 .. n, r[i] = r[j] PROVE i = j
  <2>1. \A k, l \in 1 .. n : list[k] = list[l] => k = l
    BY <1>1 DEF Circular
  <2>2. CASE i < n /\ j < n
    <3>1. i + 1 \in 1 .. n /\ j + 1 \in 1 .. n /\ r[i] = list[i + 1] /\ r[j] = list[j + 1]
      BY <1>1, <1>4, <2>2
    <3>2. i + 1 = j + 1
      BY <1>7, <2>1, <3>1
    <3> QED BY <1>1, <3>2
  <2>3. CASE i = n /\ j < n
    <3>1. j + 1 \in 1 .. n /\ 1 \in 1 .. n /\ r[j] = list[j + 1] /\ r[i] = list[1]
      BY <1>1, <1>4, <2>3
    <3>2. 1 = j + 1
      BY <1>7, <2>1, <3>1
    <3> QED BY <1>1, <3>2
  <2>4. CASE i < n /\ j = n
    <3>1. i + 1 \in 1 .. n /\ 1 \in 1 .. n /\ r[i] = list[i + 1] /\ r[j] = list[1]
      BY <1>1, <1>4, <2>4
    <3>2. i + 1 = 1
      BY <1>7, <2>1, <3>1
    <3> QED BY <1>1, <3>2
  <2> QED BY <2>2, <2>3, <2>4, <1>1
<1>8. Circular(r)
  BY <1>4, <1>5, <1>6, <1>7 DEF Circular
<1>9. r[1] = list[IF n = 1 THEN 1 ELSE 2]
  BY <1>1, <1>4
<1> QED BY <1>4, <1>6, <1>8, <1>9 DEF n, r

LEMMA AdvanceList ==
  ASSUME NEW list, Circular(list), Members(list) # {}
  PROVE  /\ Circular(Advance(list)) /\ ToSet(Advance(list)) = ToSet(list)
         /\ Head(Advance(list)) \in Members(list)
<1> DEFINE r == Rotate(list)
           q == Rotate(r)
<1>1. /\ Circular(r) /\ ToSet(r) = ToSet(list) /\ Len(r) = Len(list)
      /\ Circular(q) /\ ToSet(q) = ToSet(r) /\ Len(q) = Len(r)
      /\ q[1] = r[IF Len(r) = 1 THEN 1 ELSE 2]
  BY RotateList
<1>2. /\ Len(r) \in Nat \ {0} /\ DOMAIN r = 1 .. Len(r) /\ Head(r) = r[1] /\ Head(q) = q[1]
      /\ DOMAIN q = 1 .. Len(q) /\ Len(q) \in Nat \ {0}
      /\ ToSet(list) \subseteq Items
  BY <1>1, CircularItems
<1>3. CASE r[1] = END
  <2>1. Advance(list) = q
    BY <1>3 DEF Advance
  <2>2. Len(r) # 1
    <3>1. ASSUME Len(r) = 1 PROVE ToSet(r) = {END}
      BY <3>1, <1>2, <1>3 DEF ToSet
    <3> QED BY <3>1, <1>1 DEF Members
  <2>3. 2 \in DOMAIN r /\ 1 \in DOMAIN r
    BY <1>2, <2>2
  <2>4. r[2] # END
    BY <1>1, <1>3, <2>3 DEF Circular
  <2>5. r[2] \in ToSet(r)
    BY <2>3 DEF ToSet
  <2> QED BY <1>1, <1>2, <2>1, <2>2, <2>4, <2>5 DEF Members
<1>4. CASE r[1] # END
  <2>1. Advance(list) = r
    BY <1>4 DEF Advance
  <2>2. r[1] \in ToSet(r)
    BY <1>2 DEF ToSet
  <2> QED BY <1>1, <1>2, <1>4, <2>1, <2>2 DEF Members
<1> QED BY <1>3, <1>4

(* Tasks that are in no list come last in one.                             *)
LEMMA ConcatList ==
  ASSUME NEW list, Circular(list), NEW s \in Seq(Tasks),
         \A i, j \in DOMAIN s : s[i] = s[j] => i = j, ToSet(s) \cap ToSet(list) = {}
  PROVE  Circular(list \o s) /\ ToSet(list \o s) = ToSet(list) \cup ToSet(s)
<1> DEFINE n == Len(list)
           m == Len(s)
           r == list \o s
<1>1. list \in Seq(Items) /\ n \in Nat /\ DOMAIN list = 1 .. n
  BY CircularItems
<1>2. s \in Seq(Items) /\ m \in Nat /\ DOMAIN s = 1 .. m
  BY SeqMonotonic, LenProperties DEF Items
<1>3. /\ r \in Seq(Items) /\ Len(r) = n + m
      /\ \A i \in 1 .. n + m : r[i] = IF i <= n THEN list[i] ELSE s[i - n]
  BY <1>1, <1>2, ConcatProperties
<1> HIDE DEF n, m, r
<1>4. DOMAIN r = 1 .. n + m
  BY <1>3, LenProperties
<1>5. ToSet(r) = ToSet(list) \cup ToSet(s)
  <2>1. ASSUME NEW i \in 1 .. n + m
        PROVE  r[i] \in {list[j] : j \in 1 .. n} \cup {s[j] : j \in 1 .. m}
    <3>1. CASE i <= n
      BY <1>1, <1>3, <3>1
    <3>2. CASE i > n
      <4>1. i - n \in 1 .. m /\ r[i] = s[i - n]
        BY <1>1, <1>2, <1>3, <3>2
      <4> QED BY <4>1
    <3> QED BY <1>1, <3>1, <3>2
  <2>2. ASSUME NEW j \in 1 .. n PROVE \E i \in 1 .. n + m : r[i] = list[j]
    BY <1>1, <1>2, <1>3
  <2>3. ASSUME NEW j \in 1 .. m PROVE \E i \in 1 .. n + m : r[i] = s[j]
    <3>1. n + j \in 1 .. n + m /\ ~(n + j <= n) /\ (n + j) - n = j
      BY <1>1, <1>2
    <3> QED BY <1>3, <3>1
  <2>4. /\ ToSet(r) = {r[i] : i \in 1 .. n + m} /\ ToSet(list) = {list[i] : i \in 1 .. n}
        /\ ToSet(s) = {s[i] : i \in 1 .. m}
    BY <1>1, <1>2, <1>4 DEF ToSet
  <2> QED BY SMTT(30), <2>1, <2>2, <2>3, <2>4
<1>6. ASSUME NEW i \in 1 .. n + m, NEW j \in 1 .. n + m, r[i] = r[j] PROVE i = j
  <2>1. /\ \A k, l \in 1 .. n : list[k] = list[l] => k = l
        /\ \A k, l \in 1 .. m : s[k] = s[l] => k = l
        /\ \A k \in 1 .. n, l \in 1 .. m : list[k] # s[l]
    <3>1. \A k, l \in 1 .. n : list[k] = list[l] => k = l
      BY <1>1 DEF Circular
    <3>2. \A k, l \in 1 .. m : s[k] = s[l] => k = l
      BY <1>2
    <3>3. \A k \in 1 .. n, l \in 1 .. m : list[k] # s[l]
      BY <1>1, <1>2 DEF ToSet
    <3> QED BY <3>1, <3>2, <3>3
  <2>2. ASSUME NEW k \in 1 .. n + m, k > n PROVE k - n \in 1 .. m /\ r[k] = s[k - n]
    BY <1>1, <1>2, <1>3, <2>2
  <2>3. ASSUME NEW k \in 1 .. n + m, k <= n PROVE k \in 1 .. n /\ r[k] = list[k]
    BY <1>1, <1>2, <1>3, <2>3
  <2>4. CASE i <= n /\ j <= n
    BY <1>6, <2>1, <2>3, <2>4
  <2>5. CASE i > n /\ j > n
    <3>1. i - n = j - n
      BY <1>6, <2>1, <2>2, <2>5
    <3> QED BY <1>1, <1>2, <3>1
  <2>6. CASE i <= n /\ j > n
    BY <1>6, <2>1, <2>2, <2>3, <2>6
  <2>7. CASE i > n /\ j <= n
    BY <1>6, <2>1, <2>2, <2>3, <2>7
  <2> QED BY <1>1, <1>2, <2>4, <2>5, <2>6, <2>7
<1>7. Circular(r)
  BY <1>3, <1>4, <1>5, <1>6 DEF Circular
<1> QED BY <1>5, <1>7 DEF r

LEMMA AppendList ==
  ASSUME NEW list, Circular(list), NEW t \in Tasks, t \notin ToSet(list)
  PROVE  Circular(Append(list, t)) /\ ToSet(Append(list, t)) = ToSet(list) \cup {t}
<1>1. Append(list, t) = list \o <<t>>
  BY CircularItems, AppendIsConcat DEF Items
<1> DEFINE s == <<t>>
<1>2. s \in Seq(Tasks) /\ DOMAIN s = {1} /\ ToSet(s) = {t}
  BY DEF ToSet
<1> HIDE DEF s
<1>3. \A i, j \in DOMAIN s : s[i] = s[j] => i = j
  BY <1>2
<1>4. Circular(list \o s) /\ ToSet(list \o s) = ToSet(list) \cup ToSet(s)
  BY <1>2, <1>3, ConcatList
<1> QED BY <1>1, <1>2, <1>4 DEF s

LEMMA SetAsSequence ==
  ASSUME NEW S, IsFiniteSet(S)
  PROVE  /\ SetToSeq(S) \in Seq(S) /\ ToSet(SetToSeq(S)) = S
         /\ \A i, j \in DOMAIN SetToSeq(S) : SetToSeq(S)[i] = SetToSeq(S)[j] => i = j
<1> DEFINE n == Cardinality(S)
           s == SetToSeq(S)
<1>1. n \in Nat /\ ExistsBijection(1 .. n, S)
  BY FS_CardinalityType
<1>2. \E f \in [1 .. n -> S] : IsInjective(f)
  BY <1>1 DEF ExistsBijection, Bijection, Injection
<1>3. s \in [1 .. n -> S] /\ IsInjective(s)
  BY <1>2 DEF SetToSeq
<1>4. s \in Injection(1 .. n, S)
  BY <1>3 DEF Injection
<1>5. Cardinality(1 .. n) = n
  BY <1>1, FS_Interval
<1>6. s \in Surjection(1 .. n, S)
  BY <1>4, <1>5, FS_Injection
<1>7. ToSet(s) = S
  BY <1>3, <1>6 DEF ToSet, Surjection
<1>8. s \in Seq(S)
  BY <1>1, <1>3, SeqDef
<1> QED BY <1>3, <1>7, <1>8 DEF IsInjective

LEMMA RotateBackList ==
  ASSUME NEW list, Circular(list)
  PROVE  /\ Circular(<<Last(list)>> \o Front(list))
         /\ ToSet(<<Last(list)>> \o Front(list)) = ToSet(list)
<1> DEFINE n == Len(list)
           r == <<Last(list)>> \o Front(list)
<1>1. /\ list \in Seq(Items) /\ n \in Nat \ {0}
      /\ DOMAIN list = 1 .. n /\ \A i \in 1 .. n : list[i] \in Items
  BY CircularItems
<1>2. /\ Front(list) \in Seq(Items) /\ Len(Front(list)) = n - 1
      /\ \A i \in 1 .. n - 1 : Front(list)[i] = list[i]
  <2>1. \A i \in 1 .. n - 1 : list[i] \in Items
    BY <1>1
  <2>2. /\ SubSeq(list, 1, n - 1) \in Seq(Items)
        /\ Len(SubSeq(list, 1, n - 1)) = IF 1 <= n - 1 THEN (n - 1) - 1 + 1 ELSE 0
        /\ \A i \in 1 .. (n - 1) - 1 + 1 : SubSeq(list, 1, n - 1)[i] = list[1 + i - 1]
    BY <1>1, <2>1, SubSeqProperties
  <2> QED BY <1>1, <2>2 DEF Front
<1>3. /\ <<Last(list)>> \in Seq(Items) /\ Len(<<Last(list)>>) = 1
      /\ <<Last(list)>>[1] = list[n]
  BY <1>1 DEF Last
<1>4. /\ r \in Seq(Items) /\ Len(r) = n /\ r[1] = list[n]
      /\ \A i \in 2 .. n : r[i] = list[i - 1]
  <2>1. /\ r \in Seq(Items) /\ Len(r) = 1 + (n - 1)
        /\ \A i \in 1 .. 1 + (n - 1) :
             r[i] = IF i <= 1 THEN <<Last(list)>>[i] ELSE Front(list)[i - 1]
    BY <1>2, <1>3, ConcatProperties
  <2> HIDE DEF n, r
  <2>2. ASSUME NEW i \in 2 .. n PROVE r[i] = list[i - 1]
    <3>1. i \in 1 .. 1 + (n - 1) /\ i - 1 \in 1 .. n - 1 /\ ~(i <= 1)
      BY <1>1
    <3>2. r[i] = Front(list)[i - 1]
      BY <2>1, <3>1
    <3> QED BY <1>2, <3>1, <3>2
  <2>3. Len(r) = n
    BY <1>1, <2>1
  <2>4. 1 \in 1 .. 1 + (n - 1)
    BY <1>1
  <2>5. r[1] = list[n]
    BY <1>3, <2>1, <2>4
  <2> QED BY <2>1, <2>2, <2>3, <2>5
<1> HIDE DEF n, r
<1>5. DOMAIN r = 1 .. n
  BY <1>4, LenProperties
<1>6. ToSet(r) = ToSet(list)
  <2>1. ASSUME NEW i \in 1 .. n PROVE \E j \in 1 .. n : r[i] = list[j]
    <3>1. CASE i = 1
      BY <1>1, <1>4, <3>1
    <3>2. CASE i # 1
      <4>1. i \in 2 .. n /\ i - 1 \in 1 .. n
        BY <1>1, <3>2
      <4> QED BY <1>4, <4>1
    <3> QED BY <3>1, <3>2
  <2>2. ASSUME NEW i \in 1 .. n PROVE \E j \in 1 .. n : list[i] = r[j]
    <3>1. CASE i = n
      <4>1. 1 \in 1 .. n
        BY <1>1
      <4> QED BY <1>4, <3>1, <4>1
    <3>2. CASE i # n
      <4>1. i + 1 \in 2 .. n /\ i + 1 \in 1 .. n /\ (i + 1) - 1 = i
        BY <1>1, <3>2
      <4> QED BY <1>4, <4>1
    <3> QED BY <3>1, <3>2
  <2>3. ToSet(r) = {r[i] : i \in 1 .. n} /\ ToSet(list) = {list[i] : i \in 1 .. n}
    BY <1>1, <1>5 DEF ToSet
  <2> QED BY <2>1, <2>2, <2>3
<1>7. ASSUME NEW i \in 1 .. n, NEW j \in 1 .. n, r[i] = r[j] PROVE i = j
  <2>1. \A k, l \in 1 .. n : list[k] = list[l] => k = l
    BY <1>1 DEF Circular
  <2>2. ASSUME NEW k \in 2 .. n PROVE k - 1 \in 1 .. n /\ r[k] = list[k - 1]
    BY <1>1, <1>4
  <2>3. n \in 1 .. n
    BY <1>1
  <2>4. CASE i = 1 /\ j = 1
    BY <2>4
  <2>5. CASE i # 1 /\ j # 1
    <3>1. i \in 2 .. n /\ j \in 2 .. n
      BY <1>1, <2>5
    <3>2. i - 1 = j - 1
      BY <1>7, <2>1, <2>2, <3>1
    <3> QED BY <1>1, <3>2
  <2>6. CASE i = 1 /\ j # 1
    <3>1. j \in 2 .. n
      BY <1>1, <2>6
    <3>2. n = j - 1
      BY <1>4, <1>7, <2>1, <2>2, <2>3, <2>6, <3>1
    <3> QED BY <1>1, <3>1, <3>2
  <2>7. CASE i # 1 /\ j = 1
    <3>1. i \in 2 .. n
      BY <1>1, <2>7
    <3>2. i - 1 = n
      BY <1>4, <1>7, <2>1, <2>2, <2>3, <2>7, <3>1
    <3> QED BY <1>1, <3>1, <3>2
  <2> QED BY <2>4, <2>5, <2>6, <2>7
<1>8. Circular(r)
  BY <1>4, <1>5, <1>6, <1>7 DEF Circular
<1> QED BY <1>6, <1>8 DEF r

(* uxListRemove.                                                           *)
LEMMA UnlinkList ==
  ASSUME NEW list, Circular(list), NEW t \in Members(list)
  PROVE  Circular(Unlink(list, t)) /\ ToSet(Unlink(list, t)) = ToSet(list) \ {t}
<1> DEFINE n == Len(list)
           i == CHOOSE k \in DOMAIN list : list[k] = t
           r == RemoveAt(list, i)
<1>1. /\ list \in Seq(Items) /\ n \in Nat \ {0} /\ Head(list) = list[1]
      /\ DOMAIN list = 1 .. n /\ \A k \in 1 .. n : list[k] \in Items
  BY CircularItems
<1>2. \E k \in DOMAIN list : list[k] = t
  BY DEF Members, ToSet
<1>3. i \in 1 .. n /\ list[i] = t
  BY <1>1, <1>2
<1>4. \A k, l \in 1 .. n : list[k] = list[l] => k = l
  BY <1>1 DEF Circular
<1>5. /\ Unlink(list, t) = IF Head(list) = t THEN <<Last(r)>> \o Front(r) ELSE r
      /\ r = SubSeq(list, 1, i - 1) \o SubSeq(list, i + 1, n)
  BY DEF Unlink, RemoveAt
<1> HIDE DEF n, i, r
<1>6. /\ r \in Seq(Items) /\ Len(r) = n - 1
      /\ \A k \in 1 .. n - 1 : r[k] = IF k < i THEN list[k] ELSE list[k + 1]
  <2>1. /\ SubSeq(list, 1, i - 1) \in Seq(Items) /\ Len(SubSeq(list, 1, i - 1)) = i - 1
        /\ \A k \in 1 .. i - 1 : SubSeq(list, 1, i - 1)[k] = list[k]
    <3>1. \A k \in 1 .. i - 1 : list[k] \in Items
      BY <1>1, <1>3
    <3>2. /\ SubSeq(list, 1, i - 1) \in Seq(Items)
          /\ Len(SubSeq(list, 1, i - 1)) = IF 1 <= i - 1 THEN (i - 1) - 1 + 1 ELSE 0
          /\ \A k \in 1 .. (i - 1) - 1 + 1 : SubSeq(list, 1, i - 1)[k] = list[1 + k - 1]
      BY <1>3, <3>1, SubSeqProperties
    <3> QED BY <1>1, <1>3, <3>2
  <2>2. /\ SubSeq(list, i + 1, n) \in Seq(Items) /\ Len(SubSeq(list, i + 1, n)) = n - i
        /\ \A k \in 1 .. n - i : SubSeq(list, i + 1, n)[k] = list[i + k]
    <3>1. \A k \in i + 1 .. n : list[k] \in Items
      BY <1>1, <1>3
    <3>2. /\ SubSeq(list, i + 1, n) \in Seq(Items)
          /\ Len(SubSeq(list, i + 1, n)) = IF i + 1 <= n THEN n - (i + 1) + 1 ELSE 0
          /\ \A k \in 1 .. n - (i + 1) + 1 : SubSeq(list, i + 1, n)[k] = list[i + 1 + k - 1]
      BY <1>1, <1>3, <3>1, SubSeqProperties
    <3>3. \A k \in 1 .. n - i : i + 1 + k - 1 = i + k
      BY <1>1, <1>3
    <3> QED BY <1>1, <1>3, <3>2, <3>3
  <2>3. /\ r \in Seq(Items) /\ Len(r) = (i - 1) + (n - i)
        /\ \A k \in 1 .. (i - 1) + (n - i) :
             r[k] = IF k <= i - 1 THEN SubSeq(list, 1, i - 1)[k]
                    ELSE SubSeq(list, i + 1, n)[k - (i - 1)]
    <3> DEFINE a == SubSeq(list, 1, i - 1)
               b == SubSeq(list, i + 1, n)
    <3>1. /\ a \in Seq(Items) /\ Len(a) = i - 1 /\ b \in Seq(Items) /\ Len(b) = n - i
          /\ r = a \o b
      BY <1>5, <2>1, <2>2
    <3> HIDE DEF a, b
    <3>2. /\ r \in Seq(Items) /\ Len(r) = Len(a) + Len(b)
          /\ \A k \in 1 .. Len(a) + Len(b) : r[k] = IF k <= Len(a) THEN a[k] ELSE b[k - Len(a)]
      BY <3>1, ConcatProperties
    <3> QED BY <3>1, <3>2 DEF a, b
  <2>4. ASSUME NEW k \in 1 .. n - 1
        PROVE  r[k] = IF k < i THEN list[k] ELSE list[k + 1]
    <3>1. CASE k < i
      BY <1>1, <1>3, <2>1, <2>3, <3>1
    <3>2. CASE ~(k < i)
      <4>1. k - (i - 1) \in 1 .. n - i /\ i + (k - (i - 1)) = k + 1 /\ ~(k <= i - 1)
            /\ k \in 1 .. (i - 1) + (n - i)
        BY <1>1, <1>3, <3>2
      <4> QED BY <2>2, <2>3, <3>2, <4>1
    <3> QED BY <3>1, <3>2
  <2> QED BY <1>1, <1>3, <2>3, <2>4
<1>7. DOMAIN r = 1 .. n - 1
  BY <1>6, LenProperties
<1>8. ToSet(r) = ToSet(list) \ {t}
  <2>1. ASSUME NEW k \in 1 .. n - 1 PROVE \E l \in 1 .. n : r[k] = list[l] /\ list[l] # t
    <3>1. CASE k < i
      BY <1>1, <1>3, <1>4, <1>6, <3>1
    <3>2. CASE ~(k < i)
      <4>1. k + 1 \in 1 .. n /\ k + 1 # i
        BY <1>1, <1>3, <3>2
      <4> QED BY <1>3, <1>4, <1>6, <3>2, <4>1
    <3> QED BY <3>1, <3>2
  <2>2. ASSUME NEW k \in 1 .. n, list[k] # t PROVE \E l \in 1 .. n - 1 : r[l] = list[k]
    <3>1. CASE k < i
      BY <1>1, <1>3, <1>6, <3>1
    <3>2. CASE k > i
      <4>1. k - 1 \in 1 .. n - 1 /\ ~(k - 1 < i) /\ (k - 1) + 1 = k
        BY <1>1, <1>3, <3>2
      <4> QED BY <1>6, <4>1
    <3> QED BY <1>1, <1>3, <2>2, <3>1, <3>2
  <2>3. ToSet(r) = {r[k] : k \in 1 .. n - 1} /\ ToSet(list) = {list[k] : k \in 1 .. n}
    BY <1>1, <1>7 DEF ToSet
  <2> QED BY <2>1, <2>2, <2>3
<1>9. ASSUME NEW k \in 1 .. n - 1, NEW l \in 1 .. n - 1, r[k] = r[l] PROVE k = l
  <2>1. ASSUME NEW j \in 1 .. n - 1
        PROVE  /\ j < i => j \in 1 .. n /\ r[j] = list[j]
               /\ ~(j < i) => j + 1 \in 1 .. n /\ r[j] = list[j + 1]
    BY <1>1, <1>6
  <2>2. CASE k < i /\ l < i
    BY <1>4, <1>9, <2>1, <2>2
  <2>3. CASE ~(k < i) /\ ~(l < i)
    <3>1. k + 1 = l + 1
      BY <1>4, <1>9, <2>1, <2>3
    <3> QED BY <3>1
  <2>4. CASE k < i /\ ~(l < i)
    <3>1. k = l + 1
      BY <1>4, <1>9, <2>1, <2>4
    <3> QED BY <1>3, <2>4, <3>1
  <2>5. CASE ~(k < i) /\ l < i
    <3>1. k + 1 = l
      BY <1>4, <1>9, <2>1, <2>5
    <3> QED BY <1>3, <2>5, <3>1
  <2> QED BY <2>2, <2>3, <2>4, <2>5
<1>10. END \in ToSet(r)
  BY <1>8 DEF Circular, Members
<1>11. Circular(r)
  BY <1>6, <1>7, <1>9, <1>10 DEF Circular
<1> QED BY <1>5, <1>8, <1>11, RotateBackList

(***************************************************************************)
(* The ready lists: who is in them.                                        *)
(***************************************************************************)
LEMMA ReadyMembers ==
  ASSUME NEW r, Lists(r)
  PROVE  /\ ReadyTasks(r) \subseteq Tasks
         /\ \A t \in Tasks : t \in ReadyTasks(r) <=> t \in Members(r[Prio[t]])
         /\ \A t \in Tasks, p \in Priorities : t \in Members(r[p]) => Prio[t] = p
<1>1. ASSUME NEW p \in Priorities
      PROVE  Members(r[p]) \subseteq Tasks /\ \A t \in Members(r[p]) : Prio[t] = p
  BY CircularItems DEF Lists
<1>2. \A t \in Tasks : Prio[t] \in Priorities
  BY PortAssumption
<1>3. ReadyTasks(r) \subseteq Tasks
  BY <1>1 DEF ReadyTasks
<1> QED BY <1>1, <1>2, <1>3 DEF ReadyTasks

(* Lists that are changed one by one.                                      *)
LEMMA ListsFrom ==
  ASSUME NEW r, r = [p \in Priorities |-> r[p]], NEW ts,
         \A p \in Priorities : /\ Circular(r[p])
                               /\ Members(r[p]) = {t \in ts : Prio[t] = p},
         ts \subseteq Tasks
  PROVE  Lists(r) /\ ReadyTasks(r) = ts
<1>1. Lists(r)
  BY DEF Lists
<1>2. \A t \in Tasks : Prio[t] \in Priorities
  BY PortAssumption
<1>3. ReadyTasks(r) = ts
  BY <1>2 DEF ReadyTasks
<1> QED BY <1>1, <1>3

LEMMA MembersByPriority ==
  ASSUME NEW r, Lists(r), NEW p \in Priorities
  PROVE  Members(r[p]) = {t \in ReadyTasks(r) : Prio[t] = p}
<1>1. ASSUME NEW t \in Members(r[p]) PROVE t \in ReadyTasks(r) /\ Prio[t] = p
  BY DEF Lists, ReadyTasks
<1>2. ASSUME NEW t \in ReadyTasks(r), Prio[t] = p PROVE t \in Members(r[p])
  BY <1>2, ReadyMembers
<1> QED BY <1>1, <1>2

LEMMA MakeReadyLists ==
  ASSUME NEW r, Lists(r), NEW t \in Tasks, t \notin ReadyTasks(r)
  PROVE  /\ Lists(MakeReady(r, Prio, t))
         /\ ReadyTasks(MakeReady(r, Prio, t)) = ReadyTasks(r) \cup {t}
<1> DEFINE s == MakeReady(r, Prio, t)
<1>1. Prio[t] \in Priorities /\ t # END
  BY PortAssumption
<1>2. DOMAIN r = Priorities /\ \A p \in Priorities : Circular(r[p])
  BY DEF Lists
<1>3. /\ s = [p \in Priorities |-> s[p]]
      /\ \A p \in Priorities : s[p] = IF p = Prio[t] THEN Append(r[p], t) ELSE r[p]
  BY <1>1, <1>2 DEF MakeReady
<1>4. t \notin ToSet(r[Prio[t]])
  BY <1>1, ReadyMembers DEF Members
<1>5. ASSUME NEW p \in Priorities
      PROVE  Circular(s[p]) /\ Members(s[p]) = {u \in ReadyTasks(r) \cup {t} : Prio[u] = p}
  <2>1. Members(r[p]) = {u \in ReadyTasks(r) : Prio[u] = p}
    BY MembersByPriority
  <2>2. CASE p = Prio[t]
    <3>1. Circular(s[p]) /\ ToSet(s[p]) = ToSet(r[p]) \cup {t}
      BY ZenonT(60), <1>2, <1>3, <1>4, <2>2, AppendList
    <3>2. Members(s[p]) = Members(r[p]) \cup {t}
      BY <1>1, <3>1 DEF Members
    <3>3. {u \in ReadyTasks(r) \cup {t} : Prio[u] = p} = Members(r[p]) \cup {t}
      BY <2>1, <2>2
    <3> QED BY <3>1, <3>2, <3>3
  <2>3. CASE p # Prio[t]
    BY <1>2, <1>3, <2>1, <2>3
  <2> QED BY <2>2, <2>3
<1> DEFINE ts == ReadyTasks(r) \cup {t}
<1>6. ts \subseteq Tasks
  BY ReadyMembers
<1>7. \A p \in Priorities : Circular(s[p]) /\ Members(s[p]) = {u \in ts : Prio[u] = p}
  BY <1>5
<1> HIDE DEF s, ts
<1>8. Lists(s) /\ ReadyTasks(s) = ts
  <2>1. s = [p \in Priorities |-> s[p]]
    BY <1>3
  <2> QED BY <2>1, <1>6, <1>7, ListsFrom, Zenon
<1> QED BY <1>8 DEF s, ts

LEMMA MakeAllReadyLists ==
  ASSUME NEW r, Lists(r), NEW ts \in SUBSET Tasks, ts \cap ReadyTasks(r) = {}
  PROVE  /\ Lists(MakeAllReady(r, Prio, ts))
         /\ ReadyTasks(MakeAllReady(r, Prio, ts)) = ReadyTasks(r) \cup ts
<1> DEFINE s == MakeAllReady(r, Prio, ts)
           due(p) == {t \in ts : Prio[t] = p}
<1>1. /\ s = [p \in Priorities |-> s[p]]
      /\ \A p \in Priorities : s[p] = r[p] \o SetToSeq(due(p))
  BY DEF MakeAllReady
<1>2. ASSUME NEW p \in Priorities
      PROVE  Circular(s[p]) /\ Members(s[p]) = {u \in ReadyTasks(r) \cup ts : Prio[u] = p}
  <2>1. Circular(r[p]) /\ Members(r[p]) = {u \in ReadyTasks(r) : Prio[u] = p}
    BY MembersByPriority DEF Lists
  <2>2. IsFiniteSet(due(p)) /\ due(p) \subseteq Tasks /\ END \notin due(p)
    <3>1. due(p) \in SUBSET Tasks /\ IsFiniteSet(Tasks)
      BY PortAssumption
    <3> QED BY <3>1, FS_Subset, PortAssumption
  <2> DEFINE q == SetToSeq(due(p))
  <2>3. /\ q \in Seq(due(p)) /\ ToSet(q) = due(p)
        /\ \A i, j \in DOMAIN q : q[i] = q[j] => i = j
    BY <2>2, SetAsSequence
  <2>4. q \in Seq(Tasks)
    BY <2>2, <2>3, SeqMonotonic
  <2>5. ToSet(q) \cap ToSet(r[p]) = {}
    BY <2>1, <2>2, <2>3 DEF Members
  <2>6. Circular(r[p] \o q) /\ ToSet(r[p] \o q) = ToSet(r[p]) \cup ToSet(q)
    <3> HIDE DEF q
    <3> QED BY <2>1, <2>3, <2>4, <2>5, ConcatList
  <2>7. Circular(s[p]) /\ ToSet(s[p]) = ToSet(r[p]) \cup due(p)
    BY <1>1, <2>3, <2>6
  <2>8. Members(s[p]) = Members(r[p]) \cup due(p)
    BY <2>2, <2>7 DEF Members
  <2> QED BY <2>1, <2>7, <2>8
<1>3. ReadyTasks(r) \cup ts \subseteq Tasks
  BY ReadyMembers
<1> HIDE DEF s
<1>4. Lists(s) /\ ReadyTasks(s) = ReadyTasks(r) \cup ts
  BY <1>1, <1>2, <1>3, ListsFrom
<1> QED BY <1>4 DEF s

LEMMA UnreadyLists ==
  ASSUME NEW r, Lists(r), NEW t \in ReadyTasks(r)
  PROVE  /\ Lists(Unready(r, Prio, t))
         /\ ReadyTasks(Unready(r, Prio, t)) = ReadyTasks(r) \ {t}
<1> DEFINE s == Unready(r, Prio, t)
<1>1. t \in Tasks /\ Prio[t] \in Priorities /\ t # END
  BY ReadyMembers, PortAssumption
<1>2. DOMAIN r = Priorities /\ \A p \in Priorities : Circular(r[p])
  BY DEF Lists
<1>3. /\ s = [p \in Priorities |-> s[p]]
      /\ \A p \in Priorities : s[p] = IF p = Prio[t] THEN Unlink(r[p], t) ELSE r[p]
  BY <1>1, <1>2 DEF Unready
<1>4. t \in Members(r[Prio[t]])
  BY <1>1, ReadyMembers
<1>5. ASSUME NEW p \in Priorities
      PROVE  Circular(s[p]) /\ Members(s[p]) = {u \in ReadyTasks(r) \ {t} : Prio[u] = p}
  <2>1. Members(r[p]) = {u \in ReadyTasks(r) : Prio[u] = p}
    BY MembersByPriority
  <2>2. CASE p = Prio[t]
    <3>1. Circular(s[p]) /\ ToSet(s[p]) = ToSet(r[p]) \ {t}
      BY <1>2, <1>3, <1>4, <2>2, UnlinkList
    <3> QED BY <1>1, <2>1, <2>2, <3>1 DEF Members
  <2>3. CASE p # Prio[t]
    BY <1>2, <1>3, <2>1, <2>3
  <2> QED BY <2>2, <2>3
<1> DEFINE ts == ReadyTasks(r) \ {t}
<1>6. ts \subseteq Tasks
  BY ReadyMembers
<1>7. \A p \in Priorities : Circular(s[p]) /\ Members(s[p]) = {u \in ts : Prio[u] = p}
  BY <1>5
<1> HIDE DEF s, ts
<1>8. Lists(s) /\ ReadyTasks(s) = ts
  <2>1. s = [p \in Priorities |-> s[p]]
    BY <1>3
  <2> QED BY <2>1, <1>6, <1>7, ListsFrom, Zenon
<1> QED BY <1>8 DEF s, ts

(* A finite set of priorities has a highest.                               *)
LEMMA HighestOf ==
  ASSUME NEW S \in SUBSET Nat, IsFiniteSet(S), S # {}
  PROVE  \E m \in S : \A q \in S : q <= m
<1> DEFINE Above(p) == {q \in S : q > p}
           U == {Above(p) : p \in S}
<1>1. U \subseteq FiniteSubsetsOf(S) /\ U # {}
  <2>1. \A p \in S : Above(p) \in SUBSET S
    OBVIOUS
  <2>2. FiniteSubsetsOf(S) = SUBSET S
    BY FS_FiniteSubsetsOfFinite
  <2> HIDE DEF Above
  <2>3. \A x \in U : x \in SUBSET S
    BY <2>1
  <2>4. U # {}
    OBVIOUS
  <2> QED BY <2>2, <2>3, <2>4
<1>2. PICK x \in U : \A y \in U : <<y, x>> \notin StrictSubsetOrdering(S)
  BY <1>1, FS_StrictSubsetOrderingWellFounded, WFMin
<1>3. PICK m \in S : x = Above(m)
  BY <1>2
<1>4. ASSUME NEW q \in S PROVE q <= m
  <2> SUFFICES ASSUME q > m PROVE FALSE
    OBVIOUS
  <2>1. Above(q) \subseteq Above(m)
    <3>1. q \in Nat /\ m \in Nat /\ \A p \in S : p \in Nat
      OBVIOUS
    <3>2. \A p \in S : p > q => p > m
      BY <3>1
    <3> QED BY <3>2
  <2>2. q \in Above(m) /\ q \notin Above(q)
    OBVIOUS
  <2>3. Above(q) \in U /\ Above(q) \in SUBSET S /\ Above(m) \in SUBSET S
    OBVIOUS
  <2>4. Above(q) # Above(m)
    BY <2>2
  <2> HIDE DEF Above, U
  <2>5. <<Above(q), x>> \in StrictSubsetOrdering(S)
    BY <1>3, <2>1, <2>3, <2>4 DEF StrictSubsetOrdering
  <2> QED BY <1>2, <2>3, <2>5
<1> QED BY <1>4

(* vTaskSwitchContext takes a task of the highest ready priority.          *)
LEMMA SwitchLists ==
  ASSUME NEW r, Lists(r), ReadyTasks(r) # {}
  PROVE  /\ Lists(SwitchedLists(r)) /\ ReadyTasks(SwitchedLists(r)) = ReadyTasks(r)
         /\ SwitchedTo(r) \in ReadyTasks(r)
         /\ \A t \in ReadyTasks(r) : Prio[t] <= Prio[SwitchedTo(r)]
<1> DEFINE top == TopPriority(r)
           s == SwitchedLists(r)
           S == {p \in Priorities : Members(r[p]) # {}}
<1>1. S \in SUBSET Nat /\ IsFiniteSet(S) /\ S # {}
  <2>1. S \in SUBSET Priorities /\ IsFiniteSet(Priorities) /\ Priorities \subseteq Nat
    BY ReadyListsAssumption
  <2>2. IsFiniteSet(S)
    BY <2>1, FS_Subset
  <2>3. S # {}
    BY DEF ReadyTasks
  <2> QED BY <2>1, <2>2, <2>3
<1>2. \E p \in Priorities : /\ Members(r[p]) # {}
                            /\ \A q \in Priorities : Members(r[q]) # {} => q <= p
  <2>1. PICK m \in S : \A q \in S : q <= m
    BY <1>1, HighestOf
  <2> QED BY <2>1
<1>3. /\ top \in Priorities /\ Members(r[top]) # {}
      /\ \A q \in Priorities : Members(r[q]) # {} => q <= top
  BY <1>2 DEF TopPriority
<1> HIDE DEF top
<1>4. DOMAIN r = Priorities /\ \A p \in Priorities : Circular(r[p])
  BY DEF Lists
<1>5. /\ s = [p \in Priorities |-> s[p]]
      /\ \A p \in Priorities : s[p] = IF p = top THEN Advance(r[p]) ELSE r[p]
  BY <1>3, <1>4 DEF SwitchedLists, top
<1>6. /\ Circular(s[top]) /\ ToSet(s[top]) = ToSet(r[top])
      /\ Head(s[top]) \in Members(r[top])
  BY <1>3, <1>4, <1>5, AdvanceList
<1>7. ASSUME NEW p \in Priorities
      PROVE  Circular(s[p]) /\ Members(s[p]) = {u \in ReadyTasks(r) : Prio[u] = p}
  <2>1. Members(r[p]) = {u \in ReadyTasks(r) : Prio[u] = p}
    BY MembersByPriority
  <2>2. CASE p = top
    BY <1>6, <2>1, <2>2 DEF Members
  <2>3. CASE p # top
    BY <1>4, <1>5, <2>1, <2>3
  <2> QED BY <2>2, <2>3
<1>8. SwitchedTo(r) = Head(s[top])
  BY DEF SwitchedTo, top
<1>9. SwitchedTo(r) \in ReadyTasks(r) /\ Prio[SwitchedTo(r)] = top
  BY <1>3, <1>6, <1>8, MembersByPriority
<1>10. ASSUME NEW t \in ReadyTasks(r) PROVE Prio[t] <= top
  <2>1. t \in Tasks /\ Prio[t] \in Priorities /\ t \in Members(r[Prio[t]])
    BY ReadyMembers, PortAssumption
  <2> QED BY <1>3, <2>1
<1>11. ReadyTasks(r) \subseteq Tasks
  BY ReadyMembers
<1>12. Lists(s) /\ ReadyTasks(s) = ReadyTasks(r)
  <2> HIDE DEF s
  <2> QED BY <1>5, <1>7, <1>11, ListsFrom
<1> QED BY <1>9, <1>10, <1>12

(* The lists at the start hold every task.                                 *)
LEMMA InitLists ==
  ASSUME NEW r, r = [p \in Priorities |-> <<END>> \o SetToSeq({t \in Tasks : Prio[t] = p})]
  PROVE  Lists(r) /\ ReadyTasks(r) = Tasks
<1> DEFINE empty == [p \in Priorities |-> <<END>>]
<1>1. Circular(<<END>>) /\ Members(<<END>>) = {}
  <2> DEFINE e == <<END>>
  <2>1. e \in Seq(Items) /\ DOMAIN e = {1} /\ e[1] = END
    BY DEF Items
  <2> HIDE DEF e
  <2>2. Circular(e) /\ Members(e) = {}
    BY <2>1 DEF Circular, Members, ToSet
  <2> QED BY <2>2 DEF e
<1>2. Lists(empty) /\ ReadyTasks(empty) = {}
  BY <1>1 DEF Lists, ReadyTasks
<1>3. r = MakeAllReady(empty, Prio, Tasks)
  BY DEF MakeAllReady
<1> HIDE DEF empty
<1> QED BY ZenonT(60), <1>2, <1>3, MakeAllReadyLists

(***************************************************************************)
(* Types, masks and the suspended scheduler, action by action.             *)
(***************************************************************************)
Where == FlagTypes /\ MaskedWhere /\ TrapDepth /\ SuspendedWhere

LEMMA PlaceInit == Init => Where
<1> SUFFICES ASSUME Init PROVE Where
  OBVIOUS
<1>1. /\ mie = FALSE /\ mtie = FALSE /\ trap = "raise_lo" /\ cause = "none"
      /\ mpie = [t \in Tasks |-> TRUE] /\ freertos_trap_depth = 0
      /\ freertos_yield_pending = FALSE /\ suspended = FALSE /\ xYieldPending = FALSE
      /\ blocks = [t \in Tasks |-> FALSE] /\ pxCurrentTCB = First
      /\ pc = [t \in Tasks |-> "app"] /\ ret = [t \in Tasks |-> "app"]
      /\ First \in Tasks /\ Idle \in Tasks
  BY PortAssumption DEF Init, pxPortInitialiseStack
<1>2. FlagTypes
  <2>1. mpie \in [Tasks -> BOOLEAN] /\ blocks \in [Tasks -> BOOLEAN]
    BY <1>1, Zenon
  <2>2. /\ mie \in BOOLEAN /\ mtie \in BOOLEAN /\ freertos_yield_pending \in BOOLEAN
        /\ suspended \in BOOLEAN /\ xYieldPending \in BOOLEAN
    BY <1>1, Zenon
  <2> QED BY <1>1, <2>1, <2>2, Zenon DEF FlagTypes, TrapPlaces, SetCompareParts
<1>3. MaskedWhere /\ TrapDepth /\ SuspendedWhere
  BY <1>1, SMT DEF MaskedWhere, TrapDepth, SuspendedWhere, FromTimer, Closed, InSuspend, SetCompareParts
<1> QED BY <1>2, <1>3 DEF Where

LEMMA FlagSet ==
  ASSUME NEW f \in [Tasks -> BOOLEAN], NEW c \in Tasks, NEW b \in BOOLEAN
  PROVE  [f EXCEPT ![c] = b] \in [Tasks -> BOOLEAN]
OBVIOUS

LEMMA FlagsOfTask ==
  ASSUME FlagTypes, NEW t \in Tasks, KernelStep(t) \/ TaskChoice(t)
  PROVE  FlagTypes'
<1>1. /\ mie' \in BOOLEAN /\ mtie' \in BOOLEAN /\ freertos_yield_pending' \in BOOLEAN
      /\ suspended' \in BOOLEAN
  BY Zenon DEF KernelStep, TaskChoice, ExitCritical, Enable, CheckPending, ClearPending, Yield,
   LookWhether, Delay, DontBlock, ResumeAll, CatchUpTick, FinishResume, YieldBlocked, ReadHi0,
   ReadLo, ReadHi1, BeginCritical, NestCritical, Give, TaskYield, SuspendAll, BeginNow,
   EnterCritical, Ecall, EnterTrap, NowUnchanged, Call, portVars, tickVars, taskVars,
   listVars, FlagTypes
<1>2. xYieldPending' \in BOOLEAN /\ blocks' \in [Tasks -> BOOLEAN]
  BY FlagSet, Zenon DEF KernelStep, TaskChoice, ExitCritical, Enable, CheckPending, ClearPending, Yield,
   LookWhether, Delay, DontBlock, ResumeAll, CatchUpTick, FinishResume, YieldBlocked, ReadHi0,
   ReadLo, ReadHi1, BeginCritical, NestCritical, Give, TaskYield, SuspendAll, BeginNow,
   EnterCritical, Ecall, EnterTrap, NowUnchanged, Call, portVars, tickVars, taskVars,
   listVars, FlagTypes, TickSwitches
<1>3. mpie' \in [Tasks -> BOOLEAN] /\ pxCurrentTCB' \in Tasks
  BY FlagSet, Zenon DEF KernelStep, TaskChoice, ExitCritical, Enable, CheckPending, ClearPending, Yield,
   LookWhether, Delay, DontBlock, ResumeAll, CatchUpTick, FinishResume, YieldBlocked, ReadHi0,
   ReadLo, ReadHi1, BeginCritical, NestCritical, Give, TaskYield, SuspendAll, BeginNow,
   EnterCritical, Ecall, EnterTrap, NowUnchanged, Call, portVars, tickVars, taskVars,
   listVars, FlagTypes
<1>4. trap' \in TrapPlaces /\ cause' \in {"none", "ecall", "timer"}
  BY Zenon DEF KernelStep, TaskChoice, ExitCritical, Enable, CheckPending, ClearPending, Yield,
   LookWhether, Delay, DontBlock, ResumeAll, CatchUpTick, FinishResume, YieldBlocked, ReadHi0,
   ReadLo, ReadHi1, BeginCritical, NestCritical, Give, TaskYield, SuspendAll, BeginNow,
   EnterCritical, Ecall, EnterTrap, NowUnchanged, Call, portVars, tickVars, taskVars,
   listVars, FlagTypes, TrapPlaces
<1> QED BY <1>1, <1>2, <1>3, <1>4, Zenon DEF FlagTypes

LEMMA FlagsOfTrap ==
  ASSUME FlagTypes, pxCurrentTCB' \in Tasks, TimerInterrupt \/ TrapStep
  PROVE  FlagTypes'
<1>1. /\ mie' \in BOOLEAN /\ mtie' \in BOOLEAN /\ freertos_yield_pending' \in BOOLEAN
      /\ suspended' \in BOOLEAN
  BY Zenon DEF TimerInterrupt, TrapStep, DispatchEcall, DispatchTimer, SetComparePart, Tick, Restore,
     EnterTrap, tickVars, FlagTypes
<1>2. xYieldPending' \in BOOLEAN /\ blocks' \in [Tasks -> BOOLEAN]
  BY Zenon DEF TimerInterrupt, TrapStep, DispatchEcall, DispatchTimer, SetComparePart, Tick, Restore,
     EnterTrap, SwitchContext, tickVars, taskVars, FlagTypes
<1>3. mpie' \in [Tasks -> BOOLEAN]
  BY FlagSet, Zenon DEF TimerInterrupt, TrapStep, DispatchEcall, DispatchTimer, SetComparePart, Tick, Restore,
     EnterTrap, FlagTypes
<1>4. trap' \in TrapPlaces /\ cause' \in {"none", "ecall", "timer"}
  <2>1. CASE TimerInterrupt \/ DispatchEcall \/ DispatchTimer \/ Tick \/ Restore
    BY <2>1, Zenon DEF TimerInterrupt, DispatchEcall, DispatchTimer, Tick, Restore, EnterTrap,
       FlagTypes, TrapPlaces, SetCompareParts
  <2>2. CASE SetComparePart
    BY <2>2, SMT DEF SetComparePart, FlagTypes, TrapPlaces, SetCompareParts
  <2> QED BY <2>1, <2>2 DEF TrapStep
<1> QED BY <1>1, <1>2, <1>3, <1>4, Zenon DEF FlagTypes

LEMMA IdleIsATask == Idle \in Tasks
BY PortAssumption

LEMMA PlaceEnter ==
  ASSUME PlaceInv, NEW t \in Tasks,
         BeginCritical(t) \/ NestCritical(t) \/ LookWhether(t) \/ ResumeAll(t)
  PROVE  MaskedWhere' /\ TrapDepth' /\ SuspendedWhere'
<1>1. MaskedWhere'
  <2>1. CASE BeginCritical(t) \/ NestCritical(t)
    BY <2>1, SMT DEF BeginCritical, NestCritical, EnterCritical, Call, Runs, Goto, listVars,
       PlaceInv, FlagTypes, MaskedWhere, CriticalInv, PlaceTypes, Closed, FromTimer,
       SetCompareParts
  <2>2. CASE LookWhether(t) \/ ResumeAll(t)
    BY <2>2, SMT DEF LookWhether, ResumeAll, EnterCritical, Runs, Goto, listVars,
       PlaceInv, FlagTypes, MaskedWhere, CriticalInv, PlaceTypes, Closed, FromTimer,
       SetCompareParts
  <2> QED BY <2>1, <2>2
<1>2. TrapDepth'
  BY SMT DEF BeginCritical, NestCritical, LookWhether, ResumeAll, EnterCritical, Call, Runs, Goto,
     PlaceInv, TrapDepth
<1>3. SuspendedWhere'
  <2>1. CASE BeginCritical(t) \/ NestCritical(t)
    BY <2>1, IdleIsATask, SMT DEF BeginCritical, NestCritical, EnterCritical, Call, Runs, Goto,
       listVars, tickVars, PlaceInv, SuspendedWhere, CriticalInv, PlaceTypes, InSuspend
  <2>2. CASE LookWhether(t) \/ ResumeAll(t)
    BY <2>2, IdleIsATask, SMT DEF LookWhether, ResumeAll, EnterCritical, Runs, Goto,
       listVars, tickVars, PlaceInv, SuspendedWhere, CriticalInv, PlaceTypes, InSuspend
  <2> QED BY <2>1, <2>2
<1> QED BY <1>1, <1>2, <1>3

LEMMA PlaceExit ==
  ASSUME PlaceInv, NEW t \in Tasks,
         ExitCritical(t) \/ Enable(t) \/ CheckPending(t) \/ ClearPending(t)
  PROVE  MaskedWhere' /\ TrapDepth' /\ SuspendedWhere'
<1>1. MaskedWhere'
  BY SMT DEF ExitCritical, Enable, CheckPending, ClearPending, Runs, Goto, portVars, listVars,
     PlaceInv, FlagTypes, MaskedWhere, CriticalInv, PlaceTypes, Closed, FromTimer, Returns
<1>2. TrapDepth'
  BY SMT DEF ExitCritical, Enable, CheckPending, ClearPending, portVars, PlaceInv, TrapDepth
<1>3. SuspendedWhere'
  <2>1. CASE ExitCritical(t)
    BY <2>1, IdleIsATask, SMT DEF ExitCritical, Runs, Goto, listVars, tickVars,
       PlaceInv, SuspendedWhere, CriticalInv, PlaceTypes, InSuspend, Returns
  <2>2. CASE Enable(t) \/ CheckPending(t) \/ ClearPending(t)
    BY <2>2, IdleIsATask, SMT DEF Enable, CheckPending, ClearPending, Runs, Goto, listVars, tickVars,
       PlaceInv, SuspendedWhere, CriticalInv, PlaceTypes, InSuspend, Returns
  <2> QED BY <2>1, <2>2
<1> QED BY <1>1, <1>2, <1>3

LEMMA PlaceYield ==
  ASSUME PlaceInv, NEW t \in Tasks,
         Yield(t) \/ TaskYield(t) \/ FinishResume(t) \/ YieldBlocked(t)
         \/ \E u \in Tasks : Give(t, u)
  PROVE  MaskedWhere' /\ TrapDepth' /\ SuspendedWhere'
<1>1. MaskedWhere'
  BY SMT DEF Yield, TaskYield, FinishResume, YieldBlocked, Give, Ecall, EnterTrap, Call, Runs, Goto,
     portVars, listVars, taskVars, SetCompareParts,
     PlaceInv, FlagTypes, MaskedWhere, CriticalInv, PlaceTypes, Closed, FromTimer, Returns
<1>2. TrapDepth'
  BY SMT DEF Yield, TaskYield, FinishResume, YieldBlocked, Give, Ecall, EnterTrap, Call, Runs,
     portVars, PlaceInv, TrapDepth
<1>3. SuspendedWhere'
  <2>1. CASE Yield(t) \/ FinishResume(t) \/ YieldBlocked(t)
    BY <2>1, IdleIsATask, SMT DEF Yield, FinishResume, YieldBlocked, Runs, Goto,
       portVars, listVars, tickVars,
       PlaceInv, SuspendedWhere, CriticalInv, PlaceTypes, InSuspend, Returns
  <2>2. CASE TaskYield(t) \/ \E u \in Tasks : Give(t, u)
    BY <2>2, IdleIsATask, SMT DEF TaskYield, Give, Runs, listVars, tickVars, taskVars,
       PlaceInv, SuspendedWhere, InSuspend
  <2> QED BY <2>1, <2>2
<1> QED BY <1>1, <1>2, <1>3

LEMMA PlaceMove ==
  ASSUME PlaceInv, NEW t \in Tasks,
         \/ SuspendAll(t) \/ Delay(t) \/ DontBlock(t) \/ CatchUpTick(t)
         \/ BeginNow(t) \/ ReadHi0(t) \/ ReadLo(t) \/ ReadHi1(t)
  PROVE  MaskedWhere' /\ TrapDepth' /\ SuspendedWhere'
<1>1. MaskedWhere'
  BY SMT DEF SuspendAll, Delay, DontBlock, CatchUpTick, BeginNow, ReadHi0, ReadLo, ReadHi1,
     NowUnchanged, Call, Runs, Goto, portVars, listVars, taskVars,
     PlaceInv, FlagTypes, MaskedWhere, CriticalInv, PlaceTypes, Closed, FromTimer
<1>2. TrapDepth'
  BY SMT DEF SuspendAll, Delay, DontBlock, CatchUpTick, BeginNow, ReadHi0, ReadLo, ReadHi1,
     NowUnchanged, portVars, PlaceInv, TrapDepth
<1>3. SuspendedWhere'
  <2>1. CASE SuspendAll(t) \/ Delay(t) \/ DontBlock(t) \/ CatchUpTick(t)
    BY <2>1, IdleIsATask, SMT DEF SuspendAll, Delay, DontBlock, CatchUpTick, Call, Runs, Goto, portVars,
       listVars, tickVars, taskVars,
       PlaceInv, SuspendedWhere, CriticalInv, PlaceTypes, InSuspend, Returns
  <2>2. CASE BeginNow(t) \/ ReadHi0(t) \/ ReadLo(t) \/ ReadHi1(t)
    BY <2>2, IdleIsATask, SMT DEF BeginNow, ReadHi0, ReadLo, ReadHi1, NowUnchanged, Call, Runs, Goto, 
       listVars, tickVars,
       PlaceInv, SuspendedWhere, CriticalInv, PlaceTypes, InSuspend, Returns
  <2> QED BY <2>1, <2>2
<1> QED BY <1>1, <1>2, <1>3

LEMMA PlaceTrap ==
  ASSUME PlaceInv, pxCurrentTCB' \in Tasks, TimerInterrupt \/ TrapStep
  PROVE  MaskedWhere' /\ TrapDepth' /\ SuspendedWhere'
<1>1. CASE TimerInterrupt
  <2>1. MaskedWhere'
    BY <1>1, SMT DEF TimerInterrupt, EnterTrap, listVars, taskVars, PlaceInv, FlagTypes, MaskedWhere,
       Closed, FromTimer, SetCompareParts
  <2>2. TrapDepth' /\ SuspendedWhere'
    BY <1>1, SMT DEF TimerInterrupt, EnterTrap, listVars, tickVars, taskVars, PlaceInv, TrapDepth,
       SuspendedWhere, InSuspend
  <2> QED BY <2>1, <2>2
<1>2. CASE DispatchEcall
  <2>1. MaskedWhere'
    BY <1>2, SMT DEF DispatchEcall, SwitchContext, taskVars, PlaceInv, FlagTypes, MaskedWhere,
       Closed, FromTimer, SetCompareParts
  <2>2. TrapDepth'
    BY <1>2, SMT DEF DispatchEcall, PlaceInv, TrapDepth
  <2>3. SuspendedWhere'
    BY <1>2, SMT DEF DispatchEcall, SwitchContext, taskVars, PlaceInv,
       SuspendedWhere, InSuspend
  <2> QED BY <2>1, <2>2, <2>3
<1>3. CASE DispatchTimer
  BY <1>3, SMT DEF DispatchTimer, listVars, tickVars, taskVars,
     PlaceInv, MaskedWhere, TrapDepth, SuspendedWhere, FromTimer, InSuspend, SetCompareParts
<1>4. CASE SetComparePart
  BY <1>4, SMT DEF SetComparePart, SetCompareParts, listVars, tickVars, taskVars,
     PlaceInv, MaskedWhere, TrapDepth, SuspendedWhere, FromTimer, InSuspend
<1>5. CASE Tick
  <2>1. MaskedWhere'
    BY <1>5, SMT DEF Tick, taskVars, PlaceInv, FlagTypes, MaskedWhere,
       Closed, FromTimer, SetCompareParts
  <2>2. TrapDepth'
    BY <1>5, SMT DEF Tick, PlaceInv, TrapDepth
  <2>3. SuspendedWhere'
    BY <1>5, SMT DEF Tick, taskVars, PlaceInv, SuspendedWhere, InSuspend
  <2> QED BY <2>1, <2>2, <2>3
<1>6. CASE Restore
  BY <1>6, SMT DEF Restore, listVars, tickVars, taskVars,
     PlaceInv, FlagTypes, MaskedWhere, TrapDepth, SuspendedWhere, FromTimer, Closed, InSuspend,
     SetCompareParts
<1> QED BY <1>1, <1>2, <1>3, <1>4, <1>5, <1>6 DEF TrapStep

(***************************************************************************)
(* The lists, action by action.                                            *)
(***************************************************************************)
LEMMA PriorityIsNat == \A t \in Tasks : Prio[t] \in Nat
BY PortAssumption, ReadyListsAssumption

LEMMA ListsFrame ==
  ASSUME ReadyInv, WaitInv, UNCHANGED <<ready, waiting, wake, xTickCount, xPendedTicks>>
  PROVE  ReadyInv' /\ WaitInv'
BY DEF ReadyInv, WaitInv, Lists, Circular, Items, Members, Ready, ReadyTasks

LEMMA ListsOfInit ==
  ASSUME Init
  PROVE  ReadyInv /\ WaitInv /\ Served
<1>1. Lists(ready) /\ Ready = Tasks
  BY InitLists DEF Init, Ready
<1>2. pxCurrentTCB = First /\ waiting = {} /\ wake = [t \in Tasks |-> NONE]
      /\ xTickCount = 0 /\ xPendedTicks = 0
  BY DEF Init
<1>3. First \in Tasks /\ Idle \in Tasks /\ \A t \in Tasks : Prio[t] <= Prio[First]
  BY PortAssumption
<1> QED BY <1>1, <1>2, <1>3 DEF ReadyInv, WaitInv, Served, NoneAbove

LEMMA ListsOfGive ==
  ASSUME ReadyInv, WaitInv, NEW t \in Tasks, NEW u \in Tasks, Give(t, u)
  PROVE  ReadyInv' /\ WaitInv' /\ Ready' = Ready \cup {u}
<1>1. /\ u \in waiting /\ waiting' = waiting \ {u} /\ ready' = MakeReady(ready, Prio, u)
      /\ wake' = [wake EXCEPT ![u] = NONE] /\ UNCHANGED <<xTickCount, xPendedTicks>>
  BY DEF Give, tickVars
<1>2. u \notin Ready /\ Idle \in Ready
  BY <1>1 DEF WaitInv
<1>3. Lists(ready') /\ Ready' = Ready \cup {u}
  BY <1>1, <1>2, MakeReadyLists DEF ReadyInv, Ready
<1>4. Ready \subseteq Tasks
  BY ReadyMembers DEF ReadyInv, Ready
<1>5. ReadyInv'
  BY <1>3 DEF ReadyInv, Lists, Circular, Items, Members
<1>6. WaitInv'
  BY <1>1, <1>2, <1>3, <1>4 DEF WaitInv
<1> QED BY <1>3, <1>5, <1>6

LEMMA ListsOfDelay ==
  ASSUME ReadyInv, WaitInv, NEW t \in Tasks, Delay(t), t \in Ready, t # Idle
  PROVE  ReadyInv' /\ WaitInv' /\ Ready' = Ready \ {t}
<1>1. /\ ready' = Unready(ready, Prio, t) /\ UNCHANGED <<xTickCount, xPendedTicks>>
      /\ \/ wake' = [wake EXCEPT ![t] = xTickCount + 1] /\ UNCHANGED waiting
         \/ waiting' = waiting \cup {t} /\ UNCHANGED wake
  BY DEF Delay, tickVars
<1>2. Lists(ready') /\ Ready' = Ready \ {t}
  BY <1>1, UnreadyLists DEF ReadyInv, Ready
<1>3. Ready \subseteq Tasks
  BY ReadyMembers DEF ReadyInv, Ready
<1>4. ReadyInv'
  BY <1>2 DEF ReadyInv, Lists, Circular, Items, Members
<1>5. WaitInv'
  BY <1>1, <1>2, <1>3 DEF WaitInv
<1> QED BY <1>2, <1>4, <1>5

(* The tasks whose delay ends with the next tick.                          *)
LEMMA ListsOfExpired ==
  ASSUME ReadyInv, WaitInv
  PROVE  /\ Lists(WithExpired) /\ ReadyTasks(WithExpired) = Ready \cup Expired
         /\ Ready \subseteq Tasks /\ Expired \subseteq Tasks
         /\ Expired \cap (Ready \cup waiting) = {}
<1>1. Ready \subseteq Tasks
  BY ReadyMembers DEF ReadyInv, Ready
<1>2. Expired \in SUBSET Tasks /\ Expired \cap (Ready \cup waiting) = {}
  BY PortAssumption DEF Expired, WaitInv
<1>3. Lists(WithExpired) /\ ReadyTasks(WithExpired) = Ready \cup Expired
  BY <1>2, MakeAllReadyLists DEF WithExpired, ReadyInv, Ready
<1> QED BY <1>1, <1>2, <1>3

LEMMA ListsAfterTick ==
  ASSUME ReadyInv, WaitInv, Wakes, UNCHANGED waiting,
         xTickCount' \in Nat, xPendedTicks' \in Nat,
         Lists(ready'), Ready' = Ready \cup Expired
  PROVE  ReadyInv' /\ WaitInv'
<1>1. /\ Ready \subseteq Tasks /\ Expired \subseteq Tasks
      /\ Expired \cap (Ready \cup waiting) = {}
  BY ListsOfExpired
<1>2. wake' = [t \in Tasks |-> IF t \in Expired THEN NONE ELSE wake[t]]
  BY DEF Wakes
<1>3. ReadyInv'
  BY DEF ReadyInv, Lists, Circular, Items, Members
<1>4. WaitInv'
  BY <1>1, <1>2 DEF WaitInv
<1> QED BY <1>3, <1>4

LEMMA ListsOfSwitch ==
  ASSUME NEW r, Lists(r), Idle \in ReadyTasks(r),
         ready' = SwitchedLists(r), pxCurrentTCB' = SwitchedTo(r)
  PROVE  /\ Lists(ready') /\ Ready' = ReadyTasks(r) /\ Served'
         /\ pxCurrentTCB' \in Tasks
<1>1. /\ Lists(SwitchedLists(r)) /\ ReadyTasks(SwitchedLists(r)) = ReadyTasks(r)
      /\ SwitchedTo(r) \in ReadyTasks(r)
      /\ \A t \in ReadyTasks(r) : Prio[t] <= Prio[SwitchedTo(r)]
  BY SwitchLists
<1>2. ReadyTasks(r) \subseteq Tasks
  BY ReadyMembers
<1> QED BY <1>1, <1>2 DEF Ready, Served, NoneAbove

LEMMA ListsOfDispatch ==
  ASSUME PlaceInv, ReadyInv, WaitInv, DispatchEcall
  PROVE  /\ ReadyInv' /\ WaitInv' /\ pxCurrentTCB' \in Tasks
         /\ \/ Served'
            \/ UNCHANGED <<pxCurrentTCB, ready>> /\ (suspended \/ ~mpie[pxCurrentTCB])
<1>1. UNCHANGED <<waiting, wake, xTickCount, xPendedTicks>>
  BY DEF DispatchEcall
<1>2. CASE UNCHANGED <<pxCurrentTCB, ready>> /\ (suspended \/ ~mpie[pxCurrentTCB])
  BY <1>1, <1>2, ListsFrame DEF PlaceInv, FlagTypes
<1>3. CASE pxCurrentTCB' = SwitchedTo(ready) /\ ready' = SwitchedLists(ready)
  <2>1. Lists(ready') /\ Ready' = Ready /\ Served' /\ pxCurrentTCB' \in Tasks
    BY <1>3, ListsOfSwitch DEF ReadyInv, WaitInv, Ready
  <2>2. ReadyInv'
    BY <2>1 DEF ReadyInv, Lists, Circular, Items, Members
  <2>3. WaitInv'
    BY <1>1, <2>1 DEF WaitInv
  <2> QED BY <2>1, <2>2, <2>3
<1> QED BY <1>2, <1>3 DEF DispatchEcall, SwitchContext

LEMMA ListsOfTick ==
  ASSUME PlaceInv, ReadyInv, WaitInv, Tick
  PROVE  /\ ReadyInv' /\ WaitInv' /\ pxCurrentTCB' \in Tasks
         /\ \/ Served'
            \/ UNCHANGED <<pxCurrentTCB, ready, xYieldPending>>
            \/ /\ UNCHANGED <<pxCurrentTCB, xYieldPending>> /\ Ready' = Ready \cup Expired
               /\ \A t \in Expired : ~(Prio[t] > Prio[pxCurrentTCB])
<1>1. UNCHANGED waiting /\ pxCurrentTCB \in Tasks
  BY DEF Tick, PlaceInv, FlagTypes
<1>2. CASE suspended
  <2>1. UNCHANGED <<pxCurrentTCB, ready, xYieldPending, wake, xTickCount>>
        /\ xPendedTicks' = xPendedTicks + 1
    BY <1>2 DEF Tick
  <2>2. ReadyInv' /\ WaitInv'
    BY <1>1, <2>1 DEF ReadyInv, WaitInv, Lists, Circular, Items, Members, Ready, ReadyTasks
  <2> QED BY <1>1, <2>1, <2>2
<1>3. CASE ~suspended
  <2>1. xTickCount' = xTickCount + 1 /\ Wakes /\ UNCHANGED xPendedTicks
    BY <1>3 DEF Tick
  <2>2. xTickCount' \in Nat /\ xPendedTicks' \in Nat
    BY <2>1 DEF WaitInv
  <2>3. /\ Lists(WithExpired) /\ ReadyTasks(WithExpired) = Ready \cup Expired
        /\ Idle \in Ready
    BY ListsOfExpired DEF WaitInv
  <2>4. CASE TickSwitches
    <3>1. ready' = SwitchedLists(WithExpired) /\ pxCurrentTCB' = SwitchedTo(WithExpired)
      BY <1>3, <2>4 DEF Tick
    <3>2. Lists(ready') /\ Ready' = Ready \cup Expired /\ Served' /\ pxCurrentTCB' \in Tasks
      BY <2>3, <3>1, ListsOfSwitch
    <3> QED BY <1>1, <2>1, <2>2, <3>2, ListsAfterTick
  <2>5. CASE ~TickSwitches
    <3>1. ready' = WithExpired /\ UNCHANGED <<pxCurrentTCB, xYieldPending>>
      BY <1>3, <2>5 DEF Tick
    <3>2. Lists(ready') /\ Ready' = Ready \cup Expired
      BY <2>3, <3>1 DEF Ready
    <3>3. \A t \in Expired : ~(Prio[t] > Prio[pxCurrentTCB])
      BY <2>5 DEF TickSwitches
    <3> QED BY <1>1, <2>1, <2>2, <3>1, <3>2, <3>3, ListsAfterTick
  <2> QED BY <2>4, <2>5
<1> QED BY <1>2, <1>3

LEMMA ListsOfCatchUp ==
  ASSUME ReadyInv, WaitInv, NEW t \in Tasks, CatchUpTick(t)
  PROVE  ReadyInv' /\ WaitInv' /\ Ready' = Ready \cup Expired
<1>1. /\ xPendedTicks > 0 /\ xPendedTicks' = xPendedTicks - 1 /\ xTickCount' = xTickCount + 1
      /\ Wakes /\ ready' = WithExpired /\ UNCHANGED waiting
  BY DEF CatchUpTick
<1>2. xTickCount' \in Nat /\ xPendedTicks' \in Nat
  BY <1>1 DEF WaitInv
<1>3. Lists(ready') /\ Ready' = Ready \cup Expired
  BY <1>1, ListsOfExpired DEF Ready
<1> QED BY <1>1, <1>2, <1>3, ListsAfterTick

(***************************************************************************)
(* Why the current task runs, action by action.                            *)
(***************************************************************************)
LEMMA ServedFrame ==
  ASSUME UNCHANGED <<pxCurrentTCB, ready>>
  PROVE  /\ Served' <=> Served
         /\ NoneAbove' <=> NoneAbove
         /\ (pxCurrentTCB \in Ready)' <=> pxCurrentTCB \in Ready
BY DEF Served, NoneAbove, Ready, ReadyTasks, Members

(* At the places where a task is about its own business it is served.      *)
LEMMA ServedThere ==
  ASSUME Reason, trap = "none",
         pc[pxCurrentTCB] \in {"app", "suspended", "decide", "hi0", "lo", "hi1"}
  PROVE  Served
BY DEF Reason

LEMMA ReasonEnter ==
  ASSUME ScheduleInv, NEW t \in Tasks,
         BeginCritical(t) \/ NestCritical(t) \/ LookWhether(t) \/ ResumeAll(t)
  PROVE  Reason'
<1>1. /\ Served' <=> Served
      /\ NoneAbove' <=> NoneAbove
      /\ (pxCurrentTCB \in Ready)' <=> pxCurrentTCB \in Ready
  BY ServedFrame DEF BeginCritical, NestCritical, LookWhether, ResumeAll, listVars
<1>2. CASE BeginCritical(t) \/ LookWhether(t)
  BY <1>1, <1>2, ServedThere DEF BeginCritical, LookWhether, Call, Runs, ScheduleInv, Reason
<1>3. CASE NestCritical(t)
  BY <1>1, <1>3, SMT DEF NestCritical, Runs, listVars, tickVars, ScheduleInv, Reason, WillYield
<1>4. CASE ResumeAll(t)
  BY <1>1, <1>4, SMT DEF ResumeAll, Runs, Goto, listVars, ScheduleInv, PlaceInv, CriticalInv, PlaceTypes,
     Reason
<1> QED BY <1>2, <1>3, <1>4

LEMMA ReasonExit ==
  ASSUME ScheduleInv, NEW t \in Tasks,
         ExitCritical(t) \/ Enable(t) \/ CheckPending(t) \/ ClearPending(t)
  PROVE  Reason'
<1>1. /\ Served' <=> Served
      /\ NoneAbove' <=> NoneAbove
      /\ (pxCurrentTCB \in Ready)' <=> pxCurrentTCB \in Ready
  BY ServedFrame DEF ExitCritical, Enable, CheckPending, ClearPending, listVars
<1>2. CASE ExitCritical(t)
  BY <1>1, <1>2, SMT DEF ExitCritical, Runs, Goto, portVars, listVars, tickVars, ScheduleInv, PlaceInv,
     CriticalInv, PlaceTypes, Reason, WillYield
<1>3. CASE Enable(t)
  BY <1>1, <1>3, SMT DEF Enable, Runs, Goto, listVars, tickVars, ScheduleInv, PlaceInv,
     CriticalInv, PlaceTypes, Reason, WillYield
<1>4. CASE CheckPending(t)
  BY <1>1, <1>4, SMT DEF CheckPending, Runs, Goto, portVars, listVars, tickVars, ScheduleInv, PlaceInv,
     CriticalInv, PlaceTypes, TrapDepth, Reason, WillYield
<1>5. CASE ClearPending(t)
  BY <1>1, <1>5, SMT DEF ClearPending, Runs, Goto, listVars, tickVars, ScheduleInv, PlaceInv,
     CriticalInv, PlaceTypes, Reason
<1> QED BY <1>2, <1>3, <1>4, <1>5

LEMMA ReasonYield ==
  ASSUME ScheduleInv, NEW t \in Tasks,
         Yield(t) \/ TaskYield(t) \/ FinishResume(t) \/ YieldBlocked(t)
  PROVE  Reason'
<1>1. /\ Served' <=> Served
      /\ NoneAbove' <=> NoneAbove
      /\ (pxCurrentTCB \in Ready)' <=> pxCurrentTCB \in Ready
  BY ServedFrame DEF Yield, TaskYield, FinishResume, YieldBlocked, listVars
<1>2. CASE Yield(t)
  BY <1>1, <1>2, SMT DEF Yield, Ecall, EnterTrap, Runs, Goto, listVars, tickVars, ScheduleInv, PlaceInv,
     CriticalInv, PlaceTypes, Returns, Closed, Reason
<1>3. CASE TaskYield(t)
  BY <1>1, <1>3, ServedThere DEF TaskYield, Call, Runs, ScheduleInv, Reason
<1>4. CASE FinishResume(t)
  <2>1. ~suspended
    BY <1>4 DEF FinishResume, Runs, ScheduleInv, PlaceInv, SuspendedWhere, InSuspend
  <2>2. CASE xYieldPending
    BY <1>4, <2>1, <2>2, SMT DEF FinishResume, Ecall, EnterTrap, Runs, Goto, listVars, tickVars,
       ScheduleInv, PlaceInv, CriticalInv, PlaceTypes, Reason, WillYield
  <2>3. CASE ~xYieldPending
    <3>1. Served \/ blocks[t]
      BY <1>4, <2>3 DEF FinishResume, Runs, ScheduleInv, Reason, Served
    <3>2. /\ pc'[t] = "crit" /\ pxCurrentTCB' = t /\ ~suspended'
          /\ blocks[t] => ret'[t] = "resumed"
      BY <1>4, <2>1, <2>3, SMT DEF FinishResume, Runs, Goto, listVars, tickVars,
         ScheduleInv, PlaceInv, CriticalInv, PlaceTypes
    <3> QED BY <1>1, <3>1, <3>2 DEF Reason
  <2> QED BY <2>2, <2>3
<1>5. CASE YieldBlocked(t)
  <2>1. ~suspended
    BY <1>5 DEF YieldBlocked, Runs, ScheduleInv, PlaceInv, SuspendedWhere, InSuspend
  <2> QED BY <1>5, <2>1, SMT DEF YieldBlocked, Ecall, EnterTrap, Runs, Goto, listVars, tickVars,
          ScheduleInv, PlaceInv, CriticalInv, PlaceTypes, Closed, Reason
<1> QED BY <1>2, <1>3, <1>4, <1>5

LEMMA ReasonMove ==
  ASSUME ScheduleInv, NEW t \in Tasks,
         \/ SuspendAll(t) \/ DontBlock(t)
         \/ BeginNow(t) \/ ReadHi0(t) \/ ReadLo(t) \/ ReadHi1(t)
  PROVE  Reason'
<1>1. Served' <=> Served
  BY ServedFrame DEF SuspendAll, DontBlock, BeginNow, ReadHi0, ReadLo, ReadHi1, NowUnchanged, listVars
<1>2. Served
  BY ServedThere DEF SuspendAll, DontBlock, BeginNow, ReadHi0, ReadLo, ReadHi1, Call, Runs, ScheduleInv
<1> QED BY <1>1, <1>2 DEF Reason

LEMMA ReasonGive ==
  ASSUME ScheduleInv, NEW t \in Tasks, NEW u \in Tasks, Give(t, u)
  PROVE  Reason'
<1>1. /\ Ready' = Ready \cup {u} /\ pxCurrentTCB = t /\ pxCurrentTCB' = t /\ trap = "none"
      /\ pc'[t] = "crit" /\ pc[t] = "crit" /\ ret[t] = "app" /\ suspended' = suspended
  BY ListsOfGive DEF Give, Runs, taskVars, tickVars, ScheduleInv
<1>2. ~suspended
  BY <1>1 DEF ScheduleInv, PlaceInv, SuspendedWhere, InSuspend
<1>3. CASE Prio[u] > Prio[t]
  BY <1>1, <1>2, <1>3 DEF Give, Ecall, EnterTrap, Reason, WillYield
<1>4. CASE ~(Prio[u] > Prio[t])
  <2>1. UNCHANGED <<freertos_yield_pending, trap, cause>>
    BY <1>4 DEF Give, portVars
  <2>2. Served => Served'
    BY <1>1, <1>4, PriorityIsNat DEF Served, NoneAbove
  <2>3. Served \/ freertos_yield_pending
    BY <1>1 DEF ScheduleInv, Reason, WillYield
  <2> QED BY <1>1, <1>2, <2>1, <2>2, <2>3 DEF Reason, WillYield
<1> QED BY <1>3, <1>4

LEMMA ReasonDelay ==
  ASSUME ScheduleInv, NEW t \in Tasks, Delay(t)
  PROVE  ReadyInv' /\ WaitInv' /\ Reason'
<1>1. /\ trap = "none" /\ pxCurrentTCB = t /\ pxCurrentTCB' = t /\ pc[t] = "decide"
      /\ pc'[t] = "resume" /\ blocks'[t]
  BY SMT DEF Delay, Runs, Goto, ScheduleInv, PlaceInv, FlagTypes, CriticalInv, PlaceTypes
<1>2. Served /\ t # Idle
  BY <1>1, ServedThere DEF ScheduleInv, PlaceInv, SuspendedWhere
<1>3. ReadyInv' /\ WaitInv' /\ Ready' = Ready \ {t}
  BY <1>1, <1>2, ListsOfDelay DEF ScheduleInv, Served
<1>4. NoneAbove'
  BY <1>1, <1>2, <1>3 DEF Served, NoneAbove
<1> QED BY <1>1, <1>3, <1>4 DEF Reason

LEMMA ReasonCatchUp ==
  ASSUME ScheduleInv, NEW t \in Tasks, CatchUpTick(t)
  PROVE  Reason'
<1>1. /\ pxCurrentTCB = t /\ pxCurrentTCB' = t /\ trap = "none" /\ pc[t] = "pended" /\ pc'[t] = "pended"
      /\ blocks' = blocks /\ xYieldPending' = TickSwitches /\ Ready' = Ready \cup Expired
  BY ListsOfCatchUp DEF CatchUpTick, Runs, taskVars, ScheduleInv
<1>2. (NoneAbove \/ xYieldPending) /\ (t \in Ready \/ blocks[t])
  BY <1>1 DEF ScheduleInv, Reason, Served
<1>3. CASE TickSwitches
  BY <1>1, <1>2, <1>3 DEF Reason
<1>4. CASE ~TickSwitches
  <2>1. ~xYieldPending /\ \A u \in Expired : ~(Prio[u] > Prio[t])
    BY <1>1, <1>4 DEF TickSwitches
  <2>2. Expired \subseteq Tasks
    BY DEF Expired
  <2>3. NoneAbove'
    BY <1>1, <1>2, <2>1, <2>2, PriorityIsNat DEF NoneAbove
  <2> QED BY <1>1, <1>2, <2>3 DEF Reason
<1> QED BY <1>3, <1>4

LEMMA ReasonTrap ==
  ASSUME ScheduleInv, TimerInterrupt \/ DispatchTimer \/ SetComparePart \/ Restore
  PROVE  Reason'
<1>1. /\ Served' <=> Served
      /\ NoneAbove' <=> NoneAbove
      /\ (pxCurrentTCB \in Ready)' <=> pxCurrentTCB \in Ready
  BY ServedFrame DEF TimerInterrupt, DispatchTimer, SetComparePart, Restore, listVars
<1>2. UNCHANGED <<pxCurrentTCB, pc, ret, blocks, suspended, xYieldPending, freertos_yield_pending>>
  BY DEF TimerInterrupt, EnterTrap, DispatchTimer, SetComparePart, Restore, listVars, taskVars, tickVars
<1>3. ~(trap = "dispatch" /\ cause = "ecall")
  BY DEF TimerInterrupt, DispatchTimer, SetComparePart, SetCompareParts, Restore
<1> QED BY <1>1, <1>2, <1>3 DEF ScheduleInv, Reason, WillYield

LEMMA ReasonDispatch ==
  ASSUME ScheduleInv, DispatchEcall
  PROVE  Reason'
<1>1. CASE Served'
  BY <1>1 DEF Reason
<1>2. CASE UNCHANGED <<pxCurrentTCB, ready>> /\ (suspended \/ ~mpie[pxCurrentTCB])
  <2>1. /\ Served' <=> Served
        /\ NoneAbove' <=> NoneAbove
        /\ (pxCurrentTCB \in Ready)' <=> pxCurrentTCB \in Ready
    BY <1>2, ServedFrame
  <2>2. UNCHANGED <<pxCurrentTCB, pc, ret, blocks, suspended>> /\ trap = "dispatch"
    BY <1>2 DEF DispatchEcall, taskVars
  <2>3. mpie[pxCurrentTCB] <=> pc[pxCurrentTCB] \notin Closed
    BY <2>2 DEF ScheduleInv, PlaceInv, MaskedWhere
  <2>4. CASE mpie[pxCurrentTCB]
    BY <1>2, <2>1, <2>2, <2>3, <2>4
    DEF ScheduleInv, PlaceInv, SuspendedWhere, InSuspend, Closed, Reason
  <2>5. CASE ~mpie[pxCurrentTCB]
    <3>1. freertos_yield_pending' /\ UNCHANGED xYieldPending
      BY <2>5 DEF DispatchEcall
    <3> QED BY <2>1, <2>2, <2>3, <2>5, <3>1 DEF ScheduleInv, Closed, Reason, WillYield
  <2> QED BY <2>4, <2>5
<1> QED BY <1>1, <1>2, ListsOfDispatch DEF ScheduleInv

LEMMA ReasonTick ==
  ASSUME ScheduleInv, Tick
  PROVE  Reason'
<1>1. UNCHANGED <<pc, ret, blocks, suspended, freertos_yield_pending>> /\ trap = "tick"
      /\ trap' = "exit"
  BY DEF Tick, taskVars
<1>2. pc[pxCurrentTCB] # "pended"
  BY <1>1 DEF ScheduleInv, PlaceInv, MaskedWhere, FromTimer, Closed
<1>3. CASE Served'
  BY <1>3 DEF Reason
<1>4. CASE UNCHANGED <<pxCurrentTCB, ready, xYieldPending>>
  <2>1. /\ Served' <=> Served
        /\ NoneAbove' <=> NoneAbove
    BY <1>4, ServedFrame
  <2> QED BY <1>1, <1>2, <1>4, <2>1 DEF ScheduleInv, Reason, WillYield
<1>5. CASE /\ UNCHANGED <<pxCurrentTCB, xYieldPending>> /\ Ready' = Ready \cup Expired
           /\ \A t \in Expired : ~(Prio[t] > Prio[pxCurrentTCB])
  <2>1. pxCurrentTCB \in Tasks /\ Expired \subseteq Tasks
    BY DEF ScheduleInv, PlaceInv, FlagTypes, Expired
  <2>2. NoneAbove => NoneAbove'
    BY <1>5, <2>1, PriorityIsNat DEF NoneAbove
  <2>3. Served => Served'
    BY <1>5, <2>2 DEF Served
  <2> QED BY <1>1, <1>2, <1>5, <2>2, <2>3 DEF ScheduleInv, Reason, WillYield
<1> QED BY <1>3, <1>4, <1>5, ListsOfTick DEF ScheduleInv

(***************************************************************************)
(* The schedule, step by step.                                             *)
(***************************************************************************)
LEMMA ScheduleInit == Init => ScheduleInv
<1> SUFFICES ASSUME Init PROVE ScheduleInv
  OBVIOUS
<1>1. PlaceInv
  BY CriticalInit, PlaceInit DEF PlaceInv, Where
<1>2. ReadyInv /\ WaitInv /\ Reason
  BY ListsOfInit DEF Reason
<1> QED BY <1>1, <1>2 DEF ScheduleInv

scheduleVars == <<portVars, listVars, tickVars, taskVars>>
LEMMA ScheduleFrame == ScheduleInv /\ UNCHANGED scheduleVars => ScheduleInv'
<1> SUFFICES ASSUME ScheduleInv, UNCHANGED scheduleVars PROVE ScheduleInv'
  OBVIOUS
<1>1. UNCHANGED <<mie, mtie, trap, cause, mpie, freertos_trap_depth, freertos_yield_pending,
                  pxCurrentTCB, ready, waiting, wake, xTickCount, xPendedTicks, suspended,
                  xYieldPending, uxCriticalNesting, pc, ret, blocks>>
  BY DEF scheduleVars, portVars, listVars, tickVars, taskVars
<1>2. CriticalInv'
  BY <1>1, CriticalFrame DEF ScheduleInv, PlaceInv, criticalVars
<1>3. FlagTypes'
  BY <1>1, Zenon DEF ScheduleInv, PlaceInv, FlagTypes
<1>4. MaskedWhere' /\ TrapDepth' /\ SuspendedWhere'
  BY <1>1, SMT DEF ScheduleInv, PlaceInv, MaskedWhere, TrapDepth, SuspendedWhere, FromTimer, InSuspend
<1>5. ReadyInv' /\ WaitInv'
  BY <1>1, ListsFrame DEF ScheduleInv
<1>6. Reason'
  <2>1. /\ Served' <=> Served
        /\ NoneAbove' <=> NoneAbove
        /\ (pxCurrentTCB \in Ready)' <=> pxCurrentTCB \in Ready
    BY <1>1, ServedFrame
  <2> QED BY <1>1, <2>1 DEF ScheduleInv, Reason, WillYield
<1> QED BY <1>2, <1>3, <1>4, <1>5, <1>6 DEF ScheduleInv, PlaceInv

LEMMA ScheduleTask ==
  ASSUME ScheduleInv, CriticalInv', NEW t \in Tasks, KernelStep(t) \/ TaskChoice(t)
  PROVE  ScheduleInv'
<1>1. FlagTypes'
  BY FlagsOfTask DEF ScheduleInv, PlaceInv
<1>2. MaskedWhere' /\ TrapDepth' /\ SuspendedWhere'
  BY PlaceEnter, PlaceExit, PlaceYield, PlaceMove DEF ScheduleInv, KernelStep, TaskChoice
<1>3. ReadyInv' /\ WaitInv' /\ Reason'
  <2>1. CASE BeginCritical(t) \/ NestCritical(t) \/ LookWhether(t) \/ ResumeAll(t)
    <3>1. ReadyInv' /\ WaitInv'
      BY <2>1, ListsFrame DEF BeginCritical, NestCritical, LookWhether, ResumeAll, listVars,
         tickVars, ScheduleInv
    <3> QED BY <2>1, <3>1, ReasonEnter
  <2>2. CASE ExitCritical(t) \/ Enable(t) \/ CheckPending(t) \/ ClearPending(t)
    <3>1. ReadyInv' /\ WaitInv'
      BY <2>2, ListsFrame DEF ExitCritical, Enable, CheckPending, ClearPending, listVars,
         tickVars, ScheduleInv
    <3> QED BY <2>2, <3>1, ReasonExit
  <2>3. CASE Yield(t) \/ TaskYield(t) \/ FinishResume(t) \/ YieldBlocked(t)
    <3>1. ReadyInv' /\ WaitInv'
      BY <2>3, ListsFrame DEF Yield, TaskYield, FinishResume, YieldBlocked, listVars,
         tickVars, ScheduleInv
    <3> QED BY <2>3, <3>1, ReasonYield
  <2>4. CASE \/ SuspendAll(t) \/ DontBlock(t)
             \/ BeginNow(t) \/ ReadHi0(t) \/ ReadLo(t) \/ ReadHi1(t)
    <3>1. ReadyInv' /\ WaitInv'
      BY <2>4, ListsFrame DEF SuspendAll, DontBlock, BeginNow, ReadHi0, ReadLo, ReadHi1,
         NowUnchanged, listVars, tickVars, ScheduleInv
    <3> QED BY <2>4, <3>1, ReasonMove
  <2>5. CASE Delay(t)
    BY <2>5, ReasonDelay
  <2>6. CASE CatchUpTick(t)
    BY <2>6, ListsOfCatchUp, ReasonCatchUp DEF ScheduleInv
  <2>7. CASE \E u \in Tasks : Give(t, u)
    BY <2>7, ListsOfGive, ReasonGive DEF ScheduleInv
  <2> QED BY <2>1, <2>2, <2>3, <2>4, <2>5, <2>6, <2>7 DEF KernelStep, TaskChoice
<1> QED BY <1>1, <1>2, <1>3 DEF ScheduleInv, PlaceInv

LEMMA ScheduleTrap ==
  ASSUME ScheduleInv, CriticalInv', TimerInterrupt \/ TrapStep
  PROVE  ScheduleInv'
<1>1. ReadyInv' /\ WaitInv' /\ Reason' /\ pxCurrentTCB' \in Tasks
  <2>1. CASE TimerInterrupt \/ DispatchTimer \/ SetComparePart \/ Restore
    <3>1. ReadyInv' /\ WaitInv'
      BY <2>1, ListsFrame DEF TimerInterrupt, DispatchTimer, SetComparePart, Restore, listVars,
         tickVars, ScheduleInv
    <3>2. pxCurrentTCB' \in Tasks
      BY <2>1 DEF TimerInterrupt, DispatchTimer, SetComparePart, Restore, listVars,
         ScheduleInv, PlaceInv, FlagTypes
    <3> QED BY <2>1, <3>1, <3>2, ReasonTrap
  <2>2. CASE DispatchEcall
    BY <2>2, ListsOfDispatch, ReasonDispatch DEF ScheduleInv
  <2>3. CASE Tick
    BY <2>3, ListsOfTick, ReasonTick DEF ScheduleInv
  <2> QED BY <2>1, <2>2, <2>3 DEF TrapStep
<1>2. FlagTypes'
  BY <1>1, FlagsOfTrap DEF ScheduleInv, PlaceInv
<1>3. MaskedWhere' /\ TrapDepth' /\ SuspendedWhere'
  BY <1>1, PlaceTrap DEF ScheduleInv
<1> QED BY <1>1, <1>2, <1>3 DEF ScheduleInv, PlaceInv

LEMMA ScheduleStep == ScheduleInv /\ [Next]_vars => ScheduleInv'
<1> SUFFICES ASSUME ScheduleInv, [Next]_vars PROVE ScheduleInv'
  OBVIOUS
<1>1. CriticalInv'
  BY CriticalStep DEF ScheduleInv, PlaceInv
<1>2. CASE ClockStep
  BY <1>2, ScheduleFrame DEF ClockStep, scheduleVars
<1>3. CASE UNCHANGED vars
  BY <1>3, ScheduleFrame DEF vars, scheduleVars
<1>4. CASE TimerInterrupt \/ TrapStep
  BY <1>1, <1>4, ScheduleTrap
<1>5. CASE \E t \in Tasks : KernelStep(t) \/ TaskChoice(t)
  BY <1>1, <1>5, ScheduleTask
<1> QED BY <1>2, <1>3, <1>4, <1>5 DEF Next

(* The lists of the kernel hold the tasks that are ready, each once, and   *)
(* the current task is the one to run or about to yield.                   *)
THEOREM ScheduleInvariance == Spec => []ScheduleInv
<1>1. Init => ScheduleInv
  BY ScheduleInit
<1>2. ScheduleInv /\ [Next]_vars => ScheduleInv'
  BY ScheduleStep
<1> QED BY <1>1, <1>2, PTL DEF Spec

(* Outside the kernel a task of the highest ready priority runs: a yield   *)
(* put off in a critical section, by a suspended scheduler or in a trap is *)
(* made before the task gets there.                                        *)
THEOREM HighestAlwaysRuns == Spec => []HighestRuns
<1>1. ScheduleInv => HighestRuns
  <2> SUFFICES ASSUME ScheduleInv, trap = "none", pc[pxCurrentTCB] = "app"
               PROVE  pxCurrentTCB \in Ready /\ \A t \in Ready : Prio[t] <= Prio[pxCurrentTCB]
    BY DEF HighestRuns
  <2> QED BY ServedThere DEF ScheduleInv, Served, NoneAbove
<1> QED BY <1>1, ScheduleInvariance, PTL

(***************************************************************************)
(* Types.                                                                  *)
(***************************************************************************)
NestBound == \A t \in Tasks : uxCriticalNesting[t] <= MAX_NEST
LEMMA NestStep == CriticalInv /\ NestBound /\ [Next]_vars => NestBound'
<1> SUFFICES ASSUME CriticalInv, NestBound, [Next]_vars PROVE NestBound'
  OBVIOUS
<1>1. MAX_NEST \in Nat \ {0}
  BY PortAssumption
<1>2. CASE UNCHANGED uxCriticalNesting
  BY <1>2 DEF NestBound
<1>3. ASSUME NEW t \in Tasks,
             BeginCritical(t) \/ LookWhether(t) \/ ResumeAll(t) \/ NestCritical(t) \/ ExitCritical(t)
      PROVE  NestBound'
  <2>1. uxCriticalNesting \in [Tasks -> Nat]
    BY DEF CriticalInv, PlaceTypes
  <2>2. CASE BeginCritical(t) \/ LookWhether(t) \/ ResumeAll(t)
    <3>1. uxCriticalNesting' = [uxCriticalNesting EXCEPT ![t] = @ + 1] /\ pc[t] \notin Inside
      BY <2>2 DEF BeginCritical, LookWhether, ResumeAll, EnterCritical, Call, Runs, Inside
    <3>2. ~(uxCriticalNesting[t] > 0)
      BY <3>1 DEF CriticalInv, Masked
    <3> QED BY <1>1, <2>1, <3>1, <3>2 DEF NestBound
  <2>3. CASE NestCritical(t)
    BY <1>1, <2>1, <2>3 DEF NestCritical, EnterCritical, NestBound
  <2>4. CASE ExitCritical(t)
    BY <1>1, <2>1, <2>4 DEF ExitCritical, NestBound
  <2> QED BY <1>3, <2>2, <2>3, <2>4
<1>4. ASSUME NEW t \in Tasks, KernelStep(t) \/ TaskChoice(t) PROVE NestBound'
  <2>1. \/ BeginCritical(t) \/ LookWhether(t) \/ ResumeAll(t) \/ NestCritical(t) \/ ExitCritical(t)
        \/ UNCHANGED uxCriticalNesting
    BY <1>4 DEF KernelStep, TaskChoice, Enable, CheckPending, ClearPending, Yield, Delay, DontBlock,
       CatchUpTick, FinishResume, YieldBlocked, ReadHi0, ReadLo, ReadHi1, Give, TaskYield,
       SuspendAll, BeginNow, NowUnchanged, taskVars
  <2> QED BY <1>2, <1>3, <2>1
<1>5. ClockStep \/ TimerInterrupt \/ TrapStep \/ UNCHANGED vars => UNCHANGED uxCriticalNesting
  BY DEF ClockStep, TimerInterrupt, TrapStep, DispatchEcall, DispatchTimer, SetComparePart, Tick,
     Restore, vars, taskVars
<1> QED BY <1>2, <1>4, <1>5 DEF Next

(* Every variable keeps its type: the trap depth is that of one trap, the  *)
(* nesting stays in bounds, and no ready task waits for anything.          *)
THEOREM TypeCorrectness == Spec => []TypeOK
<1>1. Init => NestBound
  BY PortAssumption DEF Init, NestBound
<1>2. CriticalInv /\ NestBound /\ [Next]_vars => NestBound'
  BY NestStep
<1>3. ScheduleInv /\ TickInv /\ NestBound => TypeOK
  <2> SUFFICES ASSUME ScheduleInv, TickInv, NestBound PROVE TypeOK
    OBVIOUS
  <2>1. mtime \in Time /\ mtimecmp \in Time /\ next_compare \in Time
    BY DEF TickInv, TimeTypes
  <2>2. /\ mie \in BOOLEAN /\ mtie \in BOOLEAN /\ trap \in TrapPlaces
        /\ mpie \in [Tasks -> BOOLEAN] /\ freertos_yield_pending \in BOOLEAN
        /\ pxCurrentTCB \in Tasks
    BY Zenon DEF ScheduleInv, PlaceInv, FlagTypes
  <2>3. freertos_trap_depth = IF mtie /\ trap \notin {"none", "dispatch"} THEN 1 ELSE 0
    BY DEF ScheduleInv, PlaceInv, TrapDepth
  <2>4. uxCriticalNesting \in [Tasks -> 0 .. MAX_NEST] /\ pc \in [Tasks -> TaskPlaces]
    BY PortAssumption DEF ScheduleInv, PlaceInv, CriticalInv, PlaceTypes, NestBound
  <2>5. waiting \cap Ready = {} /\ \A t \in Ready : wake[t] = NONE
    BY DEF ScheduleInv, WaitInv
  <2> QED BY <2>1, <2>2, <2>3, <2>4, <2>5 DEF TypeOK
<1> QED BY <1>1, <1>2, <1>3, CriticalInvariance, ScheduleInvariance, TickInvariance, PTL DEF Spec

(***************************************************************************)
(* Readings of the timer.                                                  *)
(***************************************************************************)
NowTypes == /\ mtime \in Time /\ hi0 \in [Tasks -> Nat] /\ lo \in [Tasks -> Nat]
            /\ began \in [Tasks -> Time]
(* A reading in progress: the high half is not newer than the timer, and   *)
(* the low half was, with some high half, the time at a moment since.      *)
Sampled(t, m) == /\ AtLeast(m, began[t]) /\ AtLeast(mtime, m)
                 /\ m.lo = lo[t] /\ m.hi >= hi0[t]
Reading == \A t \in Tasks :
  /\ pc[t] \in {"hi0", "lo"} => AtLeast(mtime, began[t])
  /\ pc[t] = "lo" => hi0[t] <= mtime.hi
  /\ pc[t] = "hi1" => \E m \in Time : Sampled(t, m)
NowInv == NowTypes /\ Reading

LEMMA LaterStill ==
  ASSUME NEW a \in Time, NEW b \in Time, NEW c \in Time, AtLeast(a, b), AtLeast(b, c)
  PROVE  AtLeast(a, c)
<1>1. HALF \in Nat \ {0, 1}
  BY HalfAssumption
<1> QED BY <1>1 DEF Time, AtLeast, Earlier

LEMMA NextCount ==
  ASSUME NEW a \in Time
  PROVE  /\ Plus(a, 1) \in Time /\ AtLeast(Plus(a, 1), a) /\ Plus(a, 1).hi >= a.hi
         /\ AtLeast(a, a)
<1>1. HALF \in Nat \ {0, 1} /\ a.hi \in Nat /\ a.lo \in 0 .. HALF - 1
  BY HalfAssumption DEF Time
<1>2. Plus(a, 1) \in Time
  BY <1>1, CountOfSum
<1>3. CASE a.lo + 1 < HALF
  <2>1. Plus(a, 1).hi = a.hi /\ Plus(a, 1).lo = a.lo + 1
    BY <1>3 DEF Plus, Time
  <2> QED BY <1>1, <1>2, <2>1 DEF AtLeast, Earlier
<1>4. CASE ~(a.lo + 1 < HALF)
  <2>1. Plus(a, 1).hi = a.hi + 1
    BY <1>4 DEF Plus
  <2> QED BY <1>1, <1>2, <2>1 DEF AtLeast, Earlier
<1> QED BY <1>3, <1>4

LEMMA NowClock == ASSUME NowInv, ClockStep PROVE NowInv'
<1>1. mtime' = Plus(mtime, 1) /\ UNCHANGED <<pc, hi0, lo, began>>
  BY DEF ClockStep, Clock, taskVars, nowVars
<1>2. mtime \in Time /\ mtime' \in Time /\ AtLeast(mtime', mtime) /\ mtime'.hi >= mtime.hi
  BY <1>1, NextCount DEF NowInv, NowTypes
<1>3. ASSUME NEW m \in Time, AtLeast(mtime, m) PROVE AtLeast(mtime', m)
  BY <1>2, <1>3, LaterStill
<1>4. ASSUME NEW t \in Tasks
      PROVE  /\ (pc[t] \in {"hi0", "lo"})' => AtLeast(mtime', began[t])
             /\ (pc[t] = "lo")' => hi0[t] <= mtime'.hi
             /\ (pc[t] = "hi1")' => \E m \in Time : Sampled(t, m)'
  <2>1. began[t] \in Time /\ hi0[t] \in Nat /\ mtime.hi \in Nat /\ mtime'.hi \in Nat
    BY <1>2 DEF NowInv, NowTypes, Time
  <2>2. \A m \in Time : Sampled(t, m) => Sampled(t, m)'
    BY <1>1, <1>3 DEF Sampled
  <2> QED BY <1>1, <1>2, <1>3, <2>1, <2>2 DEF NowInv, Reading
<1>5. Reading'
  BY <1>1, <1>4 DEF Reading
<1> QED BY <1>1, <1>2, <1>5 DEF NowInv, NowTypes

(* A step that is no part of a reading leaves every reading alone.         *)
LEMMA NowOther ==
  ASSUME NowInv, UNCHANGED <<mtime, hi0, lo, began>>,
         \A t \in Tasks : pc'[t] \in {"hi0", "lo", "hi1"} => pc'[t] = pc[t]
  PROVE  NowInv'
<1>1. \A t \in Tasks, m \in Time : Sampled(t, m)' <=> Sampled(t, m)
  BY DEF Sampled
<1>2. ASSUME NEW t \in Tasks
      PROVE  /\ (pc[t] \in {"hi0", "lo"})' => AtLeast(mtime, began[t])
             /\ (pc[t] = "lo")' => hi0[t] <= mtime.hi
             /\ (pc[t] = "hi1")' => \E m \in Time : Sampled(t, m)'
  BY <1>1 DEF NowInv, Reading
<1>3. Reading'
  BY <1>2 DEF Reading
<1> QED BY <1>3 DEF NowInv, NowTypes

LEMMA NowReads ==
  ASSUME NowInv, CriticalInv, NEW t \in Tasks,
         BeginNow(t) \/ ReadHi0(t) \/ ReadLo(t) \/ ReadHi1(t)
  PROVE  NowInv'
<1> USE DEF NowInv
<1>1. NowTypes /\ Reading /\ mtime' = mtime /\ mtime \in Time /\ pc \in [Tasks -> TaskPlaces]
      /\ mtime.hi \in Nat /\ mtime.lo \in Nat /\ START \in Time /\ AtLeast(mtime, mtime)
  BY HalfAssumption, PortAssumption, NextCount
  DEF BeginNow, ReadHi0, ReadLo, ReadHi1, NowUnchanged, timerVars, NowTypes, CriticalInv, PlaceTypes,
      Time
<1>2. NowTypes'
  BY <1>1 DEF BeginNow, ReadHi0, ReadLo, ReadHi1, NowTypes
<1>3. \A u \in Tasks : u # t => /\ pc'[u] = pc[u] /\ began'[u] = began[u]
                                /\ hi0'[u] = hi0[u] /\ lo'[u] = lo[u]
  BY <1>1 DEF BeginNow, ReadHi0, ReadLo, ReadHi1, Goto, NowTypes
<1>4. \A u \in Tasks, m \in Time : u # t => (Sampled(u, m)' <=> Sampled(u, m))
  BY <1>1, <1>3 DEF Sampled
<1>5. CASE BeginNow(t)
  <2>1. pc'[t] = "hi0" /\ began'[t] = mtime
    BY <1>1, <1>5 DEF BeginNow, Goto, NowTypes
  <2> QED BY <1>1, <1>2, <1>3, <1>4, <2>1 DEF Reading
<1>6. CASE ReadHi0(t)
  <2>1. pc[t] = "hi0" /\ pc'[t] = "lo" /\ began' = began /\ hi0'[t] = mtime.hi
    BY <1>1, <1>6 DEF ReadHi0, Runs, Goto, NowTypes
  <2> QED BY <1>1, <1>2, <1>3, <1>4, <2>1 DEF Reading
<1>7. CASE ReadLo(t)
  <2>1. pc[t] = "lo" /\ pc'[t] = "hi1" /\ began' = began /\ hi0' = hi0 /\ lo'[t] = mtime.lo
    BY <1>1, <1>7 DEF ReadLo, Runs, Goto, NowTypes
  <2>2. AtLeast(mtime, began[t]) /\ hi0[t] <= mtime.hi /\ hi0[t] \in Nat
    BY <1>1, <2>1 DEF Reading, NowTypes
  <2>3. Sampled(t, mtime)'
    BY <1>1, <2>1, <2>2 DEF Sampled
  <2>4. \E m \in Time : Sampled(t, m)'
    BY <1>1, <2>3 DEF Sampled
  <2> QED BY <1>1, <1>2, <1>3, <1>4, <2>1, <2>4 DEF Reading
<1>8. CASE ReadHi1(t)
  <2>1. pc[t] = "hi1" /\ pc'[t] \in {"hi0", "app"} /\ (pc'[t] = "hi0" => began' = began)
    BY <1>1, <1>8 DEF ReadHi1, Runs, Goto
  <2>2. PICK m \in Time : AtLeast(m, began[t]) /\ AtLeast(mtime, m)
    BY <1>1, <2>1 DEF Reading, Sampled
  <2>3. AtLeast(mtime, began[t])
    BY <1>1, <2>2, LaterStill DEF NowTypes
  <2> QED BY <1>1, <1>2, <1>3, <1>4, <2>1, <2>3 DEF Reading
<1> QED BY <1>5, <1>6, <1>7, <1>8

LEMMA NowStep == CriticalInv /\ NowInv /\ [Next]_vars => NowInv'
<1> SUFFICES ASSUME CriticalInv, NowInv, [Next]_vars PROVE NowInv'
  OBVIOUS
<1>1. pc \in [Tasks -> TaskPlaces] /\ ret \in [Tasks -> Returns]
  BY DEF CriticalInv, PlaceTypes
<1>2. CASE UNCHANGED <<mtime, nowVars, pc>>
  BY <1>2, NowOther DEF nowVars
<1>3. TimerInterrupt \/ TrapStep \/ UNCHANGED vars => UNCHANGED <<mtime, nowVars, pc>>
  BY DEF TimerInterrupt, TrapStep, DispatchEcall, DispatchTimer, SetComparePart, SetCompare, Tick,
     Restore, vars, timerVars, taskVars
<1>4. ASSUME NEW t \in Tasks, KernelStep(t) \/ TaskChoice(t) PROVE NowInv'
  <2>1. CASE BeginNow(t) \/ ReadHi0(t) \/ ReadLo(t) \/ ReadHi1(t)
    BY <2>1, NowReads
  <2>2. CASE ~(BeginNow(t) \/ ReadHi0(t) \/ ReadLo(t) \/ ReadHi1(t))
    <3>1. UNCHANGED <<mtime, hi0, lo, began>>
      BY <1>4, <2>2 DEF KernelStep, TaskChoice, ExitCritical, Enable, CheckPending, ClearPending, Yield,
         LookWhether, Delay, DontBlock, ResumeAll, CatchUpTick, FinishResume, YieldBlocked,
         BeginCritical, NestCritical, Give, TaskYield, SuspendAll, timerVars, nowVars
    <3>2. \/ UNCHANGED pc
          \/ \E p \in {"crit", "enable", "check", "clear", "ecall", "suspended", "resume",
                       "pended"} \cup Returns : pc' = [pc EXCEPT ![t] = p]
      BY <1>1, <1>4, <2>2, SMT DEF KernelStep, TaskChoice, ExitCritical, Enable, CheckPending,
         ClearPending, Yield, LookWhether, Delay, DontBlock, ResumeAll, CatchUpTick, FinishResume,
         YieldBlocked, BeginCritical, NestCritical, Give, TaskYield, SuspendAll, Goto, Returns,
         taskVars
    <3>3. \A u \in Tasks : pc'[u] \in {"hi0", "lo", "hi1"} => pc'[u] = pc[u]
      BY <1>1, <3>2 DEF Returns
    <3> QED BY <3>1, <3>3, NowOther
  <2> QED BY <2>1, <2>2
<1> QED BY <1>2, <1>3, <1>4, NowClock DEF Next

(* A finished reading is the time at a moment within the call: the two     *)
(* reads of the high half agree, so it did not change around the low half. *)
LEMMA NowWhole ==
  ASSUME CriticalInv, NowInv, [Next]_vars, NEW t \in Tasks, pc[t] = "hi1", pc'[t] = "app"
  PROVE  /\ AtLeast(NowResult(lo[t], mtime.hi), began[t])
         /\ AtLeast(mtime, NowResult(lo[t], mtime.hi))
<1>1. pc \in [Tasks -> TaskPlaces] /\ mtime \in Time /\ mtime.hi \in Nat /\ hi0[t] \in Nat
  BY HalfAssumption DEF CriticalInv, PlaceTypes, NowInv, NowTypes, Time
<1>2. pc' # pc
  OBVIOUS
<1>3. ReadHi1(t)
  <2>1. ~(ClockStep \/ TimerInterrupt \/ TrapStep \/ UNCHANGED vars)
    BY <1>2 DEF ClockStep, TimerInterrupt, TrapStep, DispatchEcall, DispatchTimer, SetComparePart,
       Tick, Restore, vars, taskVars
  <2>2. PICK u \in Tasks : KernelStep(u) \/ TaskChoice(u)
    BY <2>1 DEF Next
  <2>3. \A p \in TaskPlaces : pc' = [pc EXCEPT ![u] = p] => u = t
    BY <1>1
  <2>4. \/ UNCHANGED pc \/ pc' = [pc EXCEPT ![u] = pc'[u]]
    BY <1>1, <2>2, SMT DEF KernelStep, TaskChoice, ExitCritical, Enable, CheckPending,
         ClearPending, Yield, LookWhether, Delay, DontBlock, ResumeAll, CatchUpTick, FinishResume,
         YieldBlocked, BeginCritical, NestCritical, Give, TaskYield, SuspendAll, Goto, BeginNow,
         ReadHi0, ReadLo, ReadHi1, taskVars
  <2>5. u = t
    BY <1>1, <1>2, <2>4
  <2> QED BY <1>2, <2>2, <2>5 DEF KernelStep, TaskChoice, ExitCritical, Enable, CheckPending,
          ClearPending, Yield, LookWhether, Delay, DontBlock, ResumeAll, CatchUpTick, FinishResume,
          YieldBlocked, BeginCritical, NestCritical, Give, TaskYield, SuspendAll, Call, Runs,
          BeginNow, ReadHi0, ReadLo, taskVars
<1>4. hi0[t] = mtime.hi
  BY <1>1, <1>3 DEF ReadHi1, Goto, NowRetry
<1>5. PICK m \in Time : Sampled(t, m)
  BY DEF NowInv, Reading
<1>6. m.hi \in Nat /\ m.hi = mtime.hi
  BY <1>1, <1>4, <1>5, HalfAssumption DEF Sampled, AtLeast, Earlier, Time
<1>7. NowResult(lo[t], mtime.hi) = m
  BY <1>5, <1>6 DEF NowResult, Sampled, Time
<1> QED BY <1>5, <1>7 DEF Sampled

(* machine_timer_now() is never torn, however often its task is            *)
(* interrupted and preempted between its three accesses.                   *)
THEOREM ReadingsAreWhole == Spec => NowNotTorn
<1>1. Init => NowInv
  <2> SUFFICES ASSUME Init PROVE NowInv
    OBVIOUS
  <2>1. /\ mtime = START /\ hi0 = [t \in Tasks |-> 0] /\ lo = [t \in Tasks |-> 0]
        /\ began = [t \in Tasks |-> START] /\ pc = [t \in Tasks |-> "app"] /\ START \in Time
    BY PortAssumption DEF Init
  <2> QED BY <2>1 DEF NowInv, NowTypes, Reading
<1>2. CriticalInv /\ NowInv /\ [Next]_vars => NowInv'
  BY NowStep
<1>3. CriticalInv /\ NowInv /\ [Next]_vars =>
        [\A t \in Tasks : pc[t] = "hi1" /\ pc'[t] = "app" =>
           LET now == NowResult(lo[t], mtime.hi)
           IN AtLeast(now, began[t]) /\ AtLeast(mtime, now)]_vars
  BY NowWhole
<1> QED BY <1>1, <1>2, <1>3, CriticalInvariance, PTL DEF Spec, NowNotTorn
=============================================================================
