---------------------------- MODULE MachineTimer ----------------------------
(***************************************************************************)
(* drivers/machine_timer.c and the timer behind it: a counter and a        *)
(* compare register of two halves each, which the bus reaches one at a     *)
(* time while the counter runs.                                            *)
(***************************************************************************)
EXTENDS Integers

CONSTANT HALF             \* 2^32
ASSUME HalfAssumption == HALF \in Nat \ {0, 1}

VARIABLES mtime, mtimecmp
timerVars == <<mtime, mtimecmp>>

Time == [hi : Nat, lo : 0 .. HALF - 1]
Earlier(a, b) == a.hi < b.hi \/ (a.hi = b.hi /\ a.lo < b.lo)
AtLeast(a, b) == ~Earlier(a, b)
(* a + n, for an n that fits a half.                                       *)
Plus(a, n) == IF a.lo + n < HALF THEN [a EXCEPT !.lo = @ + n]
              ELSE [hi |-> a.hi + 1, lo |-> a.lo + n - HALF]
Count(a) == a.hi * HALF + a.lo

irq == AtLeast(mtime, mtimecmp)
Clock == mtime' = Plus(mtime, 1) /\ UNCHANGED mtimecmp

-----------------------------------------------------------------------------
(* machine_timer_set_compare(value): the low half is raised out of the way *)
(* first, so that no value in between is earlier than both old and new.    *)
SetCompareParts == {"raise_lo", "set_hi", "set_lo"}
SetCompare(part, value) ==
  /\ mtimecmp' = CASE part = "raise_lo" -> [mtimecmp EXCEPT !.lo = HALF - 1]
                   [] part = "set_hi"   -> [mtimecmp EXCEPT !.hi = value.hi]
                   [] part = "set_lo"   -> [mtimecmp EXCEPT !.lo = value.lo]
  /\ UNCHANGED mtime

(* machine_timer_now(): the low half between two reads of the high half,   *)
(* over again until they agree.                                            *)
NowRetryNever(hi0, hi1) == FALSE     \* variant
NowRetry(hi0, hi1) == hi0 # hi1
NowResult(lo, hi1) == [hi |-> hi1, lo |-> lo]
=============================================================================
