----------------------------- MODULE RtosKernel -----------------------------
(***************************************************************************)
(* The scheduler of FreeRTOS, whose sources are a submodule, as far as the *)
(* programs of the repository rely on it: time slices, delays, blocking    *)
(* with a timeout, priorities that a mutex may raise.  Its state is one    *)
(* record k:                                                               *)
(*   current, ready, prio   the running task, the ready lists, priorities  *)
(*   on, left               what a task waits for and for how many ticks,  *)
(*                          0 for as long as it takes                      *)
(***************************************************************************)
EXTENDS ReadyLists, FiniteSets, FiniteSetsExt

CONSTANT Tasks

Switch(k) == [k EXCEPT !.ready = SwitchedLists(@), !.current = SwitchedTo(k.ready)]
Preempt(k) == IF TopPriority(k.ready) > k.prio[k.current] THEN Switch(k) ELSE k

(* A task becomes ready: it was created, or what it waits for has come.    *)
Wake(k, t) ==
  [k EXCEPT !.ready = MakeReady(@, k.prio, t), !.on[t] = "none", !.left[t] = 0]
Leave(k, t, object, ticks) ==
  [k EXCEPT !.ready = Unready(@, k.prio, t), !.on[t] = object, !.left[t] = ticks]
Block(k, object, ticks) == Switch(Leave(k, k.current, object, ticks))

(* The most urgent of the tasks that wait for the object.                  *)
Waiting(k, object) == {t \in Tasks : k.on[t] = object}
FirstWaiting(k, object) ==
  CHOOSE t \in Waiting(k, object) : \A u \in Waiting(k, object) : k.prio[u] <= k.prio[t]
WakeFirst(k, object) ==
  IF Waiting(k, object) = {} THEN k ELSE Preempt(Wake(k, FirstWaiting(k, object)))

(* A tick: delays and timeouts run out, and equals take turns.             *)
Due(k) == {t \in Tasks : k.left[t] = 1}
Tick(k) ==
  LET awake == FoldSet(LAMBDA t, j : Wake(j, t), k, Due(k))
      later == [awake EXCEPT
        !.left = [t \in Tasks |-> IF awake.left[t] > 0 THEN awake.left[t] - 1 ELSE 0],
        !.on = [t \in Tasks |-> IF t \in Due(k) /\ k.on[t] # "delay" THEN "timeout"
                                ELSE awake.on[t]]]
  IN IF \/ TopPriority(later.ready) > later.prio[later.current]
        \/ Cardinality(Members(later.ready[later.prio[later.current]])) > 1
     THEN Switch(later) ELSE later

(* A mutex lends its holder the priority of a more urgent task, and takes  *)
(* it back when it is given.                                               *)
SetPriority(k, t, p) ==
  IF k.prio[t] = p THEN k
  ELSE IF t \in Members(k.ready[k.prio[t]])
  THEN [k EXCEPT !.prio[t] = p,
                 !.ready = MakeReady(Unready(k.ready, k.prio, t), [k.prio EXCEPT ![t] = p], t)]
  ELSE [k EXCEPT !.prio[t] = p]
=============================================================================
