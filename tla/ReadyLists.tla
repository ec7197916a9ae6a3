----------------------------- MODULE ReadyLists -----------------------------
(***************************************************************************)
(* The ready lists of the FreeRTOS kernel (configUSE_PREEMPTION and        *)
(* configUSE_TIME_SLICING of FreeRTOSConfig.h), which the repository takes *)
(* from a submodule: one circular list per priority.  A list is kept as a  *)
(* sequence that starts at pxIndex and holds the list's own end item END.  *)
(***************************************************************************)
EXTENDS Integers, Sequences, SequencesExt

CONSTANTS Priorities, END
ASSUME ReadyListsAssumption == Priorities \subseteq Nat /\ IsFiniteSet(Priorities)

Members(list) == ToSet(list) \ {END}

(* listGET_OWNER_OF_NEXT_ENTRY: the index goes on by one, over the end.    *)
Rotate(list) == Append(Tail(list), Head(list))
Advance(list) == IF Rotate(list)[1] = END THEN Rotate(Rotate(list)) ELSE Rotate(list)

(* listINSERT_END puts the task where the index comes last.                *)
MakeReady(ready, prio, t) == [ready EXCEPT ![prio[t]] = Append(@, t)]
MakeAllReady(ready, prio, ts) ==
  [p \in Priorities |-> ready[p] \o SetToSeq({t \in ts : prio[t] = p})]

(* uxListRemove: an index on the task goes back to its predecessor.        *)
Unlink(list, t) ==
  LET rest == RemoveAt(list, CHOOSE i \in DOMAIN list : list[i] = t)
  IN IF Head(list) = t THEN <<Last(rest)>> \o Front(rest) ELSE rest
Unready(ready, prio, t) == [ready EXCEPT ![prio[t]] = Unlink(@, t)]

ReadyTasks(ready) == UNION {Members(ready[p]) : p \in Priorities}
TopPriority(ready) ==
  CHOOSE p \in Priorities : /\ Members(ready[p]) # {}
                            /\ \A q \in Priorities : Members(ready[q]) # {} => q <= p

(* vTaskSwitchContext: the next task of the highest priority that has one. *)
SwitchedLists(ready) == [ready EXCEPT ![TopPriority(ready)] = Advance(@)]
SwitchedTo(ready) == Head(SwitchedLists(ready)[TopPriority(ready)])
=============================================================================
