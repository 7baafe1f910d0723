--------------------------- MODULE SchedulerRace ----------------------------
(***************************************************************************)
(* ts_time's Scheduler and the Handles of its events in different threads: *)
(* the steps between which the mutex is not held.  An event's Arc has one  *)
(* strong reference from the vector or from a dispatch iterator, and one   *)
(* more while its Handle is upgraded.  Which events are due is left open.  *)
(***************************************************************************)
EXTENDS Naturals, FiniteSets

CONSTANT Handles    \* events, each with one Handle in a thread of its own

VARIABLES
    queue,      \* the events in Scheduler::events
    iter,       \* events a dispatch iterator has yet to return
    pc,         \* where the thread of each Handle is
    locked,     \* whether a reschedule holds the mutex
    yielded, cancelled, dropped,   \* what became of the other events
    unwrap_failed \* an unwrap failed

raceVars == <<queue, iter, pc, locked, yielded, cancelled, dropped, unwrap_failed>>

Upgraded(e) == pc[e] \in {"cancel_upgraded", "cancel_unlocked", "reschedule_locked"}

(* Arc::strong_count *)
Strong(e) == Cardinality({x \in {"queue", "iter", "handle"} :
                             \/ x = "queue" /\ e \in queue
                             \/ x = "iter" /\ e \in iter
                             \/ x = "handle" /\ Upgraded(e)})

RaceInit ==
    /\ queue = Handles /\ iter = {} /\ pc = [e \in Handles |-> "handle"] /\ locked = FALSE
    /\ yielded = {} /\ cancelled = {} /\ dropped = {} /\ unwrap_failed = FALSE

(* Handle::cancel upgrades the event before it takes the lock. *)
cancel_upgrade(e) ==
    /\ pc[e] = "handle"
    /\ pc' = [pc EXCEPT ![e] = IF Strong(e) > 0 THEN "cancel_upgraded" ELSE "gone"]
    /\ UNCHANGED <<queue, iter, locked, yielded, cancelled, dropped, unwrap_failed>>

(* Mutant of cancel_remove: reports the event cancelled without looking. *)
cancel_removeBlind(e) ==
    /\ pc[e] = "cancel_upgraded" /\ ~ locked
    /\ queue' = queue \ {e}
    /\ cancelled' = cancelled \cup {e}
    /\ pc' = [pc EXCEPT ![e] = "cancel_unlocked"]
    /\ UNCHANGED <<iter, locked, yielded, dropped, unwrap_failed>>

(* Under the lock it finds the event in the vector and removes it. *)
cancel_remove(e) ==
    /\ pc[e] = "cancel_upgraded" /\ ~ locked
    /\ queue' = queue \ {e}
    /\ cancelled' = IF e \in queue THEN cancelled \cup {e} ELSE cancelled
    /\ pc' = [pc EXCEPT ![e] = "cancel_unlocked"]
    /\ UNCHANGED <<iter, locked, yielded, dropped, unwrap_failed>>

(* The guard is dropped first, the upgraded event after it. *)
cancel_drop(e) ==
    /\ pc[e] = "cancel_unlocked"
    /\ pc' = [pc EXCEPT ![e] = "gone"]
    /\ UNCHANGED <<queue, iter, locked, yielded, cancelled, dropped, unwrap_failed>>

(* Handle::reschedule takes the lock, then upgrades. *)
reschedule_lock(e) ==
    /\ pc[e] = "handle" /\ ~ locked
    /\ pc' = [pc EXCEPT ![e] = IF Strong(e) > 0 THEN "reschedule_locked" ELSE "gone"]
    /\ locked' = (Strong(e) > 0)
    /\ UNCHANGED <<queue, iter, yielded, cancelled, dropped, unwrap_failed>>

(* Removed and inserted again, it has a new Handle; get_mut needs the      *)
(* upgraded reference to be the only one once it is out of the vector.     *)
reschedule_insert(e) ==
    /\ pc[e] = "reschedule_locked"
    /\ pc' = [pc EXCEPT ![e] = IF e \in queue THEN "handle" ELSE "gone"]
    /\ unwrap_failed' = (e \in queue /\ Strong(e) # 2)
    /\ locked' = FALSE
    /\ UNCHANGED <<queue, iter, yielded, cancelled, dropped>>

(* Scheduler::dispatch splits off the due events under the lock. *)
dispatch_split(due) ==
    /\ ~ locked
    /\ queue' = queue \ due
    /\ iter' = iter \cup due
    /\ UNCHANGED <<pc, locked, yielded, cancelled, dropped, unwrap_failed>>

(* The iterator it returned unwraps Arc::into_inner, without the lock. *)
into_inner(e) ==
    /\ e \in iter
    /\ iter' = iter \ {e}
    /\ IF Strong(e) = 1
       THEN yielded' = yielded \cup {e} /\ UNCHANGED unwrap_failed
       ELSE unwrap_failed' = TRUE /\ UNCHANGED yielded
    /\ UNCHANGED <<queue, pc, locked, cancelled, dropped>>

(* An iterator that is dropped early drops what is left in it. *)
drop_iter ==
    /\ dropped' = dropped \cup iter
    /\ iter' = {}
    /\ UNCHANGED <<queue, pc, locked, yielded, cancelled, unwrap_failed>>

RaceNext ==
    /\ ~ unwrap_failed
    /\ \/ \E e \in Handles : \/ cancel_upgrade(e) \/ cancel_remove(e) \/ cancel_drop(e)
                         \/ reschedule_lock(e) \/ reschedule_insert(e) \/ into_inner(e)
       \/ \E due \in SUBSET queue : dispatch_split(due)
       \/ drop_iter

RaceSpec == RaceInit /\ [][RaceNext]_raceVars

(* Whatever the threads do, an event has one fate: still pending, in the   *)
(* hands of an iterator, returned by dispatch, cancelled or dropped with   *)
(* an iterator.  A cancel that took effect and a dispatch never both claim *)
(* the same event, and no event is lost.                                   *)
OneFate ==
    ~ unwrap_failed =>
        /\ Handles = queue \cup iter \cup yielded \cup cancelled \cup dropped
        /\ \A e \in Handles :
              /\ e \in queue => e \notin iter \cup yielded \cup cancelled \cup dropped
              /\ e \in iter => e \notin yielded \cup cancelled \cup dropped
              /\ e \in yielded => e \notin cancelled \cup dropped
              /\ e \in cancelled => e \notin dropped

(* What the comment in dispatch says: "Thus, into_inner always succeeds";  *)
(* and the one in reschedule, "Thus, get_mut always succeeds".             *)
IntoInnerSucceeds == ~ unwrap_failed
=============================================================================
