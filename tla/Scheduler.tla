----------------------------- MODULE Scheduler ------------------------------
(***************************************************************************)
(* ts_time's Scheduler: events kept in a vector sorted by descending start *)
(* time, inserted, found and split off by binary search, and the driver    *)
(* that sleeps until next_dispatch.                                        *)
(*                                                                         *)
(* An event's id stands for the identity of its Arc, so it also stands for *)
(* the Handle of that event; seq records when it was (re)scheduled and is  *)
(* not part of the code's state.                                           *)
(***************************************************************************)
EXTENDS Naturals, Sequences

CONSTANTS
    Ids,       \* names of events
    Ranges,    \* <<from, to>>: the ranges, relative to now, events are given
    MaxTime,   \* bound on the clock
    MaxSeq     \* bound on the events scheduled

ASSUME SchedulerAssumption ==
    /\ Ranges \subseteq Nat \X Nat
    /\ \A r \in Ranges : r[1] <= r[2]    \* the assertion of TimeRange::new
    /\ MaxTime \in Nat /\ MaxSeq \in Nat

VARIABLES
    time,
    events,    \* Scheduler::events
    seq,       \* how many events were scheduled
    out        \* what the last dispatch returned

schedulerVars == <<time, events, seq, out>>

FutureEvent(id, r) == [id |-> id, start |-> time + r[1], end |-> time + r[2], seq |-> seq]

(* The index of the first event that starts at or before t. *)
partition_point(evs, t) ==
    CHOOSE i \in 1 .. Len(evs) + 1 :
        /\ \A j \in 1 .. i - 1 : evs[j].start > t
        /\ i <= Len(evs) => evs[i].start <= t

InsertAt(evs, i, e) == SubSeq(evs, 1, i - 1) \o <<e>> \o SubSeq(evs, i, Len(evs))

RemoveAt(evs, i) == SubSeq(evs, 1, i - 1) \o SubSeq(evs, i + 1, Len(evs))

(* Mutant of find: takes the first event of equal start. *)
findAny(evs, e) ==
    LET idx == partition_point(evs, e.start)
    IN  IF idx <= Len(evs) /\ evs[idx].start = e.start THEN idx ELSE 0

(* The position of event e, searched among the events of equal start that  *)
(* follow the partition point; 0 when it is not there.                     *)
find(evs, e) ==
    LET idx == partition_point(evs, e.start)
        hits == {i \in idx .. Len(evs) : /\ evs[i].id = e.id
                                         /\ \A j \in idx .. i : evs[j].start = e.start}
    IN  IF hits = {} THEN 0 ELSE CHOOSE i \in hits : TRUE

Insert(evs, e) == InsertAt(evs, partition_point(evs, e.start), e)

Pending(id) == {e \in {events[i] : i \in DOMAIN events} : e.id = id}

SchedulerInit == time = 0 /\ events = <<>> /\ seq = 0 /\ out = <<>>

add(id, r) ==
    /\ Pending(id) = {}
    /\ seq < MaxSeq
    /\ events' = Insert(events, FutureEvent(id, r))
    /\ seq' = seq + 1 /\ out' = <<>> /\ UNCHANGED time

(* Handle::cancel: a lapsed handle changes nothing. *)
cancel(id) ==
    /\ \E e \in Pending(id) :
        events' = IF find(events, e) = 0 THEN events ELSE RemoveAt(events, find(events, e))
    /\ out' = <<>> /\ UNCHANGED <<time, seq>>

(* Handle::reschedule: removed where it is, inserted where it belongs. *)
reschedule(id, r) ==
    /\ seq < MaxSeq
    /\ \E e \in Pending(id) :
        /\ find(events, e) # 0
        /\ events' = Insert(RemoveAt(events, find(events, e)), FutureEvent(id, r))
    /\ seq' = seq + 1 /\ out' = <<>> /\ UNCHANGED time

Reversed(s) == [i \in 1 .. Len(s) |-> s[Len(s) + 1 - i]]

dispatch ==
    LET idx == partition_point(events, time)
    IN  /\ events' = SubSeq(events, 1, idx - 1)
        /\ out' = Reversed(SubSeq(events, idx, Len(events)))
        /\ UNCHANGED <<time, seq>>

clear == events' = <<>> /\ out' = <<>> /\ UNCHANGED <<time, seq>>

(* Mutant of next_dispatch: the end of the first event's own range. *)
next_dispatchFirst == events[Len(events)].end

(* next_dispatch_range, the end of it: walk from the earliest start, and   *)
(* narrow the range by each event that starts inside what is left of it.   *)
next_dispatch ==
    LET n == Len(events)
        scan[k \in 0 .. n - 1] ==
            IF k = 0 THEN [end |-> events[n].end, broke |-> FALSE]
            ELSE LET e == events[n - k]
                 IN  IF scan[k - 1].broke \/ e.start > scan[k - 1].end
                     THEN [scan[k - 1] EXCEPT !.broke = TRUE]
                     ELSE [scan[k - 1] EXCEPT !.end = IF e.end < @ THEN e.end ELSE @]
    IN  scan[n - 1].end

(* Time passes while the driver sleeps: until next_dispatch at the latest. *)
Tick ==
    /\ time < MaxTime
    /\ events # <<>> => time < next_dispatch
    /\ time' = time + 1 /\ out' = <<>> /\ UNCHANGED <<events, seq>>

SchedulerNext ==
    \/ \E id \in Ids, r \in Ranges : add(id, r) \/ reschedule(id, r)
    \/ \E id \in Ids : cancel(id)
    \/ dispatch \/ clear \/ Tick

SchedulerSpec == SchedulerInit /\ [][SchedulerNext]_schedulerVars

-----------------------------------------------------------------------------
(* Properties.                                                             *)

(* assert_consistent: the vector stays sorted by descending start, so the  *)
(* binary searches of add, cancel, reschedule and dispatch are meaningful; *)
(* every event has a valid range and a name of its own.                    *)
SchedulerTypeOK ==
    /\ time \in Nat /\ seq \in Nat
    /\ \A i \in DOMAIN events : events[i].start <= events[i].end
    /\ \A i, j \in DOMAIN events : i < j =>
        events[i].start >= events[j].start /\ events[i].id # events[j].id

(* A driver that sleeps until next_dispatch (the end of the common range)  *)
(* and then dispatches is never late: no pending event outlives its range, *)
(* however many overlapping ranges were folded into that one wake-up.      *)
OnTime == \A i \in DOMAIN events : time <= events[i].end

TQ == INSTANCE TimerQueue WITH now <- time, pending <- {events[i] : i \in DOMAIN events}

(* The vector with its searches implements a set of timed events: nothing  *)
(* is forgotten, dispatched twice, dispatched early or out of order, and a *)
(* cancelled or rescheduled event is never the wrong one.                  *)
ImplementsTimerQueue == TQ!Spec
=============================================================================
