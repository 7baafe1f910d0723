----------------------------- MODULE TimerQueue -----------------------------
(***************************************************************************)
(* What ts_time's Scheduler promises: a set of pending events, each with   *)
(* the range of times it is to happen in, and a dispatch that returns      *)
(* exactly the events that are due, earliest start first and, among equal  *)
(* starts, in the order they were scheduled.                               *)
(***************************************************************************)
EXTENDS Naturals, Sequences

CONSTANTS Ids, Ranges, MaxTime, MaxSeq

VARIABLES now, pending, seq, out

vars == <<now, pending, seq, out>>

Event(id, r) == [id |-> id, start |-> now + r[1], end |-> now + r[2], seq |-> seq]

Before(a, b) == a.start < b.start \/ (a.start = b.start /\ a.seq < b.seq)

DueEvents == {e \in pending : e.start <= now}

(* The events of s, each once, in dispatch order. *)
InOrder(s, events) ==
    /\ {s[i] : i \in DOMAIN s} = events
    /\ \A i, j \in DOMAIN s : i < j => Before(s[i], s[j])

Init == now = 0 /\ pending = {} /\ seq = 0 /\ out = <<>>

Add(id, r) ==
    /\ \A e \in pending : e.id # id
    /\ seq < MaxSeq
    /\ pending' = pending \cup {Event(id, r)}
    /\ seq' = seq + 1 /\ out' = <<>> /\ UNCHANGED now

Cancel(id) ==
    /\ pending' = {e \in pending : e.id # id}
    /\ out' = <<>> /\ UNCHANGED <<now, seq>>

Reschedule(id, r) ==
    /\ \E e \in pending : e.id = id
    /\ seq < MaxSeq
    /\ pending' = {e \in pending : e.id # id} \cup {Event(id, r)}
    /\ seq' = seq + 1 /\ out' = <<>> /\ UNCHANGED now

Dispatch ==
    /\ pending' = pending \ DueEvents
    /\ InOrder(out', DueEvents)
    /\ UNCHANGED <<now, seq>>

Clear == pending' = {} /\ out' = <<>> /\ UNCHANGED <<now, seq>>

Tick == now < MaxTime /\ now' = now + 1 /\ out' = <<>> /\ UNCHANGED <<pending, seq>>

Next ==
    \/ \E id \in Ids, r \in Ranges : Add(id, r) \/ Reschedule(id, r)
    \/ \E id \in Ids : Cancel(id)
    \/ Dispatch \/ Clear \/ Tick

Spec == Init /\ [][Next]_vars
=============================================================================
