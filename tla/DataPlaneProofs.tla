-------------------------- MODULE DataPlaneProofs ---------------------------
(***************************************************************************)
(* Proofs about DataPlane for any tables, transports, packets and timers:  *)
(* the schedule holds at most one event for the tunnel, and the loop never *)
(* sleeps past the time the tunnel asked for.                              *)
(***************************************************************************)
EXTENDS DataPlane, FiniteSetTheorems, TLAPS

Time == [start : Nat, end : Nat]
Scheduled(next, id) == [id |-> id, start |-> next.start, end |-> next.end]

(* What Retime relies on and keeps: every event in the schedule is the one *)
(* tunnelNext names, there is at most one, and it carries the time of the  *)
(* tunnel's next event if there is one (a peer's removal may have taken    *)
(* the tunnel's event away and left the scheduled one).                    *)
TimerInv ==
    /\ now \in Nat
    /\ tunnelEvent = None \/ tunnelEvent \in Time
    /\ \A e \in events : e.id = tunnelNext
    /\ \A e, f \in events : e = f
    /\ tunnelEvent # None => events = {Scheduled(tunnelEvent, tunnelNext)}

(* The deadline of the select is the schedule's, which only the loop's own *)
(* steps change.                                                           *)
LoopInv == TimerInv /\ (step = "select" => wake = NextDispatch(events))

(* The times the tunnel asks for are times. *)
LEMMA FutureTimes == ASSUME now \in Nat PROVE FutureEvents \subseteq Time
<1> SUFFICES ASSUME NEW r \in TimerRanges
             PROVE  [start |-> now + r[1], end |-> now + r[2]] \in Time
    BY Zenon DEF FutureEvents
<1>1. r[1] \in Nat /\ r[2] \in Nat
    BY Zenon, TimesAssumption
<1> QED
    BY <1>1 DEF Time

(* Scheduling the tunnel's next event leaves that one event in a schedule  *)
(* of which only outdated events were taken; without a next event the      *)
(* schedule stays as it is.                                                *)
LEMMA RetimeKeepsInv ==
    ASSUME TimerInv, NEW evs, evs \subseteq events, NEW next,
           next = None \/ next \in Time, Retime(evs, next), UNCHANGED now
    PROVE  TimerInv'
<1>1. tunnelEvent' = next /\ now' \in Nat
    BY Zenon DEF Retime, TimerInv
<1>2. CASE next = None
    <2>1. events' = evs /\ tunnelNext' = tunnelNext
        BY Zenon, <1>2 DEF Retime
    <2> QED
        BY Zenon, <1>1, <1>2, <2>1 DEF TimerInv
<1>3. CASE next # None
    <2> DEFINE id == Min((0 .. 2) \ ({e.id : e \in evs} \cup {tunnelNext}))
    <2>1. /\ events' = {e \in evs : e.id # tunnelNext} \cup {Scheduled(next, id)}
          /\ tunnelNext' = id
        BY Zenon, <1>3 DEF Retime, Scheduled
    <2> HIDE DEF id
    <2>2. {e \in evs : e.id # tunnelNext} = {}
        BY Zenon DEF TimerInv
    <2>3. events' = {Scheduled(next, tunnelNext')}
        BY Zenon, <2>1, <2>2
    <2>4. Scheduled(next, tunnelNext').id = tunnelNext'
        BY Zenon DEF Scheduled
    <2> QED
        BY Zenon, <1>1, <1>3, <2>3, <2>4 DEF TimerInv, Scheduled
<1> QED
    BY Zenon, <1>2, <1>3

(* Each step of the loop, of the actor and of the transports keeps both.   *)
LEMMA LoopStep == LoopInv /\ [PlaneNext]_dataVars => LoopInv'
<1> SUFFICES ASSUME LoopInv, [PlaneNext]_dataVars
             PROVE  LoopInv'
    OBVIOUS
<1>0. TimerInv
    BY Zenon DEF LoopInv
<1>1. ASSUME UNCHANGED <<timers, now>>, step' = "select" => step = "select" /\ UNCHANGED wake
      PROVE  LoopInv'
    BY Zenon, <1>1 DEF LoopInv, TimerInv, timers, NextDispatch, Scheduled
<1>2. CASE Poll
    BY Zenon, <1>2 DEF Poll, LoopInv, TimerInv, timers, NextDispatch, Scheduled
<1>3. CASE SelectOverlay \/ SelectUnderlay \/ SelectChanged \/ SelectEvent
    BY Zenon, <1>3, <1>1 DEF SelectOverlay, SelectUnderlay, SelectChanged, SelectEvent, Selected
<1>4. ASSUME NEW out, WriteUnderlay(out) PROVE step' # "select"
    BY Zenon, <1>4 DEF WriteUnderlay
<1>5. CASE ProcessOutbound
    <2>1. PICK next \in FutureEvents \cup {tunnelEvent} : Retime(events, next)
        BY Zenon, <1>5 DEF ProcessOutbound
    <2>2. UNCHANGED now /\ step' # "select"
        BY Zenon, <1>5, <1>4 DEF ProcessOutbound, Update
    <2>3. next = None \/ next \in Time
        BY <1>0, FutureTimes DEF TimerInv
    <2> QED
        BY <1>0, <2>1, <2>2, <2>3, RetimeKeepsInv DEF LoopInv
<1>6. CASE ProcessInbound
    <2>1. PICK next \in FutureEvents \cup {tunnelEvent} : Retime(events, next)
        BY Zenon, <1>6 DEF ProcessInbound
    <2>2. UNCHANGED now /\ step' # "select"
        BY <1>6, <1>4 DEF ProcessInbound, Update
    <2>3. next = None \/ next \in Time
        BY Zenon, <1>0, FutureTimes DEF TimerInv
    <2> QED
        BY Zenon, <1>0, <2>1, <2>2, <2>3, RetimeKeepsInv DEF LoopInv
<1>7. CASE ProcessEvents
    <2> DEFINE due == {e \in events : e.start <= now}
    <2>1. PICK next \in FutureEvents \cup {None, tunnelEvent} : Retime(events \ due, next)
        BY Zenon, <1>7 DEF ProcessEvents
    <2>2. UNCHANGED now /\ step' # "select"
        BY Zenon, <1>7, <1>4 DEF ProcessEvents, Update
    <2>3. next = None \/ next \in Time
        BY Zenon, <1>0, FutureTimes DEF TimerInv
    <2>4. events \ due \subseteq events
        OBVIOUS
    <2> HIDE DEF due
    <2> QED
        BY <1>0, <2>1, <2>2, <2>3, <2>4, RetimeKeepsInv DEF LoopInv
<1>8. CASE ProcessNothing
    BY Zenon, <1>8, <1>1 DEF ProcessNothing, Update
<1>9. CASE ApplyPeerRoutes \/ ApplySelfRoutes \/ ApplyPacketFilter \/ ApplySourceFilter
    BY Zenon, <1>9, <1>1 DEF ApplyPeerRoutes, ApplySelfRoutes, ApplyPacketFilter, ApplySourceFilter,
                      Applied, timers
<1>10. CASE ApplyPeers
    <2>1. /\ tunnelEvent' \in {tunnelEvent, None}
          /\ UNCHANGED <<step, wake, now, events, tunnelNext>>
        BY Zenon, <1>10 DEF ApplyPeers, Applied
    <2> QED
        BY Zenon, <2>1 DEF LoopInv, TimerInv, NextDispatch, Scheduled
<1>11. CASE NewUnderlayTransport
    BY Zenon, <1>11, <1>1 DEF NewUnderlayTransport
<1>12. CASE \E t \in DOMAIN underlay : RegionPanics(t)
    BY <1>12, <1>1 DEF RegionPanics
<1>13. CASE \E dsts \in SeqOf(Remote, 2) \ {<<>>} : WriteLocal(dsts)
    BY Zenon, <1>13, <1>1 DEF WriteLocal
<1>14. CASE \E d \in Arrivals : Arriving(d)
    BY <1>14, <1>1 DEF Arriving
<1>15. CASE Tick
    <2>1. /\ now' = now + 1
          /\ UNCHANGED <<step, wake, timers>>
        BY Zenon, <1>15 DEF Tick
    <2> QED
        BY <2>1 DEF LoopInv, TimerInv, timers, NextDispatch, Scheduled
<1>16. CASE UNCHANGED dataVars
    BY <1>16, <1>1 DEF dataVars
<1> QED
    BY <1>2, <1>3, <1>5, <1>6, <1>7, <1>8, <1>9, <1>10, <1>11, <1>12, <1>13, <1>14, <1>15, <1>16
    DEF PlaneNext, Loop

LEMMA LoopStart == PlaneInit => LoopInv
BY DEF PlaneInit, LoopInv, TimerInv

(* The scheduler never holds two events for the tunnel, however packets,   *)
(* events, changes of peers and dispatched or outdated timers interleave:  *)
(* process_outbound, process_inbound and process_events always cancel the  *)
(* event they replace.                                                     *)
THEOREM PlaneOneTimer == PlaneSpec => []OneTimer
<1>1. LoopInv => OneTimer
    <2> SUFFICES ASSUME LoopInv PROVE Cardinality(events) <= 1
        BY Zenon DEF OneTimer
    <2>1. CASE events = {}
        BY <2>1, FS_EmptySet
    <2>2. CASE events # {}
        <3>1. PICK e \in events : TRUE
            BY Zenon, <2>2
        <3>2. events = {e}
            BY Zenon, <3>1 DEF LoopInv, TimerInv
        <3>3. Cardinality({e}) = 1
            BY FS_Singleton
        <3> QED
            BY <3>2, <3>3
    <2> QED
        BY Zenon, <2>1, <2>2
<1> QED
    BY <1>1, LoopStart, LoopStep, PTL DEF PlaneSpec

(* The deadline the loop sleeps until is never later than the end of the   *)
(* tunnel's next event, although the deadline is read under one lock, and  *)
(* the actor may change the tunnel before the select begins.               *)
THEOREM PlaneWakesInTime == PlaneSpec => []WakesInTime
<1>1. LoopInv => WakesInTime
    <2> SUFFICES ASSUME LoopInv, step = "select", tunnelEvent # None
                 PROVE  wake # None /\ wake <= tunnelEvent.end
        BY Zenon DEF WakesInTime
    <2>1. /\ wake = NextDispatch(events) /\ tunnelEvent.end \in Nat
          /\ events = {Scheduled(tunnelEvent, tunnelNext)}
        BY Zenon DEF LoopInv, TimerInv, Time
    <2>2. {e.end : e \in events} = {tunnelEvent.end}
        BY <2>1 DEF Scheduled
    <2>3. Min({tunnelEvent.end}) = tunnelEvent.end
        BY <2>1 DEF Min
    <2>4. wake = tunnelEvent.end
        BY Zenon, <2>1, <2>2, <2>3 DEF NextDispatch
    <2> QED
        BY <2>1, <2>4, TimesAssumption
<1> QED
    BY <1>1, LoopStart, LoopStep, PTL DEF PlaneSpec
=============================================================================
