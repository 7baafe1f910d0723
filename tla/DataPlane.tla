------------------------------ MODULE DataPlane ------------------------------
(***************************************************************************)
(* The data plane (src/ts_dataplane): the step loop that waits for packets *)
(* from overlay and underlay transports or for a timer, the routers it     *)
(* consults, and the actor that replaces its tables between steps          *)
(* (src/ts_runtime/src/dataplane.rs).                                      *)
(*                                                                         *)
(* The tunnel is abstract here (WgEndpoint and ShadowVpn model it): a      *)
(* known peer's packets are sealed and opened, and every call may change   *)
(* the time of the tunnel's next event.  A routing table is a function on  *)
(* addresses (BartTable models the lookup).  Packets are numbered in the   *)
(* order the local transport wrote them.                                   *)
(***************************************************************************)
EXTENDS Integers, Sequences, FiniteSets, SequencesExt, FiniteSetsExt

CONSTANTS
    Addrs, PeerIds,
    Remote,          \* the addresses local packets are sent to
    First,           \* the first values of the tables: <<peers, routes, self routes, source filter, packet filter>>
    PeerSets,        \* sets of tunnel peers the peer tracker may publish
    PeerRoutes,      \* peer route updates: [out : Addrs -> action, under : set of <<peer, transport>>]
    SelfRoutes,      \* self route updates: Addrs -> overlay transport or None
    SourceFilters,   \* source filters: Addrs -> peer or None
    PacketFilters,   \* packet filters: sets of <<src, dst>>
    Arrivals,        \* datagrams that may arrive: [peer, src, dst]
    MaxTransports, MaxPackets, MaxArrivals, MaxChanges, MaxTime,
    TimerRanges,     \* how long after now the tunnel may ask to be woken: <<start, end>>
    None

ASSUME TimesAssumption ==
    /\ TimerRanges \subseteq Nat \X Nat
    /\ None \notin Nat

VARIABLES
    peers, routes, selfRoutes, srcFilter, filter,   \* CoreState.sync
    overlay,       \* the queue of the local overlay transport
    underlay,      \* the allocated underlay transports: [q, alive]
    fromOverlay, fromUnderlay,                      \* PollState
    step,          \* "poll", "select", "update"; "dead" after a panic
    wake,          \* the deadline the select sleeps until
    job,           \* what the select returned
    notified,      \* transports_changed woke the waiting select
    now,
    tunnelEvent,   \* Endpoint::next_event
    events,        \* DataPlane::events
    tunnelNext,    \* DataPlane::tunnel_next: the id of the last event added
    packets, arrivals, changes                      \* what was used of the bounds

tables == <<peers, routes, selfRoutes, srcFilter, filter>>
timers == <<tunnelEvent, events, tunnelNext>>
dataVars == <<tables, overlay, underlay, fromOverlay, fromUnderlay, step, wake, job, notified,
              now, timers, packets, arrivals, changes>>

(* A data plane whose actor has applied a first update of each kind. *)
PlaneInit ==
    /\ peers = First[1] /\ routes = First[2] /\ selfRoutes = First[3]
    /\ srcFilter = First[4] /\ filter = First[5]
    /\ overlay = <<>> /\ underlay = <<>> /\ fromOverlay = <<>> /\ fromUnderlay = <<>>
    /\ step = "poll" /\ wake = None /\ job = None /\ notified = FALSE
    /\ now = 0 /\ tunnelEvent = None /\ events = {} /\ tunnelNext = None
    /\ packets = 0 /\ arrivals = 0 /\ changes = 0

-----------------------------------------------------------------------------
(* The scheduler, as ts_time's Scheduler promises (TimerQueue) *)

NextDispatch(evs) == IF evs = {} THEN None ELSE Min({e.end : e \in evs})

(* Mutant of Retime: an event is scheduled only if none was before. *)
RetimeOnce(evs, next) ==
    /\ tunnelEvent' = next
    /\ IF next = None \/ tunnelNext # None THEN events' = evs /\ UNCHANGED tunnelNext
       ELSE /\ events' = evs \cup {[id |-> 0, start |-> next.start, end |-> next.end]}
            /\ tunnelNext' = 0

(* The end of process_outbound, process_inbound and process_events: the    *)
(* tunnel's next event is scheduled, and the one scheduled before it is    *)
(* cancelled (which does nothing if it was dispatched).  A tunnel without  *)
(* a next event leaves the schedule alone.                                 *)
Retime(evs, next) ==
    /\ tunnelEvent' = next
    /\ IF next = None THEN events' = evs /\ UNCHANGED tunnelNext
       ELSE LET id == Min((0 .. 2) \ ({e.id : e \in evs} \cup {tunnelNext}))
            IN  /\ events' = {e \in evs : e.id # tunnelNext}
                              \cup {[id |-> id, start |-> next.start, end |-> next.end]}
                /\ tunnelNext' = id

(* The times the tunnel may ask for. *)
FutureEvents == {[start |-> now + r[1], end |-> now + r[2]] : r \in TimerRanges}

-----------------------------------------------------------------------------
(* Routing *)

(* Mutant of RouteOut: the packets of a destination change places. *)
RouteOutReversed(pkts, p, order) ==
    FlattenSeq([i \in DOMAIN order |->
        Reverse(SelectSeq(pkts, LAMBDA k : k.dst = order[i] /\ routes.out[order[i]] = p))])

(* or_out.route: packets are grouped by destination, and the groups of one *)
(* next hop joined in the order of a hash map.                             *)
RouteOut(pkts, p, order) ==
    FlattenSeq([i \in DOMAIN order |->
        SelectSeq(pkts, LAMBDA k : k.dst = order[i] /\ routes.out[order[i]] = p)])

(* ur_out.route and write_to_underlay: a peer without a route, and a       *)
(* transport that was never allocated, drop the packets.                   *)
TransportOf(p) == {r[2] : r \in {x \in routes.under : x[1] = p /\ x[2] \in DOMAIN underlay}}

(* Queueing panics when the transport's receiver is gone. *)
WriteUnderlay(out) ==
    LET used == {t \in DOMAIN underlay : \E p \in PeerIds : t \in TransportOf(p) /\ out[p] # <<>>}
    IN  IF \E t \in used : ~underlay[t].alive
        THEN step' = "dead" /\ UNCHANGED underlay
        ELSE /\ step' = "poll"
             /\ underlay' = [t \in DOMAIN underlay |->
                    [underlay[t] EXCEPT !.q = @ \o FlattenSeq([p \in 1 .. Cardinality(PeerIds) |->
                        IF t \in TransportOf(SetToSeq(PeerIds)[p]) THEN out[SetToSeq(PeerIds)[p]]
                        ELSE <<>>])]]

(* process_inbound's verdict on a datagram: opened by a peer, with a       *)
(* source that belongs to this peer, let through by the packet filter, and *)
(* routed to an overlay transport.                                         *)
Accepted(d) ==
    /\ d.peer \in peers
    /\ srcFilter[d.src] = d.peer
    /\ <<d.src, d.dst>> \in filter
    /\ selfRoutes[d.dst] # None

-----------------------------------------------------------------------------
(* The step loop *)

(* The first lock: when must process_events be called? *)
Poll ==
    /\ step = "poll"
    /\ wake' = NextDispatch(events) /\ step' = "select"
    /\ UNCHANGED <<tables, overlay, underlay, fromOverlay, fromUnderlay, job, notified, now,
                   timers, packets, arrivals, changes>>

Selected(j) ==
    /\ step = "select" /\ step' = "update" /\ job' = j /\ notified' = FALSE
    /\ UNCHANGED <<tables, overlay, underlay, wake, now, timers, packets, arrivals, changes>>

SelectOverlay ==
    /\ fromOverlay # <<>> /\ fromOverlay' = Tail(fromOverlay) /\ UNCHANGED fromUnderlay
    /\ Selected([kind |-> "outbound", batch |-> Head(fromOverlay)])

SelectUnderlay ==
    /\ fromUnderlay # <<>> /\ fromUnderlay' = Tail(fromUnderlay) /\ UNCHANGED fromOverlay
    /\ Selected([kind |-> "inbound", batch |-> Head(fromUnderlay)])

SelectChanged ==
    /\ notified /\ UNCHANGED <<fromOverlay, fromUnderlay>>
    /\ Selected([kind |-> "changed", batch |-> <<>>])

SelectEvent ==
    /\ wake # None /\ now >= wake /\ UNCHANGED <<fromOverlay, fromUnderlay>>
    /\ Selected([kind |-> "event", batch |-> <<>>])

Update(kind) ==
    /\ step = "update" /\ job.kind = kind /\ job' = None
    /\ UNCHANGED <<tables, fromOverlay, fromUnderlay, wake, notified, now, packets, arrivals, changes>>

(* What the tunnel sends of its own: a handshake message or a keepalive. *)
Probe == <<[n |-> 0, dst |-> None]>>

ProcessOutbound ==
    /\ Update("outbound") /\ UNCHANGED overlay
    /\ \E order \in SetToSeqs(Remote),
          next \in FutureEvents \cup {tunnelEvent} :
        /\ WriteUnderlay([p \in PeerIds |-> IF p \in peers THEN RouteOut(job.batch, p, order) ELSE <<>>])
        /\ Retime(events, next)

ProcessInbound ==
    /\ Update("inbound")
    /\ \E replies \in SUBSET (peers \cap {d.peer : d \in Range(job.batch)}),
          next \in FutureEvents \cup {tunnelEvent} :
        /\ WriteUnderlay([p \in PeerIds |-> IF p \in replies THEN Probe ELSE <<>>])
        /\ overlay' = IF step' = "dead" THEN overlay ELSE overlay \o SelectSeq(job.batch, Accepted)
        /\ Retime(events, next)

(* The tunnel's events that are due happen; what it asks for next lies in  *)
(* the future.                                                             *)
ProcessEvents ==
    LET due == {e \in events : e.start <= now}
        served == due # {} /\ tunnelEvent # None /\ tunnelEvent.start <= now
    IN  /\ Update("event") /\ UNCHANGED overlay
        /\ \E probes \in SUBSET (IF due = {} THEN {} ELSE peers),
              next \in FutureEvents \cup (IF served THEN {None} ELSE {tunnelEvent}) :
            /\ WriteUnderlay([p \in PeerIds |-> IF p \in probes THEN Probe ELSE <<>>])
            /\ Retime(events \ due, next)

ProcessNothing ==
    /\ Update("changed") /\ step' = "poll"
    /\ UNCHANGED <<overlay, underlay, timers>>

-----------------------------------------------------------------------------
(* The actor, through DataPlane::inner *)

Applied ==
    /\ changes < MaxChanges /\ changes' = changes + 1
    /\ UNCHANGED <<overlay, underlay, fromOverlay, fromUnderlay, step, wake, job, notified, now,
                   events, tunnelNext, packets, arrivals>>

ApplyPeerRoutes ==
    /\ Applied /\ routes' \in PeerRoutes \ {routes}
    /\ UNCHANGED <<peers, selfRoutes, srcFilter, filter, tunnelEvent>>

ApplySelfRoutes ==
    /\ Applied /\ selfRoutes' \in SelfRoutes \ {selfRoutes}
    /\ UNCHANGED <<peers, routes, srcFilter, filter, tunnelEvent>>

ApplyPacketFilter ==
    /\ Applied /\ filter' \in PacketFilters \ {filter}
    /\ UNCHANGED <<peers, routes, selfRoutes, srcFilter, tunnelEvent>>

ApplySourceFilter ==
    /\ Applied /\ srcFilter' \in SourceFilters \ {srcFilter}
    /\ UNCHANGED <<peers, routes, selfRoutes, filter, tunnelEvent>>

(* Upserts and deletions of tunnel peers; the events of a deleted peer are *)
(* gone with it.                                                           *)
ApplyPeers ==
    /\ Applied /\ peers' \in PeerSets \ {peers}
    /\ tunnelEvent' \in {tunnelEvent} \cup (IF peers \subseteq peers' THEN {} ELSE {None})
    /\ UNCHANGED <<routes, selfRoutes, srcFilter, filter>>

(* new_underlay_transport: only a select that is waiting is notified. *)
NewUnderlayTransport ==
    /\ Len(underlay) < MaxTransports
    /\ underlay' = Append(underlay, [q |-> <<>>, alive |-> TRUE])
    /\ notified' = (step = "select")
    /\ UNCHANGED <<tables, overlay, fromOverlay, fromUnderlay, step, wake, job, now, timers,
                   packets, arrivals, changes>>

(* A region's task panics in Client::connect: its receiver is dropped, the *)
(* transport stays allocated (DerpRegion).                                 *)
RegionPanics(t) ==
    /\ underlay[t].alive /\ underlay' = [underlay EXCEPT ![t].alive = FALSE]
    /\ UNCHANGED <<tables, overlay, fromOverlay, fromUnderlay, step, wake, job, notified, now,
                   timers, packets, arrivals, changes>>

(* The netstack writes a batch of up to two packets. *)
WriteLocal(dsts) ==
    /\ packets + Len(dsts) <= MaxPackets /\ packets' = packets + Len(dsts)
    /\ fromOverlay' = Append(fromOverlay, [i \in DOMAIN dsts |-> [n |-> packets + i, dst |-> dsts[i]]])
    /\ UNCHANGED <<tables, overlay, underlay, fromUnderlay, step, wake, job, notified, now, timers,
                   arrivals, changes>>

Arriving(d) ==
    /\ arrivals < MaxArrivals /\ arrivals' = arrivals + 1
    /\ fromUnderlay' = Append(fromUnderlay, <<d>>)
    /\ UNCHANGED <<tables, overlay, underlay, fromOverlay, step, wake, job, notified, now, timers,
                   packets, changes>>

Tick == now < MaxTime /\ now' = now + 1
        /\ UNCHANGED <<tables, overlay, underlay, fromOverlay, fromUnderlay, step, wake, job,
                       notified, timers, packets, arrivals, changes>>

Loop ==
    \/ Poll \/ SelectOverlay \/ SelectUnderlay \/ SelectChanged \/ SelectEvent
    \/ ProcessOutbound \/ ProcessInbound \/ ProcessEvents \/ ProcessNothing

PlaneNext ==
    \/ Loop
    \/ ApplyPeerRoutes \/ ApplySelfRoutes \/ ApplyPacketFilter \/ ApplySourceFilter \/ ApplyPeers
    \/ NewUnderlayTransport
    \/ \E t \in DOMAIN underlay : RegionPanics(t)
    \/ \E dsts \in SeqOf(Remote, 2) \ {<<>>} : WriteLocal(dsts)
    \/ \E d \in Arrivals : Arriving(d)
    \/ Tick

(* The task that runs the loop is polled whenever it can move. *)
PlaneRuns == WF_dataVars(Loop)
PlaneSpec == PlaneInit /\ [][PlaneNext]_dataVars /\ PlaneRuns

-----------------------------------------------------------------------------
(* The scheduler holds at most one event for the tunnel: replacing it      *)
(* never leaks one, also across events that were dispatched or outdated.   *)
OneTimer == Cardinality(events) <= 1

(* While the loop sleeps, it sleeps no longer than the tunnel allows: the  *)
(* deadline read under the first lock is not outdated by what the actor    *)
(* does to the tunnel before the select.                                   *)
WakesInTime ==
    step = "select" /\ tunnelEvent # None => wake # None /\ wake <= tunnelEvent.end

(* Packets for one destination keep their order in every transport's       *)
(* queue, whatever the batches, the grouping by destination and the        *)
(* changes of routes between them do.                                      *)
FlowOrder ==
    \A t \in DOMAIN underlay : \A i, j \in DOMAIN underlay[t].q :
        LET a == underlay[t].q[i]  b == underlay[t].q[j]
        IN  i < j /\ a.dst = b.dst /\ a.dst # None => a.n < b.n

(* A tunnel event whose time has come is served, unless the loop died. *)
EventsServed == []<>(step = "dead" \/ tunnelEvent = None \/ tunnelEvent.end > now)
=============================================================================

