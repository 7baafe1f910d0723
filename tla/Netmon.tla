------------------------------- MODULE Netmon -------------------------------
(***************************************************************************)
(* The network monitor, from the platform to the runtime's netmon actor:   *)
(* the platform's notifications and the first dump of its state            *)
(* (src/ts_netmon/src/linux/mod.rs, src/ts_netmon/src/windows), the        *)
(* default route events added to the stream (src/ts_netmon/src/netmon.rs)  *)
(* and the actor that coalesces them (src/ts_runtime/src/netmon.rs).       *)
(*                                                                         *)
(* Strong is the Linux monitor: one ordered stream, notifications carry    *)
(* the state they announce, a removed link takes its routes and addresses  *)
(* with it.  Otherwise it is the Windows one: one stream for each kind of  *)
(* resource, merged in any order, and what an upsert announces is read     *)
(* from the kernel when the notification is handled.                       *)
(***************************************************************************)
EXTENDS Naturals, Sequences, FiniteSets, Functions, SequencesExt

-----------------------------------------------------------------------------
(***************************************************************************)
(* The default route tracker of ts_netmon (src/ts_netmon/src/netmon.rs,    *)
(* DefaultRouteState) and the network state the runtime keeps from the     *)
(* events (src/ts_runtime/src/netmon.rs, State and handle_event).          *)
(*                                                                         *)
(* Interfaces and gateways are numbers (their order breaks ties).  A route *)
(* is a record: fam, whole (a zero-length destination prefix), gw (NoGw    *)
(* when on-link) and metric.  An address is <<address, prefix length>>.    *)
(***************************************************************************)

CONSTANTS Ifaces, NoIface, NoGw, Families

Entry(f, k, v) == [x \in DOMAIN f \cup {k} |-> IF x = k THEN v ELSE f[x]]
Without(f, ks) == Restrict(f, DOMAIN f \ ks)

(* Route::is_default_route: covers everything, and through a gateway.      *)
IsDefaultRoute(r) == r.whole /\ r.gw # NoGw

(* Route::unique: the destination and the gateways, not the metric.        *)
Unique(r) == <<r.fam, r.whole, r.gw>>

-----------------------------------------------------------------------------
(* DefaultRouteState.  metrics is the set of <<metric, interface, gw>>.    *)

TrackerNew == [metrics |-> {}, up |-> {}, last |-> NoIface]

Before(e, f) == \/ e[1] < f[1]
                \/ e[1] = f[1] /\ e[2] <= f[2]

(* The interface of the least entry whose interface is up.                 *)
BestOf(metrics, up) ==
    LET open == {e \in metrics : e[2] \in up}
    IN IF open = {} THEN NoIface
       ELSE (CHOOSE e \in open : \A f \in open : Before(e, f))[2]

UpdateBest(d) == [d EXCEPT !.last = BestOf(d.metrics, d.up)]

Concerns(fam, r) == r.fam = fam /\ IsDefaultRoute(r)

AddRoute(d, fam, i, r) ==
    LET e == <<r.metric, i, r.gw>>
    IN IF ~Concerns(fam, r) \/ e \in d.metrics THEN d
       ELSE UpdateBest([d EXCEPT !.metrics = @ \cup {e}])

RemoveRoute(d, fam, i, r) ==
    LET e == <<r.metric, i, r.gw>>
    IN IF ~Concerns(fam, r) \/ e \notin d.metrics THEN d
       ELSE UpdateBest([d EXCEPT !.metrics = @ \ {e}])

(* The best interface is computed only when the set of up interfaces       *)
(* changes.                                                                *)
UpdateInterfaceState(d, i, up) ==
    LET now == IF up THEN d.up \cup {i} ELSE d.up \ {i}
    IN IF now = d.up THEN d ELSE UpdateBest([d EXCEPT !.up = now])

(* remove_interface: the retained entries are those OF the interface, and  *)
(* the best is computed when one is retained.                              *)
RemoveInterface(d, i) ==
    LET kept == {e \in d.metrics : e[2] = i}
        now == [d EXCEPT !.metrics = kept, !.up = @ \ {i}]
    IN IF kept = {} THEN now ELSE UpdateBest(now)

(* One event through the scan of with_default_route_events.                *)
Track(d, fam, ev, strong) ==
    CASE ev.kind = "route_upsert"   -> AddRoute(d, fam, ev.i, ev.route)
      [] ev.kind = "route_removed"  -> RemoveRoute(d, fam, ev.i, ev.route)
      [] ev.kind = "iface_upsert"   -> UpdateInterfaceState(d, ev.i, ev.up)
      [] ev.kind = "iface_removed"  -> IF strong THEN RemoveInterface(d, ev.i) ELSE d
      [] OTHER -> d

-----------------------------------------------------------------------------
(* The runtime's State.  routes is keyed by <<interface, unique>>, addrs   *)
(* by <<interface, address key>>: no empty inner map is ever kept.         *)

NoState == [ifaces |-> [x \in {} |-> 0], routes |-> [x \in {} |-> 0],
            addrs |-> [x \in {} |-> 0], dflt |-> [f \in Families |-> NoIface]]

(* split_interface_addr *)
AddrKey(addr, uniqueAddrs) == IF uniqueAddrs THEN <<addr[1], 0>> ELSE addr

OfIface(f, i) == {k \in DOMAIN f : k[1] = i}

(* InterfaceRemoved: the conditions are short-circuit, so routes are only  *)
(* dropped when the interface was unknown, and addresses only when it had  *)
(* no routes either.                                                       *)
HandleIfaceRemoved(s, i, strong) ==
    LET known == i \in DOMAIN s.ifaces
        routed == OfIface(s.routes, i) # {}
    IN [s EXCEPT !.ifaces = Without(@, {i}),
                 !.routes = IF strong /\ ~known THEN Without(@, OfIface(@, i)) ELSE @,
                 !.addrs = IF strong /\ ~known /\ ~routed
                           THEN Without(@, OfIface(@, i)) ELSE @]

(* handle_event; "modified" is that the state differs.  An error event is  *)
(* logged.                                                                 *)
HandleEvent(s, ev, strong, uniqueAddrs) ==
    CASE ev.kind = "route_upsert"  ->
            [s EXCEPT !.routes = Entry(@, <<ev.i, Unique(ev.route)>>, ev.route.metric)]
      [] ev.kind = "route_removed" ->
            [s EXCEPT !.routes = Without(@, {<<ev.i, Unique(ev.route)>>})]
      [] ev.kind = "addr_upsert"   ->
            [s EXCEPT !.addrs = Entry(@, <<ev.i, AddrKey(ev.addr, uniqueAddrs)>>, ev.addr[2])]
      [] ev.kind = "addr_removed"  ->
            [s EXCEPT !.addrs = Without(@, {<<ev.i, AddrKey(ev.addr, uniqueAddrs)>>})]
      [] ev.kind = "iface_upsert"  -> [s EXCEPT !.ifaces = Entry(@, ev.i, ev.up)]
      [] ev.kind = "iface_removed" -> HandleIfaceRemoved(s, ev.i, strong)
      [] ev.kind = "default"       -> [s EXCEPT !.dflt[ev.fam] = ev.i]
      [] ev.kind = "error"         -> s

(* up_addrs, up_routes: what is on interfaces that are known to be up.     *)
UpOnly(s, f) == {k \in DOMAIN f : k[1] \in DOMAIN s.ifaces /\ s.ifaces[k[1]]}
UpAddrs(s) == {<<k[1], k[2][1], s.addrs[k]>> : k \in UpOnly(s, s.addrs)}
UpRoutes(s) == {<<k[1], k[2], s.routes[k]>> : k \in UpOnly(s, s.routes)}

-----------------------------------------------------------------------------
CONSTANTS Strong,          \* strong_delete_consistency (and ~interface_unique_addrs)
          RouteSet,        \* the routes the platform may have
          AddrSet,         \* the addresses it may have
          MaxChanges,      \* bound on the platform's changes
          SilentRemovals,  \* may a link's deletion stand for its routes' and addresses'?
          RoutedRemovals,  \* may a link be removed while default routes exist?
          Vanishing        \* may a route vanish while Windows' first dump is read?

Kinds == IF Strong THEN {"all"} ELSE {"link", "addr", "route"}

VARIABLES links,     \* platform: link -> is it up
          rts,       \* platform: set of <<interface, route>>
          ads,       \* platform: set of <<interface, address>>
          changes,   \* how many changes the platform made
          notes,     \* stream kind -> notifications not yet handled
          dumped,    \* which parts of the first dump have been read
          tracker,   \* family -> DefaultRouteState
          stream,    \* events ready for the actor
          state,     \* NetmonActor.state
          published  \* the last state published on the bus

platform == <<links, rts, ads, changes>>
netmonVars == <<links, rts, ads, changes, notes, dumped, tracker, stream, state, published>>

DumpParts == {"link", "addr", "route"}

NetmonInit ==
    /\ links \in [{1} -> BOOLEAN]
    /\ rts \in {{}} \cup {{<<1, r>>} : r \in RouteSet}
    /\ ads = {}
    /\ changes = 0
    /\ notes = [k \in Kinds |-> << >>]
    /\ dumped = {}
    /\ tracker = [f \in Families |-> TrackerNew]
    /\ stream = << >>
    /\ state = NoState
    /\ published = NoState

-----------------------------------------------------------------------------
(* The platform *)

KindOf(ev) == IF Strong THEN "all"
              ELSE CASE ev.kind \in {"iface_upsert", "iface_removed"} -> "link"
                     [] ev.kind \in {"addr_upsert", "addr_removed"} -> "addr"
                     [] OTHER -> "route"

Notify(evs) ==
    notes' = [k \in Kinds |-> notes[k] \o SelectSeq(evs, LAMBDA e : KindOf(e) = k)]

Link(i, up) == [kind |-> "iface_upsert", i |-> i, up |-> up]
LinkGone(i) == [kind |-> "iface_removed", i |-> i]
RouteUp(i, r) == [kind |-> "route_upsert", i |-> i, route |-> r]
RouteGone(i, r) == [kind |-> "route_removed", i |-> i, route |-> r]
AddrUp(i, a) == [kind |-> "addr_upsert", i |-> i, addr |-> a]
AddrGone(i, a) == [kind |-> "addr_removed", i |-> i, addr |-> a]
ErrorEvent == [kind |-> "error"]
DefaultEvent(f, i) == [kind |-> "default", fam |-> f, i |-> i]

Changes == /\ changes < MaxChanges
           /\ changes' = changes + 1
           /\ UNCHANGED <<dumped, tracker, stream, state, published>>

SetLink(i, up) ==
    /\ Changes
    /\ i \in DOMAIN links => links[i] # up
    /\ links' = Entry(links, i, up)
    /\ Notify(<<Link(i, up)>>)
    /\ UNCHANGED <<rts, ads>>

(* A link goes with its routes and addresses.  Linux may leave out their   *)
(* own notifications; Windows always sends them.                           *)
DropLink(i) ==
    LET goneRts == {x \in rts : x[1] = i}
        goneAds == {x \in ads : x[1] = i}
        own == SetToSeq({RouteGone(i, x[2]) : x \in goneRts}
                          \cup {AddrGone(i, x[2]) : x \in goneAds})
    IN /\ Changes
       /\ i \in DOMAIN links
       /\ Strong /\ ~RoutedRemovals => ~\E x \in rts : IsDefaultRoute(x[2])
       /\ links' = Without(links, {i})
       /\ rts' = rts \ goneRts
       /\ ads' = ads \ goneAds
       /\ \E silent \in (IF Strong /\ SilentRemovals THEN BOOLEAN ELSE {FALSE}) :
             Notify((IF silent THEN << >> ELSE own) \o <<LinkGone(i)>>)

(* A route whose unique part is there already is the same route with       *)
(* another metric: Windows edits it in place.  (Linux has both routes,     *)
(* which the runtime's State cannot tell apart; they are left out.)        *)
SameRoute(i, r) == {x \in rts : x[1] = i /\ Unique(x[2]) = Unique(r)}

SetRoute(i, r) ==
    /\ Changes
    /\ i \in DOMAIN links
    /\ <<i, r>> \notin rts
    /\ SameRoute(i, r) # {} => ~Strong
    /\ rts' = (rts \ SameRoute(i, r)) \cup {<<i, r>>}
    /\ Notify(<<RouteUp(i, r)>>)
    /\ UNCHANGED <<links, ads>>

DropRoute(i, r) ==
    /\ Changes
    /\ <<i, r>> \in rts
    /\ rts' = rts \ {<<i, r>>}
    /\ Notify(<<RouteGone(i, r)>>)
    /\ UNCHANGED <<links, ads>>

(* On Windows an address is unique on its interface and its prefix length  *)
(* may change in place.                                                    *)
SameAddr(i, a) == IF Strong THEN {} ELSE {x \in ads : x[1] = i /\ x[2][1] = a[1]}

SetAddr(i, a) ==
    /\ Changes
    /\ i \in DOMAIN links
    /\ <<i, a>> \notin ads
    /\ ads' = (ads \ SameAddr(i, a)) \cup {<<i, a>>}
    /\ Notify(<<AddrUp(i, a)>>)
    /\ UNCHANGED <<links, rts>>

DropAddr(i, a) ==
    /\ Changes
    /\ <<i, a>> \in ads
    /\ ads' = ads \ {<<i, a>>}
    /\ Notify(<<AddrGone(i, a)>>)
    /\ UNCHANGED <<links, rts>>

Platform == \E i \in Ifaces :
                \/ \E up \in BOOLEAN : SetLink(i, up)
                \/ DropLink(i)
                \/ \E r \in RouteSet : SetRoute(i, r) \/ DropRoute(i, r)
                \/ \E a \in AddrSet : SetAddr(i, a) \/ DropAddr(i, a)

-----------------------------------------------------------------------------
(* The monitor's stream *)

(* with_default_route_events: the event, followed by the change of default *)
(* interface that it causes in each family.                                *)
Emit(evs) ==
    LET step(acc, ev) ==
            LET t == [f \in Families |-> Track(acc.t[f], f, ev, Strong)]
                moved == {f \in Families : t[f].last # acc.t[f].last}
            IN [t |-> t,
                out |-> acc.out \o <<ev>>
                          \o SetToSeq({DefaultEvent(f, t[f].last) : f \in moved})]
        all == FoldLeft(step, [t |-> tracker, out |-> stream], evs)
    IN tracker' = all.t /\ stream' = all.out

(* The dump of one kind of resource: init_state of either platform.  Linux *)
(* reads the three kinds in any order; Windows reads links and addresses,  *)
(* then routes, and gives up on all when a route it lists has vanished.    *)
DumpOf(part) ==
    CASE part = "link" -> SetToSeq({Link(i, links[i]) : i \in DOMAIN links})
      [] part = "addr" -> SetToSeq({AddrUp(x[1], x[2]) : x \in ads})
      [] part = "route" -> SetToSeq({RouteUp(x[1], x[2]) : x \in rts})

Dump ==
    /\ dumped # DumpParts
    /\ IF Strong
       THEN \E part \in DumpParts \ dumped :
               Emit(DumpOf(part)) /\ dumped' = dumped \cup {part}
       ELSE \E lost \in (IF Vanishing THEN BOOLEAN ELSE {FALSE}) :
               /\ Emit(IF lost THEN <<ErrorEvent>>
                       ELSE DumpOf("link") \o DumpOf("addr") \o DumpOf("route"))
               /\ dumped' = DumpParts
    /\ UNCHANGED <<platform, notes, state, published>>

(* handle_route_change, handle_unicast_change, handle_link_change: an      *)
(* upsert reads the current row; a removed route has lost its metric.      *)
WindowsEvent(ev) ==
    CASE ev.kind = "route_upsert" ->
            IF SameRoute(ev.i, ev.route) = {} THEN <<ErrorEvent>>
            ELSE <<[ev EXCEPT !.route = (CHOOSE x \in SameRoute(ev.i, ev.route) : TRUE)[2]]>>
      [] ev.kind = "route_removed" -> <<[ev EXCEPT !.route.metric = 0]>>
      [] ev.kind = "addr_upsert" ->
            IF SameAddr(ev.i, ev.addr) = {} THEN <<ev>>
            ELSE <<[ev EXCEPT !.addr = (CHOOSE x \in SameAddr(ev.i, ev.addr) : TRUE)[2]]>>
      [] ev.kind = "iface_upsert" ->
            IF ev.i \in DOMAIN links THEN <<[ev EXCEPT !.up = links[ev.i]]>> ELSE << >>
      [] OTHER -> <<ev>>

(* The updates follow the whole dump (init.chain(updates)).                *)
HandleNote(k) ==
    /\ dumped = DumpParts
    /\ notes[k] # << >>
    /\ Emit(IF Strong THEN <<Head(notes[k])>> ELSE WindowsEvent(Head(notes[k])))
    /\ notes' = [notes EXCEPT ![k] = Tail(@)]
    /\ UNCHANGED <<platform, dumped, state, published>>

(* Mutant of Chunk: published only if the last event modified the state.   *)
ChunkLast(n) ==
    LET handle(s, ev) == HandleEvent(s, ev, Strong, ~Strong)
        before == FoldLeft(handle, state, SubSeq(stream, 1, n - 1))
    IN /\ stream' = SubSeq(stream, n + 1, Len(stream))
       /\ state' = handle(before, stream[n])
       /\ published' = IF state' # before THEN state' ELSE published
       /\ UNCHANGED <<platform, notes, dumped, tracker>>

(* The actor takes a chunk of events (one, or all that are ready) and      *)
(* publishes the state if one of them modified it.                         *)
Chunk(n) ==
    LET after == FoldLeft(LAMBDA s, ev : HandleEvent(s, ev, Strong, ~Strong),
                          state, SubSeq(stream, 1, n))
    IN /\ stream' = SubSeq(stream, n + 1, Len(stream))
       /\ state' = after
       /\ published' = IF after # state THEN after ELSE published
       /\ UNCHANGED <<platform, notes, dumped, tracker>>

Actor == stream # << >> /\ \E n \in {1, Len(stream)} : Chunk(n)

NetmonNext == Platform \/ Dump \/ (\E k \in Kinds : HandleNote(k)) \/ Actor

NetmonSpec == NetmonInit /\ [][NetmonNext]_netmonVars

-----------------------------------------------------------------------------
Settled == /\ dumped = DumpParts
           /\ \A k \in Kinds : notes[k] = << >>
           /\ stream = << >>

(* Once every notification is handled, the published state is the          *)
(* platform's: its links, and on each interface its routes with their      *)
(* metrics and its addresses with their prefix lengths, however the dump   *)
(* and the notifications interleaved.                                      *)
PublishedMirrorsPlatform ==
    Settled =>
        /\ published.ifaces = links
        /\ {<<k[1], k[2], published.routes[k]>> : k \in DOMAIN published.routes}
              = {<<x[1], Unique(x[2]), x[2].metric>> : x \in rts}
        /\ {<<k[1], k[2][1], published.addrs[k]>> : k \in DOMAIN published.addrs}
              = {<<x[1], x[2][1], x[2][2]>> : x \in ads}

PlatformBest(f) ==
    BestOf({<<x[2].metric, x[1], x[2].gw>> : x \in {y \in rts : Concerns(f, y[2])}},
           {i \in DOMAIN links : links[i]})

(* The default interface of each family is the up interface with the least *)
(* metric among the platform's default routes.                             *)
DefaultRouteCurrent ==
    Strong /\ Settled => \A f \in Families : published.dflt[f] = PlatformBest(f)
=============================================================================
