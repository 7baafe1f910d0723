------------------------------ MODULE Runtime -------------------------------
(***************************************************************************)
(* The actors of ts_runtime and the message bus between them: the control  *)
(* runner, the peer tracker, the route, source filter and packet filter    *)
(* updaters, Multiderp, the DERP latency measurer, the netstack actor and  *)
(* the dataplane actor (src/ts_runtime/src/*.rs), from the control         *)
(* client's state updates to the tables the dataplane forwards by, and     *)
(* their shutdown.                                                         *)
(*                                                                         *)
(* The bus and the mailboxes are the actor library's (external): a mailbox *)
(* is first in, first out; the bus hands one published message to every    *)
(* subscriber before it takes the next.  A subscriber that would return at *)
(* once, because the update lacks its field, is not handed the message.    *)
(* PeerTracker.tla has the database behind the peer tracker; here a peer's *)
(* id is the PeerId it is given.  In a script, a region is in a DERP map   *)
(* no later than the first peer homed in it.                               *)
(***************************************************************************)
EXTENDS Naturals, Sequences, Functions

CONSTANTS Scripts,       \* sequences of state updates that control may send
          Interruptible, \* bound: the scripts that a shutdown may interrupt
          None           \* an absent field

Actors == {"control", "tracker", "multiderp", "routes", "source", "filter",
           "latency", "netstack", "dataplane"}

VARIABLES script,     \* what control will send
          sent,       \* updates sent by control so far (a sequence)
          bus,        \* published messages the bus has not delivered
          mbox,       \* actor -> mailbox
          busy,       \* actor -> the handler it is in the middle of, or None
          control,    \* ControlRunner: self node, home region reported
          peers,      \* PeerTracker: the database, as a function
          derps,      \* Multiderp: regions, home region, its copy of the peers
          dp,         \* what the dataplane forwards by
          ips,        \* the netstack's addresses
          nextTransport,  \* next underlay transport id
          shutdown,   \* the shutdown flag
          stopped     \* actors that have stopped

runtimeVars == <<script, sent, bus, mbox, busy, control, peers, derps, dp, ips,
                 nextTransport, shutdown, stopped>>

Nothing == [x \in {} |-> 0]

RuntimeInit ==
    /\ script \in Scripts
    /\ sent = << >>
    /\ bus = << >>
    /\ mbox = [a \in Actors |-> << >>]
    /\ busy = [a \in Actors |-> None]
    /\ control = [node |-> None, home |-> None]
    /\ peers = Nothing
    /\ derps = [regions |-> Nothing, awake |-> {}, home |-> None, db |-> Nothing]
    /\ dp = [out |-> {}, under |-> Nothing, in |-> {}, src |-> {}, filter |-> None,
             tunnel |-> Nothing]
    /\ ips = None
    /\ nextTransport = 1
    /\ shutdown = FALSE
    /\ stopped = {}

-----------------------------------------------------------------------------
(* The bus *)

Message(topic, body) == [topic |-> topic, body |-> body]

(* Who acts on a message: the subscriptions made in each on_start, and the *)
(* early returns of their handlers.                                        *)
Subscribers(m) ==
    CASE m.topic = "update" ->
            (IF m.body.peers = None THEN {} ELSE {"tracker"})
              \cup (IF m.body.derp = None THEN {} ELSE {"multiderp", "latency"})
              \cup (IF m.body.node = None THEN {} ELSE {"routes", "netstack"})
              \cup (IF m.body.pf = None THEN {} ELSE {"filter"})
      [] m.topic = "peer_state" -> {"dataplane", "multiderp", "routes", "source"}
      [] m.topic = "latency" -> {"control", "multiderp"}
      [] OTHER -> {"dataplane"}

Publish(m) == bus' = Append(bus, m)

Deliver ==
    /\ bus # << >>
    /\ "bus" \notin stopped
    /\ mbox' = [a \in Actors |-> IF a \in Subscribers(Head(bus)) \ stopped
                                 THEN Append(mbox[a], Head(bus)) ELSE mbox[a]]
    /\ bus' = Tail(bus)
    /\ UNCHANGED <<script, sent, busy, control, peers, derps, dp, ips, nextTransport,
                   shutdown, stopped>>

(* An actor takes its next message when it is in no handler.               *)
Takes(a, topic) ==
    /\ a \notin stopped
    /\ busy[a] = None
    /\ mbox[a] # << >>
    /\ Head(mbox[a]).topic = topic

Got(a) == Head(mbox[a]).body

Took(a) == mbox' = [mbox EXCEPT ![a] = Tail(@)]

-----------------------------------------------------------------------------
(* ControlRunner *)

ControlUpdate ==
    /\ Len(sent) < Len(script)
    /\ "control" \notin stopped
    /\ LET u == script[Len(sent) + 1]
       IN /\ sent' = Append(sent, u)
          /\ control' = IF u.node = None THEN control ELSE [control EXCEPT !.node = u.node]
          /\ Publish(Message("update", u))
    /\ UNCHANGED <<script, mbox, busy, peers, derps, dp, ips, nextTransport, shutdown,
                   stopped>>

(* Mutant of ControlLatency: only the first measurement is reported. *)
ControlLatencyOnce ==
    /\ Takes("control", "latency")
    /\ Took("control")
    /\ control' = IF Got("control") = << >> \/ control.home # None THEN control
                  ELSE [control EXCEPT !.home = Got("control")[1]]
    /\ UNCHANGED <<script, sent, bus, busy, peers, derps, dp, ips, nextTransport, shutdown, stopped>>

(* set_home_region with the best measured region.                          *)
ControlLatency ==
    /\ Takes("control", "latency")
    /\ Took("control")
    /\ control' = IF Got("control") = << >> THEN control
                  ELSE [control EXCEPT !.home = Got("control")[1]]
    /\ UNCHANGED <<script, sent, bus, busy, peers, derps, dp, ips, nextTransport, shutdown,
                   stopped>>

-----------------------------------------------------------------------------
(* PeerTracker, SourceFilterUpdater, PacketfilterUpdater, NetstackActor,   *)
(* DerpLatencyMeasurer                                                     *)

TrackerUpdate ==
    LET new == Got("tracker").peers
    IN /\ Takes("tracker", "update")
       /\ Took("tracker")
       /\ peers' = new
       /\ Publish(Message("peer_state", [upserts |-> DOMAIN new,
                                         deletions |-> DOMAIN peers \ DOMAIN new,
                                         peers |-> new]))
       /\ UNCHANGED <<script, sent, busy, control, derps, dp, ips, nextTransport, shutdown,
                      stopped>>

RoutesOf(db, ids) == {<<r, p>> : p \in ids, r \in UNION {db[q].routes : q \in ids}}
                        \cap UNION {{<<r, p>> : r \in db[p].routes} : p \in ids}

SourceFilterUpdate ==
    LET db == Got("source").peers
    IN /\ Takes("source", "peer_state")
       /\ Took("source")
       /\ Publish(Message("src_filter", RoutesOf(db, DOMAIN db)))
       /\ UNCHANGED <<script, sent, busy, control, peers, derps, dp, ips, nextTransport,
                      shutdown, stopped>>

FilterUpdate ==
    /\ Takes("filter", "update")
    /\ Took("filter")
    /\ Publish(Message("pf", Got("filter").pf))
    /\ UNCHANGED <<script, sent, busy, control, peers, derps, dp, ips, nextTransport,
                   shutdown, stopped>>

NetstackUpdate ==
    /\ Takes("netstack", "update")
    /\ Took("netstack")
    /\ ips' = Got("netstack").node.ips
    /\ UNCHANGED <<script, sent, bus, busy, control, peers, derps, dp, nextTransport,
                   shutdown, stopped>>

(* measure_derp_map: the regions that answered, best first, maybe none.    *)
Measure ==
    /\ Takes("latency", "update")
    /\ Took("latency")
    /\ \E best \in Got("latency").derp \cup {None} :
          Publish(Message("latency", IF best = None THEN << >> ELSE <<best>>))
    /\ UNCHANGED <<script, sent, busy, control, peers, derps, dp, ips, nextTransport,
                   shutdown, stopped>>

-----------------------------------------------------------------------------
(* Multiderp *)

(* ensure_region: the dataplane is asked for a transport for each region   *)
(* of the map that is new, one after another.                              *)
NewRegions == Got("multiderp").derp \ DOMAIN derps.regions

EnsureRegion(r) ==
    /\ Takes("multiderp", "update")
    /\ r \in NewRegions
    /\ busy' = [busy EXCEPT !["multiderp"] = r]
    /\ mbox' = [mbox EXCEPT !["dataplane"] = Append(@, Message("new_transport", r))]
    /\ UNCHANGED <<script, sent, bus, control, peers, derps, dp, ips, nextTransport, shutdown,
                   stopped>>

FreshTransport == nextTransport' = nextTransport + 1

WithRegion(r) ==
    [x \in DOMAIN derps.regions \cup {r} |->
        IF x = r THEN nextTransport ELSE derps.regions[x]]

(* The dataplane answers with a fresh transport.                           *)
TransportAnswer ==
    LET r == busy["multiderp"]
    IN /\ "multiderp" \notin stopped
       /\ r # None
       /\ Takes("dataplane", "new_transport")
       /\ Took("dataplane")
       /\ busy' = [busy EXCEPT !["multiderp"] = None]
       /\ derps' = [derps EXCEPT !.regions = WithRegion(r)]
       /\ FreshTransport
       /\ UNCHANGED <<script, sent, bus, control, peers, dp, ips, shutdown, stopped>>

(* The dataplane has stopped: Multiderp goes on without the region if the  *)
(* runtime is shutting down, and panics, which stops it, if not or if the  *)
(* region is the home one (the unwrap).                                    *)
TransportRefused ==
    /\ "multiderp" \notin stopped
    /\ "dataplane" \in stopped
    /\ mbox["multiderp"] # << >>
    /\ Head(mbox["multiderp"]).topic = "update"
    /\ NewRegions # {}
    /\ stopped' = IF shutdown /\ derps.home \notin NewRegions THEN stopped
                  ELSE stopped \cup {"multiderp"}
    /\ busy' = [busy EXCEPT !["multiderp"] = None]
    /\ Took("multiderp")
    /\ UNCHANGED <<script, sent, bus, control, peers, derps, dp, ips, nextTransport, shutdown>>

(* The map is done; if it has the home region, its transport is told so.   *)
MultiderpUpdate ==
    /\ Takes("multiderp", "update")
    /\ NewRegions = {}
    /\ Took("multiderp")
    /\ derps' = [derps EXCEPT !.awake = @ \cup ({derps.home} \cap Got("multiderp").derp)]
    /\ UNCHANGED <<script, sent, bus, busy, control, peers, dp, ips, nextTransport, shutdown,
                   stopped>>

MultiderpPeers ==
    /\ Takes("multiderp", "peer_state")
    /\ Took("multiderp")
    /\ derps' = [derps EXCEPT !.db = Got("multiderp").peers]
    /\ UNCHANGED <<script, sent, bus, busy, control, peers, dp, ips, nextTransport, shutdown,
                   stopped>>

(* The old home region sleeps before the new one wakes.                    *)
HomeMoves(d, r) ==
    [d EXCEPT !.home = r, !.awake = (@ \ {d.home}) \cup {r}]

(* The home region moves to the best measured one.  A region that is not   *)
(* there, new or old, ends the handler early, with the home id changed.    *)
MultiderpLatency ==
    LET best == Got("multiderp")
    IN /\ Takes("multiderp", "latency")
       /\ Took("multiderp")
       /\ derps' = IF best = << >> \/ derps.home = best[1] THEN derps
                   ELSE IF {best[1]} \cup ({derps.home} \ {None}) \subseteq DOMAIN derps.regions
                   THEN HomeMoves(derps, best[1])
                   ELSE [derps EXCEPT !.home = best[1]]
       /\ UNCHANGED <<script, sent, bus, busy, control, peers, dp, ips, nextTransport, shutdown,
                      stopped>>

-----------------------------------------------------------------------------
(* RouteUpdater *)

RoutesSelf ==
    /\ Takes("routes", "update")
    /\ Took("routes")
    /\ Publish(Message("self_routes", Got("routes").node.routes))
    /\ UNCHANGED <<script, sent, busy, control, peers, derps, dp, ips, nextTransport,
                   shutdown, stopped>>

(* The peer state handler: each peer with a region in turn, Multiderp is   *)
(* asked for the region's transport.                                       *)
Homed(db) == {p \in DOMAIN db : db[p].region # None}

Asking == IF busy["routes"] = None THEN [asked |-> None, done |-> {}, under |-> Nothing]
          ELSE busy["routes"]

AtPeerState == /\ "routes" \notin stopped
               /\ mbox["routes"] # << >>
               /\ Head(mbox["routes"]).topic = "peer_state"

RoutesAsk(p) ==
    /\ AtPeerState
    /\ Asking.asked = None
    /\ p \in Homed(Got("routes").peers) \ Asking.done
    /\ busy' = [busy EXCEPT !["routes"] = [Asking EXCEPT !.asked = p]]
    /\ mbox' = [mbox EXCEPT !["multiderp"] =
                    Append(@, Message("region", Got("routes").peers[p].region))]
    /\ UNCHANGED <<script, sent, bus, control, peers, derps, dp, ips, nextTransport,
                   shutdown, stopped>>

Answered(p, under) ==
    busy' = [busy EXCEPT !["routes"] = [asked |-> None, done |-> Asking.done \cup {p},
                                        under |-> under]]

(* Mutant of WithTransport: only a region that is awake counts. *)
WithTransportAwake(under, p, r) ==
    IF r \notin derps.awake THEN under
    ELSE [x \in DOMAIN under \cup {p} |-> IF x = p THEN derps.regions[r] ELSE under[x]]

(* transport_id_for_region, and the underlay route made of it.             *)
WithTransport(under, p, r) ==
    IF r \notin DOMAIN derps.regions THEN under
    ELSE [x \in DOMAIN under \cup {p} |-> IF x = p THEN derps.regions[r] ELSE under[x]]

(* The answer comes, or Multiderp has stopped: no underlay route.          *)
RoutesAnswer ==
    LET p == Asking.asked
    IN /\ AtPeerState
       /\ p # None
       /\ \/ /\ Takes("multiderp", "region")
             /\ Took("multiderp")
             /\ Answered(p, WithTransport(Asking.under, p, Got("multiderp")))
          \/ /\ "multiderp" \in stopped
             /\ Answered(p, Asking.under)
             /\ UNCHANGED mbox
       /\ UNCHANGED <<script, sent, bus, control, peers, derps, dp, ips, nextTransport,
                      shutdown, stopped>>

RoutesDone ==
    LET db == Got("routes").peers
    IN /\ AtPeerState
       /\ Asking.asked = None
       /\ Asking.done = Homed(db)
       /\ busy' = [busy EXCEPT !["routes"] = None]
       /\ Took("routes")
       /\ Publish(Message("peer_routes", [out |-> RoutesOf(db, Homed(db)),
                                          under |-> Asking.under]))
       /\ UNCHANGED <<script, sent, control, peers, derps, dp, ips, nextTransport, shutdown,
                      stopped>>

-----------------------------------------------------------------------------
(* DataplaneActor: each message replaces one table; a peer state upserts   *)
(* and then deletes tunnel peers.                                          *)

TunnelAfter(s) ==
    [p \in (DOMAIN dp.tunnel \cup s.upserts) \ s.deletions |->
        IF p \in s.upserts THEN s.peers[p].key ELSE dp.tunnel[p]]

DataplaneUpdate ==
    /\ \E t \in {"peer_routes", "self_routes", "src_filter", "pf", "peer_state"} :
        /\ Takes("dataplane", t)
        /\ dp' = CASE t = "peer_routes" -> [dp EXCEPT !.out = Got("dataplane").out,
                                                      !.under = Got("dataplane").under]
                   [] t = "self_routes" -> [dp EXCEPT !.in = Got("dataplane")]
                   [] t = "src_filter"  -> [dp EXCEPT !.src = Got("dataplane")]
                   [] t = "pf"          -> [dp EXCEPT !.filter = Got("dataplane")]
                   [] t = "peer_state"  -> [dp EXCEPT !.tunnel = TunnelAfter(Got("dataplane"))]
    /\ Took("dataplane")
    /\ UNCHANGED <<script, sent, bus, busy, control, peers, derps, ips, nextTransport, shutdown,
                   stopped>>

-----------------------------------------------------------------------------
(* graceful_shutdown: the flag, then control, dataplane and bus stop; the  *)
(* other actors stop when the bus, which holds their last references, has. *)

BeginShutdown ==
    /\ script \in Interruptible
    /\ ~shutdown
    /\ shutdown' = TRUE
    /\ UNCHANGED <<script, sent, bus, mbox, busy, control, peers, derps, dp, ips, nextTransport,
                   stopped>>

(* Mutant of Stop: the bus does not release the other actors. *)
StopHeld(a) ==
    /\ shutdown
    /\ a \in {"control", "dataplane", "bus"} \ stopped
    /\ a \in Actors => mbox[a] = << >> /\ busy[a] = None
    /\ stopped' = stopped \cup {a}
    /\ UNCHANGED <<script, sent, bus, mbox, busy, control, peers, derps, dp, ips, nextTransport,
                   shutdown>>

(* A graceful stop: the messages already in the mailbox are handled first. *)
Stop(a) ==
    /\ shutdown
    /\ a \notin stopped
    /\ a \in Actors => mbox[a] = << >> /\ busy[a] = None
    /\ a = "dataplane" => "control" \in stopped
    /\ a = "bus" => "dataplane" \in stopped
    /\ a \in Actors \ {"control", "dataplane"} => "bus" \in stopped
    /\ stopped' = stopped \cup {a}
    /\ UNCHANGED <<script, sent, bus, mbox, busy, control, peers, derps, dp, ips, nextTransport,
                   shutdown>>

Sendable == UNION {Range(x) : x \in Scripts}
MapRegions == UNION {u.derp : u \in {v \in Sendable : v.derp # None}}
MapPeers == UNION {DOMAIN u.peers : u \in {v \in Sendable : v.peers # None}}

(* What the absent field may not be taken for: a peer, or a handler's      *)
(* progress.                                                               *)
ASSUME NoneAssumption ==
    /\ None \notin MapPeers
    /\ None \notin [asked : MapPeers \cup {None}, done : SUBSET MapPeers,
                    under : UNION {[ps -> Nat] : ps \in SUBSET MapPeers}]

(* A region is in a DERP map no later than the first peer homed in it. *)
ASSUME ScriptsAssumption ==
    \A s \in Scripts :
        /\ s \in Seq(Sendable)
        /\ \A i \in DOMAIN s : s[i].peers # None =>
              \A p \in Homed(s[i].peers) : \E j \in 1 .. i :
                  s[j].derp # None /\ s[i].peers[p].region \in s[j].derp

Handlers ==
    \/ Deliver \/ ControlLatency \/ TrackerUpdate \/ SourceFilterUpdate
    \/ FilterUpdate \/ NetstackUpdate \/ Measure
    \/ MultiderpUpdate \/ (\E r \in MapRegions : EnsureRegion(r))
    \/ TransportAnswer \/ TransportRefused \/ MultiderpPeers \/ MultiderpLatency
    \/ RoutesSelf \/ RoutesDone \/ RoutesAnswer
    \/ (\E p \in MapPeers : RoutesAsk(p))
    \/ DataplaneUpdate
    \/ (\E a \in Actors \cup {"bus"} : Stop(a))

RuntimeNext == ControlUpdate \/ BeginShutdown \/ Handlers

(* Every actor is a task of the async runtime, which polls each task that  *)
(* can go on; a handler with a message to take or an answer to use does.   *)
RuntimeSpec == RuntimeInit /\ [][RuntimeNext]_runtimeVars /\ WF_runtimeVars(Handlers)

-----------------------------------------------------------------------------
Quiet == /\ bus = << >>
         /\ \A a \in Actors : mbox[a] = << >> /\ busy[a] = None

LastOf(field) ==
    LET have == {i \in DOMAIN sent : sent[i][field] # None}
    IN IF have = {} THEN None ELSE sent[CHOOSE i \in have : \A j \in have : j <= i][field]

(* When every message has been handled, the dataplane forwards by the last *)
(* peers, self node and packet filter control sent: out routes, source     *)
(* filter, tunnel peers and keys, in routes, the netstack's addresses.     *)
DataplaneCurrent ==
    Quiet /\ stopped = {} =>
        LET db == IF LastOf("peers") = None THEN Nothing ELSE LastOf("peers")
        IN /\ peers = db /\ derps.db = db
           /\ dp.src = RoutesOf(db, DOMAIN db)
           /\ dp.out = RoutesOf(db, Homed(db))
           /\ dp.tunnel = [p \in DOMAIN db |-> db[p].key]
           /\ dp.filter = LastOf("pf")
           /\ LastOf("node") # None => /\ dp.in = LastOf("node").routes
                                       /\ ips = LastOf("node").ips
                                       /\ control.node = LastOf("node")

(* And every peer whose region is known has an underlay route, to its own  *)
(* region's transport.                                                     *)
UnderlayComplete ==
    Quiet /\ stopped = {} =>
        dp.under = [p \in Homed(peers) |->
                       derps.regions[peers[p].region]]

(* A table of the dataplane that a peer state still has to change: the     *)
(* state is with the actor that makes the table, or the table is made and  *)
(* not yet applied.                                                        *)
UnderWay(a, table) ==
    \/ \E i \in DOMAIN mbox[a] : mbox[a][i].topic = "peer_state"
    \/ \E i \in DOMAIN bus : bus[i].topic = table
    \/ \E i \in DOMAIN mbox["dataplane"] : mbox["dataplane"][i].topic = table

(* No route, source entry or underlay route leads to a peer the tunnel has *)
(* not been given, unless the table is about to be replaced: a peer state  *)
(* is applied before the tables made from it.                              *)
RoutesNotAhead ==
    /\ "dataplane" \notin stopped
    /\ \A i \in DOMAIN mbox["dataplane"] : mbox["dataplane"][i].topic # "peer_state"
    => /\ UnderWay("source", "src_filter") \/ {x[2] : x \in dp.src} \subseteq DOMAIN dp.tunnel
       /\ UnderWay("routes", "peer_routes")
            \/ {x[2] : x \in dp.out} \cup DOMAIN dp.under \subseteq DOMAIN dp.tunnel

(* At most one region is kept awake as the home region, the current one;   *)
(* it exists, so the handler's early returns on a missing region are taken *)
(* only after the dataplane has refused one, in a shutdown.                *)
OneHomeRegion ==
    "dataplane" \notin stopped =>
        /\ derps.awake \subseteq {derps.home}
        /\ derps.awake \subseteq DOMAIN derps.regions

(* "This field must always reflect the current home derp region this       *)
(* device has reported to the control plane": once both have handled the   *)
(* measurement.                                                            *)
HomeMatchesControl == Quiet /\ stopped = {} => derps.home = control.home

(* The transports of the regions are distinct.                             *)
TransportsDistinct == IsInjective(derps.regions)

(* What the dataplane is given follows what control sent, and no table     *)
(* runs ahead of the peers it speaks of, whatever order the actors handle  *)
(* their messages in.                                                      *)
DataplaneFollows ==
    DataplaneCurrent /\ UnderlayComplete /\ RoutesNotAhead /\ TransportsDistinct

(* Multiderp and control agree on the home region, and no other is kept    *)
(* awake for it.                                                           *)
HomeAgreed == OneHomeRegion /\ HomeMatchesControl

(* The actors never wait on each other for good: every message control     *)
(* causes is handled, and a shutdown stops every actor.                    *)
RuntimeSettles == /\ <>[](Quiet \/ shutdown)
                  /\ shutdown ~> (Actors \subseteq stopped)
=============================================================================
