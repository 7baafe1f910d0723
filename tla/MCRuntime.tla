----------------------------- MODULE MCRuntime ------------------------------
(***************************************************************************)
(* Model checking of the runtime's actors (Runtime), of the peer tracker   *)
(* with its database (PeerTracker), of the network monitor on both         *)
(* platforms (Netmon), of the ShadowVPN endpoint (ShadowVpn) and of the    *)
(* netmap responses (MapResponse), each by itself: part says which one     *)
(* runs, the others rest in an initial state.                              *)
(***************************************************************************)
EXTENDS Runtime, PeerTracker, MapResponse, TLC

VARIABLES
    part,
    links, rts, ads, changes, notes, dumped, tracker, stream, state, published,  \* Netmon
    holders, by_key, wire, local, sealed, answered                               \* ShadowVpn

netmonVars == <<links, rts, ads, changes, notes, dumped, tracker, stream, state, published>>
shadowVars == <<holders, by_key, wire, local, sealed, answered>>

-----------------------------------------------------------------------------
(* Runtime: an update has a DERP map, a self node, peers and a packet      *)
(* filter, or lacks them.                                                  *)
Update(derp, node, prs, pf) == [derp |-> derp, node |-> node, peers |-> prs, pf |-> pf]
Peer(key, region, rs) == [key |-> key, region |-> region, routes |-> rs]
Self(addr, rs) == [ips |-> addr, routes |-> rs]

OnePeer == <<Update({1}, None, "p" :> Peer("k1", 1, {"a"}), None)>>
TwoMaps == <<Update({1}, None, None, None), Update({1, 2}, None, None, None)>>
MCScripts ==
    {<<Update(None, Self("i", {"x"}), None, "f1"), Update(None, Self("j", {"x", "y"}), None, "f2")>>,
     <<Update({1}, None, None, None), Update({1, 2}, None, "q" :> Peer("k3", 2, {"b"}), None)>>,
     <<Update({1}, None, "p" :> Peer("k1", 1, {"a"}) @@ "q" :> Peer("k3", None, {"b", "a"}), None),
       Update(None, None, "p" :> Peer("k2", 1, {"a"}), None)>>,
     <<Update(None, None, "p" :> Peer("k1", None, {"a"}), None), Update(None, None, Nothing, None),
       Update(None, None, "p" :> Peer("k1", None, {"a"}), None)>>,
     OnePeer, TwoMaps}
MCInterruptible == {OnePeer, TwoMaps}

(* PeerTracker: two nodes, each in two forms, that share a host name, a    *)
(* route, a node key and a disco key; a patch of each.                     *)
Node(s, k, d, h, t, addrs, rs, rg) ==
    [stable |-> s, ctl |-> s, key |-> k, disco |-> d, host |-> h, net |-> t, ips |-> addrs,
     routes |-> rs, region |-> rg, status |-> "on"]
MCNodes ==
    {Node("s1", "k1", "d1", "h", "t", {"a"}, {"a", "r"}, 1),
     Node("s1", "k2", NoField, "h", "u", {"a"}, {"a"}, 1),
     Node("s2", "k1", NoField, "h", NoField, {"b"}, {"r"}, 2),
     Node("s2", "k3", "d1", "g", "t", {"b", "c"}, {"r"}, 2)}
Change(c, k, d, rg, st) == [ctl |-> c, key |-> k, disco |-> d, region |-> rg, status |-> st]
MCPatches ==
    {Change("s1", "k4", NoField, NoField, NoField), Change("s2", NoField, "d2", 2, "off")}
MCQueries == {[idx |-> "name", field |-> <<"h">>], [idx |-> "route", field |-> "r"]}

(* Netmon: two gateways or two metrics, one address or two prefix lengths  *)
(* of it.                                                                  *)
Route(gw, metric) == [fam |-> "v4", whole |-> TRUE, gw |-> gw, metric |-> metric]
Linux == INSTANCE Netmon WITH
    Ifaces <- {1, 2}, NoIface <- 0, NoGw <- 0, Families <- {"v4"}, Strong <- TRUE,
    RouteSet <- {Route(1, 1), Route(2, 2)}, AddrSet <- {<<"a", 8>>}, MaxChanges <- 2,
    SilentRemovals <- FALSE, RoutedRemovals <- FALSE, Vanishing <- FALSE
Windows == INSTANCE Netmon WITH
    Ifaces <- {1, 2}, NoIface <- 0, NoGw <- 0, Families <- {"v4"}, Strong <- FALSE,
    RouteSet <- {Route(1, 1), Route(1, 2)}, AddrSet <- {<<"a", 8>>, <<"a", 16>>},
    MaxChanges <- 2, SilentRemovals <- FALSE, RoutedRemovals <- FALSE, Vanishing <- FALSE

(* ShadowVpn: keys that differ in either half. *)
Shadow == INSTANCE ShadowVpn WITH
    PeerIds <- {1, 2}, NodeKeys <- {"a", "b", "c"}, Cipher <- "chacha20-poly1305",
    Secrets <- "a" :> <<1, 1>> @@ "b" :> <<1, 2>> @@ "c" :> <<2, 1>>, Payloads <- {1, 20},
    peers <- holders, sent <- sealed

(* MapResponse: a full list, with changes and removals beside it; or       *)
(* changes, removals, and of each node a patch, or seen and online changes *)
(* (not both), or nothing.                                                 *)
Partial(D, R) == UNION {[d -> R] : d \in SUBSET D}
Nodes == [key : {"k1", "k2"}, status : {"online"}]
Says == [patch : [key : {"k1", "k2", Missing}, status : {"unknown", "offline"}],
         seen : {Missing}, online : {Missing}]
          \cup [patch : {Missing}, seen : BOOLEAN \cup {Missing}, online : BOOLEAN \cup {Missing}]
Column(says, field) ==
    [i \in {j \in DOMAIN says : says[j][field] # Missing} |-> says[i][field]]
MCResponses ==
    [peers : Partial({1, 2}, Nodes), changed : Partial({1, 2}, Nodes), removed : SUBSET {1, 2},
     patch : {NoPeers}, seen : {NoPeers}, online : {NoPeers}]
    \cup {[peers |-> Missing, changed |-> c, removed |-> r, patch |-> Column(says, "patch"),
           seen |-> Column(says, "seen"), online |-> Column(says, "online")] :
             c \in Partial({1, 2}, Nodes), r \in SUBSET {1, 2}, says \in [{1, 2} -> Says]}

-----------------------------------------------------------------------------
Init ==
    /\ part \in {"runtime", "tracker", "linux", "windows", "shadow", "netmap"}
    /\ RuntimeInit /\ (part # "runtime" => script = OnePeer)
    /\ TrackerInit
    /\ IF part = "windows" THEN Windows!NetmonInit ELSE Linux!NetmonInit
    /\ part \notin {"linux", "windows"} => links[1] /\ rts = {}
    /\ Shadow!ShadowInit
    /\ MapInit

RuntimeStep ==
    /\ part = "runtime" /\ RuntimeNext
    /\ UNCHANGED <<part, trackerVars, netmonVars, shadowVars, mapVars>>
TrackerStep ==
    /\ part = "tracker" /\ TrackerNext
    /\ UNCHANGED <<part, runtimeVars, netmonVars, shadowVars, mapVars>>
NetmonStep ==
    /\ \/ part = "linux" /\ Linux!NetmonNext
       \/ part = "windows" /\ Windows!NetmonNext
    /\ UNCHANGED <<part, runtimeVars, trackerVars, shadowVars, mapVars>>
ShadowStep ==
    /\ part = "shadow" /\ Shadow!ShadowNext
    /\ UNCHANGED <<part, runtimeVars, trackerVars, netmonVars, mapVars>>
NetmapStep ==
    /\ part = "netmap" /\ MapNext
    /\ UNCHANGED <<part, runtimeVars, trackerVars, netmonVars, shadowVars>>

Next == RuntimeStep \/ TrackerStep \/ NetmonStep \/ ShadowStep \/ NetmapStep

vars == <<part, runtimeVars, trackerVars, netmonVars, shadowVars, mapVars>>
Spec == Init /\ [][Next]_vars /\ WF_runtimeVars(Handlers)

-----------------------------------------------------------------------------
(* Once every notification is handled, the runtime's network state is the  *)
(* platform's, and on Linux its default interface is that of the           *)
(* platform's best default route.                                          *)
MonitorCurrent ==
    /\ part = "linux" => Linux!PublishedMirrorsPlatform /\ Linux!DefaultRouteCurrent
    /\ part = "windows" => Windows!PublishedMirrorsPlatform

(* What ShadowVPN delivers is reported under the peer that sealed it, and  *)
(* its reverse index names exactly its peers.                              *)
SenderIdentified == Shadow!SenderIdentified /\ Shadow!KeysIndexed
=============================================================================
