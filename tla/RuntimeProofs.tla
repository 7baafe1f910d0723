--------------------------- MODULE RuntimeProofs ----------------------------
(***************************************************************************)
(* That the dataplane follows control and that Multiderp and control agree *)
(* on the home region (Runtime), for any scripts of updates, any peers,    *)
(* regions and routes and any order in which the actors and the bus take   *)
(* their turns.                                                            *)
(***************************************************************************)
EXTENDS RuntimeHandlerProofs

-----------------------------------------------------------------------------
(* ControlRunner sends an update; a shutdown begins *)

(* Regions come with the update that needs them, or came before. *)
LEMMA UpdateKnown ==
  ASSUME Basic, Known, ControlUpdate, NEW u, u = script[Len(sent) + 1],
         \A r : KnownSoon(r) => KnownSoon(r)', mbox' = mbox
  PROVE  MessagesKnown' /\ UpdatesKnown'
<1> DEFINE p == Message("update", u)
           n == Len(sent) + 1
<1>1. IsSeq(bus) /\ IsSeq(sent) /\ SentShape
  BY Zenon, ShapeIs DEF Basic, SentShape
<1>2. sent' = Append(sent, u) /\ bus' = Append(bus, p)
  BY Zenon DEF ControlUpdate, Publish
<1>3. p.topic = "update" /\ p.body = u
  BY DEF Message
<1> HIDE DEF p
<1>4. RegionsIn(p) = {}
  BY <1>3 DEF RegionsIn
<1>5. Joins(p, bus, bus') /\ Joins(u, sent, sent')
  BY Zenon, <1>1, <1>2, Joined
<1>6. MessagesKnown'
  <2>1. \A i \in DOMAIN bus' : \A r \in RegionsIn(bus'[i]) : KnownSoon(r)'
    <3> SUFFICES ASSUME NEW i \in DOMAIN bus', NEW r \in RegionsIn(bus'[i]) PROVE KnownSoon(r)'
      BY Zenon
    <3>1. CASE i \in DOMAIN bus
      BY Zenon, <1>5, <3>1 DEF Joins, Known, MessagesKnown
    <3>2. CASE i \notin DOMAIN bus
      BY Zenon, <1>4, <1>5, <3>2 DEF Joins
    <3> QED
      BY Zenon, <3>1, <3>2
  <2> QED
    BY <2>1 DEF Known, MessagesKnown
<1>7. ASSUME NEW r, Maps(p, r)
      PROVE  \E j \in DOMAIN bus' : j \notin DOMAIN bus /\ Maps(bus'[j], r)
  BY Zenon, <1>5, <1>7 DEF Joins
<1>8. ASSUME NEW i \in DOMAIN sent', sent'[i].derp # None, NEW r \in sent'[i].derp
      PROVE  KnownSoon(r)' \/ \E j \in DOMAIN bus' : Maps(bus'[j], r)
  <2>1. CASE i \in DOMAIN sent
    <3>1. sent'[i] = sent[i]
      BY Zenon, <1>5, <2>1 DEF Joins
    <3>2. KnownSoon(r) \/ \E j \in DOMAIN bus : Maps(bus[j], r)
      BY Zenon, <1>8, <2>1, <3>1 DEF Known, UpdatesKnown
    <3> QED
      BY Zenon, <1>5, <3>2 DEF Joins
  <2>2. CASE i \notin DOMAIN sent
    <3>1. sent'[i] = u
      BY Zenon, <1>5, <2>2 DEF Joins
    <3>2. Maps(p, r)
      BY Zenon, <1>3, <1>8, <3>1 DEF Maps
    <3> QED
      BY Zenon, <1>7, <3>2
  <2> QED
    BY Zenon, <2>1, <2>2
<1>9. ASSUME Carries(p, "peers"), NEW r \in HomesIn(p)
      PROVE  \/ KnownSoon(r)' \/ (\E j \in DOMAIN bus : Maps(bus[j], r)) \/ Maps(p, r)
  <2>1. u.peers # None
    BY <1>3, <1>9 DEF Carries
  <2>2. PICK q \in Homed(u.peers) : r = u.peers[q].region
    BY <1>3 DEF HomesIn
  <2>3. script \in Scripts /\ script \in Seq(Sendable) /\ DOMAIN sent = 1 .. Len(sent)
        /\ Len(sent) \in Nat /\ \A i \in DOMAIN sent : sent[i] = script[i]
    BY Zenon, <1>1, ScriptsAssumption, SeqFacts DEF SentShape
  <2>4. n \in DOMAIN script
    BY <2>3 DEF ControlUpdate
  <2>5. PICK j \in 1 .. n : script[j].derp # None /\ script[n].peers[q].region \in script[j].derp
    BY Zenon, <2>1, <2>2, <2>3, <2>4, ScriptsAssumption
  <2>6. script[j].derp # None /\ r \in script[j].derp
    BY Zenon, <2>2, <2>5
  <2>7. CASE j = n
    BY Zenon, <1>3, <2>6, <2>7 DEF Maps
  <2>8. CASE j # n
    <3>1. j \in DOMAIN sent /\ sent[j] = script[j]
      BY <2>3, <2>5, <2>8
    <3> QED
      BY Zenon, <2>6, <3>1 DEF Known, UpdatesKnown
  <2> QED
    BY Zenon, <2>7, <2>8
<1>10. ASSUME NEW i \in DOMAIN bus', Carries(bus'[i], "peers"), NEW r \in HomesIn(bus'[i])
       PROVE  KnownSoon(r)' \/ \E j \in DOMAIN bus' : j <= i /\ Maps(bus'[j], r)
  <2>1. CASE i \in DOMAIN bus
    <3>1. bus'[i] = bus[i]
      BY Zenon, <1>5, <2>1 DEF Joins
    <3>2. KnownSoon(r) \/ \E j \in DOMAIN bus : j <= i /\ Maps(bus[j], r)
      BY Zenon, <1>10, <2>1, <3>1 DEF Known, UpdatesKnown
    <3> QED
      BY Zenon, <1>5, <3>2 DEF Joins
  <2>2. CASE i \notin DOMAIN bus
    <3>1. /\ bus'[i] = p /\ \A j \in DOMAIN bus : j < i /\ j \in DOMAIN bus' /\ bus'[j] = bus[j]
          /\ DOMAIN bus' \subseteq Nat
      BY Zenon, <1>5, <2>2 DEF Joins
    <3>2. \A j \in DOMAIN bus : j <= i /\ j \in DOMAIN bus' /\ bus'[j] = bus[j]
      BY <3>1
    <3>3. i <= i
      BY <3>1
    <3> QED
      BY Zenon, <1>9, <1>10, <3>1, <3>2, <3>3
  <2> QED
    BY Zenon, <2>1, <2>2
<1> QED
  BY <1>6, <1>8, <1>10 DEF UpdatesKnown

LEMMA RestOfControlUpdate ==
  ASSUME Basic, Rest, ControlUpdate, stopped \subseteq {"control"}
  PROVE  Rest'
<1> DEFINE u == script[Len(sent) + 1]
           p == Message("update", u)
<1>1. Shape /\ IsSeq(bus) /\ IsSeq(sent) /\ ControlShape /\ "routes" \notin stopped
  BY Zenon, ShapeIs DEF Basic, SentShape
<1>2. /\ sent' = Append(sent, u) /\ Publish(p)
      /\ control' = IF u.node = None THEN control ELSE [control EXCEPT !.node = u.node]
      /\ UNCHANGED <<mbox, busy, peers, derps, dp, ips, stopped>>
  BY Zenon DEF ControlUpdate
<1>3. p.topic = "update" /\ p.body = u
  BY DEF Message
<1> HIDE DEF p, u
<1>4. \A k \in Kinds \ {"peers", "node routes", "node ips", "filter"} : ~ Carries(p, k)
  BY Zenon, <1>3, KindsOfTopic
<1>5. bus' = Append(bus, p) /\ \A k : ~ Carries(p, k) => \A d : After(bus', k, d) = After(bus, k, d)
  BY Zenon, <1>1, <1>2, PublishedBus
<1>6. \A k \in Kinds \ {"peers", "node routes", "node ips", "filter"} : \A d :
          After(bus', k, d) = After(bus, k, d)
  BY Zenon, <1>4, <1>5
<1>7. \A k, d : After(bus', k, d) = Upon(p, k, After(bus, k, d))
  BY <1>1, <1>5, AfterAppend
<1>8. \A f : LastIn(sent', f) = IF u[f] # None THEN u[f] ELSE LastIn(sent, f)
  BY <1>1, <1>2, LastInAppend
<1>9. \A a, k, d : Mail(a, k, d)' = Mail(a, k, d)
  BY Zenon, <1>2 DEF Mail
<1>10. Delivered' = Delivered
  BY Zenon, <1>2 DEF Delivered, Mail
<1>11. \A d : Upon(p, "filter", d) = IF u.pf # None THEN u.pf ELSE d
  BY <1>3 DEF Upon, Carries, ValueOf
<1>12. /\ \A d : Upon(p, "node routes", d) = IF u.node # None THEN u.node.routes ELSE d
       /\ \A d : Upon(p, "node ips", d) = IF u.node # None THEN u.node.ips ELSE d
       /\ \A d : Upon(p, "peers", d) = IF u.peers # None THEN u.peers ELSE d
  BY <1>3 DEF Upon, Carries, ValueOf
<1>13. FilterFollows'
  <2> DEFINE x == OnBus("pf", Mail("dataplane", "pf", dp.filter))
             y == Mail("filter", "filter", x)
  <2>1. x' = x
    <3>1. "pf" \in Kinds \ {"peers", "node routes", "node ips", "filter"}
      BY DEF Kinds
    <3> QED
      BY Zenon, <1>2, <1>6, <3>1 DEF OnBus, Mail
  <2>2. y' = y
    <3> HIDE DEF x
    <3> QED
      BY Zenon, <1>2, <2>1 DEF Mail
  <2> HIDE DEF y
  <2>3. OnBus("filter", y) = LastIn(sent, "pf")
    BY Zenon DEF Rest, Follows, FilterFollows, y
  <2>4. OnBus("filter", y)' = Upon(p, "filter", OnBus("filter", y))
    BY Zenon, <1>7, <2>2 DEF OnBus
  <2>5. OnBus("filter", y)' = LastIn(sent', "pf")
    BY <1>8, <1>11, <2>3, <2>4
  <2> QED
    BY <2>5 DEF FilterFollows, y
<1>14. SelfFollows'
  <2> DEFINE x == OnBus("self_routes", Mail("dataplane", "self_routes", dp.in))
             y == Mail("routes", "node routes", x)
  <2>1. x' = x
    <3>1. "self_routes" \in Kinds \ {"peers", "node routes", "node ips", "filter"}
      BY DEF Kinds
    <3> QED
      BY Zenon, <1>2, <1>6, <3>1 DEF OnBus, Mail
  <2>2. y' = y
    <3> HIDE DEF x
    <3> QED
      BY Zenon, <1>2, <2>1 DEF Mail
  <2> HIDE DEF y
  <2>3. OnBus("node routes", y) = LastNode("routes", {})
    BY Zenon DEF Rest, Follows, SelfFollows, y
  <2>4. OnBus("node routes", y)' = Upon(p, "node routes", OnBus("node routes", y))
    BY Zenon, <1>7, <2>2 DEF OnBus
  <2>5. LastNode("routes", {})' = IF u.node # None THEN u.node.routes ELSE LastNode("routes", {})
    BY <1>8 DEF LastNode
  <2>6. OnBus("node routes", y)' = LastNode("routes", {})'
    BY <1>12, <2>3, <2>4, <2>5
  <2> QED
    BY <2>6 DEF SelfFollows, y
<1>15. IpsFollow'
  <2> DEFINE y == Mail("netstack", "node ips", ips)
  <2>1. y' = y
    BY Zenon, <1>2 DEF Mail
  <2> HIDE DEF y
  <2>2. OnBus("node ips", y) = LastNode("ips", None)
    BY Zenon DEF Rest, Follows, IpsFollow, y
  <2>3. OnBus("node ips", y)' = Upon(p, "node ips", OnBus("node ips", y))
    BY Zenon, <1>7, <2>1 DEF OnBus
  <2>4. LastNode("ips", None)' = IF u.node # None THEN u.node.ips ELSE LastNode("ips", None)
    BY <1>8 DEF LastNode
  <2>5. OnBus("node ips", y)' = LastNode("ips", None)'
    BY <1>12, <2>2, <2>3, <2>4
  <2> QED
    BY <2>5 DEF IpsFollow, y
<1>16. PeersFollow'
  <2> DEFINE y == Mail("tracker", "peers", peers)
  <2>1. y' = y
    BY Zenon, <1>2 DEF Mail
  <2> HIDE DEF y
  <2>2. OnBus("peers", y) = LastPeers
    BY Zenon DEF Rest, Follows, PeersFollow, y
  <2>3. OnBus("peers", y)' = Upon(p, "peers", OnBus("peers", y))
    BY Zenon, <1>7, <2>1 DEF OnBus
  <2>4. LastPeers' = IF u.peers # None THEN u.peers ELSE LastPeers
    BY <1>8 DEF LastPeers
  <2>5. OnBus("peers", y)' = LastPeers'
    BY <1>12, <2>2, <2>3, <2>4
  <2> QED
    BY <2>5 DEF PeersFollow, y
<1>17. \A a, ks : SameMail(a, ks)
  BY Zenon, <1>2 DEF SameMail
<1>18. StateFollows' /\ TunnelFollows' /\ SourcesFollow' /\ RoutesFollow'
  <2>1. SameBus({"state"}) /\ SameBus({"src_filter"}) /\ SameBus({"out"})
    BY <1>6 DEF SameBus, Kinds
  <2> QED
    BY Zenon, <1>2, <1>10, <1>17, <2>1, StateKept, TunnelKept, SourcesKept, RoutesKept
       DEF Rest, Follows
<1>19. StatesLinked'
  <2>1. ~ IsState(p)
    BY <1>3 DEF IsState
  <2> QED
    BY Zenon, <1>1, <1>2, <1>5, <1>10, <2>1, LinksKept DEF Rest
<1>20. HomesAgree'
  <2>1. control'.home = control.home
    BY <1>1, <1>2 DEF ControlShape
  <2> QED
    BY Zenon, <1>2, <1>17, <2>1, HomesKept DEF Rest
<1>21. Topics'
  BY Zenon, <1>2 DEF Rest, Topics
<1>22. /\ Underlay' /\ MultiderpKnows' /\ HomeKnown'
       /\ \A r : KnownSoon(r) => KnownSoon(r)'
  <2>1. "under" \in Kinds \ {"peers", "node routes", "node ips", "filter"}
    BY DEF Kinds
  <2>2. OnBus("under", Mail("dataplane", "under", dp.under))'
          = OnBus("under", Mail("dataplane", "under", dp.under))
    BY Zenon, <1>2, <1>6, <2>1 DEF OnBus, Mail
  <2> QED
    BY Zenon, <1>1, <1>2, <2>2, OthersStep, ExtendsSelf DEF Rest
<1>23. MessagesKnown' /\ UpdatesKnown'
  BY Zenon, <1>2, <1>22, UpdateKnown DEF Rest, u
<1> QED
  BY Zenon, <1>13, <1>14, <1>15, <1>16, <1>18, <1>19, <1>20, <1>21, <1>22, <1>23
     DEF Rest, Follows, Known

LEMMA RestOfShutdown ==
  ASSUME Basic, Rest, BeginShutdown \/ (\E a \in Actors \cup {"bus"} : Stop(a)),
         stopped \subseteq stopped', stopped' \subseteq {"control"}
  PROVE  Rest'
<1>1. /\ UNCHANGED <<sent, bus, mbox, busy, control, peers, derps, dp, ips>>
      /\ "routes" \notin stopped /\ "routes" \notin stopped'
  BY DEF BeginShutdown, Stop
<1>2. /\ (\A a, ks : SameMail(a, ks)) /\ (\A js : SameBus(js))
      /\ Delivered' = Delivered
  BY Zenon, <1>1 DEF SameMail, SameBus, Delivered, Mail
<1>3. Follows'
  BY Zenon, <1>1, <1>2, FollowsKept DEF Rest, AllSame
<1>4. StatesLinked' /\ Topics'
  BY Zenon, <1>1, <1>2 DEF Rest, StatesLinked, Topics
<1>5. HomesAgree'
  BY Zenon, <1>1, <1>2, HomesKept DEF Rest
<1>6. /\ Underlay' /\ MultiderpKnows' /\ HomeKnown'
      /\ \A r : KnownSoon(r) => KnownSoon(r)'
  BY Zenon, <1>1, OthersStep, ExtendsSelf DEF Basic, Rest, OnBus, Mail
<1>7. MessagesKnown' /\ UpdatesKnown'
  BY Zenon, <1>1, <1>6, RegionsKept DEF Basic, Rest, Known, TakenOrKept
<1> QED
  BY Zenon, <1>3, <1>4, <1>5, <1>6, <1>7 DEF Rest, Known

-----------------------------------------------------------------------------
(* The bus delivers *)

LEMMA DeliverMail ==
  ASSUME Basic, Deliver, NEW m, m = Head(bus)
  PROVE  /\ IsSeq(bus) /\ bus # << >> /\ bus' = Tail(bus)
         /\ \A a \in Actors : IsSeq(mbox[a])
         /\ \A a \in Actors : a \in Subscribers(m) \ stopped => mbox'[a] = Append(mbox[a], m)
         /\ \A a \in Actors : a \notin Subscribers(m) \ stopped => mbox'[a] = mbox[a]
         /\ UNCHANGED <<sent, busy, control, peers, derps, dp, ips, stopped>>
<1>1. IsSeq(bus) /\ \A a \in Actors : IsSeq(mbox[a])
  BY Zenon, ShapeIs DEF Basic, MailShape
<1>2. mbox' = [a \in Actors |-> IF a \in Subscribers(m) \ stopped
                                THEN Append(mbox[a], m) ELSE mbox[a]]
  BY Zenon DEF Deliver
<1>3. /\ \A a \in Actors : a \in Subscribers(m) \ stopped => mbox'[a] = Append(mbox[a], m)
      /\ \A a \in Actors : a \notin Subscribers(m) \ stopped => mbox'[a] = mbox[a]
  BY Zenon, <1>2
<1> QED
  BY Zenon, <1>1, <1>3 DEF Deliver

(* Who handles what a message carries is sent it, so no table's view of    *)
(* what is on its way to it changes.                                       *)
Passed(a, k) ==
    /\ \A d : After(mbox'[a], k, d) = Upon(Head(bus), k, After(mbox[a], k, d))
    /\ \A d : After(bus', k, After(mbox'[a], k, d)) = After(bus, k, After(mbox[a], k, d))

LEMMA Delivers ==
  ASSUME Basic, Deliver, NEW a \in Actors, NEW k,
         Carries(Head(bus), k) => a \in Subscribers(Head(bus)) \ stopped
  PROVE  Passed(a, k)
<1> DEFINE m == Head(bus)
<1>0. Carries(m, k) => a \in Subscribers(m) \ stopped
  OBVIOUS
<1>1. /\ IsSeq(bus) /\ bus # << >> /\ bus' = Tail(bus) /\ IsSeq(mbox[a])
      /\ a \in Subscribers(m) \ stopped => mbox'[a] = Append(mbox[a], m)
      /\ a \notin Subscribers(m) \ stopped => mbox'[a] = mbox[a]
  BY Zenon, DeliverMail
<1>. m = Head(bus)
  OBVIOUS
<1> HIDE DEF m
<1>2. ASSUME NEW d PROVE After(mbox'[a], k, d) = Upon(m, k, After(mbox[a], k, d))
  <2>1. CASE a \in Subscribers(m) \ stopped
    <3>1. After(Append(mbox[a], m), k, d) = Upon(m, k, After(mbox[a], k, d))
      BY <1>1, AfterAppend
    <3> QED
      BY Zenon, <1>1, <2>1, <3>1
  <2>2. CASE a \notin Subscribers(m) \ stopped
    <3>1. ~ Carries(m, k)
      BY Zenon, <1>0, <2>2
    <3>2. Upon(m, k, After(mbox[a], k, d)) = After(mbox[a], k, d)
      BY Zenon, <3>1 DEF Upon
    <3> QED
      BY Zenon, <1>1, <2>2, <3>2
  <2> QED
    BY Zenon, <2>1, <2>2
<1>3. ASSUME NEW d
      PROVE  After(bus', k, After(mbox'[a], k, d)) = After(bus, k, After(mbox[a], k, d))
  <2> DEFINE e == After(mbox[a], k, d)
  <2>1. After(mbox'[a], k, d) = Upon(m, k, e)
    BY Zenon, <1>2
  <2> HIDE DEF e
  <2>2. After(Tail(bus), k, Upon(Head(bus), k, e)) = After(bus, k, e)
    BY <1>1, AfterTail
  <2>3. After(bus', k, Upon(m, k, e)) = After(bus, k, e)
    BY Zenon, <1>1, <2>2
  <2> QED
    BY Zenon, <2>1, <2>3 DEF e
<1> QED
  BY Zenon, <1>2, <1>3 DEF Passed

LEMMA Reached ==
  ASSUME NEW m, stopped \subseteq {"control"}
  PROVE  /\ Carries(m, "filter") => "filter" \in Subscribers(m) \ stopped
         /\ Carries(m, "node routes") => "routes" \in Subscribers(m) \ stopped
         /\ Carries(m, "node ips") => "netstack" \in Subscribers(m) \ stopped
         /\ Carries(m, "peers") => "tracker" \in Subscribers(m) \ stopped
         /\ \A k \in {"pf", "self_routes", "src_filter", "out", "under", "keys"} :
              Carries(m, k) => "dataplane" \in Subscribers(m) \ stopped
         /\ \A k \in {"state", "home"} : Carries(m, k) => "multiderp" \in Subscribers(m) \ stopped
         /\ Carries(m, "sources") => "source" \in Subscribers(m) \ stopped
         /\ \A k \in {"state", "routes"} : Carries(m, k) => "routes" \in Subscribers(m) \ stopped
         /\ "control" \notin stopped /\ Carries(m, "home") => "control" \in Subscribers(m) \ stopped
<1>1. /\ Carries(m, "filter") => "filter" \in Subscribers(m)
      /\ Carries(m, "node routes") => "routes" \in Subscribers(m)
      /\ Carries(m, "node ips") => "netstack" \in Subscribers(m)
      /\ Carries(m, "peers") => "tracker" \in Subscribers(m)
  BY DEF Carries, Subscribers
<1>2. \A k \in {"pf", "self_routes", "src_filter", "out", "under", "keys"} :
        Carries(m, k) => "dataplane" \in Subscribers(m)
  BY DEF Carries, Subscribers
<1>3. /\ \A k \in {"state", "home"} : Carries(m, k) => "multiderp" \in Subscribers(m)
      /\ Carries(m, "sources") => "source" \in Subscribers(m)
      /\ \A k \in {"state", "routes"} : Carries(m, k) => "routes" \in Subscribers(m)
      /\ Carries(m, "home") => "control" \in Subscribers(m)
  BY DEF Carries, Subscribers
<1>4. \A a \in {"filter", "routes", "netstack", "tracker", "dataplane", "multiderp", "source"} :
        a \notin stopped
  OBVIOUS
<1> QED
  BY <1>1, <1>2, <1>3, <1>4

LEMMA ExpectedThere ==
  ASSUME NEW m, NEW a \in Subscribers(m)
  PROVE  Expected(a, m)
<1>1. CASE m.topic = "update"
  BY <1>1 DEF Subscribers, Expected, Carries, IsState
<1>2. CASE m.topic = "peer_state"
  BY <1>2 DEF Subscribers, Expected, Carries, IsState
<1>3. CASE m.topic \notin {"update", "peer_state"}
  BY <1>3 DEF Subscribers, Expected, Carries, IsState
<1> QED
  BY <1>1, <1>2, <1>3

LEMMA PassedOn ==
  ASSUME Basic, Deliver, stopped \subseteq {"control"}
  PROVE  /\ Passed("filter", "filter") /\ Passed("routes", "node routes")
         /\ Passed("netstack", "node ips") /\ Passed("tracker", "peers")
         /\ Passed("dataplane", "pf") /\ Passed("dataplane", "self_routes")
         /\ Passed("dataplane", "src_filter") /\ Passed("dataplane", "out")
         /\ Passed("dataplane", "under") /\ Passed("dataplane", "keys")
         /\ Passed("multiderp", "state") /\ Passed("multiderp", "home")
         /\ Passed("source", "sources") /\ Passed("routes", "state")
         /\ Passed("routes", "routes")
         /\ "control" \notin stopped => Passed("control", "home")
<1> DEFINE there(a, k) == Carries(Head(bus), k) => a \in Subscribers(Head(bus)) \ stopped
<1>1. /\ there("filter", "filter") /\ there("routes", "node routes")
      /\ there("netstack", "node ips") /\ there("tracker", "peers")
      /\ \A k \in {"pf", "self_routes", "src_filter", "out", "under", "keys"} : there("dataplane", k)
      /\ there("multiderp", "state") /\ there("multiderp", "home")
      /\ there("source", "sources") /\ there("routes", "state") /\ there("routes", "routes")
      /\ "control" \notin stopped => there("control", "home")
  BY Reached
<1>2. \A a \in Actors : \A k : there(a, k) => Passed(a, k)
  BY Zenon, Delivers
<1>3. {"filter", "routes", "netstack", "tracker", "dataplane", "multiderp", "source", "control"}
         \subseteq Actors
  BY DEF Actors
<1> HIDE DEF there
<1> QED
  BY <1>1, <1>2, <1>3

LEMMA DeliverUpdaters ==
  ASSUME Basic, Rest, Deliver, stopped \subseteq {"control"}
  PROVE  FilterFollows' /\ SelfFollows' /\ IpsFollow' /\ PeersFollow' /\ HomesAgree'
<1> DEFINE m == Head(bus)
<1>1. UNCHANGED <<sent, control, peers, derps, dp, ips, stopped>>
  BY Zenon DEF Deliver
<1>2. /\ Passed("filter", "filter") /\ Passed("dataplane", "pf")
      /\ Passed("routes", "node routes") /\ Passed("dataplane", "self_routes")
      /\ Passed("netstack", "node ips") /\ Passed("tracker", "peers")
      /\ Passed("multiderp", "home") /\ ("control" \notin stopped => Passed("control", "home"))
  BY Zenon, PassedOn
<1>3. FilterFollows'
  <2> DEFINE x == OnBus("pf", Mail("dataplane", "pf", dp.filter))
             y == OnBus("filter", Mail("filter", "filter", x))
  <2>1. \A d : After(bus', "pf", After(mbox'["dataplane"], "pf", d))
                 = After(bus, "pf", After(mbox["dataplane"], "pf", d))
    BY Zenon, <1>2 DEF Passed
  <2>2. x' = x
    BY Zenon, <1>1, <2>1 DEF OnBus, Mail
  <2> HIDE DEF x
  <2>3. \A d : After(bus', "filter", After(mbox'["filter"], "filter", d))
                 = After(bus, "filter", After(mbox["filter"], "filter", d))
    BY Zenon, <1>2 DEF Passed
  <2>4. y' = y
    BY Zenon, <2>2, <2>3 DEF OnBus, Mail
  <2> HIDE DEF y
  <2>5. y = LastIn(sent, "pf")
    BY Zenon DEF Rest, Follows, FilterFollows, x, y
  <2>6. LastIn(sent, "pf")' = LastIn(sent, "pf")
    BY Zenon, <1>1
  <2>7. y' = LastIn(sent, "pf")'
    BY Zenon, <2>4, <2>5, <2>6
  <2> QED
    BY <2>7 DEF FilterFollows, x, y
<1>4. SelfFollows'
  <2> DEFINE x == OnBus("self_routes", Mail("dataplane", "self_routes", dp.in))
             y == OnBus("node routes", Mail("routes", "node routes", x))
  <2>1. \A d : After(bus', "self_routes", After(mbox'["dataplane"], "self_routes", d))
                 = After(bus, "self_routes", After(mbox["dataplane"], "self_routes", d))
    BY Zenon, <1>2 DEF Passed
  <2>2. x' = x
    BY Zenon, <1>1, <2>1 DEF OnBus, Mail
  <2> HIDE DEF x
  <2>3. \A d : After(bus', "node routes", After(mbox'["routes"], "node routes", d))
                 = After(bus, "node routes", After(mbox["routes"], "node routes", d))
    BY Zenon, <1>2 DEF Passed
  <2>4. y' = y
    BY Zenon, <2>2, <2>3 DEF OnBus, Mail
  <2> HIDE DEF y
  <2>5. y = LastNode("routes", {})
    BY Zenon DEF Rest, Follows, SelfFollows, x, y
  <2>6. LastNode("routes", {})' = LastNode("routes", {})
    BY <1>1 DEF LastNode
  <2>7. y' = LastNode("routes", {})'
    BY Zenon, <2>4, <2>5, <2>6
  <2> QED
    BY <2>7 DEF SelfFollows, x, y
<1>5. IpsFollow'
  <2>1. \A d : After(bus', "node ips", After(mbox'["netstack"], "node ips", d))
                 = After(bus, "node ips", After(mbox["netstack"], "node ips", d))
    BY Zenon, <1>2 DEF Passed
  <2>2. OnBus("node ips", Mail("netstack", "node ips", ips))'
          = OnBus("node ips", Mail("netstack", "node ips", ips))
    BY Zenon, <1>1, <2>1 DEF OnBus, Mail
  <2>3. LastNode("ips", None)' = LastNode("ips", None)
    BY <1>1 DEF LastNode
  <2> QED
    BY Zenon, <2>2, <2>3 DEF Rest, Follows, IpsFollow
<1>6. PeersFollow'
  <2>1. \A d : After(bus', "peers", After(mbox'["tracker"], "peers", d))
                 = After(bus, "peers", After(mbox["tracker"], "peers", d))
    BY Zenon, <1>2 DEF Passed
  <2>2. OnBus("peers", Mail("tracker", "peers", peers))'
          = OnBus("peers", Mail("tracker", "peers", peers))
    BY Zenon, <1>1, <2>1 DEF OnBus, Mail
  <2>3. LastPeers' = LastPeers
    BY <1>1 DEF LastPeers
  <2> QED
    BY Zenon, <2>2, <2>3 DEF Rest, Follows, PeersFollow
<1>7. HomesAgree'
  <2> SUFFICES ASSUME "control" \notin stopped
               PROVE  Mail("multiderp", "home", derps.home)' = Mail("control", "home", control.home)'
    BY Zenon, <1>1 DEF HomesAgree
  <2>1. After(mbox'["multiderp"], "home", derps.home)
          = Upon(m, "home", After(mbox["multiderp"], "home", derps.home))
    BY Zenon, <1>2 DEF Passed
  <2>2. After(mbox'["control"], "home", control.home)
          = Upon(m, "home", After(mbox["control"], "home", control.home))
    BY Zenon, <1>2 DEF Passed
  <2>3. After(mbox["multiderp"], "home", derps.home) = After(mbox["control"], "home", control.home)
    BY Zenon DEF Rest, HomesAgree, Mail
  <2> QED
    BY Zenon, <1>1, <2>1, <2>2, <2>3 DEF Mail
<1> QED
  BY Zenon, <1>3, <1>4, <1>5, <1>6, <1>7

LEMMA StateCarried ==
  ASSUME NEW m, NEW k \in {"state", "keys", "sources", "routes"}
  PROVE  Carries(m, k) <=> IsState(m)
  BY DEF Carries, IsState

(* The derived tables follow the last state delivered. *)
LEMMA DeliverStates ==
  ASSUME Basic, Rest, Deliver, stopped \subseteq {"control"}
  PROVE  /\ StateFollows' /\ TunnelFollows' /\ SourcesFollow' /\ RoutesFollow'
         /\ Delivered' = Upon(Head(bus), "state", Delivered)
<1> DEFINE m == Head(bus)
           D == Delivered
<1>1. UNCHANGED <<peers, derps, dp>>
  BY Zenon DEF Deliver
<1>2. /\ Passed("multiderp", "state") /\ Passed("dataplane", "keys")
      /\ Passed("dataplane", "src_filter") /\ Passed("dataplane", "out")
      /\ Passed("source", "sources") /\ Passed("routes", "state") /\ Passed("routes", "routes")
  BY Zenon, PassedOn
<1>3. D' = Upon(m, "state", D)
  BY Zenon, <1>1, <1>2 DEF Delivered, Mail, Passed
<1>4. StateFollows'
  <2>1. After(bus', "state", After(mbox'["multiderp"], "state", derps.db))
          = After(bus, "state", After(mbox["multiderp"], "state", derps.db))
    BY Zenon, <1>2 DEF Passed
  <2>2. OnBus("state", D)' = OnBus("state", D)
    BY Zenon, <1>1, <2>1 DEF OnBus, Delivered, Mail
  <2> QED
    BY Zenon, <1>1, <2>2 DEF Rest, Follows, StateFollows
<1> HIDE DEF m
<1>5. /\ IsState(m) => D' = m.body.peers
      /\ ~ IsState(m) => D' = D
  <2>1. IsState(m) => Upon(m, "state", D) = m.body.peers
    BY StateCarried DEF Upon, ValueOf
  <2>2. ~ IsState(m) => Upon(m, "state", D) = D
    BY StateCarried DEF Upon
  <2> QED
    BY Zenon, <1>3, <2>1, <2>2
<1>6. /\ ValueOf(m, "keys") = KeysOf(m.body.peers)
      /\ ValueOf(m, "sources") = RoutesOf(m.body.peers, DOMAIN m.body.peers)
      /\ ValueOf(m, "routes") = RoutesOf(m.body.peers, Homed(m.body.peers))
      /\ ValueOf(m, "state") = m.body.peers
  BY DEF ValueOf
<1>7. /\ IsState(m) => \A k \in {"state", "keys", "sources", "routes"} : \A d : Upon(m, k, d) = ValueOf(m, k)
      /\ ~ IsState(m) => \A k \in {"state", "keys", "sources", "routes"} : \A d : Upon(m, k, d) = d
  BY StateCarried DEF Upon
<1>8. TunnelFollows'
  <2>1. After(mbox'["dataplane"], "keys", dp.tunnel)
          = Upon(m, "keys", After(mbox["dataplane"], "keys", dp.tunnel))
    BY Zenon, <1>2 DEF Passed, m
  <2>2. After(mbox["dataplane"], "keys", dp.tunnel) = KeysOf(D)
    BY Zenon DEF Rest, Follows, TunnelFollows, Mail
  <2>3. Upon(m, "keys", KeysOf(D)) = KeysOf(D')
    <3>1. CASE IsState(m)
      BY <1>5, <1>6, <1>7, <3>1
    <3>2. CASE ~ IsState(m)
      BY <1>5, <1>7, <3>2
    <3> QED
      BY <3>1, <3>2
  <2>4. After(mbox'["dataplane"], "keys", dp'.tunnel) = KeysOf(D')
    BY Zenon, <1>1, <2>1, <2>2, <2>3
  <2> QED
    BY <2>4 DEF TunnelFollows, Mail
<1>9. SourcesFollow'
  <2> DEFINE x == OnBus("src_filter", Mail("dataplane", "src_filter", dp.src))
  <2>1. x' = x
    BY Zenon, <1>1, <1>2 DEF OnBus, Mail, Passed
  <2> HIDE DEF x
  <2>2. After(mbox'["source"], "sources", x) = Upon(m, "sources", After(mbox["source"], "sources", x))
    BY Zenon, <1>2 DEF Passed, m
  <2>3. After(mbox["source"], "sources", x) = RoutesOf(D, DOMAIN D)
    BY Zenon DEF Rest, Follows, SourcesFollow, Mail, x
  <2>4. Upon(m, "sources", RoutesOf(D, DOMAIN D)) = RoutesOf(D', DOMAIN D')
    <3>1. CASE IsState(m)
      BY <1>5, <1>6, <1>7, <3>1
    <3>2. CASE ~ IsState(m)
      BY <1>5, <1>7, <3>2
    <3> QED
      BY <3>1, <3>2
  <2>5. After(mbox'["source"], "sources", x') = RoutesOf(D', DOMAIN D')
    BY Zenon, <2>1, <2>2, <2>3, <2>4
  <2> QED
    BY <2>5 DEF SourcesFollow, Mail, x
<1>10. RoutesFollow'
  <2> DEFINE x == OnBus("out", Mail("dataplane", "out", dp.out))
  <2>1. x' = x
    BY Zenon, <1>1, <1>2 DEF OnBus, Mail, Passed
  <2> HIDE DEF x
  <2>2. After(mbox'["routes"], "routes", x) = Upon(m, "routes", After(mbox["routes"], "routes", x))
    BY Zenon, <1>2 DEF Passed, m
  <2>3. After(mbox["routes"], "routes", x) = RoutesOf(D, Homed(D))
    BY Zenon DEF Rest, Follows, RoutesFollow, Mail, x
  <2>4. Upon(m, "routes", RoutesOf(D, Homed(D))) = RoutesOf(D', Homed(D'))
    <3>1. CASE IsState(m)
      BY <1>5, <1>6, <1>7, <3>1
    <3>2. CASE ~ IsState(m)
      BY <1>5, <1>7, <3>2
    <3> QED
      BY <3>1, <3>2
  <2>5. After(mbox'["routes"], "routes", x') = RoutesOf(D', Homed(D'))
    BY Zenon, <2>1, <2>2, <2>3, <2>4
  <2>6. After(mbox'["routes"], "state", D') = Upon(m, "state", After(mbox["routes"], "state", D'))
    BY Zenon, <1>2 DEF Passed, m
  <2>7. After(mbox["routes"], "state", D) = D
    BY Zenon DEF Rest, Follows, RoutesFollow, Mail
  <2>8. After(mbox'["routes"], "state", D') = D'
    <3>1. CASE IsState(m)
      BY <1>5, <1>6, <1>7, <2>6, <3>1
    <3>2. CASE ~ IsState(m)
      BY <1>5, <1>7, <2>6, <2>7, <3>2
    <3> QED
      BY <3>1, <3>2
  <2> QED
    BY <2>5, <2>8 DEF RoutesFollow, Mail, x
<1> QED
  BY Zenon, <1>3, <1>4, <1>8, <1>9, <1>10 DEF m

LEMMA DeliverLinks ==
  ASSUME Basic, Rest, Deliver
  PROVE  Delivered' = Upon(Head(bus), "state", Delivered) => StatesLinked'
<1> DEFINE m == Head(bus)
           D == Delivered
<1> SUFFICES ASSUME D' = Upon(m, "state", D) PROVE StatesLinked'
  OBVIOUS
<1>1. /\ IsSeq(bus) /\ bus # << >> /\ bus' = Tail(bus) /\ IsSeq(mbox["dataplane"])
      /\ mbox'["dataplane"] = Append(mbox["dataplane"], m) \/ mbox'["dataplane"] = mbox["dataplane"]
      /\ dp' = dp
  <2>1. "dataplane" \in Actors
    BY DEF Actors
  <2> QED
    BY Zenon, <2>1, DeliverMail
<1>2. Linked(bus, DOMAIN D) /\ Linked(mbox["dataplane"], DOMAIN dp.tunnel)
  BY Zenon DEF Rest, StatesLinked
<1>3. /\ IsState(m) => Replaces(m, DOMAIN D)
      /\ Linked(Tail(bus), IF IsState(m) THEN DOMAIN m.body.peers ELSE DOMAIN D)
  BY <1>1, <1>2, LinkedTail
<1> HIDE DEF m, D
<1>4. DOMAIN D' = IF IsState(m) THEN DOMAIN m.body.peers ELSE DOMAIN D
  BY StateCarried DEF Upon, ValueOf
<1>5. Linked(bus', DOMAIN D')
  BY <1>1, <1>3, <1>4
<1>6. Linked(mbox'["dataplane"], DOMAIN dp.tunnel)
  <2>1. After(mbox["dataplane"], "keys", dp.tunnel) = KeysOf(D)
    BY Zenon DEF Rest, Follows, TunnelFollows, Mail, D
  <2>2. DOMAIN KeysOf(D) = DOMAIN D
    BY DEF KeysOf
  <2>3. IsState(m) => Replaces(m, DOMAIN After(mbox["dataplane"], "keys", dp.tunnel))
    BY Zenon, <1>3, <2>1, <2>2
  <2>4. Linked(Append(mbox["dataplane"], m), DOMAIN dp.tunnel)
    BY Zenon, <1>1, <1>2, <2>3, LinkedAppend
  <2> QED
    BY Zenon, <1>1, <1>2, <2>4
<1> QED
  BY Zenon, <1>1, <1>5, <1>6 DEF StatesLinked, D

LEMMA DeliverKnown ==
  ASSUME Basic, Rest, Deliver, stopped \subseteq {"control"}
  PROVE  Known'
<1> DEFINE m == Head(bus)
<1>1. /\ IsSeq(bus) /\ bus # << >> /\ bus' = Tail(bus)
      /\ \A a \in Actors : IsSeq(mbox[a])
      /\ \A a \in Actors : a \in Subscribers(m) \ stopped => mbox'[a] = Append(mbox[a], m)
      /\ \A a \in Actors : a \notin Subscribers(m) \ stopped => mbox'[a] = mbox[a]
      /\ UNCHANGED <<sent, derps>>
  BY Zenon, DeliverMail
<1>2. Leaves(bus, bus')
  BY Zenon, <1>1, Left
<1>3. \A a \in {"multiderp", "latency", "tracker", "routes"} : a \in Actors /\ a \notin stopped
  BY DEF Actors
<1>4. m = bus[1] /\ 1 \in DOMAIN bus
  BY Zenon, <1>2 DEF Leaves
<1> HIDE DEF m
<1>5. \A r \in RegionsIn(m) : KnownSoon(r)
  BY Zenon, <1>4 DEF Rest, Known, MessagesKnown
<1>6. \A r : Maps(m, r) => "multiderp" \in Subscribers(m) \ stopped
  BY <1>3 DEF Maps, Subscribers
<1>7. /\ MultiderpKnows' /\ \A r : KnownSoon(r) => KnownSoon(r)'
      /\ \A r : Maps(m, r) => KnownSoon(r)'
  <2>1. CASE "multiderp" \in Subscribers(m) \ stopped
    <3>1. mbox'["multiderp"] = Append(mbox["multiderp"], m) /\ derps'.regions = derps.regions
      BY Zenon, <1>1, <1>3, <2>1
    <3> QED
      BY Zenon, <1>5, <3>1, MdPosted DEF Basic, Rest, Known
  <2>2. CASE "multiderp" \notin Subscribers(m) \ stopped
    <3>1. mbox'["multiderp"] = mbox["multiderp"] /\ derps'.regions = derps.regions
      BY Zenon, <1>1, <1>3, <2>2
    <3> QED
      BY Zenon, <1>6, <2>2, <3>1, MdKept, ExtendsSelf DEF Rest, Known
  <2> QED
    BY Zenon, <2>1, <2>2
<1>8. HomeKnown'
  BY Zenon, <1>1, HomeKnownKept, ExtendsSelf DEF Rest, Known
<1>9. ASSUME NEW a \in {"latency", "tracker", "routes"}, NEW i \in DOMAIN mbox'[a]
      PROVE  \/ i \in DOMAIN mbox[a] /\ mbox'[a][i] = mbox[a][i]
             \/ a \in Subscribers(m) /\ mbox'[a][i] = m
  <2>1. CASE a \in Subscribers(m) \ stopped
    <3>1. Joins(m, mbox[a], mbox'[a])
      BY <1>1, <1>3, <2>1, Joined
    <3> QED
      BY Zenon, <2>1, <3>1 DEF Joins
  <2>2. CASE a \notin Subscribers(m) \ stopped
    <3>1. mbox'[a] = mbox[a]
      BY <1>1, <1>3, <2>2
    <3> QED
      BY Zenon, <3>1
  <2> QED
    BY Zenon, <2>1, <2>2
<1>10. ASSUME NEW i \in DOMAIN mbox'["latency"], NEW r \in mbox'["latency"][i].body.derp
       PROVE  KnownSoon(r)'
  <2>1. CASE i \in DOMAIN mbox["latency"] /\ mbox'["latency"][i] = mbox["latency"][i]
    BY Zenon, <1>7, <1>10, <2>1 DEF Rest, Known, MessagesKnown
  <2>2. CASE "latency" \in Subscribers(m) /\ mbox'["latency"][i] = m
    <3>1. m.topic = "update" /\ m.body.derp # None
      BY <2>2 DEF Subscribers
    <3>2. Maps(m, r)
      BY Zenon, <1>10, <2>2, <3>1 DEF Maps
    <3> QED
      BY Zenon, <1>7, <3>2
  <2> QED
    BY Zenon, <1>9, <2>1, <2>2
<1>11. ASSUME NEW i \in DOMAIN mbox'["tracker"], NEW r \in HomesIn(mbox'["tracker"][i])
       PROVE  KnownSoon(r)'
  <2>1. CASE i \in DOMAIN mbox["tracker"] /\ mbox'["tracker"][i] = mbox["tracker"][i]
    BY Zenon, <1>7, <1>11, <2>1 DEF Rest, Known, MessagesKnown
  <2>2. CASE "tracker" \in Subscribers(m) /\ mbox'["tracker"][i] = m
    <3>1. Carries(m, "peers")
      BY <2>2 DEF Subscribers, Carries
    <3>2. KnownSoon(r) \/ \E j \in DOMAIN bus : j <= 1 /\ Maps(bus[j], r)
      BY Zenon, <1>4, <1>11, <2>2, <3>1 DEF Rest, Known, UpdatesKnown
    <3>3. \A j \in DOMAIN bus : j <= 1 => j = 1
      BY <1>2 DEF Leaves
    <3> QED
      BY Zenon, <1>4, <1>7, <3>2, <3>3
  <2> QED
    BY Zenon, <1>9, <2>1, <2>2
<1>12. ASSUME NEW i \in DOMAIN mbox'["routes"], NEW r \in RegionsIn(mbox'["routes"][i])
       PROVE  KnownSoon(r)'
  <2>1. CASE i \in DOMAIN mbox["routes"] /\ mbox'["routes"][i] = mbox["routes"][i]
    BY Zenon, <1>7, <1>12, <2>1 DEF Rest, Known, MessagesKnown
  <2>2. CASE mbox'["routes"][i] = m
    BY Zenon, <1>5, <1>7, <1>12, <2>2
  <2> QED
    BY Zenon, <1>9, <2>1, <2>2
<1>13. ASSUME NEW i \in DOMAIN bus', NEW r \in RegionsIn(bus'[i])
       PROVE  KnownSoon(r)'
  BY Zenon, <1>2, <1>7, <1>13 DEF Rest, Known, MessagesKnown, Leaves
<1>14. ASSUME NEW j \in DOMAIN bus, NEW r, Maps(bus[j], r)
       PROVE  KnownSoon(r)' \/ (j - 1 \in DOMAIN bus' /\ Maps(bus'[j - 1], r))
  BY Zenon, <1>2, <1>4, <1>7, <1>14 DEF Leaves
<1>15. ASSUME NEW i \in DOMAIN bus', Carries(bus'[i], "peers"), NEW r \in HomesIn(bus'[i])
       PROVE  KnownSoon(r)' \/ \E j \in DOMAIN bus' : j <= i /\ Maps(bus'[j], r)
  <2>1. /\ i + 1 \in DOMAIN bus /\ bus'[i] = bus[i + 1] /\ i \in Nat /\ DOMAIN bus \subseteq Nat \ {0}
    BY Zenon, <1>2 DEF Leaves
  <2>2. KnownSoon(r) \/ \E j \in DOMAIN bus : j <= i + 1 /\ Maps(bus[j], r)
    BY Zenon, <1>15, <2>1 DEF Rest, Known, UpdatesKnown
  <2>3. CASE KnownSoon(r)
    BY Zenon, <1>7, <2>3
  <2>4. CASE \E j \in DOMAIN bus : j <= i + 1 /\ Maps(bus[j], r)
    <3>1. PICK j \in DOMAIN bus : j <= i + 1 /\ Maps(bus[j], r)
      BY Zenon, <2>4
    <3>2. j - 1 <= i
      BY <2>1, <3>1
    <3> QED
      BY Zenon, <1>14, <3>1, <3>2
  <2> QED
    BY Zenon, <2>2, <2>3, <2>4
<1>16. ASSUME NEW i \in DOMAIN sent, sent[i].derp # None, NEW r \in sent[i].derp
       PROVE  KnownSoon(r)' \/ \E j \in DOMAIN bus' : Maps(bus'[j], r)
  <2>1. KnownSoon(r) \/ \E j \in DOMAIN bus : Maps(bus[j], r)
    BY Zenon, <1>16 DEF Rest, Known, UpdatesKnown
  <2> QED
    BY Zenon, <1>7, <1>14, <2>1
<1>17. MessagesKnown'
  BY <1>10, <1>11, <1>12, <1>13 DEF MessagesKnown
<1>18. UpdatesKnown'
  <2>1. sent' = sent
    BY Zenon, <1>1
  <2> QED
    BY <1>15, <1>16, <2>1 DEF UpdatesKnown
<1> QED
  BY Zenon, <1>7, <1>8, <1>17, <1>18 DEF Known

LEMMA DeliverUnderlay ==
  ASSUME Basic, Rest, Deliver, stopped \subseteq {"control"},
         Delivered' = Upon(Head(bus), "state", Delivered)
  PROVE  Underlay'
<1> DEFINE m == Head(bus)
<1>1. /\ \A a \in Actors : IsSeq(mbox[a])
      /\ \A a \in Actors : a \in Subscribers(m) \ stopped => mbox'[a] = Append(mbox[a], m)
      /\ \A a \in Actors : a \notin Subscribers(m) \ stopped => mbox'[a] = mbox[a]
      /\ UNCHANGED <<busy, derps, dp, stopped>>
  BY Zenon, DeliverMail
<1>2. "routes" \in Actors /\ "multiderp" \in Actors /\ "routes" \notin stopped
  BY DEF Actors
<1>3. IsState(m) => "routes" \in Subscribers(m) \ stopped
  BY <1>2 DEF IsState, Subscribers
<1>4. "multiderp" \in Subscribers(m) => m.topic # "region"
  BY DEF Subscribers
<1>5. OnBus("under", Mail("dataplane", "under", dp.under))'
        = OnBus("under", Mail("dataplane", "under", dp.under))
  <2>1. Passed("dataplane", "under")
    BY Zenon, PassedOn
  <2> QED
    BY Zenon, <1>1, <2>1 DEF OnBus, Mail, Passed
<1>6. Delivered' = Upon(m, "state", Delivered)
  OBVIOUS
<1> HIDE DEF m
<1>7. "routes" \in Subscribers(m) \ stopped => Joins(m, mbox["routes"], mbox'["routes"])
  BY Zenon, <1>1, <1>2, Joined
<1>8. Free(mbox'["routes"], "state") => ~ IsState(m) /\ Free(mbox["routes"], "state")
  <2> SUFFICES ASSUME Free(mbox'["routes"], "state")
               PROVE  ~ IsState(m) /\ Free(mbox["routes"], "state")
    BY Zenon
  <2>1. CASE "routes" \in Subscribers(m) \ stopped
    <3>1. Joins(m, mbox["routes"], mbox'["routes"])
      BY Zenon, <1>7, <2>1
    <3>2. ~ Carries(m, "state") /\ Free(mbox["routes"], "state")
      BY Zenon, <3>1 DEF Joins, Free
    <3>3. Carries(m, "state") <=> IsState(m)
      BY StateCarried
    <3> QED
      BY Zenon, <3>2, <3>3
  <2>2. CASE "routes" \notin Subscribers(m) \ stopped
    BY Zenon, <1>1, <1>2, <1>3, <2>2
  <2> QED
    BY Zenon, <2>1, <2>2
<1>9. UnderlayFollows'
  <2>1. CASE ~ Free(mbox'["routes"], "state")
    BY Zenon, <2>1 DEF UnderlayFollows
  <2>2. CASE Free(mbox'["routes"], "state")
    <3>1. Delivered' = Delivered
      <4>1. ~ Carries(m, "state")
        BY <1>8, <2>2, StateCarried
      <4> QED
        BY <1>6, <4>1 DEF Upon
    <3> QED
      BY Zenon, <1>1, <1>5, <1>8, <3>1, UnderlayKept, ExtendsSelf DEF Rest, Underlay
  <2> QED
    BY Zenon, <2>1, <2>2
<1>10. ASSUME mbox["routes"] # << >>
       PROVE  mbox'["routes"] # << >> /\ Head(mbox'["routes"]) = Head(mbox["routes"])
  <2>1. CASE "routes" \notin Subscribers(m) \ stopped
    BY Zenon, <1>1, <1>2, <1>10, <2>1
  <2>2. CASE "routes" \in Subscribers(m) \ stopped
    <3>1. IsSeq(mbox["routes"]) /\ mbox'["routes"] = Append(mbox["routes"], m)
      BY Zenon, <1>1, <1>2, <2>2
    <3>2. Head(mbox["routes"]) = mbox["routes"][1] /\ 1 \in DOMAIN mbox["routes"]
      BY Zenon, <1>10, <3>1, TailSeq
    <3>3. /\ IsSeq(mbox'["routes"]) /\ mbox'["routes"] # << >>
          /\ \A i \in DOMAIN mbox["routes"] : mbox'["routes"][i] = mbox["routes"][i]
      <4>1. /\ IsSeq(Append(mbox["routes"], m)) /\ Append(mbox["routes"], m) # << >>
            /\ \A i \in DOMAIN mbox["routes"] : Append(mbox["routes"], m)[i] = mbox["routes"][i]
        BY Zenon, <3>1, AppendSeq
      <4> QED
        BY Zenon, <3>1, <4>1
    <3>4. Head(mbox'["routes"]) = mbox'["routes"][1]
      BY Zenon, <3>3, TailSeq
    <3> QED
      BY Zenon, <3>2, <3>3, <3>4
  <2> QED
    BY Zenon, <2>1, <2>2
<1>11. \/ TakenOrKept(mbox["multiderp"], mbox'["multiderp"])
       \/ \E n : n.topic # "region" /\ mbox'["multiderp"] = Append(mbox["multiderp"], n)
  BY Zenon, <1>1, <1>2, <1>4 DEF TakenOrKept
<1>12. AskingRight'
  <2>1. /\ "routes" \notin stopped' /\ busy'["routes"] = busy["routes"]
        /\ Extends(derps.regions, derps'.regions)
    BY Zenon, <1>1, <1>2, ExtendsSelf
  <2> QED
    BY Zenon, <1>2, <1>10, <1>11, <2>1, AskingKept DEF Basic, Rest, Underlay
<1> QED
  BY Zenon, <1>9, <1>12 DEF Underlay

LEMMA RestOfDeliver ==
  ASSUME Basic, Rest, Deliver, stopped \subseteq {"control"}
  PROVE  Rest'
<1>1. FilterFollows' /\ SelfFollows' /\ IpsFollow' /\ PeersFollow' /\ HomesAgree'
  BY Zenon, DeliverUpdaters
<1>2. /\ StateFollows' /\ TunnelFollows' /\ SourcesFollow' /\ RoutesFollow'
      /\ Delivered' = Upon(Head(bus), "state", Delivered)
  BY Zenon, DeliverStates
<1>3. StatesLinked'
  BY Zenon, <1>2, DeliverLinks
<1>4. Topics'
  <2>1. \A a \in Actors : \/ TakenOrKept(mbox[a], mbox'[a])
                          \/ \E m : Expected(a, m) /\ mbox'[a] = Append(mbox[a], m)
    <3> SUFFICES ASSUME NEW a \in Actors
                 PROVE  \/ mbox'[a] = mbox[a]
                        \/ \E m : Expected(a, m) /\ mbox'[a] = Append(mbox[a], m)
      BY Zenon DEF TakenOrKept
    <3>1. /\ a \in Subscribers(Head(bus)) \ stopped => mbox'[a] = Append(mbox[a], Head(bus))
          /\ a \notin Subscribers(Head(bus)) \ stopped => mbox'[a] = mbox[a]
      BY Zenon, DeliverMail
    <3>2. a \in Subscribers(Head(bus)) => Expected(a, Head(bus))
      BY Zenon, ExpectedThere
    <3> QED
      BY Zenon, <3>1, <3>2
  <2> QED
    BY Zenon, <2>1, TopicsKept DEF Basic, Rest
<1>5. Known' /\ Underlay'
  BY Zenon, <1>2, DeliverKnown, DeliverUnderlay
<1> QED
  BY Zenon, <1>1, <1>2, <1>3, <1>4, <1>5 DEF Rest, Follows

-----------------------------------------------------------------------------
(* The invariant holds *)

(* With nothing queued, the tables are what they are to become. *)
Handled ==
    /\ OnBus("filter", Mail("filter", "filter",
             OnBus("pf", Mail("dataplane", "pf", dp.filter)))) = dp.filter
    /\ OnBus("node routes", Mail("routes", "node routes",
             OnBus("self_routes", Mail("dataplane", "self_routes", dp.in)))) = dp.in
    /\ OnBus("node ips", Mail("netstack", "node ips", ips)) = ips
    /\ OnBus("peers", Mail("tracker", "peers", peers)) = peers
    /\ Delivered = derps.db
    /\ OnBus("state", derps.db) = derps.db
    /\ Mail("dataplane", "keys", dp.tunnel) = dp.tunnel
    /\ Mail("source", "sources", OnBus("src_filter", Mail("dataplane", "src_filter", dp.src)))
           = dp.src
    /\ Mail("routes", "routes", OnBus("out", Mail("dataplane", "out", dp.out))) = dp.out
    /\ Mail("routes", "state", derps.db) = derps.db
    /\ OnBus("under", Mail("dataplane", "under", dp.under)) = dp.under
    /\ Mail("multiderp", "home", derps.home) = derps.home
    /\ Mail("control", "home", control.home) = control.home

LEMMA NothingQueued ==
  ASSUME bus = << >>, \A a \in Actors : mbox[a] = << >>
  PROVE  Handled
<1>1. ASSUME NEW a \in Actors, NEW k, NEW d PROVE Mail(a, k, d) = d
  BY Zenon, AfterEmpty DEF Mail
<1>2. ASSUME NEW k, NEW d PROVE OnBus(k, d) = d
  BY Zenon, AfterEmpty DEF OnBus
<1>3. ASSUME NEW a \in Actors, NEW k, NEW d PROVE OnBus(k, Mail(a, k, d)) = d
  <2>1. Mail(a, k, d) = d
    BY <1>1
  <2>2. OnBus(k, d) = d
    BY <1>2
  <2> QED
    BY Zenon, <2>1, <2>2
<1>4. ASSUME NEW a \in Actors, NEW b \in Actors, NEW k, NEW j, NEW d
      PROVE  /\ Mail(a, k, OnBus(j, Mail(b, j, d))) = d
             /\ OnBus(k, Mail(a, k, OnBus(j, Mail(b, j, d)))) = d
  <2>1. OnBus(j, Mail(b, j, d)) = d
    BY <1>3
  <2>2. Mail(a, k, d) = d /\ OnBus(k, Mail(a, k, d)) = d
    BY <1>1, <1>3
  <2> QED
    BY Zenon, <2>1, <2>2
<1>5. /\ "filter" \in Actors /\ "dataplane" \in Actors /\ "routes" \in Actors
      /\ "netstack" \in Actors /\ "tracker" \in Actors /\ "multiderp" \in Actors
      /\ "source" \in Actors /\ "control" \in Actors
  BY DEF Actors
<1>6. /\ OnBus("filter", Mail("filter", "filter",
               OnBus("pf", Mail("dataplane", "pf", dp.filter)))) = dp.filter
      /\ OnBus("node routes", Mail("routes", "node routes",
               OnBus("self_routes", Mail("dataplane", "self_routes", dp.in)))) = dp.in
  <2>1. \A d : OnBus("filter", Mail("filter", "filter", OnBus("pf", Mail("dataplane", "pf", d)))) = d
    BY <1>4, <1>5
  <2>2. \A d : OnBus("self_routes", Mail("dataplane", "self_routes", d)) = d
    BY <1>3, <1>5
  <2>3. \A d : OnBus("node routes", Mail("routes", "node routes", d)) = d
    BY <1>3, <1>5
  <2> QED
    BY Zenon, <2>1, <2>2, <2>3
<1>7. /\ OnBus("node ips", Mail("netstack", "node ips", ips)) = ips
      /\ OnBus("peers", Mail("tracker", "peers", peers)) = peers
      /\ OnBus("under", Mail("dataplane", "under", dp.under)) = dp.under
  <2>1. \A d : OnBus("node ips", Mail("netstack", "node ips", d)) = d
    BY <1>3, <1>5
  <2>2. \A d : OnBus("peers", Mail("tracker", "peers", d)) = d
    BY <1>3, <1>5
  <2>3. \A d : OnBus("under", Mail("dataplane", "under", d)) = d
    BY <1>3, <1>5
  <2> QED
    BY Zenon, <2>1, <2>2, <2>3
<1>8. /\ Mail("source", "sources", OnBus("src_filter", Mail("dataplane", "src_filter", dp.src)))
             = dp.src
      /\ Mail("routes", "routes", OnBus("out", Mail("dataplane", "out", dp.out))) = dp.out
  BY <1>4, <1>5
<1>9. /\ Delivered = derps.db /\ Mail("dataplane", "keys", dp.tunnel) = dp.tunnel
      /\ Mail("routes", "state", derps.db) = derps.db
      /\ Mail("multiderp", "home", derps.home) = derps.home
      /\ Mail("control", "home", control.home) = control.home
      /\ OnBus("state", derps.db) = derps.db
  BY <1>1, <1>2, <1>5 DEF Delivered
<1> QED
  BY Zenon, <1>6, <1>7, <1>8, <1>9 DEF Handled

LEMMA InitFollows ==
  ASSUME RuntimeInit
  PROVE  Follows /\ HomesAgree /\ Delivered = Nothing
<1>1. bus = << >> /\ sent = << >> /\ \A a \in Actors : mbox[a] = << >>
  BY DEF RuntimeInit
<1>2. Handled
  BY Zenon, <1>1, NothingQueued
<1>4. \A f : LastIn(sent, f) = None
  <2> SUFFICES ASSUME NEW f PROVE LastIn(sent, f) = None
    OBVIOUS
  <2>1. \A j \in DOMAIN sent : sent[j][f] = None
    BY <1>1
  <2> QED
    BY Zenon, <2>1, LastInNone
<1>6. /\ dp.filter = None /\ dp.in = {} /\ dp.src = {} /\ dp.out = {} /\ dp.tunnel = Nothing
      /\ ips = None /\ peers = Nothing /\ derps.db = Nothing
      /\ derps.home = None /\ control.home = None
  BY DEF RuntimeInit
<1>7. Delivered = Nothing
  BY Zenon, <1>2, <1>6 DEF Handled
<1>8. FilterFollows /\ SelfFollows /\ IpsFollow /\ PeersFollow /\ StateFollows
  <2>1. LastIn(sent, "pf") = None /\ LastNode("routes", {}) = {} /\ LastNode("ips", None) = None
        /\ LastPeers = Nothing
    BY <1>4 DEF LastNode, LastPeers
  <2> QED
    BY Zenon, <1>2, <1>6, <1>7, <2>1
       DEF Handled, FilterFollows, SelfFollows, IpsFollow, PeersFollow, StateFollows
<1>9. DOMAIN Nothing = {}
  BY DEF Nothing
<1>10. KeysOf(Nothing) = Nothing /\ Homed(Nothing) = {}
  <2>1. Homed(Nothing) = {}
    BY <1>9 DEF Homed
  <2>2. KeysOf(Nothing) = Nothing
    BY DEF KeysOf, Nothing
  <2> QED
    BY <2>1, <2>2
<1>11. \A f : RoutesOf(f, {}) = {}
  BY DEF RoutesOf
<1>12. TunnelFollows
  BY Zenon, <1>2, <1>6, <1>7, <1>10 DEF Handled, TunnelFollows
<1>13. SourcesFollow /\ RoutesFollow
  <2>1. RoutesOf(Nothing, DOMAIN Nothing) = {} /\ RoutesOf(Nothing, Homed(Nothing)) = {}
    BY <1>9, <1>10, <1>11
  <2> QED
    BY Zenon, <1>2, <1>6, <1>7, <2>1 DEF Handled, SourcesFollow, RoutesFollow
<1>14. HomesAgree
  BY Zenon, <1>2, <1>6 DEF Handled, HomesAgree
<1> QED
  BY Zenon, <1>7, <1>8, <1>12, <1>13, <1>14 DEF Follows

LEMMA InitInvariant == RuntimeInit => RInv
<1> SUFFICES ASSUME RuntimeInit PROVE RInv
  OBVIOUS
<1>1. bus = << >> /\ sent = << >> /\ \A a \in Actors : mbox[a] = << >> /\ busy[a] = None
  BY DEF RuntimeInit
<1>2. Shape
  <2>1. MailShape /\ IsSeq(bus)
    BY NoMessages DEF RuntimeInit, MailShape
  <2>2. SentShape
    BY NoMessages DEF RuntimeInit, SentShape
  <2>3. BusyShape
    BY DEF RuntimeInit, BusyShape, Actors
  <2>4. DerpsShape
    <3>1. Nothing \in [DOMAIN Nothing -> Nat]
      BY DEF Nothing
    <3> QED
      BY <3>1 DEF RuntimeInit, DerpsShape
  <2>5. ControlShape /\ DpShape
    BY DEF RuntimeInit, ControlShape, DpShape
  <2> QED
    BY Zenon, <2>1, <2>2, <2>3, <2>4, <2>5, ShapeIs
<1>3. DOMAIN derps.regions = {} /\ derps.awake = {} /\ derps.home = None /\ dp.under = Nothing
  BY DEF RuntimeInit, Nothing
<1>4. Stopping /\ Transports /\ TransportsDistinct
  BY <1>3 DEF RuntimeInit, Stopping, Transports, TransportsDistinct, IsInjective
<1>5. control.node = LastIn(sent, "node")
  <2>1. \A j \in DOMAIN sent : sent[j]["node"] = None
    BY <1>1
  <2>2. LastIn(sent, "node") = None
    BY Zenon, <2>1, LastInNone
  <2> QED
    BY <2>2 DEF RuntimeInit
<1>6. {"multiderp", "dataplane", "latency", "tracker", "routes"} \subseteq Actors
  BY DEF Actors
<1>7. Ensuring
  BY Zenon, <1>1, <1>6 DEF Ensuring
<1>8. /\ \A a \in Actors : DOMAIN mbox[a] = {}
      /\ DOMAIN bus = {} /\ DOMAIN sent = {}
  BY <1>1, NoMessages
<1>9. StatesLinked
  BY <1>6, <1>8 DEF StatesLinked, Linked
<1>10. Topics
  BY <1>8 DEF Topics
<1>11. Known
  <2>1. MultiderpKnows /\ MessagesKnown /\ UpdatesKnown
    BY <1>6, <1>8 DEF MultiderpKnows, MessagesKnown, UpdatesKnown
  <2>2. HomeKnown
    BY <1>3 DEF HomeKnown
  <2> QED
    BY Zenon, <2>1, <2>2 DEF Known
<1>12. Underlay
  <2>1. OnBus("under", Mail("dataplane", "under", dp.under)) = dp.under
    BY Zenon, <1>1, NothingQueued DEF Handled
  <2>2. Homed(Nothing) = {}
    BY DEF Homed, Nothing
  <2>3. HomesOf(Nothing) = Nothing /\ DOMAIN Nothing = {}
    BY <2>2 DEF HomesOf, Nothing
  <2>4. UnderFor(Nothing, Nothing)
    BY <2>3 DEF UnderFor, Nothing
  <2>5. UnderlayFollows
    <3>1. Delivered = Nothing
      BY Zenon, InitFollows
    <3> QED
      BY Zenon, <1>3, <2>1, <2>3, <2>4, <3>1 DEF UnderlayFollows
  <2>6. ~ AtPeerState /\ busy["routes"] = None
    BY <1>1, <1>6 DEF AtPeerState
  <2>7. AskingRight
    BY <1>6, <1>8, <2>6 DEF AskingRight
  <2> QED
    BY Zenon, <2>5, <2>7 DEF Underlay
<1> QED
  BY Zenon, <1>2, <1>4, <1>5, <1>7, <1>9, <1>10, <1>11, <1>12, InitFollows DEF RInv, Basic, Rest

LEMMA StutterInvariant ==
  ASSUME RInv, UNCHANGED runtimeVars
  PROVE  RInv'
<1> DEFINE same == /\ UNCHANGED <<script, sent, bus, mbox, busy, control, peers>>
                   /\ UNCHANGED <<derps, dp, ips, nextTransport, stopped>>
<1>1. same
  BY DEF runtimeVars
<1>2. Basic'
  BY Zenon, <1>1, SameShape, ShapeIs, ShapeNext, SameTransports, SameNode, SameStopping
     DEF RInv, Basic
<1>3. Ensuring'
  BY Zenon, <1>1 DEF RInv, Ensuring
<1>4. ASSUME "dataplane" \notin stopped PROVE Rest'
  <2>1. Basic /\ Rest /\ stopped \subseteq {"control"}
    BY Zenon, <1>4 DEF RInv, Basic, Stopping
  <2>2. "routes" \notin stopped /\ "routes" \notin stopped'
    BY <1>1, <2>1
  <2>3. /\ (\A a, ks : SameMail(a, ks)) /\ (\A js : SameBus(js))
        /\ Delivered' = Delivered
    BY Zenon, <1>1 DEF SameMail, SameBus, Delivered, Mail
  <2>4. Follows'
    BY Zenon, <1>1, <2>1, <2>3, FollowsKept DEF Rest, AllSame
  <2>5. StatesLinked' /\ Topics'
    BY Zenon, <1>1, <2>1, <2>3 DEF Rest, StatesLinked, Topics
  <2>6. HomesAgree'
    BY Zenon, <1>1, <2>1, <2>3, HomesKept DEF Rest
  <2>7. /\ Underlay' /\ MultiderpKnows' /\ HomeKnown'
        /\ \A r : KnownSoon(r) => KnownSoon(r)'
    BY Zenon, <1>1, <2>1, <2>2, OthersStep, ExtendsSelf DEF Basic, Rest, OnBus, Mail
  <2>8. MessagesKnown' /\ UpdatesKnown'
    BY Zenon, <1>1, <2>1, <2>7, RegionsKept DEF Basic, Rest, Known, TakenOrKept
  <2> QED
    BY Zenon, <2>4, <2>5, <2>6, <2>7, <2>8 DEF Rest, Known
<1> QED
  BY Zenon, <1>1, <1>2, <1>3, <1>4 DEF RInv

(* Every handler keeps what holds while the dataplane runs. *)
LEMMA RestStep ==
  ASSUME Basic, Ensuring, Rest, RuntimeNext, stopped \subseteq {"control"},
         stopped \subseteq stopped', stopped' \subseteq {"control"}
  PROVE  Rest'
<1>1. CASE ControlUpdate
  BY Zenon, <1>1, RestOfControlUpdate
<1>2. CASE BeginShutdown \/ (\E a \in Actors \cup {"bus"} : Stop(a))
  BY Zenon, <1>2, RestOfShutdown
<1>3. CASE Deliver
  BY Zenon, <1>3, RestOfDeliver
<1>4. CASE ControlLatency
  BY Zenon, <1>4, RestOfControlLatency
<1>5. CASE TrackerUpdate
  BY Zenon, <1>5, RestOfTracker
<1>6. CASE SourceFilterUpdate
  BY Zenon, <1>6, RestOfSource
<1>7. CASE FilterUpdate
  BY Zenon, <1>7, RestOfFilter
<1>8. CASE NetstackUpdate
  BY Zenon, <1>8, RestOfNetstack
<1>9. CASE Measure
  BY Zenon, <1>9, RestOfMeasure
<1>10. CASE MultiderpUpdate \/ MultiderpPeers \/ MultiderpLatency
  BY Zenon, <1>10, RestOfMultiderp
<1>11. CASE TransportAnswer \/ \E r \in MapRegions : EnsureRegion(r)
  BY Zenon, <1>11, RestOfTransport
<1>12. CASE TransportRefused
  <2>1. "dataplane" \in stopped
    BY Zenon, <1>12 DEF TransportRefused
  <2> QED
    BY <2>1
<1>13. CASE RoutesSelf
  BY Zenon, <1>13, RestOfRoutesSelf
<1>14. CASE \E p \in MapPeers : RoutesAsk(p)
  BY Zenon, <1>14, RestOfRoutesAsk
<1>15. CASE RoutesAnswer
  BY Zenon, <1>15, RestOfRoutesAnswer
<1>16. CASE RoutesDone
  BY Zenon, <1>16, RestOfRoutesDone
<1>17. CASE DataplaneUpdate
  BY Zenon, <1>17, RestOfDataplane
<1> QED
  BY Zenon, <1>1, <1>2, <1>3, <1>4, <1>5, <1>6, <1>7, <1>8, <1>9, <1>10, <1>11, <1>12, <1>13,
     <1>14, <1>15, <1>16, <1>17 DEF RuntimeNext, Handlers

LEMMA StepInvariant == RInv /\ [RuntimeNext]_runtimeVars => RInv'
<1> SUFFICES ASSUME RInv, [RuntimeNext]_runtimeVars PROVE RInv'
  OBVIOUS
<1>1. CASE RuntimeNext
  <2>1. Basic'
    BY Zenon, <1>1, BasicStep DEF RInv
  <2>2. Ensuring'
    BY Zenon, <1>1, EnsuringStep DEF RInv
  <2>3. ASSUME "dataplane" \notin stopped' PROVE Rest'
    <3>1. /\ "dataplane" \notin stopped /\ stopped \subseteq {"control"}
          /\ stopped' \subseteq {"control"} /\ stopped \subseteq stopped'
      BY Zenon, <1>1, <2>3, Running DEF RInv
    <3> QED
      BY Zenon, <1>1, <3>1, RestStep DEF RInv
  <2> QED
    BY Zenon, <2>1, <2>2, <2>3 DEF RInv
<1>2. CASE UNCHANGED runtimeVars
  BY Zenon, <1>2, StutterInvariant
<1> QED
  BY Zenon, <1>1, <1>2

LEMMA LastOfIs ==
  ASSUME NEW f
  PROVE  LastOf(f) = LastIn(sent, f)
  BY Zenon DEF LastOf, LastIn

LEMMA CurrentAtRest ==
  ASSUME RInv, Quiet, stopped = {}
  PROVE  DataplaneCurrent /\ UnderlayComplete /\ HomeMatchesControl
<1>1. Rest /\ control.node = LastIn(sent, "node")
  BY DEF RInv, Basic
<1>2. Handled
  BY Zenon, NothingQueued DEF Quiet
<1>3. peers = LastPeers /\ derps.db = peers
  BY Zenon, <1>1, <1>2 DEF Rest, Follows, PeersFollow, StateFollows, Handled
<1>4. /\ dp.src = RoutesOf(derps.db, DOMAIN derps.db)
      /\ dp.out = RoutesOf(derps.db, Homed(derps.db))
      /\ dp.tunnel = KeysOf(derps.db)
  <2>1. /\ dp.tunnel = Mail("dataplane", "keys", dp.tunnel) /\ Delivered = derps.db
        /\ dp.src = Mail("source", "sources",
                         OnBus("src_filter", Mail("dataplane", "src_filter", dp.src)))
        /\ dp.out = Mail("routes", "routes", OnBus("out", Mail("dataplane", "out", dp.out)))
    BY Zenon, <1>2 DEF Handled
  <2> QED
    BY Zenon, <1>1, <2>1 DEF Rest, Follows, SourcesFollow, RoutesFollow, TunnelFollows
<1>5. /\ dp.filter = LastIn(sent, "pf") /\ dp.in = LastNode("routes", {})
      /\ ips = LastNode("ips", None)
  BY Zenon, <1>1, <1>2 DEF Rest, Follows, FilterFollows, SelfFollows, IpsFollow, Handled
<1>6. DataplaneCurrent
  <2> DEFINE db == IF LastOf("peers") = None THEN Nothing ELSE LastOf("peers")
  <2>1. \A f : LastOf(f) = LastIn(sent, f)
    BY Zenon, LastOfIs
  <2>2. db = LastPeers
    BY <2>1 DEF LastPeers
  <2>3. /\ peers = db /\ derps.db = db /\ dp.src = RoutesOf(db, DOMAIN db)
        /\ dp.out = RoutesOf(db, Homed(db))
    BY Zenon, <1>3, <1>4, <2>2
  <2>4. dp.tunnel = [p \in DOMAIN db |-> db[p].key]
    <3>1. dp.tunnel = KeysOf(db)
      BY Zenon, <1>3, <1>4, <2>2
    <3> HIDE DEF db
    <3> QED
      BY <3>1 DEF KeysOf
  <2>5. dp.filter = LastOf("pf") /\ control.node = LastOf("node")
    BY Zenon, <1>1, <1>5, <2>1
  <2>6. ASSUME LastOf("node") # None
        PROVE  dp.in = LastOf("node").routes /\ ips = LastOf("node").ips
    <3>1. LastNode("routes", {}) = LastOf("node").routes /\ LastNode("ips", None) = LastOf("node").ips
      BY <2>1, <2>6 DEF LastNode
    <3> QED
      BY Zenon, <1>5, <3>1
  <2> HIDE DEF db
  <2> QED
    BY <2>3, <2>4, <2>5, <2>6 DEF DataplaneCurrent, db
<1>7. UnderlayComplete
  <2>1. "routes" \in Actors
    BY DEF Actors
  <2>2. Free(mbox["routes"], "state")
    BY <2>1, NoMessages DEF Free, Quiet
  <2>3. UnderFor(dp.under, HomesOf(peers))
    BY Zenon, <1>1, <1>2, <1>3, <2>2 DEF Rest, Underlay, UnderlayFollows, Handled
  <2>4. dp.under = [p \in Homed(peers) |-> derps.regions[peers[p].region]]
    BY <2>3 DEF UnderFor, HomesOf
  <2> QED
    BY Zenon, <2>4 DEF UnderlayComplete
<1>8. HomeMatchesControl
  <2>1. "control" \notin stopped
    OBVIOUS
  <2> QED
    BY Zenon, <1>1, <1>2, <2>1 DEF Rest, HomesAgree, Handled, HomeMatchesControl
<1> QED
  BY Zenon, <1>6, <1>7, <1>8

LEMMA NotAhead == RInv => RoutesNotAhead
<1> SUFFICES ASSUME RInv, "dataplane" \notin stopped,
                    \A i \in DOMAIN mbox["dataplane"] : mbox["dataplane"][i].topic # "peer_state"
             PROVE  /\ \/ UnderWay("source", "src_filter")
                       \/ {x[2] : x \in dp.src} \subseteq DOMAIN dp.tunnel
                    /\ \/ UnderWay("routes", "peer_routes")
                       \/ {x[2] : x \in dp.out} \cup DOMAIN dp.under \subseteq DOMAIN dp.tunnel
  BY Zenon DEF RoutesNotAhead
<1> DEFINE D == Delivered
<1>1. Rest
  BY Zenon DEF RInv
<1>2. DOMAIN dp.tunnel = DOMAIN D
  <2>1. Free(mbox["dataplane"], "keys")
    BY DEF Free, Carries
  <2>2. dp.tunnel = KeysOf(D)
    BY Zenon, <1>1, <2>1, AfterFree DEF Rest, Follows, TunnelFollows, Mail
  <2> QED
    BY <2>2 DEF KeysOf
<1>3. \A f, ids : {x[2] : x \in RoutesOf(f, ids)} \subseteq ids
  BY DEF RoutesOf
<1>4. ASSUME ~ UnderWay("source", "src_filter")
      PROVE  dp.src = RoutesOf(D, DOMAIN D)
  <2>1. /\ Free(mbox["source"], "sources") /\ Free(bus, "src_filter")
        /\ Free(mbox["dataplane"], "src_filter")
    BY <1>4 DEF UnderWay, Free, Carries
  <2>2. /\ Mail("dataplane", "src_filter", dp.src) = dp.src
        /\ OnBus("src_filter", dp.src) = dp.src /\ Mail("source", "sources", dp.src) = dp.src
    BY <2>1, AfterFree DEF Mail, OnBus
  <2>3. Mail("source", "sources", OnBus("src_filter", Mail("dataplane", "src_filter", dp.src)))
          = dp.src
    BY Zenon, <2>2
  <2> QED
    BY Zenon, <1>1, <2>3 DEF Rest, Follows, SourcesFollow
<1>5. ASSUME ~ UnderWay("routes", "peer_routes")
      PROVE  dp.out = RoutesOf(D, Homed(D)) /\ DOMAIN dp.under = Homed(D)
  <2>1. /\ Free(mbox["routes"], "routes") /\ Free(mbox["routes"], "state")
        /\ Free(bus, "out") /\ Free(bus, "under")
        /\ Free(mbox["dataplane"], "out") /\ Free(mbox["dataplane"], "under")
    BY <1>5 DEF UnderWay, Free, Carries
  <2>2. /\ Mail("dataplane", "out", dp.out) = dp.out
        /\ OnBus("out", dp.out) = dp.out /\ Mail("routes", "routes", dp.out) = dp.out
    BY <2>1, AfterFree DEF Mail, OnBus
  <2>3. Mail("routes", "routes", OnBus("out", Mail("dataplane", "out", dp.out))) = dp.out
    BY Zenon, <2>2
  <2>4. dp.out = RoutesOf(D, Homed(D))
    BY Zenon, <1>1, <2>3 DEF Rest, Follows, RoutesFollow
  <2>5. Mail("dataplane", "under", dp.under) = dp.under /\ OnBus("under", dp.under) = dp.under
    BY <2>1, AfterFree DEF Mail, OnBus
  <2>6. UnderFor(OnBus("under", Mail("dataplane", "under", dp.under)), HomesOf(D))
    BY Zenon, <1>1, <2>1 DEF Rest, Underlay, UnderlayFollows
  <2>7. UnderFor(dp.under, HomesOf(D))
    BY Zenon, <2>5, <2>6
  <2>8. DOMAIN dp.under = Homed(D)
    BY <2>7 DEF UnderFor, HomesOf
  <2> QED
    BY Zenon, <2>4, <2>8
<1>6. Homed(D) \subseteq DOMAIN D
  BY DEF Homed
<1> HIDE DEF D
<1>7. ASSUME ~ UnderWay("routes", "peer_routes")
      PROVE  {x[2] : x \in dp.out} \cup DOMAIN dp.under \subseteq DOMAIN dp.tunnel
  <2>1. {x[2] : x \in dp.out} \subseteq Homed(D)
    BY Zenon, <1>3, <1>5, <1>7
  <2> QED
    BY <1>2, <1>5, <1>6, <1>7, <2>1
<1>8. UnderWay("source", "src_filter") \/ {x[2] : x \in dp.src} \subseteq DOMAIN dp.tunnel
  <2>1. ASSUME ~ UnderWay("source", "src_filter")
        PROVE  {x[2] : x \in dp.src} \subseteq DOMAIN dp.tunnel
    BY Zenon, <1>2, <1>3, <1>4, <2>1
  <2> QED
    BY Zenon, <2>1
<1> QED
  BY Zenon, <1>7, <1>8

-----------------------------------------------------------------------------

(***************************************************************************)
(* Whatever control sends and however the actors interleave: once every    *)
(* message is handled, the dataplane's tables are the ones the last        *)
(* updates call for, with every homed peer routed to the transport of its  *)
(* own region; before that, no route leads to a peer the tunnel lacks      *)
(* unless the table is about to be replaced; and no two regions share a    *)
(* transport (the handlers of route_updater.rs, src_filter.rs,             *)
(* packetfilter.rs, multiderp.rs and dataplane.rs behind the bus).         *)
(***************************************************************************)
THEOREM RuntimeFollows == RuntimeSpec => []DataplaneFollows
<1>1. RInv => DataplaneFollows
  <2> SUFFICES ASSUME RInv PROVE DataplaneFollows
    OBVIOUS
  <2>1. DataplaneCurrent /\ UnderlayComplete
    BY Zenon, CurrentAtRest DEF DataplaneCurrent, UnderlayComplete
  <2>2. RoutesNotAhead /\ TransportsDistinct
    BY Zenon, NotAhead DEF RInv, Basic
  <2> QED
    BY Zenon, <2>1, <2>2 DEF DataplaneFollows
<1> QED
  BY <1>1, InitInvariant, StepInvariant, PTL DEF RuntimeSpec

(***************************************************************************)
(* Multiderp keeps no region awake but its home region, which it has, and  *)
(* its home region is the one reported to control once both have handled   *)
(* the last measurement (multiderp.rs, control_runner.rs).                 *)
(***************************************************************************)
THEOREM RuntimeHomes == RuntimeSpec => []HomeAgreed
<1>1. RInv => HomeAgreed
  <2> SUFFICES ASSUME RInv PROVE HomeAgreed
    OBVIOUS
  <2>1. HomeMatchesControl
    BY Zenon, CurrentAtRest DEF HomeMatchesControl
  <2>2. OneHomeRegion
    BY Zenon DEF RInv, Rest, Known, HomeKnown, OneHomeRegion
  <2> QED
    BY Zenon, <2>1, <2>2 DEF HomeAgreed
<1> QED
  BY <1>1, InitInvariant, StepInvariant, PTL DEF RuntimeSpec

=============================================================================
