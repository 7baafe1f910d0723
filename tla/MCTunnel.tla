------------------------------ MODULE MCTunnel ------------------------------
(***************************************************************************)
(* Model checking of two endpoints of a tunnel (WgPair) and of the loop    *)
(* that drives an endpoint (DataPlane), each by itself: part says which    *)
(* one runs, and on which kind of network the pair does: a duplicating     *)
(* one, where both owners send, timers fire late and session ids repeat;   *)
(* or a losing one that is prompt, where what is sent arrives.             *)
(***************************************************************************)
EXTENDS DataPlane

CONSTANTS
    Packets, Empty, Psk,     \* the pair's
    p1, p2, x, y, self       \* the data plane's peers and addresses

VARIABLES
    part,         \* "plane", "duplicating" or "losing"
    time,
    peersA, sessionsA, nodeKeysA, eventsA, clockA, ephsA, sentA, deliveredA,
    replayedA, panickedA,
    peersB, sessionsB, nodeKeysB, eventsB, clockB, ephsB, sentB, deliveredB,
    replayedB, panickedB,
    flight, lost, dups

pairVars ==
    <<time, peersA, sessionsA, nodeKeysA, eventsA, clockA, ephsA, sentA,
      deliveredA, replayedA, panickedA, peersB, sessionsB, nodeKeysB, eventsB, clockB,
      ephsB, sentB, deliveredB, replayedB, panickedB, flight, lost, dups>>

Duplicating == INSTANCE WgPair WITH
    MAX_QUEUED <- 1, WINDOW_SIZE <- 2, STALE_AFTER <- 0, EXPIRED_AFTER <- 2,
    HANDSHAKE_TIMEOUT <- 1, KEEPALIVE_TIMEOUT <- 1, COOKIE_ROTATION_TIME <- 1, LastSend <- 1,
    SessionIds <- 1 .. 2, EventIds <- 1 .. 3, FreshIds <- FALSE, Senders <- {"a", "b"},
    now <- time, Prompt <- FALSE, MaxTime <- 1, MaxEphemerals <- 2, MaxNonce <- 1,
    MaxLoss <- 0, MaxDup <- 1

Losing == INSTANCE WgPair WITH
    MAX_QUEUED <- 1, WINDOW_SIZE <- 2, STALE_AFTER <- 0, EXPIRED_AFTER <- 2,
    HANDSHAKE_TIMEOUT <- 1, KEEPALIVE_TIMEOUT <- 1, COOKIE_ROTATION_TIME <- 1, LastSend <- 1,
    SessionIds <- 1 .. 3, EventIds <- 1 .. 2, FreshIds <- TRUE, Senders <- {"a"},
    now <- time, Prompt <- TRUE, MaxTime <- 3, MaxEphemerals <- 4, MaxNonce <- 2,
    MaxLoss <- 1, MaxDup <- 0

(* DataPlane: y's packets change hands between two peers. *)
Via(m) == [a \in Addrs |-> IF a \in DOMAIN m THEN m[a] ELSE None]
ToP1 == [out |-> Via([a \in {x, y} |-> p1]), under |-> {<<p1, 1>>}]
ToP2 == [out |-> Via([a \in {y} |-> p2]), under |-> {<<p1, 2>>, <<p2, 1>>}]
BothOfP1 == Via([a \in {x, y} |-> p1])
OneEach == Via([a \in {x, y} |-> IF a = x THEN p1 ELSE p2])
ToSelf == Via([a \in {self} |-> 1])
MCPeerRoutes == {ToP1, ToP2}
MCSelfRoutes == {Via(<<>>), ToSelf}
MCSourceFilters == {BothOfP1, OneEach}
MCPacketFilters == {{<<y, self>>}, {<<x, self>>, <<y, self>>}}
MCArrivals == {[peer |-> p1, src |-> y, dst |-> self]}
MCFirst == <<{p1, p2}, ToP1, ToSelf, OneEach, {<<x, self>>, <<y, self>>}>>
MCTimerRanges == {<<1, 1>>}

-----------------------------------------------------------------------------
Init ==
    /\ PlaneInit
    /\ \/ part \in {"plane", "duplicating"} /\ Duplicating!Init
       \/ part = "losing" /\ Losing!Init

PlaneStep == part = "plane" /\ PlaneNext /\ UNCHANGED <<part, pairVars>>
DuplicatingStep == part = "duplicating" /\ Duplicating!Next /\ UNCHANGED <<part, dataVars>>
LosingStep == part = "losing" /\ Losing!Next /\ UNCHANGED <<part, dataVars>>

Next == PlaneStep \/ DuplicatingStep \/ LosingStep

vars == <<part, dataVars, pairVars>>

(* WgPair's Fairness, of the losing network, and PlaneRuns. *)
Live(p, A) == part = p /\ A /\ UNCHANGED part

Fairness ==
    /\ WF_dataVars(Live("plane", Loop))
    /\ WF_pairVars(Live("losing", \E m \in flight : Losing!Deliver(m) \/ Losing!Ignored(m)))
    /\ WF_pairVars(Live("losing", Losing!Tick))
    /\ WF_pairVars(Live("losing", \E e \in 1 .. 2 : Losing!DispatchA(e)))
    /\ WF_pairVars(Live("losing", \E e \in 1 .. 2 : Losing!DispatchB(e)))

Spec == Init /\ [][Next]_vars /\ Fairness

-----------------------------------------------------------------------------
(* The two halves of a session have the same id. *)
IdsAgree == Duplicating!IdsAgree

(* What must happen does: what A queues for B leaves the queue although    *)
(* one datagram is lost, B accepts every transport datagram A sends when   *)
(* none is, and the data plane serves the tunnel's events.                 *)
TrafficMoves ==
    /\ part = "losing" => Losing!QueueDrains /\ Losing!NothingLostAllArrives
    /\ part = "plane" => EventsServed
=============================================================================
