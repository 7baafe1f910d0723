------------------------------- MODULE WgPair -------------------------------
(***************************************************************************)
(* Two WireGuard endpoints, each configured with the other as its peer,    *)
(* and the network between them, which may delay, reorder, duplicate and   *)
(* lose datagrams.  Both are the endpoint of WgEndpoint.                   *)
(***************************************************************************)
EXTENDS Naturals, Sequences, FiniteSets

CONSTANTS
    SessionIds, EventIds, Packets, Empty, None, Psk,
    MAX_QUEUED, WINDOW_SIZE, STALE_AFTER, EXPIRED_AFTER, HANDSHAKE_TIMEOUT,
    KEEPALIVE_TIMEOUT, COOKIE_ROTATION_TIME, FreshIds,
    Senders,         \* the endpoints whose owners send packets
    Prompt,          \* whether datagrams and timers take less than a time unit
    LastSend,        \* no owner sends after this time
    MaxTime, MaxEphemerals, MaxNonce,
    MaxLoss,         \* bound on the datagrams lost
    MaxDup           \* bound on the datagrams duplicated

VARIABLES
    now,
    peersA, sessionsA, nodeKeysA, eventsA, clockA, ephsA, sentA, deliveredA,
    replayedA, panickedA,
    peersB, sessionsB, nodeKeysB, eventsB, clockB, ephsB, sentB, deliveredB,
    replayedB, panickedB,
    flight,          \* the datagrams in the network
    lost,            \* the datagrams it has lost
    dups             \* how many it has duplicated

varsA == <<peersA, sessionsA, nodeKeysA, eventsA, clockA, ephsA, sentA, deliveredA,
           replayedA, panickedA>>
varsB == <<peersB, sessionsB, nodeKeysB, eventsB, clockB, ephsB, sentB, deliveredB,
           replayedB, panickedB>>
vars == <<now, varsA, varsB, flight, lost, dups>>

A == INSTANCE WgEndpoint WITH
        Me <- "a", Keys <- {"a", "b"}, Psks <- {Psk}, PeerIds <- {"p"},
        KeyCollisions <- FALSE, Removable <- {}, CookieKeys <- {}, MaxBatch <- 1,
        RemoteIds <- SessionIds, RemoteEphs <- {}, Timestamps <- {}, Counters <- {},
        peers <- peersA, sessions <- sessionsA, nodeKeys <- nodeKeysA,
        events <- eventsA, clock <- clockA, ephs <- ephsA, sent <- sentA,
        delivered <- deliveredA, replayed <- replayedA, panicked <- panickedA

B == INSTANCE WgEndpoint WITH
        Me <- "b", Keys <- {"a", "b"}, Psks <- {Psk}, PeerIds <- {"p"},
        KeyCollisions <- FALSE, Removable <- {}, CookieKeys <- {}, MaxBatch <- 1,
        RemoteIds <- SessionIds, RemoteEphs <- {}, Timestamps <- {}, Counters <- {},
        peers <- peersB, sessions <- sessionsB, nodeKeys <- nodeKeysB,
        events <- eventsB, clock <- clockB, ephs <- ephsB, sent <- sentB,
        delivered <- deliveredB, replayed <- replayedB, panicked <- panickedB

(* Each owner has called upsert_peer for the other endpoint. *)
Init ==
    /\ A!InitWith([p \in {"p"} |-> A!NewPeer("b", Psk)],
                  [k \in {"a", "b"} |-> IF k = "b" THEN "p" ELSE None])
    /\ B!InitWith([p \in {"p"} |-> B!NewPeer("a", Psk)],
                  [k \in {"a", "b"} |-> IF k = "a" THEN "p" ELSE None])
    /\ flight = {} /\ lost = {} /\ dups = 0

(* A step of one endpoint alone: what it sends enters the network. *)
AloneA == flight' = flight \cup (sentA' \ sentA) /\ UNCHANGED <<varsB, lost, dups>>

AloneB == flight' = flight \cup (sentB' \ sentB) /\ UNCHANGED <<varsA, lost, dups>>

SendA(d) ==
    "a" \in Senders /\ now <= LastSend /\ A!NonceRoom(peersA["p"]) /\ A!send("p", <<d>>) /\ AloneA

SendB(d) ==
    "b" \in Senders /\ now <= LastSend /\ B!NonceRoom(peersB["p"]) /\ B!send("p", <<d>>) /\ AloneB

DispatchA(e) == (A!handshake_timeout(e) \/ A!send_keepalive(e)) /\ AloneA

DispatchB(e) == (B!handshake_timeout(e) \/ B!send_keepalive(e)) /\ AloneB

(* The network hands m to the endpoint it was sent to, which may drop it.  *)
(* A duplicated datagram stays in the network as well.                     *)
ReceiveA(m) == m \in sentB /\ A!recv(m) /\ UNCHANGED <<varsB, lost>>

ReceiveB(m) == m \in sentA /\ B!recv(m) /\ UNCHANGED <<varsA, lost>>

Deliver(m) ==
    \/ ReceiveA(m) /\ flight' = (flight \ {m}) \cup (sentA' \ sentA) /\ UNCHANGED dups
    \/ ReceiveB(m) /\ flight' = (flight \ {m}) \cup (sentB' \ sentB) /\ UNCHANGED dups

Duplicate(m) ==
    /\ dups < MaxDup /\ dups' = dups + 1
    /\ \/ ReceiveA(m) /\ flight' = flight \cup (sentA' \ sentA)
       \/ ReceiveB(m) /\ flight' = flight \cup (sentB' \ sentB)

Ignored(m) ==
    /\ ~ ENABLED Deliver(m)
    /\ flight' = flight \ {m}
    /\ UNCHANGED <<now, varsA, varsB, lost, dups>>

Lose(m) ==
    /\ Cardinality(lost) < MaxLoss /\ lost' = lost \cup {m}
    /\ flight' = flight \ {m}
    /\ UNCHANGED <<now, varsA, varsB, dups>>

DueEvents == {e \in EventIds : \/ A!Due(e, "handshake") \/ A!Due(e, "keepalive")
                               \/ B!Due(e, "handshake") \/ B!Due(e, "keepalive")}

Tick ==
    /\ now < MaxTime /\ now' = now + 1
    /\ Prompt => flight = {} /\ DueEvents = {}
    /\ UNCHANGED <<varsA, varsB, flight, lost, dups>>

Next ==
    \/ \E d \in Packets : SendA(d) \/ SendB(d)
    \/ \E e \in EventIds : DispatchA(e) \/ DispatchB(e)
    \/ \E m \in flight : Deliver(m) \/ Ignored(m) \/ Duplicate(m) \/ Lose(m)
    \/ Tick

Spec == Init /\ [][Next]_vars

(* The network delivers what it does not lose, time passes, and each owner *)
(* calls dispatch_events for its due events.                               *)
Fairness ==
    /\ WF_vars(\E m \in flight : Deliver(m) \/ Ignored(m))
    /\ WF_vars(Tick)
    /\ WF_vars(\E e \in EventIds : DispatchA(e))
    /\ WF_vars(\E e \in EventIds : DispatchB(e))

LiveSpec == Spec /\ Fairness

-----------------------------------------------------------------------------
(* Properties.                                                             *)

ReceiveSessions(pr) ==
    ({pr.recv, pr.prev} \ {None}) \cup (IF pr.hs.st = "responded" THEN {pr.hs.recv} ELSE {})

TransmitSessions(pr) ==
    ({pr.send} \ {None}) \cup (IF pr.hs.st = "responded" THEN {pr.hs.send} ELSE {})

(* Two endpoints that hold the two halves of one session agree on the id   *)
(* its packets carry: what one encrypts, Endpoint::recv of the other hands *)
(* to the session that can decrypt it.                                     *)
IdsAgree ==
    /\ \A r \in ReceiveSessions(peersA["p"]), t \in TransmitSessions(peersB["p"]) :
          r.key = t.key => r.id = t.id
    /\ \A r \in ReceiveSessions(peersB["p"]), t \in TransmitSessions(peersA["p"]) :
          r.key = t.key => r.id = t.id

(* Packets queued for the peer leave the queue: a lost handshake datagram  *)
(* is made good by the handshake timeout.                                  *)
QueueDrains == peersA["p"].queue # <<>> ~> peersA["p"].queue = <<>>

(* When nothing is lost, every transport datagram that A sends is accepted *)
(* by B: a session A considers active is one that B can receive on, from   *)
(* the first packet, which confirms it, through every rotation.            *)
NothingLostAllArrives ==
    LET data == {m \in sentA : m.type = "data"}
    IN  ~ (data \subseteq deliveredB) ~> (lost # {} \/ data \subseteq deliveredB)

=============================================================================
