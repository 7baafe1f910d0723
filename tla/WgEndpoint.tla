----------------------------- MODULE WgEndpoint -----------------------------
(***************************************************************************)
(* A WireGuard endpoint of ts_tunnel (ts_tunnel/src/wireguard): the peers  *)
(* it knows, their sessions, handshakes, queues and timers, the table of   *)
(* session ids, and one action per call its owner can make (send, recv,    *)
(* dispatch_events, upsert_peer, remove_peer).                             *)
(*                                                                         *)
(* Cryptography is symbolic.  A handshake contributes an ephemeral name    *)
(* on each side; a session key is the record of both ephemerals and the    *)
(* pre-shared key, and a packet decrypts exactly under the key and         *)
(* direction it was encrypted with.  A datagram is a record, and recv      *)
(* takes one datagram per call.  Instant::now() is read once per call.     *)
(***************************************************************************)
EXTENDS Naturals, Sequences

CONSTANTS
    Me,              \* the static public key of this endpoint
    Keys,            \* static public keys of peers
    Psks,            \* pre-shared keys
    PeerIds,         \* the handles the owner may give to peers
    SessionIds,      \* the u32 values SessionId::random may return
    EventIds,        \* names of scheduled events; bounds the pending ones
    Packets,         \* plaintext packets
    Empty,           \* the empty packet that confirms or keeps alive
    None,            \* Option::None
    MAX_QUEUED,      \* MAX_QUEUED_PER_PEER, 32 in the code
    WINDOW_SIZE,     \* ReplayWindow::WINDOW_SIZE, 192 in the code
    STALE_AFTER,     \* 120 s in the code
    EXPIRED_AFTER,   \* 240 s
    HANDSHAKE_TIMEOUT,  \* 5 s, less the half second of slack
    KEEPALIVE_TIMEOUT,  \* 10 s, less the second of slack
    COOKIE_ROTATION_TIME, \* 120 s
    FreshIds,        \* whether SessionId::random is taken never to repeat a draw
    KeyCollisions,   \* whether the owner may give one key to two peers
    Removable,       \* the peers the owner may remove
    CookieKeys,      \* the peers that may answer with a cookie reply
    RemoteIds, RemoteEphs, Timestamps, Counters,  \* what datagrams may carry
    MaxTime,         \* bound on the clock
    MaxEphemerals,   \* bound on the handshakes this endpoint takes part in
    MaxBatch,        \* bound on the packets of one send
    MaxNonce         \* bound on the packets of one session

ASSUME EndpointAssumption ==
    /\ None \notin PeerIds \cup Keys \cup SessionIds \cup EventIds \cup Nat
    /\ MAX_QUEUED \in Nat \ {0}
    /\ WINDOW_SIZE \in Nat \ {0}
    /\ STALE_AFTER \in Nat /\ EXPIRED_AFTER \in Nat /\ STALE_AFTER <= EXPIRED_AFTER
    /\ HANDSHAKE_TIMEOUT \in Nat /\ KEEPALIVE_TIMEOUT \in Nat
    /\ COOKIE_ROTATION_TIME \in Nat
    /\ Timestamps \subseteq Nat /\ Counters \subseteq Nat
    /\ KeyCollisions \in BOOLEAN /\ FreshIds \in BOOLEAN
    /\ Removable \subseteq PeerIds /\ CookieKeys \subseteq Keys
    /\ MaxTime \in Nat /\ MaxEphemerals \in Nat /\ MaxBatch \in Nat /\ MaxNonce \in Nat

VARIABLES
    now,       \* Instant::now()
    peers,     \* Endpoint::peers: the Peer of each handle, or None
    sessions,  \* IdMap::sessions: the peer each session id is registered to
    nodeKeys,  \* IdMap::node_keys: the peer each static key belongs to
    events,    \* the Scheduler's pending events, by name
    clock,     \* TAI64NClock::last
    ephs,      \* how many ephemeral keys were generated
    sent,      \* every datagram returned in to_peers so far
    delivered, \* every transport datagram whose packet went to to_local
    replayed,  \* whether one of them went there twice
    panicked   \* some unwrap or panic! was reached

vars == <<now, peers, sessions, nodeKeys, events, clock, ephs, sent, delivered,
          replayed, panicked>>

-----------------------------------------------------------------------------
(* Sessions.                                                               *)

ReceiveSession(id, key) == [id |-> id, key |-> key, created |-> now, seen |-> {}]

TransmitSession(id, key) == [id |-> id, key |-> key, created |-> now, nonce |-> 0]

stale(s) == now > s.created + STALE_AFTER

expired(s) == now > s.created + EXPIRED_AFTER

(* The wire form of pkts: consecutive nonces from the session's next one. *)
encrypt(s, pkts) ==
    {[type |-> "data", rid |-> s.id, key |-> s.key, ctr |-> s.nonce + i - 1,
      body |-> pkts[i]] : i \in 1 .. Len(pkts)}

(* Mutant of Fresh: remembers the newest counter, not each one. *)
FreshForgetful(seen, c) == \A s \in seen : s < c + WINDOW_SIZE

(* The replay window's verdict, see ReplayWindow and AntiReplay. *)
Fresh(seen, c) == c \notin seen /\ \A s \in seen : s < c + WINDOW_SIZE

(* Whether s accepts datagram m: addressed to it, not replayed, authentic. *)
Decrypts(s, m) == m.rid = s.id /\ Fresh(s.seen, m.ctr) /\ m.key = s.key

(* Queue::append: drop the oldest packets, queued ones first. *)
QueueAppend(queue, pkts) ==
    LET new_packets == IF Len(pkts) <= MAX_QUEUED THEN Len(pkts) ELSE MAX_QUEUED
        drop_incoming == Len(pkts) - new_packets
        keep_queued == MAX_QUEUED - new_packets
        drop_queued == IF Len(queue) > keep_queued THEN Len(queue) - keep_queued ELSE 0
    IN  SubSeq(queue, drop_queued + 1, Len(queue))
            \o SubSeq(pkts, drop_incoming + 1, Len(pkts))

(* SessionState::encrypt_or_queue: the peer afterwards, and what it sends. *)
CanTransmit(pr) == pr.send # None /\ ~ expired(pr.send)

encrypt_or_queue(pr, pkts) ==
    IF pr.send = None
    THEN [pr EXCEPT !.queue = QueueAppend(@, pkts)]
    ELSE IF expired(pr.send)
    THEN [pr EXCEPT !.queue = QueueAppend(<<>>, pkts),
                    !.recv = None, !.prev = None, !.send = None]
    ELSE [pr EXCEPT !.send.nonce = @ + Len(pkts)]

Encrypted(pr, pkts) == IF CanTransmit(pr) THEN encrypt(pr.send, pkts) ELSE {}

(* Mutants of activate: the queued packets are encrypted without reserving *)
(* their nonces; the receive session's age counts from its confirmation.   *)
activateNoReserve(pr, recv, send) ==
    IF pr.recv = None
    THEN [pr EXCEPT !.recv = recv, !.send = send, !.queue = <<>>]
    ELSE [pr EXCEPT !.prev = pr.recv, !.recv = recv, !.send = send]

activateRefresh(pr, recv, send) ==
    IF pr.recv = None
    THEN [pr EXCEPT !.recv = [recv EXCEPT !.created = now],
                    !.send = [send EXCEPT !.nonce = Len(pr.queue)], !.queue = <<>>]
    ELSE [pr EXCEPT !.prev = pr.recv, !.recv = [recv EXCEPT !.created = now], !.send = send]

(* SessionState::activate: the new pair, the peer afterwards, what it      *)
(* sends and the session id it releases.                                   *)
activate(pr, recv, send) ==
    IF pr.recv = None
    THEN [pr EXCEPT !.recv = recv, !.send = [send EXCEPT !.nonce = Len(pr.queue)],
                    !.queue = <<>>]
    ELSE [pr EXCEPT !.prev = pr.recv, !.recv = recv, !.send = send]

ActivateSends(pr, send) == IF pr.recv = None THEN encrypt(send, pr.queue) ELSE {}

(* Mutant of ActivateReleases: abandons the id of the session it keeps. *)
ActivateReleasesCurrent(pr) ==
    IF pr.recv # None /\ pr.prev # None THEN {pr.recv.id} ELSE {}

ActivateReleases(pr) ==
    IF pr.recv # None /\ pr.prev # None THEN {pr.prev.id} ELSE {}

(* SessionState::get_recv: which receive session serves id.  The previous  *)
(* session is served as long as the current one has not expired.           *)
get_recv(pr, id) ==
    IF pr.recv = None THEN "none"
    ELSE IF pr.recv.id = id /\ ~ expired(pr.recv) THEN "recv"
    ELSE IF pr.prev = None THEN "none"
    ELSE IF pr.prev.id = id /\ ~ expired(pr.recv) THEN "prev"
    ELSE "none"

needs_rotation(pr) == pr.send = None \/ stale(pr.send)

-----------------------------------------------------------------------------
(* Handshakes.                                                             *)

NoHandshake == [st |-> "none"]

Initiated(id, eph, to, timeout) ==
    [st |-> "initiated", id |-> id, eph |-> eph, to |-> to, timeout |-> timeout]

Responded(recv, send) == [st |-> "responded", recv |-> recv, send |-> send]

session_id(hs) ==
    CASE hs.st = "initiated" -> hs.id
      [] hs.st = "responded" -> hs.recv.id
      [] OTHER -> None

(* The session ids a peer holds: what each of its slots is receiving on. *)
Slots == {"recv", "prev", "handshake"}

HeldId(pr, slot) ==
    CASE slot = "recv" -> IF pr.recv = None THEN None ELSE pr.recv.id
      [] slot = "prev" -> IF pr.prev = None THEN None ELSE pr.prev.id
      [] slot = "handshake" -> session_id(pr.hs)

HeldIds(pr) == {HeldId(pr, slot) : slot \in Slots} \ {None}

(* The key of one direction: "i" for the initiator's packets, "r" for the  *)
(* responder's.                                                            *)
SessionKey(ini, rsp, psk, dir) == [ini |-> ini, rsp |-> rsp, psk |-> psk, dir |-> dir]

OwnEphemeral == <<Me, ephs>>

(* MACSender::write_macs: whether a mac2 is written. *)
HasMac2(pr) == pr.cookie # None /\ pr.cookie > now

(* initiate_handshake and write_macs: mac1 is keyed by the peer the        *)
(* MACSender was made for, the noise message by the configured key.        *)
HandshakeInitiation(pr, id) ==
    [type |-> "init", from |-> Me, to |-> pr.key, mac1 |-> pr.macKey,
     mac2 |-> HasMac2(pr), sid |-> id, ts |-> clock + 1, eph |-> OwnEphemeral]

(* Mutant of HandshakeResponse: the two ids are exchanged. *)
HandshakeResponseOwnId(pr, m, id) ==
    [type |-> "resp", rid |-> m.sid, sid |-> m.sid, by |-> Me, mac1 |-> pr.macKey,
     mac2 |-> HasMac2(pr), ini |-> m.eph, rsp |-> OwnEphemeral, psk |-> pr.psk]

HandshakeResponse(pr, m, id) ==
    [type |-> "resp", rid |-> m.sid, sid |-> id, by |-> Me, mac1 |-> pr.macKey,
     mac2 |-> HasMac2(pr), ini |-> m.eph, rsp |-> OwnEphemeral, psk |-> pr.psk]

verify_macs(m) == m.mac1 = Me /\ ~ m.mac2

(* try_finish: the response answers this very initiation, was made by the  *)
(* key it was addressed to and mixes in the same pre-shared key.           *)
CanFinish(pr, m) ==
    verify_macs(m) /\ m.ini = pr.hs.eph /\ m.by = pr.hs.to /\ m.psk = pr.psk

-----------------------------------------------------------------------------
(* The id table and the scheduler.                                         *)

(* IdMap::remove_session for each id of a set, and whether its unwrap      *)
(* fails for one of them.                                                  *)
Removed(ids) == [i \in SessionIds |-> IF i \in ids THEN None ELSE sessions[i]]

RemovePanics(ids) == \E i \in ids : sessions[i] = None

(* IdMap::allocate_session: the ids a draw may settle on. *)
allocate_session(sess) ==
    {i \in SessionIds : /\ sess[i] = None
                        /\ FreshIds => \A m \in sent : m.type # "data" => m.sid # i}

(* Scheduler::add, under a name that is free. *)
HasRoom(evs) == \E e \in EventIds : evs[e] = None

NewEvent(evs) == CHOOSE e \in EventIds : evs[e] = None

Event(kind, p, start) == [kind |-> kind, peer |-> p, start |-> start]

(* Peer::schedule_keepalive: an event is added unless one is recorded. *)
AddsKeepalive(pr) == ~ pr.keepalive

schedule_keepalive(pr) ==
    IF pr.keepalive THEN [pr EXCEPT !.another = TRUE] ELSE [pr EXCEPT !.keepalive = TRUE]

KeepaliveEvents(p, pr, evs) ==
    IF AddsKeepalive(pr)
    THEN [evs EXCEPT ![NewEvent(evs)] = Event("keepalive", p, now + KEEPALIVE_TIMEOUT)]
    ELSE evs

Panic ==
    /\ panicked' = TRUE
    /\ UNCHANGED <<now, peers, sessions, nodeKeys, events, clock, ephs, sent,
                   delivered, replayed>>

-----------------------------------------------------------------------------
(* What every call leaves alone unless it says otherwise.                  *)

NoDelivery == UNCHANGED <<delivered, replayed>>

NoHandshakeMade == UNCHANGED <<clock, ephs>>

Quiet == UNCHANGED <<now, nodeKeys, panicked>>

(* Mutant of start_handshake: the timeout is not scheduled. *)
start_handshakeUntimed(p, pr, sess, evs, o) ==
    /\ ephs < MaxEphemerals
    /\ HasRoom(evs)
    /\ \E id \in allocate_session(sess) :
        /\ sessions' = [sess EXCEPT ![id] = p]
        /\ sent' = sent \cup o \cup {HandshakeInitiation(pr, id)}
        /\ peers' = [peers EXCEPT ![p] = [pr EXCEPT
                !.hs = Initiated(id, OwnEphemeral, pr.key, NewEvent(evs))]]
    /\ events' = evs
    /\ clock' = clock + 1
    /\ ephs' = ephs + 1

(* Peer::start_handshake for p in state pr, when the id table is sess, the *)
(* pending events are evs and the call has already produced o.             *)
start_handshake(p, pr, sess, evs, o) ==
    /\ ephs < MaxEphemerals
    /\ HasRoom(evs)
    /\ \E id \in allocate_session(sess) :
        /\ sessions' = [sess EXCEPT ![id] = p]
        /\ sent' = sent \cup o \cup {HandshakeInitiation(pr, id)}
        /\ peers' = [peers EXCEPT ![p] = [pr EXCEPT
                !.hs = Initiated(id, OwnEphemeral, pr.key, NewEvent(evs))]]
    /\ events' = [evs EXCEPT ![NewEvent(evs)] =
                    Event("handshake", p, now + HANDSHAKE_TIMEOUT)]
    /\ clock' = clock + 1
    /\ ephs' = ephs + 1

(* Endpoint::send and Peer::send. *)
send(p, pkts) ==
    /\ peers[p] # None
    /\ LET pr == encrypt_or_queue(peers[p], pkts)
           o == Encrypted(peers[p], pkts)
       IN  IF pr.hs.st = "none" /\ needs_rotation(pr)
           THEN start_handshake(p, pr, sessions, events, o)
           ELSE /\ peers' = [peers EXCEPT ![p] = pr]
                /\ sent' = sent \cup o
                /\ NoHandshakeMade
                /\ UNCHANGED <<sessions, events>>
    /\ NoDelivery /\ Quiet

(* Endpoint::process_one_handshake and Peer::respond_to_handshake. *)
process_one_handshake(m) ==
    LET p == nodeKeys[m.from]
        pr == peers[p]
    IN  /\ verify_macs(m) /\ m.to = Me
        /\ p # None
        /\ pr # None
        /\ pr.lastSeen # None => m.ts >= pr.lastSeen
        /\ ephs < MaxEphemerals
        /\ \E id \in allocate_session(sessions) :
            /\ sessions' = [sessions EXCEPT ![id] = p]
            /\ sent' = sent \cup {HandshakeResponse(pr, m, id)}
            /\ peers' = [peers EXCEPT ![p] = [pr EXCEPT
                  !.lastSeen = m.ts,
                  !.hs = Responded(
                      ReceiveSession(id, SessionKey(m.eph, OwnEphemeral, pr.psk, "i")),
                      TransmitSession(m.sid, SessionKey(m.eph, OwnEphemeral, pr.psk, "r")))]]
        /\ ephs' = ephs + 1
        /\ UNCHANGED <<events, clock>>
        /\ NoDelivery /\ Quiet

(* Peer::recv_handshake_response and Handshake::finish.  The handshake is  *)
(* taken before the response is examined.                                  *)
recv_handshake_response(p, m) ==
    LET pr == [peers[p] EXCEPT !.hs = NoHandshake]
        hs == peers[p].hs
        key(dir) == SessionKey(m.ini, m.rsp, pr.psk, dir)
        new_send == TransmitSession(m.sid, key("i"))
        act == activate(pr, ReceiveSession(hs.id, key("r")), new_send)
        flushed == ActivateSends(pr, new_send)
    IN  /\ hs.st = "initiated"
        /\ IF ~ CanFinish(peers[p], m)
           THEN /\ peers' = [peers EXCEPT ![p] = pr]
                /\ Quiet /\ UNCHANGED <<sessions, events, sent>>
           ELSE IF RemovePanics(ActivateReleases(pr))
           THEN Panic
           ELSE /\ peers' = [peers EXCEPT ![p] =
                      IF flushed = {} THEN encrypt_or_queue(act, <<Empty>>) ELSE act]
                /\ sent' = sent \cup
                      (IF flushed = {} THEN Encrypted(act, <<Empty>>) ELSE flushed)
                /\ sessions' = Removed(ActivateReleases(pr))
                /\ events' = [events EXCEPT ![hs.timeout] = None]
                /\ Quiet
        /\ NoHandshakeMade /\ NoDelivery

(* Peer::recv_cookie_reply and MACSender::receive_cookie: the reply must   *)
(* be sealed for the MACSender's key and the initiation in flight.         *)
recv_cookie_reply(p, m) ==
    /\ peers[p].hs.st = "initiated"
    /\ m.by = peers[p].macKey /\ m.eph = peers[p].hs.eph
    /\ peers' = [peers EXCEPT ![p].cookie = now + COOKIE_ROTATION_TIME]
    /\ NoHandshakeMade /\ NoDelivery /\ Quiet
    /\ UNCHANGED <<sessions, events, sent>>

(* The packet of m goes to to_local. *)
Deliver(m) ==
    /\ delivered' = delivered \cup {m}
    /\ replayed' = (replayed \/ m \in delivered)

(* Peer::recv_transport_data when get_recv finds session which ("recv" or  *)
(* "prev"): only an accepted packet changes anything.                      *)
RecvOnSession(p, m, which) ==
    LET pr == peers[p]
        read == IF which = "recv" THEN [pr EXCEPT !.recv.seen = @ \cup {m.ctr}]
                                  ELSE [pr EXCEPT !.prev.seen = @ \cup {m.ctr}]
    IN  /\ get_recv(pr, m.rid) = which
        /\ Decrypts(IF which = "recv" THEN pr.recv ELSE pr.prev, m)
        /\ AddsKeepalive(pr) => HasRoom(events)
        /\ peers' = [peers EXCEPT ![p] = schedule_keepalive(read)]
        /\ events' = KeepaliveEvents(p, pr, events)
        /\ Deliver(m)
        /\ UNCHANGED <<sessions, sent>>
        /\ NoHandshakeMade /\ Quiet

(* Peer::recv_transport_data on to Handshake::confirm: the first packet    *)
(* that decrypts under the tentative session activates it.                 *)
Confirm(p, m) ==
    LET pr == peers[p]
        tentative == pr.hs
        read == [tentative.recv EXCEPT !.seen = @ \cup {m.ctr}]
        kept == schedule_keepalive([pr EXCEPT !.hs = NoHandshake])
    IN  /\ get_recv(pr, m.rid) = "none"
        /\ tentative.st = "responded"
        /\ Decrypts(tentative.recv, m)
        /\ AddsKeepalive(pr) => HasRoom(events)
        /\ IF RemovePanics(ActivateReleases(pr))
           THEN Panic
           ELSE /\ peers' = [peers EXCEPT ![p] = activate(kept, read, tentative.send)]
                /\ sent' = sent \cup ActivateSends(pr, tentative.send)
                /\ sessions' = Removed(ActivateReleases(pr))
                /\ events' = KeepaliveEvents(p, pr, events)
                /\ Deliver(m)
                /\ NoHandshakeMade /\ Quiet

(* Endpoint::recv for one datagram.  A receiver id of 0 puts a datagram    *)
(* among the handshake initiations, where anything else is dropped; an     *)
(* unknown id or peer drops it too.                                        *)
recv_session(m) ==
    LET p == sessions[m.rid]
    IN  /\ m.rid # 0
        /\ p # None
        /\ peers[p] # None
        /\ \/ m.type = "resp" /\ recv_handshake_response(p, m)
           \/ m.type = "cookie" /\ recv_cookie_reply(p, m)
           \/ m.type = "data" /\ RecvOnSession(p, m, "recv")
           \/ m.type = "data" /\ RecvOnSession(p, m, "prev")
           \/ m.type = "data" /\ Confirm(p, m)

recv(m) == IF m.type = "init" THEN process_one_handshake(m) ELSE recv_session(m)

-----------------------------------------------------------------------------
(* Endpoint::dispatch_events, one due event e at a time.                   *)

Due(e, kind) == events[e] # None /\ events[e].kind = kind /\ events[e].start <= now

handshake_timeout(e) ==
    LET p == events[e].peer
        pr == peers[p]
        rest == [events EXCEPT ![e] = None]
    IN  /\ Due(e, "handshake")
        /\ IF pr = None \/ pr.hs.st = "none"
           THEN /\ events' = rest
                /\ UNCHANGED <<peers, sessions, sent>>
                /\ NoHandshakeMade /\ Quiet
           ELSE IF RemovePanics({session_id(pr.hs)})
           THEN Panic
           ELSE /\ start_handshake(p, [pr EXCEPT !.hs = NoHandshake],
                                  Removed({session_id(pr.hs)}), rest, {})
                /\ Quiet
        /\ NoDelivery

(* Peer::send_keepalive: the record of the event outlives it when the      *)
(* session cannot transmit.                                                *)
send_keepalive(e) ==
    LET p == events[e].peer
        pr == peers[p]
        rest == [events EXCEPT ![e] = None]
        done == [pr EXCEPT !.send.nonce = @ + 1, !.keepalive = FALSE]
        again == [schedule_keepalive(done) EXCEPT !.another = FALSE]
    IN  /\ Due(e, "keepalive")
        /\ IF pr = None \/ ~ CanTransmit(pr)
           THEN events' = rest /\ UNCHANGED <<peers, sent>>
           ELSE /\ sent' = sent \cup Encrypted(pr, <<Empty>>)
                /\ peers' = [peers EXCEPT ![p] = IF pr.another THEN again ELSE done]
                /\ events' = IF pr.another THEN KeepaliveEvents(p, done, rest) ELSE rest
        /\ UNCHANGED sessions
        /\ NoHandshakeMade /\ NoDelivery /\ Quiet

-----------------------------------------------------------------------------
(* Peer management.                                                        *)

NewPeer(key, psk) ==
    [key |-> key, psk |-> psk, macKey |-> key, cookie |-> None, queue |-> <<>>,
     recv |-> None, prev |-> None, send |-> None, hs |-> NoHandshake,
     lastSeen |-> None, keepalive |-> FALSE, another |-> FALSE]

OnlyPeersAndKeys ==
    /\ UNCHANGED <<now, events, sent, panicked>>
    /\ NoHandshakeMade /\ NoDelivery

(* Mutant of upsert_peer: a changed key is released, the new one not added. *)
upsert_peerUnmapped(p, key, psk) ==
    LET pr == peers[p]
    IN  IF pr = None
        THEN /\ nodeKeys' = [nodeKeys EXCEPT ![key] = p]
             /\ peers' = [peers EXCEPT ![p] = NewPeer(key, psk)]
             /\ UNCHANGED sessions /\ OnlyPeersAndKeys
        ELSE /\ nodeKeys' = IF pr.key = key THEN nodeKeys
                            ELSE [nodeKeys EXCEPT ![pr.key] = None]
             /\ peers' = [peers EXCEPT ![p].key = key, ![p].psk = psk]
             /\ UNCHANGED sessions /\ OnlyPeersAndKeys

(* Endpoint::upsert_peer. *)
upsert_peer(p, key, psk) ==
    LET pr == peers[p]
        freed == [nodeKeys EXCEPT ![pr.key] = None]
    IN  IF pr = None
        THEN IF nodeKeys[key] # None
             THEN Panic
             ELSE /\ nodeKeys' = [nodeKeys EXCEPT ![key] = p]
                  /\ peers' = [peers EXCEPT ![p] = NewPeer(key, psk)]
                  /\ UNCHANGED sessions /\ OnlyPeersAndKeys
        ELSE IF pr.key # key /\ nodeKeys[pr.key] = None
        THEN Panic
        ELSE /\ nodeKeys' = IF pr.key = key THEN nodeKeys
                            ELSE IF freed[key] = None THEN [freed EXCEPT ![key] = p]
                            ELSE freed
             /\ peers' = [peers EXCEPT ![p].key = key, ![p].psk = psk]
             /\ UNCHANGED sessions /\ OnlyPeersAndKeys

(* Peer::shutdown abandons the ids of all slots in turn: a repeated id     *)
(* fails the unwrap as well.                                               *)
ShutdownPanics(pr) ==
    \/ RemovePanics(HeldIds(pr))
    \/ \E s, t \in Slots : s # t /\ HeldId(pr, s) # None /\ HeldId(pr, s) = HeldId(pr, t)

(* Endpoint::remove_peer and Peer::shutdown. *)
remove_peer(p) ==
    LET pr == peers[p]
    IN  /\ pr # None
        /\ IF ShutdownPanics(pr) \/ nodeKeys[pr.key] = None
           THEN Panic
           ELSE /\ peers' = [peers EXCEPT ![p] = None]
                /\ nodeKeys' = [nodeKeys EXCEPT ![pr.key] = None]
                /\ sessions' = Removed(HeldIds(pr))
                /\ OnlyPeersAndKeys

Tick ==
    /\ now < MaxTime
    /\ now' = now + 1
    /\ UNCHANGED <<peers, sessions, nodeKeys, events, clock, ephs, sent, delivered,
                   replayed, panicked>>

-----------------------------------------------------------------------------
(* The environment: the owner's calls, and any datagram the network might  *)
(* bring.  Packets authenticated by a key this endpoint shares can only    *)
(* come from its other holder, but nothing is assumed about which of them  *)
(* arrive, how often or in what order.                                     *)

Batches == UNION {[1 .. n -> Packets] : n \in 1 .. MaxBatch}

OwnEphemerals == {<<Me, n>> : n \in 0 .. MaxEphemerals}

Initiations ==
    [type : {"init"}, from : Keys, to : {Me}, mac1 : {Me}, mac2 : BOOLEAN,
     sid : RemoteIds, ts : Timestamps, eph : RemoteEphs]

Responses ==
    [type : {"resp"}, rid : SessionIds, sid : RemoteIds, by : Keys, mac1 : {Me},
     mac2 : BOOLEAN, ini : OwnEphemerals, rsp : RemoteEphs, psk : Psks]

CookieReplies ==
    [type : {"cookie"}, rid : SessionIds, by : CookieKeys, eph : OwnEphemerals]

ReceiveKeys ==
    [ini : OwnEphemerals, rsp : RemoteEphs, psk : Psks, dir : {"r"}] \cup
    [ini : RemoteEphs, rsp : OwnEphemerals, psk : Psks, dir : {"i"}]

TransportData ==
    [type : {"data"}, rid : SessionIds, key : ReceiveKeys, ctr : Counters,
     body : Packets]

Datagrams == Initiations \cup Responses \cup CookieReplies \cup TransportData

NonceRoom(pr) == pr # None /\ pr.send # None => pr.send.nonce + MaxBatch <= MaxNonce

KeyAvailable(p, key) == \A q \in PeerIds \ {p} : peers[q] # None => peers[q].key # key

InitWith(known, keys) ==
    /\ now = 0
    /\ peers = known
    /\ sessions = [i \in SessionIds |-> None]
    /\ nodeKeys = keys
    /\ events = [e \in EventIds |-> None]
    /\ clock = 0 /\ ephs = 0
    /\ sent = {} /\ delivered = {} /\ replayed = FALSE
    /\ panicked = FALSE

(* Endpoint::new *)
Init == InitWith([p \in PeerIds |-> None], [k \in Keys |-> None])

Next ==
    /\ ~ panicked
    /\ \/ \E p \in PeerIds, pkts \in Batches : NonceRoom(peers[p]) /\ send(p, pkts)
       \/ \E m \in Datagrams : recv(m)
       \/ \E e \in EventIds : handshake_timeout(e)
       \/ \E e \in EventIds : send_keepalive(e)
       \/ \E p \in PeerIds, key \in Keys, psk \in Psks :
             (KeyCollisions \/ KeyAvailable(p, key)) /\ upsert_peer(p, key, psk)
       \/ \E p \in Removable : remove_peer(p)
       \/ Tick

Spec == Init /\ [][Next]_vars

-----------------------------------------------------------------------------
(* Properties.                                                             *)

Option(S) == S \cup {None}

SessionKeys == [ini : OwnEphemerals \cup RemoteEphs, rsp : OwnEphemerals \cup RemoteEphs,
                psk : Psks, dir : {"i", "r"}]

ReceiveSessions == [id : SessionIds, key : SessionKeys, created : Nat, seen : SUBSET Nat]

TransmitSessions == [id : RemoteIds, key : SessionKeys, created : Nat, nonce : Nat]

Handshakes ==
    {NoHandshake}
    \cup [st : {"initiated"}, id : SessionIds, eph : OwnEphemerals, to : Keys,
          timeout : EventIds]
    \cup [st : {"responded"}, recv : ReceiveSessions, send : TransmitSessions]

Peers ==
    [key : Keys, psk : Psks, macKey : Keys, cookie : Option(Nat),
     queue : Seq(Packets), recv : Option(ReceiveSessions), prev : Option(ReceiveSessions),
     send : Option(TransmitSessions), hs : Handshakes, lastSeen : Option(Nat),
     keepalive : BOOLEAN, another : BOOLEAN]

PendingEvents == [kind : {"handshake", "keepalive"}, peer : PeerIds, start : Nat]

(* Option::None is no value of the types it is added to. *)
ASSUME NoneAssumption ==
    None \notin ReceiveSessions \cup TransmitSessions \cup Peers \cup PendingEvents

(* SessionState: either no session, with packets possibly queued, or both  *)
(* halves of one and an empty queue.                                       *)
SessionShape(pr) ==
    /\ pr.recv = None <=> pr.send = None
    /\ pr.recv = None => pr.prev = None
    /\ pr.recv # None => pr.queue = <<>>
    /\ Len(pr.queue) <= MAX_QUEUED

(* Type invariant: the values every field may have, the shape of the       *)
(* session state and the limit of the queue.                               *)
TypeOK ==
    /\ now \in Nat /\ clock \in Nat /\ ephs \in Nat
    /\ peers \in [PeerIds -> Option(Peers)]
    /\ sessions \in [SessionIds -> Option(PeerIds)]
    /\ nodeKeys \in [Keys -> Option(PeerIds)]
    /\ events \in [EventIds -> Option(PendingEvents)]
    /\ replayed \in BOOLEAN /\ panicked \in BOOLEAN
    /\ \A p \in PeerIds : peers[p] # None => SessionShape(peers[p])

(* Every session id a peer holds, for its current or previous receive      *)
(* session or its handshake, is registered to that very peer and held      *)
(* once.  IdMap::remove_session's unwrap relies on it, and Endpoint::recv  *)
(* routes by it, whatever ids were leaked or reused in between.            *)
SessionIdsOwned ==
    \A p \in PeerIds : peers[p] # None =>
        \A s \in Slots : HeldId(peers[p], s) # None =>
            /\ sessions[HeldId(peers[p], s)] = p
            /\ \A t \in Slots : HeldId(peers[p], t) = HeldId(peers[p], s) => t = s

(* No unwrap or panic! of the endpoint is reached by an owner that keeps   *)
(* the keys of its peers distinct, whatever datagrams arrive.              *)
NeverPanics == ~ KeyCollisions => ~ panicked

(* No transport datagram is delivered to the local side twice, although    *)
(* the network may repeat it at any time, also across session rotation.    *)
NoReplay == ~ replayed

(* Two transport datagrams this endpoint ever sends never share a session  *)
(* key and a nonce, so no nonce is used twice with one ChaCha20 key.       *)
NonceUnique ==
    \A a, b \in sent :
        a.type = "data" /\ b.type = "data" /\ a.key = b.key /\ a.ctr = b.ctr => a = b

(* The comment in encrypt_or_queue: when the transmit session has expired, *)
(* both receive sessions it is dropped with have expired too.              *)
ReceiveExpiresWithTransmit ==
    \A p \in PeerIds : peers[p] # None /\ peers[p].send # None /\ expired(peers[p].send) =>
        /\ expired(peers[p].recv)
        /\ peers[p].prev # None => expired(peers[p].prev)

(* A handshake awaiting a response has its own timeout pending, so a lost  *)
(* initiation or response is always retried.                               *)
HandshakeTimed ==
    \A p \in PeerIds : peers[p] # None /\ peers[p].hs.st = "initiated" =>
        LET e == events[peers[p].hs.timeout]
        IN  e # None /\ e.kind = "handshake" /\ e.peer = p

(* What the documentation of Handshake::finish says: "The handshake state  *)
(* is unchanged if the handshake cannot complete ... because the handshake *)
(* response isn't a valid completion of the handshake."  A handshake that  *)
(* awaits a response ends only by yielding a session, by its timeout or by *)
(* a newer one.                                                            *)
FailedFinishKeepsHandshake ==
    [][\A p \in PeerIds :
         peers[p] # None /\ peers'[p] # None /\ peers[p].hs.st = "initiated"
           /\ peers'[p].hs.st = "none" => peers'[p].recv # peers[p].recv]_vars

(* What the documentation of KEEPALIVE_TIMEOUT says: after receiving a     *)
(* packet from the peer, the endpoint "must send an empty keepalive        *)
(* message".  While a session can transmit and a keepalive is on record as *)
(* scheduled, an event for it is pending.                                  *)
KeepalivePending ==
    \A p \in PeerIds : peers[p] # None /\ CanTransmit(peers[p]) /\ peers[p].keepalive =>
        \E e \in EventIds : events[e] # None /\ events[e].kind = "keepalive"
                             /\ events[e].peer = p

(* What the documentation of upsert_peer says: it will "update the peer    *)
(* with the given `id` with the given config".  Every initiation carries a *)
(* mac1 that the peer it is addressed to accepts.                          *)
InitiationsAcceptable == \A m \in sent : m.type = "init" => m.mac1 = m.to

=============================================================================
