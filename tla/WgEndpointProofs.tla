-------------------------- MODULE WgEndpointProofs --------------------------
(***************************************************************************)
(* The inductive invariant of WgEndpoint, what keeps one peer well formed, *)
(* when a call for one peer preserves the invariant, that every step does, *)
(* and the theorems, for every number of peers, keys, session ids and      *)
(* timers and every value of the bounds.                                   *)
(***************************************************************************)
EXTENDS WgEndpoint, SequenceTheorems, TLAPS

-----------------------------------------------------------------------------
(* The ages of a peer's sessions: both halves of a session are created     *)
(* together, the previous session is older than the current one, and the   *)
(* current one is older than the tentative one.                            *)
Ages(pr, t) ==
    /\ pr.recv # None => pr.send.created = pr.recv.created /\ pr.recv.created <= t
    /\ pr.prev # None => pr.prev.created <= pr.recv.created
    /\ pr.hs.st = "responded" =>
        /\ pr.hs.send.created = pr.hs.recv.created /\ pr.hs.recv.created <= t
        /\ pr.recv # None => pr.recv.created <= pr.hs.recv.created

(* What holds of a peer at time t. *)
PeerOK(pr, t) == pr \in Peers /\ SessionShape(pr) /\ Ages(pr, t)

(* Queue::append keeps packets only, at most MAX_QUEUED_PER_PEER of them,  *)
(* whatever the lengths of the queue and of the batch.                     *)
LEMMA QueueAppendBounded ==
    ASSUME NEW queue \in Seq(Packets), NEW pkts \in Seq(Packets), Len(queue) <= MAX_QUEUED
    PROVE  /\ QueueAppend(queue, pkts) \in Seq(Packets)
           /\ Len(QueueAppend(queue, pkts)) <= MAX_QUEUED
<1> DEFINE new == IF Len(pkts) <= MAX_QUEUED THEN Len(pkts) ELSE MAX_QUEUED
           dropIn == Len(pkts) - new
           keep == MAX_QUEUED - new
           dropQ == IF Len(queue) > keep THEN Len(queue) - keep ELSE 0
           kept == SubSeq(queue, dropQ + 1, Len(queue))
           taken == SubSeq(pkts, dropIn + 1, Len(pkts))
<1>0. Len(queue) \in Nat /\ Len(pkts) \in Nat /\ MAX_QUEUED \in Nat
  BY Zenon, EndpointAssumption, LenProperties
<1>1. /\ dropQ \in Nat /\ dropQ <= Len(queue) /\ Len(queue) - dropQ <= keep
      /\ dropIn \in Nat /\ dropIn <= Len(pkts) /\ Len(pkts) - dropIn = new
      /\ new \in Nat /\ keep \in Nat /\ new + keep = MAX_QUEUED
  BY <1>0
<1> HIDE DEF new, dropIn, keep, dropQ
<1>2. kept \in Seq(Packets) /\ Len(kept) <= keep
  BY <1>0, <1>1, SubSeqProperties
<1>3. taken \in Seq(Packets) /\ Len(taken) <= new
  BY <1>0, <1>1, SubSeqProperties
<1>4. QueueAppend(queue, pkts) = kept \o taken
  BY Zenon DEF QueueAppend, new, dropIn, keep, dropQ
<1> HIDE DEF kept, taken
<1>5. /\ kept \o taken \in Seq(Packets)
      /\ Len(kept \o taken) = Len(kept) + Len(taken)
  BY Zenon, <1>2, <1>3, ConcatProperties
<1>6. Len(kept) \in Nat /\ Len(taken) \in Nat
  BY Zenon, <1>2, <1>3, LenProperties
<1>7. QED
  BY <1>0, <1>1, <1>2, <1>3, <1>4, <1>5, <1>6

(* encrypt_or_queue leaves a well-formed peer: it sends, or it queues, and *)
(* if the session expired it drops both receive sessions with it.          *)
LEMMA EncryptOrQueueOK ==
    ASSUME NEW pr, PeerOK(pr, now), now \in Nat, NEW pkts \in Seq(Packets \cup {Empty}),
           pkts \in Seq(Packets) \/ CanTransmit(pr)
    PROVE  LET q == encrypt_or_queue(pr, pkts)
           IN  /\ PeerOK(q, now)
               /\ q.hs = pr.hs /\ q.key = pr.key
               /\ \/ q.recv = pr.recv /\ q.prev = pr.prev
                  \/ q.recv = None /\ q.prev = None
<1> DEFINE q == encrypt_or_queue(pr, pkts)
<1> USE DEF PeerOK
<1>0. pr \in Peers /\ pr.queue \in Seq(Packets) /\ Len(pr.queue) <= MAX_QUEUED
      /\ Len(pkts) \in Nat
  BY Zenon, LenProperties DEF Peers, SessionShape
<1>1. CASE pr.send = None
  <2>1. pkts \in Seq(Packets)
    BY Zenon, <1>1 DEF CanTransmit
  <2>2. q = [pr EXCEPT !.queue = QueueAppend(pr.queue, pkts)]
    BY Zenon, <1>1 DEF encrypt_or_queue
  <2>3. /\ QueueAppend(pr.queue, pkts) \in Seq(Packets)
        /\ Len(QueueAppend(pr.queue, pkts)) <= MAX_QUEUED
    BY Zenon, <1>0, <2>1, QueueAppendBounded
  <2>4. QED
    BY Zenon, <1>0, <1>1, <2>2, <2>3 DEF Peers, SessionShape, Ages
<1>2. CASE pr.send # None /\ expired(pr.send)
  <2>1. pkts \in Seq(Packets)
    BY Zenon, <1>2 DEF CanTransmit
  <2>2. q = [pr EXCEPT !.queue = QueueAppend(<<>>, pkts),
                       !.recv = None, !.prev = None, !.send = None]
    BY Zenon, <1>2 DEF encrypt_or_queue
  <2>3. /\ QueueAppend(<<>>, pkts) \in Seq(Packets)
        /\ Len(QueueAppend(<<>>, pkts)) <= MAX_QUEUED
    <3>1. <<>> \in Seq(Packets) /\ Len(<<>>) <= MAX_QUEUED
      BY EndpointAssumption, EmptySeq
    <3>2. QED
      BY Zenon, <2>1, <3>1, QueueAppendBounded
  <2>4. QED
    BY ZenonT(60), <1>0, <1>2, <2>2, <2>3 DEF Peers, SessionShape, Ages, Option
<1>3. CASE pr.send # None /\ ~ expired(pr.send)
  <2>1. q = [pr EXCEPT !.send = [pr.send EXCEPT !.nonce = pr.send.nonce + Len(pkts)]]
    BY Zenon, <1>3 DEF encrypt_or_queue
  <2>2. pr.send \in TransmitSessions
    BY Zenon, <1>0, <1>3 DEF Peers, Option
  <2>3. /\ [pr.send EXCEPT !.nonce = pr.send.nonce + Len(pkts)] \in TransmitSessions
        /\ [pr.send EXCEPT !.nonce = pr.send.nonce + Len(pkts)].created = pr.send.created
    BY <1>0, <2>2 DEF TransmitSessions
  <2>4. [pr.send EXCEPT !.nonce = pr.send.nonce + Len(pkts)] # None
    BY Zenon, <2>3, NoneAssumption
  <2>5. QED
    BY Zenon, <1>0, <1>3, <2>1, <2>3, <2>4 DEF Peers, SessionShape, Ages, Option
<1>4. QED
  BY Zenon, <1>1, <1>2, <1>3

(* activate leaves a well-formed peer when it is given a new pair that is  *)
(* no older than the current one.                                          *)
LEMMA ActivateOK ==
    ASSUME NEW pr, PeerOK(pr, now), now \in Nat, pr.hs = NoHandshake,
           NEW r \in ReceiveSessions, NEW s \in TransmitSessions,
           s.created = r.created, r.created <= now,
           pr.recv # None => pr.recv.created <= r.created
    PROVE  LET q == activate(pr, r, s)
           IN  /\ PeerOK(q, now)
               /\ q.hs = pr.hs /\ q.key = pr.key /\ q.recv = r /\ q.prev = pr.recv
               /\ q.send # None /\ q.send.created = s.created
<1> DEFINE q == activate(pr, r, s)
           started == [s EXCEPT !.nonce = Len(pr.queue)]
<1>0. /\ pr \in Peers /\ r # None /\ s # None
      /\ Len(pr.queue) \in Nat
  BY Zenon, LenProperties, NoneAssumption DEF PeerOK, Peers
<1>1. started \in TransmitSessions /\ started.created = s.created
  BY Zenon, <1>0 DEF TransmitSessions
<1>2. started # None
  BY Zenon, <1>1, NoneAssumption
<1>3. <<>> \in Seq(Packets) /\ Len(<<>>) <= MAX_QUEUED
  BY EndpointAssumption, EmptySeq
<1>4. /\ pr.recv = None => pr.prev = None
      /\ pr.recv # None => pr.queue = <<>>
  BY Zenon DEF PeerOK, SessionShape
<1>5. /\ q \in Peers
      /\ q.hs = pr.hs /\ q.key = pr.key /\ q.recv = r /\ q.prev = pr.recv
      /\ q.send \in {s, started} /\ q.queue = <<>>
  <2>1. CASE pr.recv = None
    <3>1. q = [pr EXCEPT !.recv = r, !.send = started, !.queue = <<>>]
      BY Zenon, <2>1 DEF activate
    <3> HIDE DEF q, started
    <3>2. QED
      BY ZenonT(60), <1>0, <1>1, <1>3, <1>4, <2>1, <3>1 DEF Peers, Option
  <2>2. CASE pr.recv # None
    <3>1. q = [pr EXCEPT !.prev = pr.recv, !.recv = r, !.send = s]
      BY Zenon, <2>2 DEF activate
    <3> HIDE DEF q, started
    <3>2. QED
      BY Zenon, <1>0, <1>4, <2>2, <3>1 DEF Peers, Option
  <2>3. QED
    BY Zenon, <2>1, <2>2
<1> HIDE DEF q, started
<1>6. SessionShape(q)
  BY Zenon, <1>0, <1>2, <1>3, <1>5 DEF SessionShape
<1>7. Ages(q, now)
  BY <1>0, <1>1, <1>5 DEF Ages, NoHandshake
<1>8. q.send # None /\ q.send.created = s.created
  BY Zenon, <1>0, <1>1, <1>2, <1>5
<1>9. QED
  BY Zenon, <1>5, <1>6, <1>7, <1>8 DEF PeerOK, q

(* schedule_keepalive changes only the record of the keepalive. *)
LEMMA ScheduleKeepaliveOK ==
    ASSUME NEW pr, PeerOK(pr, now)
    PROVE  LET q == schedule_keepalive(pr)
           IN  /\ PeerOK(q, now)
               /\ q.hs = pr.hs /\ q.key = pr.key /\ q.recv = pr.recv /\ q.prev = pr.prev
               /\ q.send = pr.send /\ q.queue = pr.queue /\ q.psk = pr.psk
BY Zenon DEF PeerOK, schedule_keepalive, Peers, SessionShape, Ages

-----------------------------------------------------------------------------
(* The inductive invariant.                                                *)

PeersOK == \A p \in PeerIds : peers[p] # None => PeerOK(peers[p], now)

(* The key table and the peers agree, as long as keys are kept distinct. *)
KeysOwned ==
    \A p \in PeerIds, k \in Keys :
        (nodeKeys[k] = p) <=> (peers[p] # None /\ peers[p].key = k)

IInv ==
    /\ TypeOK
    /\ PeersOK
    /\ SessionIdsOwned
    /\ HandshakeTimed
    /\ ~ KeyCollisions => KeysOwned /\ ~ panicked

EventTable == [EventIds -> Option(PendingEvents)]

(* The ids of one peer's slots are registered to it and differ. *)
OwnsIds(p, pr, sess) ==
    \A s \in Slots : HeldId(pr, s) # None =>
        /\ sess[HeldId(pr, s)] = p
        /\ \A t \in Slots : HeldId(pr, t) = HeldId(pr, s) => t = s

(* The timeout of one peer's initiated handshake is pending. *)
TimedIn(p, pr, evs) ==
    pr.hs.st = "initiated" =>
        /\ evs[pr.hs.timeout] # None
        /\ evs[pr.hs.timeout].kind = "handshake"
        /\ evs[pr.hs.timeout].peer = p

(* The id of each slot is a session id. *)
LEMMA HeldIdType ==
    ASSUME NEW pr \in Peers, NEW s \in Slots, HeldId(pr, s) # None
    PROVE  HeldId(pr, s) \in SessionIds
BY DEF HeldId, Slots, session_id, Peers, Option, Handshakes, ReceiveSessions, NoHandshake

(* A call for one peer preserves the invariant if it removes that peer or  *)
(* leaves it well formed, and touches no id and no handshake timeout of    *)
(* another peer.                                                           *)
LEMMA ReplacePeer ==
    ASSUME IInv, NEW p \in PeerIds, NEW new,
           new # None => /\ PeerOK(new, now)
                         /\ OwnsIds(p, new, sessions')
                         /\ TimedIn(p, new, events'),
           peers' = [peers EXCEPT ![p] = new],
           now' = now, panicked' = panicked,
           clock' \in Nat, ephs' \in Nat, replayed' \in BOOLEAN,
           nodeKeys' \in [Keys -> Option(PeerIds)],
           sessions' \in [SessionIds -> Option(PeerIds)],
           events' \in EventTable,
           \A i \in SessionIds : \A q \in PeerIds \ {p} : sessions[i] = q => sessions'[i] = q,
           \A e \in EventIds : events[e] # None /\ events[e].kind = "handshake"
                                  /\ events[e].peer # p => events'[e] = events[e],
           ~ KeyCollisions => KeysOwned'
    PROVE  IInv'
<1>1. peers \in [PeerIds -> Option(Peers)]
  BY Zenon DEF IInv, TypeOK
<1>2. \A q \in PeerIds : peers'[q] = IF q = p THEN new ELSE peers[q]
  BY Zenon, <1>1
<1>3. TypeOK'
  <2>1. peers' \in [PeerIds -> Option(Peers)]
    BY Zenon, <1>1 DEF Option, PeerOK
  <2>2. \A q \in PeerIds : peers'[q] # None => SessionShape(peers'[q])
    BY Zenon, <1>1, <1>2 DEF IInv, TypeOK, PeerOK
  <2>3. QED
    BY Zenon, <2>1, <2>2 DEF IInv, TypeOK, EventTable
<1>4. PeersOK'
  BY <1>2 DEF IInv, PeersOK
<1>5. SessionIdsOwned'
  <2> SUFFICES ASSUME NEW q \in PeerIds, peers'[q] # None
               PROVE  OwnsIds(q, peers'[q], sessions')
    BY Zenon DEF SessionIdsOwned, OwnsIds
  <2>1. CASE q = p
    BY Zenon, <1>2, <2>1
  <2>2. CASE q # p
    <3>1. peers'[q] = peers[q] /\ OwnsIds(q, peers[q], sessions)
      BY Zenon, <1>2, <2>2 DEF IInv, SessionIdsOwned, OwnsIds
    <3>2. peers[q] \in Peers
      BY Zenon, <1>1, <3>1 DEF Option
    <3>3. \A s \in Slots : HeldId(peers[q], s) # None => HeldId(peers[q], s) \in SessionIds
      BY Zenon, <3>2, HeldIdType
    <3>4. QED
      BY <2>2, <3>1, <3>3 DEF OwnsIds
  <2>3. QED
    BY Zenon, <2>1, <2>2
<1>6. HandshakeTimed'
  <2> SUFFICES ASSUME NEW q \in PeerIds, peers'[q] # None
               PROVE  TimedIn(q, peers'[q], events')
    BY Zenon DEF HandshakeTimed, TimedIn
  <2>1. CASE q = p
    BY Zenon, <1>2, <2>1
  <2>2. CASE q # p
    <3>1. peers'[q] = peers[q] /\ TimedIn(q, peers[q], events)
      BY Zenon, <1>2, <2>2 DEF IInv, HandshakeTimed, TimedIn
    <3>2. peers[q] \in Peers
      BY Zenon, <1>1, <3>1 DEF Option
    <3>3. peers[q].hs.st = "initiated" => peers[q].hs.timeout \in EventIds
      BY <3>2 DEF Peers, Handshakes, NoHandshake
    <3>4. QED
      BY Zenon, <2>2, <3>1, <3>3 DEF TimedIn
  <2>3. QED
    BY Zenon, <2>1, <2>2
<1>7. ~ KeyCollisions => KeysOwned' /\ ~ panicked'
  BY Zenon DEF IInv
<1>8. QED
  BY Zenon, <1>3, <1>4, <1>5, <1>6, <1>7 DEF IInv

(* The same for a call that changes neither the peer's key nor the table   *)
(* of keys.                                                                *)
LEMMA UpdatePeer ==
    ASSUME IInv, NEW p \in PeerIds, peers[p] # None, NEW new, PeerOK(new, now),
           new.key = peers[p].key,
           peers' = [peers EXCEPT ![p] = new],
           now' = now, nodeKeys' = nodeKeys, panicked' = panicked,
           clock' \in Nat, ephs' \in Nat, replayed' \in BOOLEAN,
           sessions' \in [SessionIds -> Option(PeerIds)],
           events' \in EventTable,
           \A i \in SessionIds : \A q \in PeerIds \ {p} : sessions[i] = q => sessions'[i] = q,
           OwnsIds(p, new, sessions'),
           \A e \in EventIds : events[e] # None /\ events[e].kind = "handshake"
                                  /\ events[e].peer # p => events'[e] = events[e],
           TimedIn(p, new, events')
    PROVE  IInv'
<1>1. \A q \in PeerIds : peers'[q] = IF q = p THEN new ELSE peers[q]
  BY Zenon DEF IInv, TypeOK
<1>2. new # None
  BY Zenon, NoneAssumption DEF PeerOK
<1>3. ~ KeyCollisions => KeysOwned'
  BY <1>1, <1>2 DEF IInv, KeysOwned
<1>4. nodeKeys' \in [Keys -> Option(PeerIds)]
  BY Zenon DEF IInv, TypeOK
<1>5. QED
  BY Zenon, <1>3, <1>4, ReplacePeer

-----------------------------------------------------------------------------
(* One lemma per operation.                                                *)

(* Scheduler::add finds a free name when there is one. *)
LEMMA NewEventFree ==
    ASSUME NEW evs, HasRoom(evs)
    PROVE  NewEvent(evs) \in EventIds /\ evs[NewEvent(evs)] = None
BY Zenon DEF HasRoom, NewEvent

(* The ephemeral of the next handshake is one of this endpoint's. *)
LEMMA OwnEphemeralType ==
    ASSUME ephs \in Nat, ephs < MaxEphemerals
    PROVE  OwnEphemeral \in OwnEphemerals
BY EndpointAssumption DEF OwnEphemeral, OwnEphemerals

(* Peer p may start a handshake from pr, with the sessions and events it   *)
(* kept.                                                                   *)
MayStart(p, pr, sess, evs) ==
    /\ PeerOK(pr, now) /\ pr.key = peers[p].key /\ pr.hs = NoHandshake
    /\ sess \in [SessionIds -> Option(PeerIds)] /\ evs \in EventTable
    /\ \A i \in SessionIds : \A q \in PeerIds \ {p} : sessions[i] = q => sess[i] = q
    /\ OwnsIds(p, pr, sess)
    /\ \A e \in EventIds : events[e] # None /\ events[e].kind = "handshake"
                              /\ events[e].peer # p => evs[e] = events[e]

(* Peer::start_handshake preserves the invariant from any state of the     *)
(* peer, the id table and the timers that its callers may have prepared.   *)
LEMMA StartHandshakeInv ==
    ASSUME IInv, NEW p \in PeerIds, peers[p] # None, NEW pr, NEW sess, NEW evs, NEW o,
           MayStart(p, pr, sess, evs), start_handshake(p, pr, sess, evs, o), NoDelivery, Quiet
    PROVE  IInv'
<1> SUFFICES ASSUME PeerOK(pr, now), pr.key = peers[p].key, pr.hs = NoHandshake,
                    sess \in [SessionIds -> Option(PeerIds)], evs \in EventTable,
                    \A i \in SessionIds : \A q \in PeerIds \ {p} : sessions[i] = q => sess[i] = q,
                    OwnsIds(p, pr, sess),
                    \A e \in EventIds : events[e] # None /\ events[e].kind = "handshake"
                                           /\ events[e].peer # p => evs[e] = events[e]
             PROVE  IInv'
  BY Zenon DEF MayStart
<1>1. PICK id \in allocate_session(sess) :
        /\ sessions' = [sess EXCEPT ![id] = p]
        /\ peers' = [peers EXCEPT ![p] = [pr EXCEPT
                !.hs = Initiated(id, OwnEphemeral, pr.key, NewEvent(evs))]]
  BY Zenon DEF start_handshake
<1> DEFINE hs == Initiated(id, OwnEphemeral, pr.key, NewEvent(evs))
           new == [pr EXCEPT !.hs = hs]
           ev == Event("handshake", p, now + HANDSHAKE_TIMEOUT)
<1>2. /\ HasRoom(evs) /\ events' = [evs EXCEPT ![NewEvent(evs)] = ev]
      /\ clock' = clock + 1 /\ ephs' = ephs + 1 /\ ephs < MaxEphemerals
  BY Zenon DEF start_handshake
<1>3. id \in SessionIds /\ sess[id] = None /\ id # None
  BY Zenon, EndpointAssumption DEF allocate_session
<1>4. NewEvent(evs) \in EventIds /\ evs[NewEvent(evs)] = None
  BY Zenon, <1>2, NewEventFree
<1>5. now \in Nat /\ clock \in Nat /\ ephs \in Nat /\ replayed \in BOOLEAN
  BY Zenon DEF IInv, TypeOK
<1>6. pr \in Peers
  BY Zenon DEF PeerOK
<1>7. hs \in Handshakes /\ hs.st = "initiated" /\ hs.id = id /\ hs.timeout = NewEvent(evs)
  BY ZenonT(40), <1>2, <1>3, <1>4, <1>5, <1>6, OwnEphemeralType DEF Initiated, Handshakes, Peers
<1>8. ev \in PendingEvents /\ ev.kind = "handshake" /\ ev.peer = p
  BY <1>5, EndpointAssumption DEF Event, PendingEvents
<1> HIDE DEF hs, ev
<1>9. /\ new \in Peers /\ new.hs = hs /\ new.key = pr.key /\ new.recv = pr.recv
      /\ new.prev = pr.prev /\ new.send = pr.send /\ new.queue = pr.queue
  BY Zenon, <1>6, <1>7 DEF Peers
<1>10. PeerOK(new, now)
  BY Zenon, <1>7, <1>9 DEF PeerOK, SessionShape, Ages
<1> HIDE DEF new
<1>11. OwnsIds(p, new, sessions')
  <2>1. /\ HeldId(new, "handshake") = id
        /\ HeldId(new, "recv") = HeldId(pr, "recv")
        /\ HeldId(new, "prev") = HeldId(pr, "prev")
    BY Zenon, <1>7, <1>9 DEF HeldId, session_id
  <2>2. \A s \in Slots : HeldId(pr, s) # None => HeldId(pr, s) \in SessionIds /\ HeldId(pr, s) # id
    BY <1>3, <1>6, HeldIdType, EndpointAssumption DEF OwnsIds
  <2>3. \A i \in SessionIds : sessions'[i] = IF i = id THEN p ELSE sess[i]
    BY Zenon, <1>1
  <2>4. QED
    BY <1>3, <2>1, <2>2, <2>3 DEF OwnsIds, Slots
<1>12. ev # None
  BY ZenonT(40), <1>8, NoneAssumption
<1>13. TimedIn(p, new, events')
  BY Zenon, <1>2, <1>4, <1>7, <1>8, <1>9, <1>12 DEF TimedIn, EventTable
<1>14. events' \in EventTable
  BY Zenon, <1>2, <1>4, <1>8 DEF EventTable, Option
<1>15. \A e \in EventIds : events[e] # None /\ events[e].kind = "handshake"
                             /\ events[e].peer # p => events'[e] = events[e]
  BY Zenon, <1>2, <1>4 DEF EventTable
<1>16. sessions' \in [SessionIds -> Option(PeerIds)]
  BY Zenon, <1>1, <1>3 DEF Option
<1>17. \A i \in SessionIds : \A q \in PeerIds \ {p} : sessions[i] = q => sessions'[i] = q
  BY <1>1, <1>3, EndpointAssumption
<1>18. /\ now' = now /\ nodeKeys' = nodeKeys /\ panicked' = panicked
       /\ replayed' \in BOOLEAN /\ clock' \in Nat /\ ephs' \in Nat
       /\ peers' = [peers EXCEPT ![p] = new]
  BY <1>1, <1>2, <1>5 DEF Quiet, NoDelivery, new, hs
<1>19. QED
  BY ZenonT(60), <1>9, <1>10, <1>11, <1>13, <1>14, <1>15, <1>16, <1>17, <1>18, UpdatePeer

-----------------------------------------------------------------------------
(* Endpoint::send preserves the invariant. *)
LEMMA SendInv ==
    ASSUME IInv, NEW p \in PeerIds, NEW pkts \in Batches, send(p, pkts)
    PROVE  IInv'
<1> DEFINE old == peers[p]
           pr == encrypt_or_queue(old, pkts)
           o == Encrypted(old, pkts)
<1>1. /\ old # None /\ NoDelivery /\ Quiet
      /\ IF pr.hs.st = "none" /\ needs_rotation(pr)
         THEN start_handshake(p, pr, sessions, events, o)
         ELSE /\ peers' = [peers EXCEPT ![p] = pr]
              /\ NoHandshakeMade
              /\ UNCHANGED <<sessions, events>>
  BY Zenon DEF send
<1>2. /\ PeerOK(old, now) /\ OwnsIds(p, old, sessions) /\ TimedIn(p, old, events)
      /\ now \in Nat /\ clock \in Nat /\ ephs \in Nat /\ replayed \in BOOLEAN
      /\ sessions \in [SessionIds -> Option(PeerIds)] /\ events \in EventTable
  BY Zenon, <1>1 DEF IInv, TypeOK, PeersOK, SessionIdsOwned, OwnsIds, HandshakeTimed, TimedIn, EventTable
<1>3. pkts \in Seq(Packets) /\ pkts \in Seq(Packets \cup {Empty})
  BY EndpointAssumption DEF Batches
<1>4. /\ PeerOK(pr, now) /\ pr.hs = old.hs /\ pr.key = old.key
      /\ \/ pr.recv = old.recv /\ pr.prev = old.prev
         \/ pr.recv = None /\ pr.prev = None
  BY Zenon, <1>2, <1>3, EncryptOrQueueOK
<1> HIDE DEF pr
<1>5. OwnsIds(p, pr, sessions)
  BY <1>2, <1>4 DEF OwnsIds, HeldId, Slots
<1>6. CASE pr.hs.st = "none" /\ needs_rotation(pr)
  <2>1. start_handshake(p, pr, sessions, events, o)
    BY Zenon, <1>1, <1>6
  <2>2. pr.hs = NoHandshake
    BY Zenon, <1>4, <1>6 DEF PeerOK, Peers, Handshakes, NoHandshake
  <2> HIDE DEF o
  <2>3. QED
    BY Zenon, <1>1, <1>2, <1>4, <1>5, <2>1, <2>2, StartHandshakeInv DEF MayStart
<1>7. CASE ~ (pr.hs.st = "none" /\ needs_rotation(pr))
  <2>1. /\ peers' = [peers EXCEPT ![p] = pr]
        /\ sessions' = sessions /\ events' = events /\ clock' = clock /\ ephs' = ephs
        /\ now' = now /\ nodeKeys' = nodeKeys /\ panicked' = panicked /\ replayed' = replayed
    BY Zenon, <1>1, <1>7 DEF NoHandshakeMade, NoDelivery, Quiet
  <2>2. TimedIn(p, pr, events')
    BY Zenon, <1>2, <1>4, <2>1 DEF TimedIn
  <2>3. QED
    BY ZenonT(60), <1>1, <1>2, <1>4, <1>5, <2>1, <2>2, UpdatePeer
<1>8. QED
  BY Zenon, <1>6, <1>7

-----------------------------------------------------------------------------
(* Endpoint::process_one_handshake preserves the invariant. *)
LEMMA RespondInv ==
    ASSUME IInv, NEW m \in Initiations, process_one_handshake(m)
    PROVE  IInv'
<1> DEFINE p == nodeKeys[m.from]
           pr == peers[p]
<1>1. /\ p # None /\ pr # None /\ ephs < MaxEphemerals
      /\ ephs' = ephs + 1 /\ UNCHANGED <<events, clock>>
      /\ NoDelivery /\ Quiet
  BY Zenon DEF process_one_handshake
<1>2. PICK id \in allocate_session(sessions) :
        /\ sessions' = [sessions EXCEPT ![id] = p]
        /\ peers' = [peers EXCEPT ![p] = [pr EXCEPT
              !.lastSeen = m.ts,
              !.hs = Responded(
                  ReceiveSession(id, SessionKey(m.eph, OwnEphemeral, pr.psk, "i")),
                  TransmitSession(m.sid, SessionKey(m.eph, OwnEphemeral, pr.psk, "r")))]]
  BY Zenon DEF process_one_handshake
<1> DEFINE r == ReceiveSession(id, SessionKey(m.eph, OwnEphemeral, pr.psk, "i"))
           s == TransmitSession(m.sid, SessionKey(m.eph, OwnEphemeral, pr.psk, "r"))
           hs == Responded(r, s)
           new == [pr EXCEPT !.lastSeen = m.ts, !.hs = hs]
<1>3. /\ m.from \in Keys /\ m.ts \in Nat /\ m.sid \in RemoteIds /\ m.eph \in RemoteEphs
  BY ZenonT(60), EndpointAssumption DEF Initiations
<1>4. p \in PeerIds
  BY Zenon, <1>1, <1>3 DEF IInv, TypeOK, Option
<1>5. /\ PeerOK(pr, now) /\ OwnsIds(p, pr, sessions)
      /\ now \in Nat /\ clock \in Nat /\ ephs \in Nat /\ replayed \in BOOLEAN
      /\ sessions \in [SessionIds -> Option(PeerIds)] /\ events \in EventTable
  BY Zenon, <1>1, <1>4 DEF IInv, TypeOK, PeersOK, SessionIdsOwned, OwnsIds, EventTable
<1>6. id \in SessionIds /\ sessions[id] = None /\ id # None
  BY Zenon, EndpointAssumption DEF allocate_session
<1>7. pr \in Peers
  BY Zenon, <1>5 DEF PeerOK
<1>8. OwnEphemeral \in OwnEphemerals
  BY Zenon, <1>1, <1>5, OwnEphemeralType
<1>9. /\ r \in ReceiveSessions /\ r.created = now /\ r.id = id
      /\ s \in TransmitSessions /\ s.created = now
  BY Zenon, <1>3, <1>5, <1>6, <1>7, <1>8
     DEF ReceiveSession, TransmitSession, SessionKey, ReceiveSessions, TransmitSessions,
         SessionKeys, Peers
<1> HIDE DEF r, s
<1>10. /\ hs \in Handshakes /\ hs.st = "responded" /\ hs.recv = r /\ hs.send = s
  BY Zenon, <1>9 DEF Responded, Handshakes
<1> HIDE DEF hs
<1>11. /\ new \in Peers /\ new.hs = hs /\ new.key = pr.key /\ new.recv = pr.recv
       /\ new.prev = pr.prev /\ new.send = pr.send /\ new.queue = pr.queue
  BY ZenonT(60), <1>3, <1>7, <1>10 DEF Peers, Option
<1> HIDE DEF new
<1>12. PeerOK(new, now)
  <2>1. SessionShape(new)
    BY Zenon, <1>5, <1>11 DEF PeerOK, SessionShape
  <2>2. Ages(pr, now) /\ now <= now
    BY SMTT(90), <1>5 DEF PeerOK
  <2>3. Ages(new, now)
    BY ZenonT(40), <1>9, <1>10, <1>11, <2>2 DEF Ages
  <2>4. QED
    BY Zenon, <1>11, <2>1, <2>3 DEF PeerOK
<1>13. OwnsIds(p, new, sessions')
  <2>1. /\ HeldId(new, "handshake") = id
        /\ HeldId(new, "recv") = HeldId(pr, "recv")
        /\ HeldId(new, "prev") = HeldId(pr, "prev")
    BY ZenonT(40), <1>9, <1>10, <1>11 DEF HeldId, session_id
  <2>2. \A t \in Slots : HeldId(pr, t) # None => HeldId(pr, t) \in SessionIds /\ HeldId(pr, t) # id
    BY Zenon, <1>4, <1>5, <1>6, <1>7, HeldIdType, EndpointAssumption DEF OwnsIds
  <2>3. \A i \in SessionIds : sessions'[i] = IF i = id THEN p ELSE sessions[i]
    BY Zenon, <1>2, <1>5
  <2>4. QED
    BY Zenon, <1>5, <1>6, <2>1, <2>2, <2>3 DEF OwnsIds, Slots
<1>14. TimedIn(p, new, events')
  BY Zenon, <1>10, <1>11 DEF TimedIn
<1>15. /\ sessions' \in [SessionIds -> Option(PeerIds)]
       /\ \A i \in SessionIds : \A q \in PeerIds \ {p} : sessions[i] = q => sessions'[i] = q
  BY Zenon, <1>2, <1>4, <1>5, <1>6, EndpointAssumption DEF Option
<1>16. /\ now' = now /\ nodeKeys' = nodeKeys /\ panicked' = panicked
       /\ replayed' \in BOOLEAN /\ clock' \in Nat /\ ephs' \in Nat /\ events' = events
       /\ peers' = [peers EXCEPT ![p] = new]
  BY <1>1, <1>2, <1>5 DEF Quiet, NoDelivery, new, hs, r, s
<1>17. QED
  BY ZenonT(60), <1>1, <1>4, <1>5, <1>11, <1>12, <1>13, <1>14, <1>15, <1>16, UpdatePeer

(* Dropping the handshake of a well-formed peer leaves it well formed. *)
LEMMA DropHandshakeOK ==
    ASSUME NEW old, PeerOK(old, now)
    PROVE  LET pr == [old EXCEPT !.hs = NoHandshake]
           IN  /\ PeerOK(pr, now) /\ pr.hs = NoHandshake /\ pr.key = old.key
               /\ pr.psk = old.psk /\ pr.recv = old.recv /\ pr.prev = old.prev
               /\ pr.send = old.send /\ pr.queue = old.queue
               /\ pr.keepalive = old.keepalive /\ pr.another = old.another
<1> DEFINE pr == [old EXCEPT !.hs = NoHandshake]
<1>1. old \in Peers
  BY Zenon DEF PeerOK
<1>2. /\ pr \in Peers /\ pr.hs = NoHandshake /\ pr.key = old.key
      /\ pr.psk = old.psk /\ pr.recv = old.recv /\ pr.prev = old.prev
      /\ pr.send = old.send /\ pr.queue = old.queue
      /\ pr.keepalive = old.keepalive /\ pr.another = old.another
  BY Zenon, <1>1 DEF Peers, Handshakes
<1> HIDE DEF pr
<1>3. SessionShape(pr) /\ Ages(pr, now)
  BY <1>2 DEF PeerOK, SessionShape, Ages, NoHandshake
<1>4. QED
  BY Zenon, <1>2, <1>3 DEF PeerOK, pr

(* Rotation: when the handshake of peer p becomes its current session and  *)
(* the id of its previous session is released, the unwrap of               *)
(* remove_session succeeds, p owns the ids it then holds and no other peer *)
(* loses one.                                                              *)
LEMMA RotateIds ==
    ASSUME NEW p \in PeerIds, NEW old \in Peers, NEW new,
           SessionShape(old), OwnsIds(p, old, sessions),
           sessions \in [SessionIds -> Option(PeerIds)],
           HeldId(old, "handshake") # None,
           HeldId(new, "handshake") = None,
           HeldId(new, "recv") = HeldId(old, "handshake"),
           HeldId(new, "prev") = HeldId(old, "recv"),
           NEW pr, pr.recv = old.recv, pr.prev = old.prev
    PROVE  LET gone == ActivateReleases(pr)
           IN  /\ ~ RemovePanics(gone)
               /\ Removed(gone) \in [SessionIds -> Option(PeerIds)]
               /\ OwnsIds(p, new, Removed(gone))
               /\ \A i \in SessionIds : \A q \in PeerIds \ {p} :
                      sessions[i] = q => Removed(gone)[i] = q
<1> DEFINE gone == ActivateReleases(pr)
<1>1. \A i \in gone : i = HeldId(old, "prev") /\ i # None /\ i \in SessionIds
  <2>1. \A i \in gone : i = HeldId(old, "prev") /\ old.prev # None
    BY Zenon DEF ActivateReleases, HeldId
  <2>2. old.prev # None => HeldId(old, "prev") \in SessionIds
    BY Zenon DEF HeldId, Peers, Option, ReceiveSessions
  <2>3. QED
    BY Zenon, <2>1, <2>2, EndpointAssumption
<1> HIDE DEF gone
<1>2. \A i \in gone : sessions[i] = p /\ i # HeldId(old, "recv") /\ i # HeldId(old, "handshake")
  BY Zenon, <1>1 DEF OwnsIds, Slots
<1>3. ~ RemovePanics(gone)
  BY Zenon, <1>2, EndpointAssumption DEF RemovePanics
<1>4. \A s \in Slots : HeldId(old, s) # None => HeldId(old, s) \in SessionIds
  BY Zenon, HeldIdType
<1>5. /\ Removed(gone) \in [SessionIds -> Option(PeerIds)]
      /\ \A i \in SessionIds : Removed(gone)[i] = IF i \in gone THEN None ELSE sessions[i]
  BY Zenon DEF Removed, Option
<1>6. OwnsIds(p, new, Removed(gone))
  BY Zenon, <1>2, <1>4, <1>5 DEF OwnsIds, Slots
<1>7. \A i \in SessionIds : \A q \in PeerIds \ {p} : sessions[i] = q => Removed(gone)[i] = q
  BY Zenon, <1>2, <1>5
<1>8. QED
  BY Zenon, <1>3, <1>5, <1>6, <1>7 DEF gone

(* Peer::recv_handshake_response preserves the invariant. *)
LEMMA FinishInv ==
    ASSUME IInv, NEW p \in PeerIds, peers[p] # None, NEW m \in Responses,
           recv_handshake_response(p, m)
    PROVE  IInv'
<1> DEFINE old == peers[p]
           hs == old.hs
           pr == [old EXCEPT !.hs = NoHandshake]
           r == ReceiveSession(hs.id, SessionKey(m.ini, m.rsp, pr.psk, "r"))
           s == TransmitSession(m.sid, SessionKey(m.ini, m.rsp, pr.psk, "i"))
           act == activate(pr, r, s)
           flushed == ActivateSends(pr, s)
           gone == ActivateReleases(pr)
           new == IF flushed = {} THEN encrypt_or_queue(act, <<Empty>>) ELSE act
<1>1. /\ hs.st = "initiated" /\ NoHandshakeMade /\ NoDelivery
      /\ IF ~ CanFinish(old, m)
         THEN /\ peers' = [peers EXCEPT ![p] = pr]
              /\ Quiet /\ UNCHANGED <<sessions, events, sent>>
         ELSE IF RemovePanics(gone)
         THEN Panic
         ELSE /\ peers' = [peers EXCEPT ![p] = new]
              /\ sessions' = Removed(gone)
              /\ events' = [events EXCEPT ![hs.timeout] = None]
              /\ Quiet
  BY Zenon DEF recv_handshake_response
<1>2. /\ PeerOK(old, now) /\ OwnsIds(p, old, sessions) /\ TimedIn(p, old, events)
      /\ now \in Nat /\ clock \in Nat /\ ephs \in Nat /\ replayed \in BOOLEAN
      /\ sessions \in [SessionIds -> Option(PeerIds)] /\ events \in EventTable
  BY Zenon DEF IInv, TypeOK, PeersOK, SessionIdsOwned, OwnsIds, HandshakeTimed, TimedIn, EventTable
<1>3. /\ PeerOK(pr, now) /\ pr.hs = NoHandshake /\ pr.key = old.key
      /\ pr.psk = old.psk /\ pr.recv = old.recv /\ pr.prev = old.prev
      /\ pr.send = old.send /\ pr.queue = old.queue
  BY Zenon, <1>2, DropHandshakeOK
<1>4. old \in Peers /\ SessionShape(old)
  BY Zenon, <1>2 DEF PeerOK
<1>5. hs.id \in SessionIds /\ hs.timeout \in EventIds
  BY <1>1, <1>4 DEF Peers, Handshakes, NoHandshake
<1>6. HeldId(old, "handshake") = hs.id
  BY Zenon, <1>1 DEF HeldId, session_id
<1> HIDE DEF pr
<1>7. CASE ~ CanFinish(old, m)
  <2>1. /\ peers' = [peers EXCEPT ![p] = pr]
        /\ sessions' = sessions /\ events' = events /\ clock' = clock /\ ephs' = ephs
        /\ now' = now /\ nodeKeys' = nodeKeys /\ panicked' = panicked /\ replayed' = replayed
    BY Zenon, <1>1, <1>7 DEF NoHandshakeMade, NoDelivery, Quiet
  <2>2. OwnsIds(p, pr, sessions')
    BY <1>2, <1>3, <2>1 DEF OwnsIds, HeldId, Slots, session_id, NoHandshake
  <2>3. TimedIn(p, pr, events')
    BY <1>3 DEF TimedIn, NoHandshake
  <2>4. QED
    BY ZenonT(60), <1>2, <1>3, <2>1, <2>2, <2>3, UpdatePeer
<1>8. CASE CanFinish(old, m)
  <2>1. /\ r \in ReceiveSessions /\ r.created = now /\ r.id = hs.id
        /\ s \in TransmitSessions /\ s.created = now
    <3>1. /\ m.ini \in OwnEphemerals /\ m.rsp \in RemoteEphs /\ m.sid \in RemoteIds
      BY Zenon DEF Responses
    <3>2. pr.psk \in Psks
      BY Zenon, <1>3, <1>4 DEF Peers
    <3>3. QED
      BY Zenon, <1>2, <1>5, <3>1, <3>2
         DEF ReceiveSession, TransmitSession, SessionKey, ReceiveSessions, TransmitSessions,
             SessionKeys
  <2>2. pr.recv # None => pr.recv.created <= now
    BY Zenon, <1>3 DEF PeerOK, Ages
  <2> HIDE DEF r, s
  <2>3. now <= now
    BY <1>2
  <2>4. /\ PeerOK(act, now) /\ act.hs = NoHandshake /\ act.key = old.key
        /\ act.recv = r /\ act.prev = old.recv
        /\ act.send # None /\ act.send.created = now
    BY <1>2, <1>3, <2>1, <2>2, <2>3, ActivateOK
  <2> HIDE DEF act
  <2>5. CanTransmit(act)
    BY <1>2, <2>4, EndpointAssumption DEF CanTransmit, expired
  <2>6. <<Empty>> \in Seq(Packets \cup {Empty})
    OBVIOUS
  <2>7. /\ PeerOK(new, now) /\ new.hs = NoHandshake /\ new.key = old.key
        /\ new.recv = r /\ new.prev = old.recv
    <3>1. CASE flushed = {}
      <4>1. new = encrypt_or_queue(act, <<Empty>>)
        BY Zenon, <3>1
      <4>2. /\ PeerOK(encrypt_or_queue(act, <<Empty>>), now)
            /\ encrypt_or_queue(act, <<Empty>>).hs = act.hs
            /\ encrypt_or_queue(act, <<Empty>>).key = act.key
        BY ZenonT(60), <1>2, <2>4, <2>5, <2>6, EncryptOrQueueOK
      <4>3. /\ encrypt_or_queue(act, <<Empty>>).recv = act.recv
            /\ encrypt_or_queue(act, <<Empty>>).prev = act.prev
        BY Zenon, <2>4, <2>5 DEF encrypt_or_queue, CanTransmit, PeerOK, Peers
      <4>4. QED
        BY Zenon, <2>4, <4>1, <4>2, <4>3
    <3>2. CASE flushed # {}
      BY Zenon, <2>4, <3>2
    <3>3. QED
      BY Zenon, <3>1, <3>2
  <2> HIDE DEF new
  <2>8. /\ HeldId(new, "handshake") = None
        /\ HeldId(new, "recv") = HeldId(old, "handshake")
        /\ HeldId(new, "prev") = HeldId(old, "recv")
        /\ HeldId(old, "handshake") # None
    <3>1. r # None /\ hs.id # None
      BY Zenon, <1>5, <2>1, NoneAssumption, EndpointAssumption
    <3>2. QED
      BY <1>6, <2>1, <2>7, <3>1 DEF HeldId, session_id, NoHandshake
  <2>9. /\ ~ RemovePanics(gone)
        /\ Removed(gone) \in [SessionIds -> Option(PeerIds)]
        /\ OwnsIds(p, new, Removed(gone))
        /\ \A i \in SessionIds : \A q \in PeerIds \ {p} :
              sessions[i] = q => Removed(gone)[i] = q
    BY <1>2, <1>3, <1>4, <2>8, RotateIds
  <2> HIDE DEF gone
  <2>10. /\ peers' = [peers EXCEPT ![p] = new]
         /\ sessions' = Removed(gone) /\ events' = [events EXCEPT ![hs.timeout] = None]
         /\ clock' = clock /\ ephs' = ephs /\ now' = now /\ nodeKeys' = nodeKeys
         /\ panicked' = panicked /\ replayed' = replayed
    BY ZenonT(40), <1>1, <1>8, <2>9 DEF NoHandshakeMade, NoDelivery, Quiet
  <2>11. events' \in EventTable
    BY ZenonT(40), <1>2, <1>5, <2>10 DEF EventTable, Option
  <2>12. \A e \in EventIds : events[e] # None /\ events[e].kind = "handshake"
                               /\ events[e].peer # p => events'[e] = events[e]
    BY ZenonT(40), <1>1, <1>2, <1>5, <2>10 DEF EventTable, TimedIn
  <2>13. TimedIn(p, new, events')
    BY <2>7 DEF TimedIn, NoHandshake
  <2>14. QED
    BY ZenonT(60), <1>2, <2>7, <2>9, <2>10, <2>11, <2>12, <2>13, UpdatePeer
<1>9. QED
  BY Zenon, <1>7, <1>8

(* Peer::recv_cookie_reply preserves the invariant. *)
LEMMA CookieInv ==
    ASSUME IInv, NEW p \in PeerIds, peers[p] # None, NEW m, recv_cookie_reply(p, m)
    PROVE  IInv'
<1> DEFINE old == peers[p]
           new == [old EXCEPT !.cookie = now + COOKIE_ROTATION_TIME]
<1>1. /\ PeerOK(old, now) /\ OwnsIds(p, old, sessions) /\ TimedIn(p, old, events)
      /\ now \in Nat /\ clock \in Nat /\ ephs \in Nat /\ replayed \in BOOLEAN
      /\ sessions \in [SessionIds -> Option(PeerIds)] /\ events \in EventTable
      /\ peers \in [PeerIds -> Option(Peers)]
  BY Zenon DEF IInv, TypeOK, PeersOK, SessionIdsOwned, OwnsIds, HandshakeTimed, TimedIn, EventTable
<1>2. /\ peers' = [peers EXCEPT ![p] = new]
      /\ sessions' = sessions /\ events' = events /\ clock' = clock /\ ephs' = ephs
      /\ now' = now /\ nodeKeys' = nodeKeys /\ panicked' = panicked /\ replayed' = replayed
  BY Zenon, <1>1 DEF recv_cookie_reply, NoHandshakeMade, NoDelivery, Quiet
<1>3. /\ new \in Peers /\ new.hs = old.hs /\ new.key = old.key /\ new.recv = old.recv
      /\ new.prev = old.prev /\ new.send = old.send /\ new.queue = old.queue
  <2>1. now + COOKIE_ROTATION_TIME \in Nat /\ old \in Peers
    BY SMTT(90), <1>1, EndpointAssumption DEF PeerOK
  <2>2. QED
    BY Zenon, <2>1 DEF Peers, Option
<1> HIDE DEF new
<1>4. PeerOK(new, now)
  BY Zenon, <1>1, <1>3 DEF PeerOK, SessionShape, Ages
<1>5. OwnsIds(p, new, sessions') /\ TimedIn(p, new, events')
  BY <1>1, <1>2, <1>3 DEF OwnsIds, HeldId, Slots, TimedIn
<1>6. QED
  BY ZenonT(60), <1>1, <1>2, <1>3, <1>4, <1>5, UpdatePeer


-----------------------------------------------------------------------------
(* Scheduling a keepalive adds an event and disturbs no pending one. *)
LEMMA KeepaliveEventsOK ==
    ASSUME NEW p \in PeerIds, NEW pr, NEW evs \in EventTable, now \in Nat,
           AddsKeepalive(pr) => HasRoom(evs)
    PROVE  /\ KeepaliveEvents(p, pr, evs) \in EventTable
           /\ \A e \in EventIds : evs[e] # None => KeepaliveEvents(p, pr, evs)[e] = evs[e]
<1> DEFINE ev == Event("keepalive", p, now + KEEPALIVE_TIMEOUT)
<1>1. ev \in PendingEvents
  BY EndpointAssumption DEF Event, PendingEvents
<1> HIDE DEF ev
<1>2. CASE AddsKeepalive(pr)
  <2>1. NewEvent(evs) \in EventIds /\ evs[NewEvent(evs)] = None
    BY Zenon, <1>2, NewEventFree
  <2>2. KeepaliveEvents(p, pr, evs) = [evs EXCEPT ![NewEvent(evs)] = ev]
    BY Zenon, <1>2 DEF KeepaliveEvents, ev
  <2>3. QED
    BY Zenon, <1>1, <2>1, <2>2 DEF EventTable, Option
<1>3. CASE ~ AddsKeepalive(pr)
  BY Zenon, <1>3 DEF KeepaliveEvents
<1>4. QED
  BY Zenon, <1>2, <1>3

(* Marking a counter as seen keeps a receive session well formed. *)
LEMMA SeenOK ==
    ASSUME NEW r \in ReceiveSessions, NEW c \in Nat
    PROVE  LET x == [r EXCEPT !.seen = @ \cup {c}]
           IN  /\ x \in ReceiveSessions /\ x.id = r.id /\ x.key = r.key
               /\ x.created = r.created /\ x.seen = r.seen \cup {c} /\ x # None
<1> DEFINE x == [r EXCEPT !.seen = @ \cup {c}]
<1>1. /\ x \in ReceiveSessions /\ x.id = r.id /\ x.key = r.key
      /\ x.created = r.created /\ x.seen = r.seen \cup {c}
  BY Zenon DEF ReceiveSessions
<1>2. x # None
  BY Zenon, <1>1, NoneAssumption
<1>3. QED
  BY Zenon, <1>1, <1>2

(* Peer::recv_transport_data on an established session preserves the       *)
(* invariant.                                                              *)
LEMMA RecvOnSessionInv ==
    ASSUME IInv, NEW p \in PeerIds, peers[p] # None, NEW m \in TransportData,
           NEW which \in {"recv", "prev"}, RecvOnSession(p, m, which)
    PROVE  IInv'
<1> DEFINE old == peers[p]
           read == IF which = "recv" THEN [old EXCEPT !.recv.seen = @ \cup {m.ctr}]
                                     ELSE [old EXCEPT !.prev.seen = @ \cup {m.ctr}]
           new == schedule_keepalive(read)
<1>1. /\ PeerOK(old, now) /\ OwnsIds(p, old, sessions) /\ TimedIn(p, old, events)
      /\ now \in Nat /\ clock \in Nat /\ ephs \in Nat /\ replayed \in BOOLEAN
      /\ sessions \in [SessionIds -> Option(PeerIds)] /\ events \in EventTable
  BY Zenon DEF IInv, TypeOK, PeersOK, SessionIdsOwned, OwnsIds, HandshakeTimed, TimedIn, EventTable
<1>2. /\ get_recv(old, m.rid) = which
      /\ AddsKeepalive(old) => HasRoom(events)
      /\ peers' = [peers EXCEPT ![p] = new]
      /\ events' = KeepaliveEvents(p, old, events)
      /\ sessions' = sessions /\ clock' = clock /\ ephs' = ephs
      /\ now' = now /\ nodeKeys' = nodeKeys /\ panicked' = panicked
      /\ replayed' = (replayed \/ m \in delivered)
  BY Zenon DEF RecvOnSession, NoHandshakeMade, Quiet, Deliver
<1>3. m.ctr \in Nat
  BY Zenon, EndpointAssumption DEF TransportData
<1>4. PeerOK(read, now) /\ read.hs = old.hs /\ read.key = old.key
      /\ HeldId(read, "recv") = HeldId(old, "recv") /\ HeldId(read, "prev") = HeldId(old, "prev")
  <2>0. old \in Peers
    BY Zenon, <1>1 DEF PeerOK
  <2>1. CASE which = "recv"
    <3> DEFINE x == [old.recv EXCEPT !.seen = @ \cup {m.ctr}]
    <3>1. old.recv # None
      BY Zenon, <1>2, <2>1 DEF get_recv
    <3>2. old.recv \in ReceiveSessions
      BY Zenon, <2>0, <3>1 DEF Peers, Option
    <3>3. x \in ReceiveSessions /\ x.id = old.recv.id /\ x.created = old.recv.created /\ x # None
      BY Zenon, <1>3, <3>2, SeenOK
    <3>4. read = [old EXCEPT !.recv = x]
      BY Zenon, <2>0, <2>1
    <3> HIDE DEF x, read
    <3>5. /\ read \in Peers /\ read.recv = x /\ read.prev = old.prev /\ read.send = old.send
          /\ read.queue = old.queue /\ read.hs = old.hs /\ read.key = old.key
      BY Zenon, <2>0, <3>3, <3>4 DEF Peers, Option
    <3>6. SessionShape(read) /\ Ages(read, now)
      BY Zenon, <1>1, <3>1, <3>3, <3>5 DEF PeerOK, SessionShape, Ages
    <3>7. QED
      BY Zenon, <3>1, <3>3, <3>5, <3>6 DEF PeerOK, HeldId
  <2>2. CASE which = "prev"
    <3> DEFINE x == [old.prev EXCEPT !.seen = @ \cup {m.ctr}]
    <3>1. old.prev # None
      BY Zenon, <1>2, <2>2 DEF get_recv
    <3>2. old.prev \in ReceiveSessions
      BY Zenon, <2>0, <3>1 DEF Peers, Option
    <3>3. x \in ReceiveSessions /\ x.id = old.prev.id /\ x.created = old.prev.created /\ x # None
      BY Zenon, <1>3, <3>2, SeenOK
    <3>4. read = [old EXCEPT !.prev = x]
      BY Zenon, <2>0, <2>2
    <3> HIDE DEF x, read
    <3>5. /\ read \in Peers /\ read.prev = x /\ read.recv = old.recv /\ read.send = old.send
          /\ read.queue = old.queue /\ read.hs = old.hs /\ read.key = old.key
      BY Zenon, <2>0, <3>3, <3>4 DEF Peers, Option
    <3>6. SessionShape(read) /\ Ages(read, now)
      BY Zenon, <1>1, <3>1, <3>3, <3>5 DEF PeerOK, SessionShape, Ages
    <3>7. QED
      BY Zenon, <3>1, <3>3, <3>5, <3>6 DEF PeerOK, HeldId
  <2>3. QED
    BY Zenon, <2>1, <2>2
<1> HIDE DEF read
<1>5. PeerOK(new, now) /\ new.hs = read.hs /\ new.key = read.key
      /\ new.recv = read.recv /\ new.prev = read.prev
  BY Zenon, <1>4, ScheduleKeepaliveOK
<1> HIDE DEF new
<1>6. /\ events' \in EventTable
      /\ \A e \in EventIds : events[e] # None => events'[e] = events[e]
  BY Zenon, <1>1, <1>2, KeepaliveEventsOK
<1>7. OwnsIds(p, new, sessions')
  <2>1. \A s \in Slots : HeldId(new, s) = HeldId(old, s)
    BY <1>4, <1>5 DEF HeldId, Slots
  <2>2. QED
    BY Zenon, <1>1, <1>2, <2>1 DEF OwnsIds
<1>8. TimedIn(p, new, events')
  <2>1. old.hs.st = "initiated" => old.hs.timeout \in EventIds
    BY <1>1 DEF PeerOK, Peers, Handshakes, NoHandshake
  <2>2. QED
    BY ZenonT(40), <1>1, <1>4, <1>5, <1>6, <2>1 DEF TimedIn
<1>9. replayed' \in BOOLEAN
  BY Zenon, <1>2
<1>10. QED
  BY ZenonT(60), <1>1, <1>2, <1>4, <1>5, <1>6, <1>7, <1>8, <1>9, UpdatePeer

(* Handshake::confirm and the activation that follows preserve the         *)
(* invariant.                                                              *)
LEMMA ConfirmInv ==
    ASSUME IInv, NEW p \in PeerIds, peers[p] # None, NEW m \in TransportData, Confirm(p, m)
    PROVE  IInv'
<1> DEFINE old == peers[p]
           hs == old.hs
           r == [hs.recv EXCEPT !.seen = @ \cup {m.ctr}]
           s == hs.send
           dropped == [old EXCEPT !.hs = NoHandshake]
           kept == schedule_keepalive(dropped)
           new == activate(kept, r, s)
           gone == ActivateReleases(old)
<1>1. /\ PeerOK(old, now) /\ OwnsIds(p, old, sessions) /\ TimedIn(p, old, events)
      /\ now \in Nat /\ clock \in Nat /\ ephs \in Nat /\ replayed \in BOOLEAN
      /\ sessions \in [SessionIds -> Option(PeerIds)] /\ events \in EventTable
  BY Zenon DEF IInv, TypeOK, PeersOK, SessionIdsOwned, OwnsIds, HandshakeTimed, TimedIn, EventTable
<1>2. /\ hs.st = "responded"
      /\ AddsKeepalive(old) => HasRoom(events)
      /\ IF RemovePanics(gone)
         THEN Panic
         ELSE /\ peers' = [peers EXCEPT ![p] = new]
              /\ sessions' = Removed(gone)
              /\ events' = KeepaliveEvents(p, old, events)
              /\ Deliver(m)
              /\ NoHandshakeMade /\ Quiet
  BY Zenon DEF Confirm
<1>3. m.ctr \in Nat
  BY Zenon, EndpointAssumption DEF TransportData
<1>4. old \in Peers /\ SessionShape(old)
  BY Zenon, <1>1 DEF PeerOK
<1>5. /\ hs.recv \in ReceiveSessions /\ s \in TransmitSessions
      /\ s.created = hs.recv.created /\ hs.recv.created <= now
      /\ old.recv # None => old.recv.created <= hs.recv.created
  <2>1. hs.recv \in ReceiveSessions /\ s \in TransmitSessions
    BY <1>2, <1>4 DEF Peers, Handshakes, NoHandshake
  <2>2. QED
    BY Zenon, <1>1, <1>2, <2>1 DEF PeerOK, Ages
<1>6. /\ r \in ReceiveSessions /\ r.id = hs.recv.id /\ r.created = hs.recv.created /\ r # None
  BY Zenon, <1>3, <1>5, SeenOK
<1>7. /\ PeerOK(dropped, now) /\ dropped.hs = NoHandshake /\ dropped.key = old.key
      /\ dropped.recv = old.recv /\ dropped.prev = old.prev
  BY Zenon, <1>1, DropHandshakeOK
<1> HIDE DEF dropped, r
<1>8. /\ PeerOK(kept, now) /\ kept.hs = NoHandshake /\ kept.key = old.key
      /\ kept.recv = old.recv /\ kept.prev = old.prev
  BY ZenonT(40), <1>7, ScheduleKeepaliveOK
<1> HIDE DEF kept
<1>9. /\ PeerOK(new, now) /\ new.hs = NoHandshake /\ new.key = old.key
      /\ new.recv = r /\ new.prev = old.recv
  BY <1>1, <1>5, <1>6, <1>8, ActivateOK
<1> HIDE DEF new
<1>10. /\ HeldId(new, "handshake") = None
       /\ HeldId(new, "recv") = HeldId(old, "handshake")
       /\ HeldId(new, "prev") = HeldId(old, "recv")
       /\ HeldId(old, "handshake") # None
  <2>1. hs.recv.id # None
    BY Zenon, <1>5, EndpointAssumption DEF ReceiveSessions
  <2>2. QED
    BY <1>2, <1>6, <1>9, <2>1 DEF HeldId, session_id, NoHandshake
<1>11. /\ ~ RemovePanics(gone)
       /\ Removed(gone) \in [SessionIds -> Option(PeerIds)]
       /\ OwnsIds(p, new, Removed(gone))
       /\ \A i \in SessionIds : \A q \in PeerIds \ {p} :
             sessions[i] = q => Removed(gone)[i] = q
  BY SMTT(90), <1>1, <1>4, <1>10, RotateIds
<1> HIDE DEF gone
<1>12. /\ peers' = [peers EXCEPT ![p] = new]
       /\ sessions' = Removed(gone) /\ events' = KeepaliveEvents(p, old, events)
       /\ clock' = clock /\ ephs' = ephs /\ now' = now /\ nodeKeys' = nodeKeys
       /\ panicked' = panicked /\ replayed' = (replayed \/ m \in delivered)
  BY ZenonT(40), <1>2, <1>11 DEF NoHandshakeMade, Deliver, Quiet
<1>13. /\ events' \in EventTable
       /\ \A e \in EventIds : events[e] # None => events'[e] = events[e]
  <2>1. AddsKeepalive(old) => HasRoom(events)
    BY Zenon, <1>2
  <2>2. /\ KeepaliveEvents(p, old, events) \in EventTable
        /\ \A e \in EventIds : events[e] # None => KeepaliveEvents(p, old, events)[e] = events[e]
    BY ZenonT(40), <1>1, <2>1, KeepaliveEventsOK
  <2>3. QED
    BY ZenonT(40), <1>12, <2>2
<1>14. TimedIn(p, new, events')
  BY <1>9 DEF TimedIn, NoHandshake
<1>15. replayed' \in BOOLEAN
  BY Zenon, <1>12
<1>16. QED
  BY ZenonT(60), <1>1, <1>9, <1>11, <1>12, <1>13, <1>14, <1>15, UpdatePeer

-----------------------------------------------------------------------------
(* The timers, the owner's calls and the passage of time *)

(* A timer that is dispatched without effect preserves the invariant,      *)
(* unless it is the timeout of a handshake that awaits a response.         *)
LEMMA DropEventInv ==
    ASSUME IInv, NEW e \in EventIds, events' = [events EXCEPT ![e] = None],
           \A p \in PeerIds : peers[p] # None /\ peers[p].hs.st = "initiated"
                                => peers[p].hs.timeout # e,
           UNCHANGED <<now, peers, sessions, nodeKeys, clock, ephs, replayed, panicked>>
    PROVE  IInv'
<1>1. events \in EventTable
  BY Zenon DEF IInv, TypeOK, EventTable
<1>2. TypeOK'
  BY Zenon, <1>1 DEF IInv, TypeOK, EventTable, Option
<1>3. PeersOK' /\ SessionIdsOwned'
  BY DEF IInv, PeersOK, SessionIdsOwned
<1>4. HandshakeTimed'
  <2> SUFFICES ASSUME NEW p \in PeerIds, peers[p] # None, peers[p].hs.st = "initiated"
               PROVE  /\ events'[peers[p].hs.timeout] # None
                      /\ events'[peers[p].hs.timeout].kind = "handshake"
                      /\ events'[peers[p].hs.timeout].peer = p
    BY Zenon DEF HandshakeTimed
  <2>1. peers[p] \in Peers
    BY Zenon DEF IInv, PeersOK, PeerOK
  <2>2. peers[p].hs.timeout \in EventIds
    BY <2>1 DEF Peers, Handshakes, NoHandshake
  <2>3. QED
    BY Zenon, <1>1, <2>2 DEF IInv, HandshakeTimed, EventTable
<1>5. ~ KeyCollisions => KeysOwned' /\ ~ panicked'
  BY Zenon DEF IInv, KeysOwned
<1>6. QED
  BY Zenon, <1>2, <1>3, <1>4, <1>5 DEF IInv

(* Peer::handshake_timeout preserves the invariant. *)
LEMMA TimeoutInv ==
    ASSUME IInv, NEW e \in EventIds, handshake_timeout(e)
    PROVE  IInv'
<1> DEFINE p == events[e].peer
           old == peers[p]
           rest == [events EXCEPT ![e] = None]
           pr == [old EXCEPT !.hs = NoHandshake]
<1>1. /\ events[e] # None /\ events[e].kind = "handshake" /\ NoDelivery
      /\ IF old = None \/ old.hs.st = "none"
         THEN /\ events' = rest
              /\ UNCHANGED <<peers, sessions, sent>>
              /\ NoHandshakeMade /\ Quiet
         ELSE IF RemovePanics({session_id(old.hs)})
         THEN Panic
         ELSE /\ start_handshake(p, pr, Removed({session_id(old.hs)}), rest, {})
              /\ Quiet
  BY Zenon DEF handshake_timeout, Due
<1>2. events \in EventTable /\ sessions \in [SessionIds -> Option(PeerIds)]
  BY Zenon DEF IInv, TypeOK, EventTable
<1>3. p \in PeerIds
  BY Zenon, <1>1, <1>2 DEF EventTable, Option, PendingEvents
<1>4. CASE old = None \/ old.hs.st = "none"
  <2>1. /\ events' = rest
        /\ UNCHANGED <<now, peers, sessions, nodeKeys, clock, ephs, replayed, panicked>>
    BY Zenon, <1>1, <1>4 DEF NoHandshakeMade, Quiet, NoDelivery
  <2>2. \A q \in PeerIds : peers[q] # None /\ peers[q].hs.st = "initiated"
                             => peers[q].hs.timeout # e
    BY ZenonT(40), <1>4 DEF IInv, HandshakeTimed
  <2>3. QED
    BY Zenon, <2>1, <2>2, DropEventInv
<1>5. CASE ~ (old = None \/ old.hs.st = "none")
  <2>1. PeerOK(old, now) /\ OwnsIds(p, old, sessions)
    BY Zenon, <1>3, <1>5 DEF IInv, PeersOK, SessionIdsOwned, OwnsIds
  <2>2. old \in Peers /\ SessionShape(old)
    BY ZenonT(40), <2>1 DEF PeerOK
  <2>3. session_id(old.hs) \in SessionIds /\ session_id(old.hs) = HeldId(old, "handshake")
    BY <1>5, <2>2 DEF Peers, Handshakes, NoHandshake, session_id, HeldId, ReceiveSessions
  <2> DEFINE id == session_id(old.hs)
             sess == Removed({id})
  <2>4. sessions[id] = p /\ id # None
    BY Zenon, <2>1, <2>3, EndpointAssumption DEF OwnsIds, Slots
  <2>5. ~ RemovePanics({id})
    BY Zenon, <1>3, <2>4, EndpointAssumption DEF RemovePanics
  <2>6. start_handshake(p, pr, sess, rest, {}) /\ Quiet
    BY Zenon, <1>1, <1>5, <2>5
  <2>7. /\ PeerOK(pr, now) /\ pr.hs = NoHandshake /\ pr.key = old.key
        /\ pr.recv = old.recv /\ pr.prev = old.prev
    BY Zenon, <2>1, DropHandshakeOK
  <2>8. /\ sess \in [SessionIds -> Option(PeerIds)]
        /\ \A i \in SessionIds : sess[i] = IF i = id THEN None ELSE sessions[i]
    BY Zenon, <1>2 DEF Removed, Option
  <2>9. rest \in EventTable
    BY Zenon, <1>2 DEF EventTable, Option
  <2>10. \A i \in SessionIds : \A q \in PeerIds \ {p} : sessions[i] = q => sess[i] = q
    BY ZenonT(40), <2>4, <2>8
  <2> HIDE DEF pr, sess, id
  <2>11. OwnsIds(p, pr, sess)
    <3>1. /\ HeldId(pr, "handshake") = None
          /\ HeldId(pr, "recv") = HeldId(old, "recv")
          /\ HeldId(pr, "prev") = HeldId(old, "prev")
      BY <2>7 DEF HeldId, session_id, NoHandshake
    <3>2. \A s \in Slots : HeldId(old, s) # None => HeldId(old, s) \in SessionIds
      BY Zenon, <2>2, HeldIdType
    <3>3. id = HeldId(old, "handshake")
      BY Zenon, <2>3 DEF id
    <3>4. QED
      BY Zenon, <2>1, <2>4, <2>8, <3>1, <3>2, <3>3 DEF OwnsIds, Slots
  <2>12. \A x \in EventIds : events[x] # None /\ events[x].kind = "handshake"
                               /\ events[x].peer # p => rest[x] = events[x]
    BY Zenon, <1>2 DEF EventTable
  <2> HIDE DEF rest
  <2>13. MayStart(p, pr, sess, rest)
    BY Zenon, <2>7, <2>8, <2>9, <2>10, <2>11, <2>12 DEF MayStart
  <2>14. QED
    BY ZenonT(40), <1>1, <1>3, <1>5, <2>6, <2>13, StartHandshakeInv
<1>6. QED
  BY Zenon, <1>4, <1>5

(* Peer::send_keepalive preserves the invariant. *)
LEMMA KeepaliveInv ==
    ASSUME IInv, NEW e \in EventIds, send_keepalive(e)
    PROVE  IInv'
<1> DEFINE p == events[e].peer
           old == peers[p]
           rest == [events EXCEPT ![e] = None]
           sending == [old.send EXCEPT !.nonce = @ + 1]
           done == [old EXCEPT !.send.nonce = @ + 1, !.keepalive = FALSE]
           again == [schedule_keepalive(done) EXCEPT !.another = FALSE]
           new == IF old.another THEN again ELSE done
<1>1. /\ events[e] # None /\ events[e].kind = "keepalive"
      /\ IF old = None \/ ~ CanTransmit(old)
         THEN events' = rest /\ UNCHANGED <<peers, sent>>
         ELSE /\ peers' = [peers EXCEPT ![p] = new]
              /\ events' = IF old.another THEN KeepaliveEvents(p, done, rest) ELSE rest
      /\ UNCHANGED <<sessions, clock, ephs, delivered, replayed, now, nodeKeys, panicked>>
  BY Zenon DEF send_keepalive, Due, NoHandshakeMade, NoDelivery, Quiet
<1>2. /\ now \in Nat /\ clock \in Nat /\ ephs \in Nat /\ replayed \in BOOLEAN
      /\ sessions \in [SessionIds -> Option(PeerIds)] /\ events \in EventTable
  BY Zenon DEF IInv, TypeOK, EventTable
<1>3. p \in PeerIds
  BY <1>1, <1>2 DEF EventTable, Option, PendingEvents
<1>4. CASE old = None \/ ~ CanTransmit(old)
  <2>1. \A q \in PeerIds : peers[q] # None /\ peers[q].hs.st = "initiated"
                             => peers[q].hs.timeout # e
    BY ZenonT(40), <1>1 DEF IInv, HandshakeTimed
  <2>2. QED
    BY ZenonT(40), <1>1, <1>4, <2>1, DropEventInv
<1>5. CASE ~ (old = None \/ ~ CanTransmit(old))
  <2>1. PeerOK(old, now) /\ OwnsIds(p, old, sessions) /\ TimedIn(p, old, events)
    BY Zenon, <1>3, <1>5 DEF IInv, PeersOK, SessionIdsOwned, OwnsIds, HandshakeTimed, TimedIn
  <2>2. old \in Peers /\ SessionShape(old) /\ old.send # None
    BY Zenon, <1>5, <2>1 DEF PeerOK, CanTransmit
  <2>3. sending \in TransmitSessions /\ sending.created = old.send.created
    <3>1. old.send \in TransmitSessions
      BY Zenon, <2>2 DEF Peers, Option
    <3>2. QED
      BY <3>1 DEF TransmitSessions
  <2>4. sending # None
    BY Zenon, <2>3, NoneAssumption
  <2>5. done = [old EXCEPT !.send = sending, !.keepalive = FALSE]
    BY Zenon, <2>2 DEF Peers
  <2> HIDE DEF done, sending
  <2>6. /\ done \in Peers /\ done.hs = old.hs /\ done.key = old.key /\ done.recv = old.recv
        /\ done.prev = old.prev /\ done.send = sending /\ done.queue = old.queue
    BY ZenonT(60), <2>2, <2>3, <2>5 DEF Peers, Option
  <2>7. PeerOK(done, now)
    <3>1. SessionShape(done)
      BY Zenon, <2>2, <2>4, <2>6 DEF SessionShape
    <3>2. Ages(done, now)
      BY ZenonT(60), <2>1, <2>3, <2>6 DEF PeerOK, Ages
    <3>3. QED
      BY Zenon, <2>6, <3>1, <3>2 DEF PeerOK
  <2>8. /\ PeerOK(new, now) /\ new.hs = old.hs /\ new.key = old.key
        /\ new.recv = old.recv /\ new.prev = old.prev
    <3> DEFINE kept == schedule_keepalive(done)
    <3>1. /\ PeerOK(kept, now) /\ kept.hs = done.hs /\ kept.key = done.key
          /\ kept.recv = done.recv /\ kept.prev = done.prev
      BY Zenon, <2>7, ScheduleKeepaliveOK
    <3>2. again = [kept EXCEPT !.another = FALSE]
      OBVIOUS
    <3> HIDE DEF kept, again
    <3>3. /\ again \in Peers /\ again.hs = kept.hs /\ again.key = kept.key
          /\ again.recv = kept.recv /\ again.prev = kept.prev /\ again.send = kept.send
          /\ again.queue = kept.queue
      BY ZenonT(60), <3>1, <3>2 DEF PeerOK, Peers
    <3>4. SessionShape(again) /\ Ages(again, now)
      BY Zenon, <3>1, <3>3 DEF PeerOK, SessionShape, Ages
    <3>5. QED
      BY Zenon, <2>6, <2>7, <3>1, <3>3, <3>4 DEF PeerOK
  <2> HIDE DEF new
  <2>9. /\ rest \in EventTable /\ rest[e] = None
        /\ \A x \in EventIds : events[x] # None /\ events[x].kind = "handshake"
                                 => rest[x] = events[x]
    BY Zenon, <1>1, <1>2 DEF EventTable, Option
  <2>10. HasRoom(rest)
    BY Zenon, <2>9 DEF HasRoom
  <2> HIDE DEF rest
  <2>11. /\ events' \in EventTable
         /\ \A x \in EventIds : events[x] # None /\ events[x].kind = "handshake"
                                  => events'[x] = events[x]
    <3>1. /\ KeepaliveEvents(p, done, rest) \in EventTable
          /\ \A x \in EventIds : rest[x] # None
                                   => KeepaliveEvents(p, done, rest)[x] = rest[x]
      BY Zenon, <1>2, <1>3, <2>9, <2>10, KeepaliveEventsOK
    <3>2. events' = IF old.another THEN KeepaliveEvents(p, done, rest) ELSE rest
      BY Zenon, <1>1, <1>5
    <3>3. QED
      BY Zenon, <2>9, <3>1, <3>2
  <2>12. peers' = [peers EXCEPT ![p] = new]
    BY ZenonT(40), <1>1, <1>5
  <2>13. OwnsIds(p, new, sessions')
    <3>1. \A s \in Slots : HeldId(new, s) = HeldId(old, s)
      BY ZenonT(40), <2>8 DEF HeldId, Slots
    <3>2. QED
      BY Zenon, <1>1, <2>1, <3>1 DEF OwnsIds
  <2>14. TimedIn(p, new, events')
    <3>1. old.hs.st = "initiated" => old.hs.timeout \in EventIds
      BY <2>2 DEF Peers, Handshakes, NoHandshake
    <3>2. QED
      BY ZenonT(60), <2>1, <2>8, <2>11, <3>1 DEF TimedIn
  <2>15. QED
    BY ZenonT(60), <1>1, <1>2, <1>3, <1>5, <2>8, <2>11, <2>12, <2>13, <2>14, UpdatePeer
<1>6. QED
  BY ZenonT(40), <1>4, <1>5

-----------------------------------------------------------------------------
(* A panic preserves the invariant when keys may collide. *)
LEMMA PanicInv ==
    ASSUME IInv, Panic, KeyCollisions
    PROVE  IInv'
BY DEF IInv, Panic, TypeOK, PeersOK, SessionIdsOwned, HandshakeTimed

(* A peer as Peer::new makes it is well formed and holds no id. *)
LEMMA NewPeerOK ==
    ASSUME NEW key \in Keys, NEW psk \in Psks, now \in Nat
    PROVE  /\ PeerOK(NewPeer(key, psk), now) /\ NewPeer(key, psk).key = key
           /\ NewPeer(key, psk).hs = NoHandshake
           /\ \A s \in Slots : HeldId(NewPeer(key, psk), s) = None
<1> DEFINE n == NewPeer(key, psk)
<1>1. <<>> \in Seq(Packets) /\ Len(<<>>) <= MAX_QUEUED
  BY EndpointAssumption, EmptySeq
<1>2. /\ n \in Peers /\ n.key = key /\ n.hs = NoHandshake /\ n.recv = None /\ n.prev = None
      /\ n.send = None /\ n.queue = <<>>
  BY Zenon, <1>1 DEF NewPeer, Peers, Option, Handshakes
<1> HIDE DEF n
<1>3. SessionShape(n) /\ Ages(n, now)
  BY <1>1, <1>2 DEF SessionShape, Ages, NoHandshake
<1>4. \A s \in Slots : HeldId(n, s) = None
  BY <1>2 DEF HeldId, Slots, session_id, NoHandshake
<1>5. QED
  BY Zenon, <1>2, <1>3, <1>4 DEF PeerOK, n

(* Endpoint::upsert_peer preserves the invariant when the owner keeps the  *)
(* keys distinct, or may collide them.                                     *)
LEMMA UpsertInv ==
    ASSUME IInv, NEW p \in PeerIds, NEW key \in Keys, NEW psk \in Psks,
           KeyCollisions \/ KeyAvailable(p, key), upsert_peer(p, key, psk)
    PROVE  IInv'
<1> DEFINE old == peers[p]
           freed == [nodeKeys EXCEPT ![old.key] = None]
<1>1. /\ now \in Nat /\ clock \in Nat /\ ephs \in Nat /\ replayed \in BOOLEAN
      /\ sessions \in [SessionIds -> Option(PeerIds)] /\ events \in EventTable
      /\ nodeKeys \in [Keys -> Option(PeerIds)] /\ peers \in [PeerIds -> Option(Peers)]
  BY Zenon DEF IInv, TypeOK, EventTable
<1>2. ~ KeyCollisions => KeysOwned /\ KeyAvailable(p, key)
  BY Zenon DEF IInv
<1>3. CASE old = None
  <2> DEFINE new == NewPeer(key, psk)
  <2>1. ~ KeyCollisions => nodeKeys[key] = None
    BY <1>1, <1>2, <1>3 DEF KeysOwned, KeyAvailable, Option
  <2>2. CASE nodeKeys[key] # None
    <3>1. Panic
      BY Zenon, <1>3, <2>2 DEF upsert_peer
    <3>2. QED
      BY Zenon, <2>1, <2>2, <3>1, PanicInv
  <2>3. CASE nodeKeys[key] = None
    <3>1. /\ nodeKeys' = [nodeKeys EXCEPT ![key] = p]
          /\ peers' = [peers EXCEPT ![p] = new]
          /\ UNCHANGED <<sessions, now, events, clock, ephs, replayed, panicked>>
      BY Zenon, <1>3, <2>3 DEF upsert_peer, OnlyPeersAndKeys, NoHandshakeMade, NoDelivery
    <3>2. /\ PeerOK(new, now) /\ new.key = key /\ new.hs = NoHandshake
          /\ \A s \in Slots : HeldId(new, s) = None
      BY Zenon, <1>1, NewPeerOK
    <3> HIDE DEF new
    <3>3. OwnsIds(p, new, sessions') /\ TimedIn(p, new, events') /\ new # None
      BY <3>2, NoneAssumption DEF OwnsIds, TimedIn, NoHandshake, PeerOK
    <3>4. nodeKeys' \in [Keys -> Option(PeerIds)]
      BY Zenon, <1>1, <3>1 DEF Option
    <3>5. ~ KeyCollisions => KeysOwned'
      <4> SUFFICES ASSUME ~ KeyCollisions, NEW q \in PeerIds, NEW k \in Keys
                   PROVE  (nodeKeys'[k] = q) <=> (peers'[q] # None /\ peers'[q].key = k)
        BY Zenon DEF KeysOwned
      <4>1. (nodeKeys[k] = q) <=> (peers[q] # None /\ peers[q].key = k)
        BY Zenon, <1>2 DEF KeysOwned
      <4>2. q # p => (peers[q] # None => peers[q].key # key)
        BY Zenon, <1>2 DEF KeyAvailable
      <4>3. QED
        BY Zenon, <1>1, <1>3, <3>1, <3>2, <3>3, <4>1, <4>2
    <3>6. QED
      BY Zenon, <1>1, <3>1, <3>2, <3>3, <3>4, <3>5, ReplacePeer
  <2>4. QED
    BY Zenon, <2>2, <2>3
<1>4. CASE old # None
  <2> DEFINE new == [old EXCEPT !.key = key, !.psk = psk]
  <2>1. PeerOK(old, now) /\ OwnsIds(p, old, sessions) /\ TimedIn(p, old, events)
    BY Zenon, <1>4 DEF IInv, PeersOK, SessionIdsOwned, OwnsIds, HandshakeTimed, TimedIn
  <2>2. old \in Peers /\ old.key \in Keys
    BY Zenon, <2>1 DEF PeerOK, Peers
  <2>3. ~ KeyCollisions => nodeKeys[old.key] = p /\ p # None
    BY <1>2, <1>4, <2>2, EndpointAssumption DEF KeysOwned
  <2>4. CASE old.key # key /\ nodeKeys[old.key] = None
    <3>1. Panic
      BY Zenon, <1>4, <2>4 DEF upsert_peer
    <3>2. QED
      BY Zenon, <2>3, <2>4, <3>1, PanicInv
  <2>5. CASE ~ (old.key # key /\ nodeKeys[old.key] = None)
    <3>1. /\ nodeKeys' = IF old.key = key THEN nodeKeys
                          ELSE IF freed[key] = None THEN [freed EXCEPT ![key] = p]
                          ELSE freed
          /\ peers' = [peers EXCEPT ![p].key = key, ![p].psk = psk]
          /\ UNCHANGED <<sessions, now, events, clock, ephs, replayed, panicked>>
      BY Zenon, <1>4, <2>5 DEF upsert_peer, OnlyPeersAndKeys, NoHandshakeMade, NoDelivery
    <3>2. peers' = [peers EXCEPT ![p] = new]
      BY Zenon, <1>1, <3>1
    <3>3. /\ new \in Peers /\ new.key = key /\ new.hs = old.hs /\ new.recv = old.recv
          /\ new.prev = old.prev /\ new.send = old.send /\ new.queue = old.queue
      BY ZenonT(60), <2>2 DEF Peers
    <3> HIDE DEF new
    <3>4. PeerOK(new, now)
      BY Zenon, <2>1, <3>3 DEF PeerOK, SessionShape, Ages
    <3>5. OwnsIds(p, new, sessions') /\ TimedIn(p, new, events') /\ new # None
      BY <2>1, <3>1, <3>3, NoneAssumption DEF OwnsIds, HeldId, Slots, TimedIn
    <3>6. nodeKeys' \in [Keys -> Option(PeerIds)]
      BY Zenon, <1>1, <2>2, <3>1 DEF Option
    <3>7. ~ KeyCollisions => KeysOwned'
      <4> SUFFICES ASSUME ~ KeyCollisions, NEW q \in PeerIds, NEW k \in Keys
                   PROVE  (nodeKeys'[k] = q) <=> (peers'[q] # None /\ peers'[q].key = k)
        BY Zenon DEF KeysOwned
      <4>1. \A x \in PeerIds, y \in Keys :
              (nodeKeys[y] = x) <=> (peers[x] # None /\ peers[x].key = y)
        BY Zenon, <1>2 DEF KeysOwned
      <4>2. \A x \in PeerIds : x # p => (peers[x] # None => peers[x].key # key)
        BY Zenon, <1>2 DEF KeyAvailable
      <4>3. old.key # key => nodeKeys[key] = None
        BY <1>1, <1>4, <4>1, <4>2 DEF Option
      <4>4. nodeKeys'[k] = IF k = key THEN p ELSE IF k = old.key THEN None ELSE nodeKeys[k]
        BY Zenon, <1>1, <1>4, <2>2, <2>3, <3>1, <4>3
      <4>5. peers'[q] = IF q = p THEN new ELSE peers[q]
        BY Zenon, <1>1, <3>2
      <4>6. q # None
        BY Zenon, EndpointAssumption
      <4>7. QED
        BY <1>4, <3>3, <3>5, <4>1, <4>2, <4>4, <4>5, <4>6
    <3>8. QED
      BY Zenon, <1>1, <3>1, <3>2, <3>4, <3>5, <3>6, <3>7, ReplacePeer
  <2>6. QED
    BY Zenon, <2>4, <2>5
<1>5. QED
  BY Zenon, <1>3, <1>4

(* Endpoint::remove_peer preserves the invariant: none of the unwraps of   *)
(* Peer::shutdown fails.                                                   *)
LEMMA RemoveInv ==
    ASSUME IInv, NEW p \in PeerIds, remove_peer(p)
    PROVE  IInv'
<1> DEFINE old == peers[p]
           ids == HeldIds(old)
<1>1. /\ now \in Nat /\ clock \in Nat /\ ephs \in Nat /\ replayed \in BOOLEAN
      /\ sessions \in [SessionIds -> Option(PeerIds)] /\ events \in EventTable
      /\ nodeKeys \in [Keys -> Option(PeerIds)] /\ peers \in [PeerIds -> Option(Peers)]
  BY Zenon DEF IInv, TypeOK, EventTable
<1>2. /\ old # None
      /\ IF ShutdownPanics(old) \/ nodeKeys[old.key] = None
         THEN Panic
         ELSE /\ peers' = [peers EXCEPT ![p] = None]
              /\ nodeKeys' = [nodeKeys EXCEPT ![old.key] = None]
              /\ sessions' = Removed(ids)
              /\ OnlyPeersAndKeys
  BY Zenon DEF remove_peer
<1>3. PeerOK(old, now) /\ OwnsIds(p, old, sessions)
  BY Zenon, <1>2 DEF IInv, PeersOK, SessionIdsOwned, OwnsIds
<1>4. old \in Peers /\ old.key \in Keys
  BY Zenon, <1>3 DEF PeerOK, Peers
<1>5. \A i \in ids : sessions[i] = p
  BY Zenon, <1>3 DEF HeldIds, OwnsIds
<1>6. ~ ShutdownPanics(old)
  BY Zenon, <1>3, <1>5, EndpointAssumption DEF ShutdownPanics, RemovePanics, OwnsIds
<1>7. CASE nodeKeys[old.key] = None
  <2>1. KeyCollisions
    BY <1>2, <1>4, <1>7, EndpointAssumption DEF IInv, KeysOwned
  <2>2. QED
    BY Zenon, <1>2, <1>7, <2>1, PanicInv
<1>8. CASE nodeKeys[old.key] # None
  <2>1. /\ peers' = [peers EXCEPT ![p] = None]
        /\ nodeKeys' = [nodeKeys EXCEPT ![old.key] = None]
        /\ sessions' = Removed(ids)
        /\ UNCHANGED <<now, events, clock, ephs, replayed, panicked>>
    BY Zenon, <1>2, <1>6, <1>8 DEF OnlyPeersAndKeys, NoHandshakeMade, NoDelivery
  <2> HIDE DEF ids
  <2>2. /\ sessions' \in [SessionIds -> Option(PeerIds)]
        /\ \A i \in SessionIds : sessions'[i] = IF i \in ids THEN None ELSE sessions[i]
    BY Zenon, <1>1, <2>1 DEF Removed, Option
  <2>3. nodeKeys' \in [Keys -> Option(PeerIds)]
    BY Zenon, <1>1, <1>4, <2>1 DEF Option
  <2>4. ~ KeyCollisions => KeysOwned'
    <3> SUFFICES ASSUME ~ KeyCollisions, NEW q \in PeerIds, NEW k \in Keys
                 PROVE  (nodeKeys'[k] = q) <=> (peers'[q] # None /\ peers'[q].key = k)
      BY Zenon DEF KeysOwned
    <3>1. \A x \in PeerIds, y \in Keys :
            (nodeKeys[y] = x) <=> (peers[x] # None /\ peers[x].key = y)
      BY Zenon DEF IInv, KeysOwned
    <3>2. QED
      BY <1>1, <1>2, <1>4, <2>1, <3>1, EndpointAssumption
  <2>5. \A i \in SessionIds : \A q \in PeerIds \ {p} : sessions[i] = q => sessions'[i] = q
    BY Zenon, <1>5, <2>2
  <2>6. QED
    BY ZenonT(60), <1>1, <2>1, <2>2, <2>3, <2>4, <2>5, ReplacePeer
<1>9. QED
  BY Zenon, <1>7, <1>8

(* The passage of time preserves the invariant. *)
LEMMA TickInv ==
    ASSUME IInv, Tick
    PROVE  IInv'
<1>1. /\ now \in Nat /\ now' = now + 1
      /\ UNCHANGED <<peers, sessions, nodeKeys, events, clock, ephs, replayed, panicked>>
  BY Zenon DEF IInv, TypeOK, Tick
<1>2. PeersOK'
  <2> SUFFICES ASSUME NEW p \in PeerIds, peers[p] # None
               PROVE  PeerOK(peers[p], now')
    BY Zenon, <1>1 DEF PeersOK
  <2>1. PeerOK(peers[p], now)
    BY Zenon DEF IInv, PeersOK
  <2>2. /\ peers[p].recv # None => peers[p].recv.created \in Nat
        /\ peers[p].hs.st = "responded" => peers[p].hs.recv.created \in Nat
    BY <2>1 DEF PeerOK, Peers, Option, Handshakes, ReceiveSessions, NoHandshake
  <2>3. Ages(peers[p], now')
    <3>1. Ages(peers[p], now)
      BY Zenon, <2>1 DEF PeerOK
    <3>2. \A t \in Nat : t <= now => t <= now'
      BY <1>1
    <3>3. QED
      BY Zenon, <2>2, <3>1, <3>2 DEF Ages
  <2>4. QED
    BY Zenon, <2>1, <2>3 DEF PeerOK
<1>3. TypeOK' /\ SessionIdsOwned' /\ HandshakeTimed' /\ (~ KeyCollisions => KeysOwned' /\ ~ panicked')
  BY <1>1 DEF IInv, TypeOK, SessionIdsOwned, HandshakeTimed, KeysOwned
<1>4. QED
  BY Zenon, <1>2, <1>3 DEF IInv

(* A datagram of each kind preserves the invariant. *)
LEMMA RecvInv ==
    ASSUME IInv, NEW m \in Datagrams, recv(m)
    PROVE  IInv'
<1>1. CASE m.type = "init"
  <2>1. process_one_handshake(m)
    BY ZenonT(40), <1>1 DEF recv
  <2>2. m \in Initiations
    BY Zenon, <1>1 DEF Datagrams, Responses, CookieReplies, TransportData
  <2>3. QED
    BY Zenon, <2>1, <2>2, RespondInv
<1>2. CASE m.type # "init"
  <2> DEFINE p == sessions[m.rid]
  <2>1. /\ p # None /\ peers[p] # None
        /\ \/ m.type = "resp" /\ recv_handshake_response(p, m)
           \/ m.type = "cookie" /\ recv_cookie_reply(p, m)
           \/ m.type = "data" /\ RecvOnSession(p, m, "recv")
           \/ m.type = "data" /\ RecvOnSession(p, m, "prev")
           \/ m.type = "data" /\ Confirm(p, m)
    BY Zenon, <1>2 DEF recv, recv_session
  <2>2. m.rid \in SessionIds
    BY Zenon, <1>2 DEF Datagrams, Initiations, Responses, CookieReplies, TransportData
  <2>3. p \in PeerIds
    BY Zenon, <2>1, <2>2 DEF IInv, TypeOK, Option
  <2>4. CASE m.type = "resp" /\ recv_handshake_response(p, m)
    <3>1. m \in Responses
      BY Zenon, <2>4 DEF Datagrams, Initiations, CookieReplies, TransportData
    <3>2. QED
      BY Zenon, <2>1, <2>3, <2>4, <3>1, FinishInv
  <2>5. CASE m.type = "cookie" /\ recv_cookie_reply(p, m)
    BY Zenon, <2>1, <2>3, <2>5, CookieInv
  <2>6. m.type = "data" => m \in TransportData
    BY Zenon DEF Datagrams, Initiations, Responses, CookieReplies
  <2>7. CASE m.type = "data" /\ RecvOnSession(p, m, "recv")
    BY Zenon, <2>1, <2>3, <2>6, <2>7, RecvOnSessionInv
  <2>8. CASE m.type = "data" /\ RecvOnSession(p, m, "prev")
    BY Zenon, <2>1, <2>3, <2>6, <2>8, RecvOnSessionInv
  <2>9. CASE m.type = "data" /\ Confirm(p, m)
    BY Zenon, <2>1, <2>3, <2>6, <2>9, ConfirmInv
  <2>10. QED
    BY Zenon, <2>1, <2>4, <2>5, <2>7, <2>8, <2>9
<1>3. QED
  BY Zenon, <1>1, <1>2

(* The invariant is inductive. *)
LEMMA InitInv == Init => IInv
<1> SUFFICES ASSUME Init PROVE IInv
  OBVIOUS
<1>1. TypeOK
  BY Zenon DEF Init, InitWith, TypeOK, Option
<1>2. PeersOK /\ SessionIdsOwned /\ HandshakeTimed
  BY Zenon DEF Init, InitWith, PeersOK, SessionIdsOwned, HandshakeTimed
<1>3. KeysOwned /\ ~ panicked
  BY Zenon, EndpointAssumption DEF Init, InitWith, KeysOwned
<1>4. QED
  BY Zenon, <1>1, <1>2, <1>3 DEF IInv

LEMMA NextInv == IInv /\ [Next]_vars => IInv'
<1> SUFFICES ASSUME IInv, [Next]_vars PROVE IInv'
  OBVIOUS
<1>1. ASSUME NEW p \in PeerIds, NEW pkts \in Batches, send(p, pkts) PROVE IInv'
  BY Zenon, <1>1, SendInv
<1>2. ASSUME NEW m \in Datagrams, recv(m) PROVE IInv'
  BY Zenon, <1>2, RecvInv
<1>3. ASSUME NEW e \in EventIds, handshake_timeout(e) PROVE IInv'
  BY Zenon, <1>3, TimeoutInv
<1>4. ASSUME NEW e \in EventIds, send_keepalive(e) PROVE IInv'
  BY Zenon, <1>4, KeepaliveInv
<1>5. ASSUME NEW p \in PeerIds, NEW key \in Keys, NEW psk \in Psks,
             KeyCollisions \/ KeyAvailable(p, key), upsert_peer(p, key, psk)
      PROVE  IInv'
  BY Zenon, <1>5, UpsertInv
<1>6. ASSUME NEW p \in Removable, remove_peer(p) PROVE IInv'
  BY Zenon, <1>6, RemoveInv, EndpointAssumption
<1>7. CASE Tick
  BY Zenon, <1>7, TickInv
<1>8. CASE UNCHANGED vars
  BY <1>8 DEF vars, IInv, TypeOK, PeersOK, SessionIdsOwned, HandshakeTimed, KeysOwned
<1>9. QED
  BY Zenon, <1>1, <1>2, <1>3, <1>4, <1>5, <1>6, <1>7, <1>8 DEF Next

LEMMA InvariantHolds == Spec => []IInv
BY InitInv, NextInv, PTL DEF Spec

-----------------------------------------------------------------------------
(* Every state of the endpoint is well typed: a session has both halves or *)
(* none, nothing is queued beside a session and no queue outgrows its      *)
(* limit.                                                                  *)
THEOREM EndpointTypeOK == Spec => []TypeOK
<1>1. IInv => TypeOK
  BY Zenon DEF IInv
<1>2. QED
  BY InvariantHolds, <1>1, PTL

(* Every session id a peer holds is registered to that peer and to no      *)
(* other use, through rotation, retries, expiry and removal.               *)
THEOREM EndpointSessionIdsOwned == Spec => []SessionIdsOwned
<1>1. IInv => SessionIdsOwned
  BY Zenon DEF IInv
<1>2. QED
  BY InvariantHolds, <1>1, PTL

(* No unwrap or panic! of the endpoint is reached by an owner that keeps   *)
(* the keys of its peers distinct, whatever the network delivers.          *)
THEOREM EndpointNeverPanics == Spec => []NeverPanics
<1>1. IInv => NeverPanics
  BY Zenon DEF IInv, NeverPanics
<1>2. QED
  BY InvariantHolds, <1>1, PTL

(* When encrypt_or_queue drops an expired session, both receive sessions   *)
(* it drops with it have expired as well.                                  *)
THEOREM EndpointReceiveExpires == Spec => []ReceiveExpiresWithTransmit
<1>1. IInv => ReceiveExpiresWithTransmit
  <2> SUFFICES ASSUME IInv, NEW p \in PeerIds, peers[p] # None, peers[p].send # None,
                      expired(peers[p].send)
               PROVE  /\ expired(peers[p].recv)
                      /\ peers[p].prev # None => expired(peers[p].prev)
    BY Zenon DEF ReceiveExpiresWithTransmit
  <2>1. PeerOK(peers[p], now) /\ now \in Nat
    BY Zenon DEF IInv, PeersOK, TypeOK
  <2>2. peers[p].recv # None
    BY Zenon, <2>1 DEF PeerOK, SessionShape
  <2>3. /\ peers[p].recv.created \in Nat
        /\ peers[p].prev # None => peers[p].prev.created \in Nat
    BY Zenon, <2>1, <2>2 DEF PeerOK, Peers, Option, ReceiveSessions
  <2>4. /\ peers[p].send.created = peers[p].recv.created
        /\ peers[p].prev # None => peers[p].prev.created <= peers[p].recv.created
    BY Zenon, <2>1, <2>2 DEF PeerOK, Ages
  <2>5. QED
    BY SMTT(90), <2>1, <2>3, <2>4, EndpointAssumption DEF expired
<1>2. QED
  BY InvariantHolds, <1>1, PTL

(* A handshake that awaits a response always has its timeout pending, so a *)
(* lost initiation or response is retried.                                 *)
THEOREM EndpointHandshakeTimed == Spec => []HandshakeTimed
<1>1. IInv => HandshakeTimed
  BY Zenon DEF IInv
<1>2. QED
  BY InvariantHolds, <1>1, PTL

-----------------------------------------------------------------------------
(***************************************************************************)
(* That no nonce is used twice with a session key and no transport         *)
(* datagram is delivered twice (WgEndpoint), for every number of peers,    *)
(* keys, session ids and timers.  Both rest on one argument: a session is  *)
(* named by the ephemeral this endpoint generated for it, the ephemeral is *)
(* in one slot of one peer from its generation until it is dropped, and it *)
(* moves from the handshake to the current to the previous session only.   *)
(***************************************************************************)

(* This endpoint's ephemeral in a key it encrypts or decrypts with. *)
SendEph(key) == IF key.dir = "i" THEN key.ini ELSE key.rsp

ReceiveEph(key) == IF key.dir = "r" THEN key.ini ELSE key.rsp

(* The ephemerals generated so far. *)
Generated == {<<Me, n>> : n \in 0 .. ephs - 1}

(* The transport datagrams among those sent. *)
SentData == {m \in sent : m.type = "data"}

(* Ephemeral e is in a slot of peer pr. *)
InHandshake(pr, e) ==
    \/ pr.hs.st = "initiated" /\ e = pr.hs.eph
    \/ pr.hs.st = "responded" /\ e = ReceiveEph(pr.hs.recv.key)

Holds(pr, e) ==
    \/ pr.recv # None /\ e = ReceiveEph(pr.recv.key)
    \/ pr.prev # None /\ e = ReceiveEph(pr.prev.key)
    \/ InHandshake(pr, e)

(* Every ephemeral of a peer's slots is in S. *)
HeldIn(pr, S) ==
    /\ pr.recv # None => ReceiveEph(pr.recv.key) \in S
    /\ pr.prev # None => ReceiveEph(pr.prev.key) \in S
    /\ pr.hs.st = "initiated" => pr.hs.eph \in S
    /\ pr.hs.st = "responded" => ReceiveEph(pr.hs.recv.key) \in S

(* The slots of a peer hold different ephemerals, the two halves of a      *)
(* session share theirs, and a tentative session is unused.                *)
SlotsApart(pr) ==
    /\ pr.recv # None => /\ SendEph(pr.send.key) = ReceiveEph(pr.recv.key)
                         /\ ~ InHandshake(pr, ReceiveEph(pr.recv.key))
    /\ pr.prev # None => /\ ReceiveEph(pr.prev.key) # ReceiveEph(pr.recv.key)
                         /\ ~ InHandshake(pr, ReceiveEph(pr.prev.key))
    /\ pr.hs.st = "responded" => /\ SendEph(pr.hs.send.key) = ReceiveEph(pr.hs.recv.key)
                                 /\ pr.hs.send.nonce = 0

(* Datagram m, once sent, used a nonce below the next one of its session,  *)
(* and no session that is still to be activated.                           *)
NonceBelow(pr, m) ==
    /\ ~ InHandshake(pr, SendEph(m.key))
    /\ pr.send # None /\ SendEph(m.key) = SendEph(pr.send.key) => m.ctr < pr.send.nonce

(* Datagram m, once delivered, is remembered by its session, and it came   *)
(* over no session that is still to be confirmed.                          *)
Remembered(pr, m) ==
    /\ ~ InHandshake(pr, ReceiveEph(m.key))
    /\ pr.recv # None /\ ReceiveEph(m.key) = ReceiveEph(pr.recv.key) => m.ctr \in pr.recv.seen
    /\ pr.prev # None /\ ReceiveEph(m.key) = ReceiveEph(pr.prev.key) => m.ctr \in pr.prev.seen

(* What holds of a peer when data was sent and received was delivered. *)
KeysOK(pr, data, received) ==
    /\ SlotsApart(pr)
    /\ \A m \in data : NonceBelow(pr, m)
    /\ \A m \in received : Remembered(pr, m)

Distinct(data) == \A a, b \in data : a.key = b.key /\ a.ctr = b.ctr => a = b

(* The inductive invariant, on top of IInv. *)
KInv ==
    /\ \A p \in PeerIds : peers[p] # None =>
        KeysOK(peers[p], SentData, delivered) /\ HeldIn(peers[p], Generated)
    /\ \A p, q \in PeerIds : p # q /\ peers[p] # None /\ peers[q] # None =>
        \A e \in Generated : ~ (Holds(peers[p], e) /\ Holds(peers[q], e))
    /\ \A m \in SentData : SendEph(m.key) \in Generated /\ m.ctr \in Nat
    /\ \A m \in delivered : ReceiveEph(m.key) \in Generated
    /\ Distinct(SentData)
    /\ NoReplay

-----------------------------------------------------------------------------
(* The next ephemeral is new, and generating it only adds it. *)
LEMMA OwnEphemeralFresh ==
    ASSUME ephs \in Nat, ephs' \in {ephs, ephs + 1}
    PROVE  /\ OwnEphemeral \notin Generated
           /\ Generated \subseteq Generated'
           /\ ephs' = ephs + 1 => OwnEphemeral \in Generated'
<1>1. \A n \in 0 .. ephs - 1 : <<Me, n>>[2] = n /\ n # ephs /\ <<Me, ephs>>[2] = ephs
  OBVIOUS
<1>2. OwnEphemeral \notin Generated
  BY Zenon, <1>1 DEF OwnEphemeral, Generated
<1>3. CASE ephs' = ephs
  <2>1. ephs' # ephs + 1 /\ Generated' = Generated
    BY <1>3 DEF Generated
  <2>2. QED
    BY Zenon, <1>2, <2>1
<1>4. CASE ephs' = ephs + 1
  <2>1. \A n \in 0 .. ephs - 1 : n \in 0 .. (ephs + 1) - 1
    OBVIOUS
  <2>2. ephs \in 0 .. (ephs + 1) - 1
    OBVIOUS
  <2>3. Generated' = {<<Me, n>> : n \in 0 .. (ephs + 1) - 1}
    BY Zenon, <1>4 DEF Generated
  <2>4. QED
    BY Zenon, <1>2, <2>1, <2>2, <2>3 DEF OwnEphemeral, Generated
<1>5. QED
  BY Zenon, <1>3, <1>4

(* HeldIn in terms of Holds. *)
LEMMA HeldInHolds ==
    ASSUME NEW pr, NEW S
    PROVE  HeldIn(pr, S) <=> \A e : Holds(pr, e) => e \in S
BY Zenon DEF HeldIn, Holds, InHandshake

(* A datagram of a session that peer pr does not hold says nothing of pr. *)
LEMMA Elsewhere ==
    ASSUME NEW pr, SessionShape(pr), SlotsApart(pr), NEW m
    PROVE  /\ ~ Holds(pr, SendEph(m.key)) => NonceBelow(pr, m)
           /\ ~ Holds(pr, ReceiveEph(m.key)) => Remembered(pr, m)
BY DEF SessionShape, SlotsApart, Holds, NonceBelow, Remembered

(* A call for peer p preserves the invariant if it leaves the keys of p in *)
(* order, gives p no ephemeral but a new one, and sends and delivers only  *)
(* what belongs to sessions of p.                                          *)
LEMMA KeepKeys ==
    ASSUME IInv, KInv, NEW p \in PeerIds, NEW new, peers' = [peers EXCEPT ![p] = new],
           ephs' \in {ephs, ephs + 1},
           new # None => /\ KeysOK(new, SentData', delivered')
                         /\ \A e : Holds(new, e) =>
                              \/ peers[p] # None /\ Holds(peers[p], e)
                              \/ e = OwnEphemeral /\ ephs' = ephs + 1,
           \A m \in SentData' \ SentData :
              peers[p] # None /\ Holds(peers[p], SendEph(m.key)) /\ m.ctr \in Nat,
           \A m \in delivered' \ delivered :
              peers[p] # None /\ Holds(peers[p], ReceiveEph(m.key)),
           Distinct(SentData'), NoReplay'
    PROVE  KInv'
<1>1. peers \in [PeerIds -> Option(Peers)] /\ ephs \in Nat
  BY Zenon DEF IInv, TypeOK
<1>2. \A q \in PeerIds : peers'[q] = IF q = p THEN new ELSE peers[q]
  BY Zenon, <1>1
<1>3. /\ OwnEphemeral \notin Generated
      /\ Generated \subseteq Generated'
      /\ ephs' = ephs + 1 => OwnEphemeral \in Generated'
  BY <1>1, OwnEphemeralFresh
<1>4. \A q \in PeerIds : \A e : peers[q] # None /\ Holds(peers[q], e) => e \in Generated
  BY Zenon, HeldInHolds DEF KInv
<1>5. \A q \in PeerIds : peers[q] # None => SessionShape(peers[q]) /\ SlotsApart(peers[q])
  BY Zenon DEF IInv, TypeOK, KInv, KeysOK
<1>6. \A q \in PeerIds : \A e : q # p /\ peers[q] # None /\ peers[p] # None /\ Holds(peers[p], e)
        => ~ Holds(peers[q], e)
  BY Zenon, <1>4 DEF KInv
<1>7. ASSUME NEW q \in PeerIds, peers'[q] # None
      PROVE  KeysOK(peers'[q], SentData', delivered')
  <2>1. CASE q = p
    BY Zenon, <1>2, <1>7, <2>1
  <2>2. CASE q # p
    <3>1. peers'[q] = peers[q] /\ peers[q] # None
      BY Zenon, <1>2, <1>7, <2>2
    <3>2. KeysOK(peers[q], SentData, delivered)
      BY Zenon, <3>1 DEF KInv
    <3>3. \A m \in SentData' : NonceBelow(peers[q], m)
      BY Zenon, <1>5, <1>6, <2>2, <3>1, <3>2, Elsewhere DEF KeysOK
    <3>4. \A m \in delivered' : Remembered(peers[q], m)
      BY Zenon, <1>5, <1>6, <2>2, <3>1, <3>2, Elsewhere DEF KeysOK
    <3>5. QED
      BY Zenon, <3>1, <3>2, <3>3, <3>4 DEF KeysOK
  <2>3. QED
    BY Zenon, <2>1, <2>2
<1>8. ASSUME NEW q \in PeerIds, peers'[q] # None
      PROVE  \A e : Holds(peers'[q], e) => e \in Generated'
  <2>1. CASE q = p
    <3>1. peers'[q] = new /\ new # None
      BY Zenon, <1>2, <1>8, <2>1
    <3>2. ASSUME NEW e, Holds(new, e) PROVE e \in Generated'
      <4>1. CASE peers[p] # None /\ Holds(peers[p], e)
        BY Zenon, <1>3, <1>4, <4>1
      <4>2. CASE e = OwnEphemeral /\ ephs' = ephs + 1
        BY Zenon, <1>3, <4>2
      <4>3. QED
        BY Zenon, <3>1, <3>2, <4>1, <4>2
    <3>3. QED
      BY Zenon, <3>1, <3>2
  <2>2. CASE q # p
    BY Zenon, <1>2, <1>3, <1>4, <1>8, <2>2
  <2>3. QED
    BY Zenon, <2>1, <2>2
<1>9. ASSUME NEW q \in PeerIds, peers'[q] # None
      PROVE  HeldIn(peers'[q], Generated')
  BY Zenon, <1>8, <1>9, HeldInHolds
<1>10. ASSUME NEW q \in PeerIds, q # p, new # None, peers[q] # None, NEW e
       PROVE  ~ (Holds(new, e) /\ Holds(peers[q], e))
  <2>1. CASE peers[p] # None /\ Holds(peers[p], e)
    BY Zenon, <1>6, <1>10, <2>1
  <2>2. CASE e = OwnEphemeral
    BY Zenon, <1>3, <1>4, <1>10, <2>2
  <2>3. QED
    BY Zenon, <1>10, <2>1, <2>2
<1>11. \A x, y \in PeerIds : x # y /\ peers'[x] # None /\ peers'[y] # None =>
         \A e \in Generated' : ~ (Holds(peers'[x], e) /\ Holds(peers'[y], e))
  <2> SUFFICES ASSUME NEW x \in PeerIds, NEW y \in PeerIds, x # y, peers'[x] # None,
                      peers'[y] # None, NEW e, Holds(peers'[x], e), Holds(peers'[y], e)
               PROVE  FALSE
    BY Zenon
  <2>1. CASE x = p
    BY Zenon, <1>2, <1>10, <2>1
  <2>2. CASE y = p
    BY Zenon, <1>2, <1>10, <2>2
  <2>3. CASE x # p /\ y # p
    BY Zenon, <1>2, <1>4, <2>3 DEF KInv
  <2>4. QED
    BY Zenon, <2>1, <2>2, <2>3
<1>12. \A m \in SentData' : SendEph(m.key) \in Generated' /\ m.ctr \in Nat
  BY Zenon, <1>3, <1>4 DEF KInv
<1>13. \A m \in delivered' : ReceiveEph(m.key) \in Generated'
  BY Zenon, <1>3, <1>4 DEF KInv
<1>14. QED
  BY Zenon, <1>7, <1>9, <1>11, <1>12, <1>13 DEF KInv

-----------------------------------------------------------------------------
(* What the operations on one peer do to its keys.                         *)

(* The datagrams that encrypt makes are distinct from each other and from  *)
(* all data sent before, when that used lower nonces of the session.       *)
LEMMA EncryptFresh ==
    ASSUME NEW s \in TransmitSessions, NEW S, NEW pkts \in Seq(S), NEW data, Distinct(data),
           \A m \in data : m.ctr \in Nat
                 /\ (SendEph(m.key) = SendEph(s.key) => m.ctr < s.nonce)
    PROVE  LET o == encrypt(s, pkts)
           IN  /\ Distinct(data \cup o)
               /\ \A m \in o : m.type = "data" /\ m.key = s.key /\ m.ctr \in Nat
               /\ \A m \in data \cup o :
                     SendEph(m.key) = SendEph(s.key) => m.ctr < s.nonce + Len(pkts)
<1> DEFINE o == encrypt(s, pkts)
<1>1. Len(pkts) \in Nat /\ s.nonce \in Nat
  BY Zenon, LenProperties DEF TransmitSessions
<1>2. \A m \in o : \E i \in 1 .. Len(pkts) :
        m = [type |-> "data", rid |-> s.id, key |-> s.key, ctr |-> s.nonce + i - 1,
             body |-> pkts[i]]
  BY Zenon DEF encrypt
<1> HIDE DEF o
<1>3. \A m \in o : m.type = "data" /\ m.key = s.key /\ m.ctr \in Nat
                     /\ s.nonce <= m.ctr /\ m.ctr < s.nonce + Len(pkts)
  BY <1>1, <1>2
<1>4. ASSUME NEW a \in o, NEW b \in o, a.ctr = b.ctr PROVE a = b
  <2>1. PICK i \in 1 .. Len(pkts) :
          a = [type |-> "data", rid |-> s.id, key |-> s.key, ctr |-> s.nonce + i - 1,
               body |-> pkts[i]]
    BY Zenon, <1>2
  <2>2. PICK j \in 1 .. Len(pkts) :
          b = [type |-> "data", rid |-> s.id, key |-> s.key, ctr |-> s.nonce + j - 1,
               body |-> pkts[j]]
    BY Zenon, <1>2
  <2>3. a.ctr = s.nonce + i - 1 /\ b.ctr = s.nonce + j - 1
    BY Zenon, <2>1, <2>2
  <2>4. s.nonce + i - 1 = s.nonce + j - 1
    BY Zenon, <1>4, <2>3
  <2>5. i \in Nat /\ j \in Nat
    BY <1>1
  <2>6. i = j
    BY <1>1, <2>4, <2>5
  <2>7. QED
    BY Zenon, <2>1, <2>2, <2>6
<1>5. ASSUME NEW a \in data, NEW b \in o, a.key = b.key PROVE a.ctr # b.ctr
  BY <1>1, <1>3, <1>5
<1>6. Distinct(data \cup o)
  BY Zenon, <1>4, <1>5 DEF Distinct
<1>7. \A m \in data \cup o : SendEph(m.key) = SendEph(s.key) => m.ctr < s.nonce + Len(pkts)
  BY <1>1, <1>3
<1>8. QED
  BY Zenon, <1>3, <1>6, <1>7 DEF o

(* A peer whose sessions and handshake are another's holds its keys. *)
LEMMA SameKeys ==
    ASSUME NEW pr, NEW q, q.recv = pr.recv, q.prev = pr.prev, q.send = pr.send, q.hs = pr.hs,
           NEW data, NEW received
    PROVE  /\ KeysOK(pr, data, received) => KeysOK(q, data, received)
           /\ \A e : Holds(q, e) <=> Holds(pr, e)
<1>1. \A e : InHandshake(q, e) <=> InHandshake(pr, e)
  BY Zenon DEF InHandshake
<1>2. QED
  BY Zenon, <1>1 DEF KeysOK, SlotsApart, NonceBelow, Remembered, Holds

(* Dropping the handshake drops its ephemeral and no other. *)
LEMMA DropKeys ==
    ASSUME NEW pr, NEW q, q.recv = pr.recv, q.prev = pr.prev, q.send = pr.send,
           q.hs = NoHandshake, NEW data, NEW received, KeysOK(pr, data, received)
    PROVE  /\ KeysOK(q, data, received)
           /\ \A e : Holds(q, e) => Holds(pr, e) /\ ~ InHandshake(pr, e)
<1>1. q.hs.st # "initiated" /\ q.hs.st # "responded"
  BY DEF NoHandshake
<1>2. \A e : ~ InHandshake(q, e)
  BY Zenon, <1>1 DEF InHandshake
<1>3. KeysOK(q, data, received)
  BY Zenon, <1>1, <1>2 DEF KeysOK, SlotsApart, NonceBelow, Remembered
<1>4. ASSUME NEW e, Holds(q, e) PROVE Holds(pr, e) /\ ~ InHandshake(pr, e)
  BY Zenon, <1>2, <1>4 DEF KeysOK, SlotsApart, Holds
<1>5. QED
  BY Zenon, <1>3, <1>4

(* SessionState::encrypt_or_queue keeps the keys of a peer in order. *)
LEMMA EncryptKeys ==
    ASSUME NEW pr, PeerOK(pr, now), NEW pkts \in Seq(Packets \cup {Empty}),
           NEW data, NEW received, KeysOK(pr, data, received), Distinct(data),
           \A m \in data : m.ctr \in Nat
    PROVE  LET q == encrypt_or_queue(pr, pkts)
               o == Encrypted(pr, pkts)
           IN  /\ KeysOK(q, data \cup o, received) /\ Distinct(data \cup o)
               /\ \A e : Holds(q, e) => Holds(pr, e)
               /\ \A m \in o : /\ m.type = "data" /\ m.ctr \in Nat
                                /\ Holds(pr, SendEph(m.key))
<1> DEFINE q == encrypt_or_queue(pr, pkts)
           o == Encrypted(pr, pkts)
<1>0. pr \in Peers /\ SessionShape(pr)
  BY Zenon DEF PeerOK
<1>1. CASE pr.send = None
  <2>1. q = [pr EXCEPT !.queue = QueueAppend(pr.queue, pkts)] /\ o = {}
    BY Zenon, <1>1 DEF encrypt_or_queue, Encrypted, CanTransmit
  <2> HIDE DEF q, o
  <2>2. q.recv = pr.recv /\ q.prev = pr.prev /\ q.send = pr.send /\ q.hs = pr.hs
    BY Zenon, <1>0, <2>1 DEF Peers
  <2>3. data \cup o = data
    BY Zenon, <2>1
  <2>4. KeysOK(q, data, received) /\ \A e : Holds(q, e) => Holds(pr, e)
    BY Zenon, <2>2, SameKeys
  <2>5. QED
    BY Zenon, <2>1, <2>3, <2>4 DEF q, o
<1>2. CASE pr.send # None /\ expired(pr.send)
  <2>1. /\ q = [pr EXCEPT !.queue = QueueAppend(<<>>, pkts),
                          !.recv = None, !.prev = None, !.send = None]
        /\ o = {}
    BY Zenon, <1>2 DEF encrypt_or_queue, Encrypted, CanTransmit
  <2> HIDE DEF q, o
  <2>2. q.recv = None /\ q.prev = None /\ q.send = None /\ q.hs = pr.hs
    BY Zenon, <1>0, <2>1 DEF Peers
  <2>3. data \cup o = data
    BY Zenon, <2>1
  <2>4. \A e : InHandshake(q, e) <=> InHandshake(pr, e)
    BY Zenon, <2>2 DEF InHandshake
  <2>5. KeysOK(q, data, received) /\ \A e : Holds(q, e) => Holds(pr, e)
    BY Zenon, <2>2, <2>4 DEF KeysOK, SlotsApart, NonceBelow, Remembered, Holds
  <2>6. QED
    BY Zenon, <2>1, <2>3, <2>5 DEF q, o
<1>3. CASE pr.send # None /\ ~ expired(pr.send)
  <2> DEFINE snd == [pr.send EXCEPT !.nonce = @ + Len(pkts)]
  <2>1. q = [pr EXCEPT !.send = snd] /\ o = encrypt(pr.send, pkts)
    BY Zenon, <1>3 DEF encrypt_or_queue, Encrypted, CanTransmit
  <2>2. pr.send \in TransmitSessions /\ pr.recv # None
    BY Zenon, <1>0, <1>3 DEF Peers, Option, SessionShape
  <2>3. snd.key = pr.send.key /\ snd.nonce = pr.send.nonce + Len(pkts)
    BY Zenon, <2>2 DEF TransmitSessions
  <2> HIDE DEF q, o, snd
  <2>4. q.recv = pr.recv /\ q.prev = pr.prev /\ q.send = snd /\ q.hs = pr.hs
    BY Zenon, <1>0, <2>1 DEF Peers
  <2>5. \A e : InHandshake(q, e) <=> InHandshake(pr, e)
    BY Zenon, <2>4 DEF InHandshake
  <2>6. \A m \in data : m.ctr \in Nat
              /\ (SendEph(m.key) = SendEph(pr.send.key) => m.ctr < pr.send.nonce)
    BY Zenon, <1>3 DEF KeysOK, NonceBelow
  <2>7. /\ Distinct(data \cup o)
        /\ \A m \in o : m.type = "data" /\ m.key = pr.send.key /\ m.ctr \in Nat
        /\ \A m \in data \cup o :
              SendEph(m.key) = SendEph(pr.send.key) => m.ctr < pr.send.nonce + Len(pkts)
    BY Zenon, <2>1, <2>2, <2>6, EncryptFresh
  <2>8. SendEph(pr.send.key) = ReceiveEph(pr.recv.key)
    BY Zenon, <2>2 DEF KeysOK, SlotsApart
  <2>9. \A m \in o : Holds(pr, SendEph(m.key)) /\ ~ InHandshake(pr, SendEph(m.key))
    BY Zenon, <2>2, <2>7, <2>8 DEF KeysOK, SlotsApart, Holds
  <2>10. \A m \in data \cup o : NonceBelow(q, m)
    BY Zenon, <2>3, <2>4, <2>5, <2>7, <2>9 DEF KeysOK, NonceBelow
  <2>11. SlotsApart(q) /\ \A m \in received : Remembered(q, m)
    BY Zenon, <2>3, <2>4, <2>5 DEF KeysOK, SlotsApart, Remembered
  <2>12. \A e : Holds(q, e) => Holds(pr, e)
    BY Zenon, <2>4, <2>5 DEF Holds
  <2>13. QED
    BY Zenon, <2>7, <2>9, <2>10, <2>11, <2>12 DEF KeysOK, q, o
<1>4. QED
  BY Zenon, <1>1, <1>2, <1>3

(* A session no key of which is in use, and what follows for the keys of a *)
(* peer when it becomes current.                                           *)
Unused(pr, r, s, data, received) ==
    /\ pr.hs = NoHandshake /\ r \in ReceiveSessions /\ s \in TransmitSessions /\ s.nonce = 0
    /\ SendEph(s.key) = ReceiveEph(r.key) /\ ~ Holds(pr, ReceiveEph(r.key))
    /\ \A m \in data : m.ctr \in Nat /\ SendEph(m.key) # SendEph(s.key)
    /\ \A m \in received : ReceiveEph(m.key) = ReceiveEph(r.key) => m.ctr \in r.seen
Activated(pr, q, o, r, s, data, received) ==
    /\ KeysOK(q, data \cup o, received) /\ Distinct(data \cup o)
    /\ \A e : Holds(q, e) => Holds(pr, e) \/ e = ReceiveEph(r.key)
    /\ \A m \in o : m.type = "data" /\ m.ctr \in Nat /\ m.key = s.key

(* SessionState::activate puts an unused session in the current slot and   *)
(* the current one in the previous slot.                                   *)
LEMMA ActivateKeys ==
    ASSUME NEW pr, PeerOK(pr, now), NEW r, NEW s, NEW data, NEW received,
           Unused(pr, r, s, data, received), KeysOK(pr, data, received), Distinct(data)
    PROVE  Activated(pr, activate(pr, r, s), ActivateSends(pr, s), r, s, data, received)
<1> SUFFICES ASSUME pr.hs = NoHandshake, r \in ReceiveSessions, s \in TransmitSessions, s.nonce = 0,
                    SendEph(s.key) = ReceiveEph(r.key), ~ Holds(pr, ReceiveEph(r.key)),
                    \A m \in data : m.ctr \in Nat /\ SendEph(m.key) # SendEph(s.key),
                    \A m \in received : ReceiveEph(m.key) = ReceiveEph(r.key) => m.ctr \in r.seen
             PROVE  Activated(pr, activate(pr, r, s), ActivateSends(pr, s), r, s, data, received)
  BY Zenon DEF Unused
<1> DEFINE q == activate(pr, r, s)
           o == ActivateSends(pr, s)
           started == [s EXCEPT !.nonce = Len(pr.queue)]
<1>0. /\ pr \in Peers /\ r # None /\ s # None /\ pr.queue \in Seq(Packets)
      /\ pr.recv = None => pr.prev = None
  BY Zenon, NoneAssumption DEF PeerOK, Peers, SessionShape
<1>1. started.key = s.key /\ started.nonce = Len(pr.queue) /\ Len(pr.queue) \in Nat
  BY Zenon, <1>0, LenProperties DEF TransmitSessions
<1>2. /\ Distinct(data \cup encrypt(s, pr.queue))
      /\ \A m \in encrypt(s, pr.queue) : m.type = "data" /\ m.key = s.key /\ m.ctr \in Nat
      /\ \A m \in data \cup encrypt(s, pr.queue) :
            SendEph(m.key) = SendEph(s.key) => m.ctr < s.nonce + Len(pr.queue)
  BY Zenon, <1>0, EncryptFresh
<1>3. s.nonce + Len(pr.queue) = Len(pr.queue)
  BY <1>1
<1>4. /\ q.recv = r /\ q.prev = pr.recv /\ q.hs = pr.hs /\ q.send.key = s.key
      /\ Distinct(data \cup o)
      /\ \A m \in o : m.type = "data" /\ m.key = s.key /\ m.ctr \in Nat
      /\ \A m \in data \cup o : SendEph(m.key) = SendEph(s.key) => m.ctr < q.send.nonce
  <2>1. CASE pr.recv = None
    <3>1. /\ q = [pr EXCEPT !.recv = r, !.send = started, !.queue = <<>>]
          /\ o = encrypt(s, pr.queue)
      BY Zenon, <2>1 DEF activate, ActivateSends
    <3> HIDE DEF q, o, started
    <3>2. q.recv = r /\ q.prev = pr.recv /\ q.hs = pr.hs /\ q.send = started
      BY Zenon, <1>0, <2>1, <3>1 DEF Peers
    <3>3. QED
      BY Zenon, <1>1, <1>2, <1>3, <3>1, <3>2
  <2>2. CASE pr.recv # None
    <3>1. q = [pr EXCEPT !.prev = pr.recv, !.recv = r, !.send = s] /\ o = {}
      BY Zenon, <2>2 DEF activate, ActivateSends
    <3> HIDE DEF q, o
    <3>2. q.recv = r /\ q.prev = pr.recv /\ q.hs = pr.hs /\ q.send = s
      BY Zenon, <1>0, <3>1 DEF Peers
    <3>3. QED
      BY Zenon, <3>1, <3>2
  <2>3. QED
    BY Zenon, <2>1, <2>2
<1> HIDE DEF q, o
<1>5. q.hs.st # "initiated" /\ q.hs.st # "responded"
  BY <1>4 DEF NoHandshake
<1>6. \A e : ~ InHandshake(q, e)
  BY Zenon, <1>5 DEF InHandshake
<1>7. pr.recv # None => Holds(pr, ReceiveEph(pr.recv.key))
  BY Zenon DEF Holds
<1>8. SlotsApart(q)
  BY Zenon, <1>4, <1>5, <1>6, <1>7 DEF SlotsApart
<1>9. \A m \in data \cup o : NonceBelow(q, m)
  BY Zenon, <1>4, <1>6 DEF NonceBelow
<1>10. \A m \in received : Remembered(q, m)
  BY Zenon, <1>4, <1>6 DEF KeysOK, Remembered
<1>11. \A e : Holds(q, e) => Holds(pr, e) \/ e = ReceiveEph(r.key)
  BY Zenon, <1>4, <1>6 DEF Holds
<1>12. QED
  BY Zenon, <1>4, <1>8, <1>9, <1>10, <1>11 DEF KeysOK, Activated, q, o

(* Peer q is pr with a new handshake, whose ephemeral is in no other use.  *)
Begins(pr, q, eph, data, received) ==
    /\ q.recv = pr.recv /\ q.prev = pr.prev /\ q.send = pr.send
    /\ \A e : InHandshake(q, e) <=> e = eph
    /\ q.hs.st = "responded" => /\ SendEph(q.hs.send.key) = ReceiveEph(q.hs.recv.key)
                                /\ q.hs.send.nonce = 0
    /\ ~ Holds(pr, eph)
    /\ \A m \in data : SendEph(m.key) # eph
    /\ \A m \in received : ReceiveEph(m.key) # eph

(* A handshake with an ephemeral that was never used may begin at any time, *)
(* in place of whatever handshake there was.                                *)
LEMMA BeginKeys ==
    ASSUME NEW pr, NEW q, NEW eph, NEW data, NEW received,
           Begins(pr, q, eph, data, received), KeysOK(pr, data, received)
    PROVE  /\ KeysOK(q, data, received)
           /\ \A e : Holds(q, e) => Holds(pr, e) \/ e = eph
<1> SUFFICES ASSUME q.recv = pr.recv, q.prev = pr.prev, q.send = pr.send,
                    \A e : InHandshake(q, e) <=> e = eph,
                    q.hs.st = "responded" => /\ SendEph(q.hs.send.key) = ReceiveEph(q.hs.recv.key)
                                             /\ q.hs.send.nonce = 0,
                    ~ Holds(pr, eph),
                    \A m \in data : SendEph(m.key) # eph,
                    \A m \in received : ReceiveEph(m.key) # eph
             PROVE  /\ KeysOK(q, data, received)
                    /\ \A e : Holds(q, e) => Holds(pr, e) \/ e = eph
  BY Zenon DEF Begins
<1>1. SlotsApart(q)
  BY Zenon DEF KeysOK, SlotsApart, Holds
<1>2. (\A m \in data : NonceBelow(q, m)) /\ (\A m \in received : Remembered(q, m))
  BY Zenon DEF KeysOK, NonceBelow, Remembered
<1>3. \A e : Holds(q, e) => Holds(pr, e) \/ e = eph
  BY Zenon DEF Holds
<1>4. QED
  BY Zenon, <1>1, <1>2, <1>3 DEF KeysOK

(* Accepting datagram m on the current or the previous session: it was not *)
(* delivered before, and it is remembered from then on.                    *)
LEMMA ReadKeys ==
    ASSUME NEW pr, NEW q, NEW data, NEW received, KeysOK(pr, data, received), NEW m,
           pr.recv # None, q.recv # None, q.send = pr.send, q.hs = pr.hs,
           \/ /\ m.key = pr.recv.key /\ m.ctr \notin pr.recv.seen
              /\ q.recv.key = pr.recv.key /\ q.recv.seen = pr.recv.seen \cup {m.ctr}
              /\ q.prev = pr.prev
           \/ /\ pr.prev # None /\ m.key = pr.prev.key /\ m.ctr \notin pr.prev.seen
              /\ q.prev # None /\ q.prev.key = pr.prev.key
              /\ q.prev.seen = pr.prev.seen \cup {m.ctr}
              /\ q.recv = pr.recv
    PROVE  /\ m \notin received
           /\ KeysOK(q, data, received \cup {m})
           /\ \A e : Holds(q, e) => Holds(pr, e)
           /\ Holds(pr, ReceiveEph(m.key))
<1>1. \A e : InHandshake(q, e) <=> InHandshake(pr, e)
  BY Zenon DEF InHandshake
<1>2. m \notin received
  BY Zenon DEF KeysOK, Remembered
<1>3. SlotsApart(q) /\ \A a \in data : NonceBelow(q, a)
  BY Zenon, <1>1 DEF KeysOK, SlotsApart, NonceBelow
<1>4. \A a \in received : Remembered(q, a)
  BY Zenon, <1>1 DEF KeysOK, Remembered
<1>5. Remembered(q, m)
  BY Zenon, <1>1 DEF KeysOK, SlotsApart, Remembered
<1>6. (\A e : Holds(q, e) => Holds(pr, e)) /\ Holds(pr, ReceiveEph(m.key))
  BY Zenon, <1>1 DEF Holds
<1>7. QED
  BY Zenon, <1>2, <1>3, <1>4, <1>5, <1>6 DEF KeysOK

-----------------------------------------------------------------------------
(* One lemma per operation.                                                *)

(* What the invariant says of one peer. *)
LEMMA KeysOf ==
    ASSUME IInv, KInv, NEW p \in PeerIds, peers[p] # None
    PROVE  /\ PeerOK(peers[p], now) /\ now \in Nat /\ ephs \in Nat
           /\ KeysOK(peers[p], SentData, delivered) /\ Distinct(SentData)
           /\ \A e : Holds(peers[p], e) => e \in Generated
           /\ \A m \in SentData : m.ctr \in Nat /\ SendEph(m.key) \in Generated
           /\ \A m \in delivered : ReceiveEph(m.key) \in Generated
           /\ ~ replayed
BY Zenon, HeldInHolds DEF IInv, TypeOK, PeersOK, KInv, NoReplay

(* Sending o under the keys that the peer had before keeps them in order.  *)
SendsOwn(old, pr, o) ==
    /\ KeysOK(pr, SentData \cup o, delivered) /\ Distinct(SentData \cup o)
    /\ \A e : Holds(pr, e) => Holds(old, e)
    /\ \A m \in o : m.type = "data" /\ m.ctr \in Nat /\ Holds(old, SendEph(m.key))

(* Peer::start_handshake preserves the invariant. *)
LEMMA StartHandshakeKeys ==
    ASSUME IInv, KInv, NEW p \in PeerIds, peers[p] # None, NEW pr, pr \in Peers,
           NEW sess, NEW evs, NEW o, start_handshake(p, pr, sess, evs, o), NoDelivery,
           SendsOwn(peers[p], pr, o)
    PROVE  KInv'
<1> SUFFICES ASSUME KeysOK(pr, SentData \cup o, delivered), Distinct(SentData \cup o),
                    \A e : Holds(pr, e) => Holds(peers[p], e),
                    \A m \in o : /\ m.type = "data" /\ m.ctr \in Nat
                                 /\ Holds(peers[p], SendEph(m.key))
             PROVE  KInv'
  BY Zenon DEF SendsOwn
<1>1. PICK id \in allocate_session(sess) :
        /\ sent' = sent \cup o \cup {HandshakeInitiation(pr, id)}
        /\ peers' = [peers EXCEPT ![p] = [pr EXCEPT
                !.hs = Initiated(id, OwnEphemeral, pr.key, NewEvent(evs))]]
  BY Zenon DEF start_handshake
<1> DEFINE hs == Initiated(id, OwnEphemeral, pr.key, NewEvent(evs))
           new == [pr EXCEPT !.hs = hs]
<1>2. ephs' = ephs + 1 /\ delivered' = delivered /\ replayed' = replayed
  BY Zenon DEF start_handshake, NoDelivery
<1>3. SentData' = SentData \cup o
  <2>1. HandshakeInitiation(pr, id).type # "data"
    BY DEF HandshakeInitiation
  <2>2. QED
    BY Zenon, <1>1, <2>1 DEF SentData
<1>4. hs.st = "initiated" /\ hs.eph = OwnEphemeral
  BY Zenon DEF Initiated
<1> HIDE DEF hs
<1>5. new.hs = hs /\ new.recv = pr.recv /\ new.prev = pr.prev /\ new.send = pr.send
  BY Zenon DEF Peers
<1> HIDE DEF new
<1>6. \A e : InHandshake(new, e) <=> e = OwnEphemeral
  BY <1>4, <1>5 DEF InHandshake
<1>7. new.hs.st # "responded"
  BY <1>4, <1>5
<1>8. OwnEphemeral \notin Generated
  BY Zenon, <1>2, KeysOf, OwnEphemeralFresh
<1>9. /\ ~ Holds(pr, OwnEphemeral)
      /\ \A m \in SentData \cup o : SendEph(m.key) # OwnEphemeral
      /\ \A m \in delivered : ReceiveEph(m.key) # OwnEphemeral
      /\ ~ replayed
  BY Zenon, <1>8, KeysOf
<1>10. /\ KeysOK(new, SentData \cup o, delivered)
       /\ \A e : Holds(new, e) => Holds(pr, e) \/ e = OwnEphemeral
  <2>1. Begins(pr, new, OwnEphemeral, SentData \cup o, delivered)
    BY Zenon, <1>5, <1>6, <1>7, <1>9 DEF Begins
  <2>2. QED
    BY ZenonT(40), <2>1, BeginKeys
<1>11. peers' = [peers EXCEPT ![p] = new] /\ NoReplay'
  BY Zenon, <1>1, <1>2, <1>9 DEF new, hs, NoReplay
<1>12. QED
  BY Zenon, <1>2, <1>3, <1>10, <1>11, KeepKeys

(* Endpoint::send preserves the invariant. *)
LEMMA SendKeys ==
    ASSUME IInv, KInv, NEW p \in PeerIds, NEW pkts \in Batches, send(p, pkts)
    PROVE  KInv'
<1> DEFINE old == peers[p]
           pr == encrypt_or_queue(old, pkts)
           o == Encrypted(old, pkts)
<1>1. /\ old # None /\ NoDelivery
      /\ IF pr.hs.st = "none" /\ needs_rotation(pr)
         THEN start_handshake(p, pr, sessions, events, o)
         ELSE /\ peers' = [peers EXCEPT ![p] = pr]
              /\ sent' = sent \cup o
              /\ NoHandshakeMade
  BY Zenon DEF send
<1>2. pkts \in Seq(Packets) /\ pkts \in Seq(Packets \cup {Empty})
  BY EndpointAssumption DEF Batches
<1>3. /\ PeerOK(old, now) /\ now \in Nat /\ KeysOK(old, SentData, delivered)
      /\ Distinct(SentData) /\ ~ replayed /\ \A m \in SentData : m.ctr \in Nat
  BY Zenon, <1>1, KeysOf
<1>4. pr \in Peers
  BY Zenon, <1>2, <1>3, EncryptOrQueueOK DEF PeerOK
<1>5. /\ KeysOK(pr, SentData \cup o, delivered) /\ Distinct(SentData \cup o)
      /\ \A e : Holds(pr, e) => Holds(old, e)
      /\ \A m \in o : m.type = "data" /\ m.ctr \in Nat /\ Holds(old, SendEph(m.key))
  BY Zenon, <1>2, <1>3, EncryptKeys
<1> HIDE DEF pr, o
<1>6. CASE pr.hs.st = "none" /\ needs_rotation(pr)
  <2>1. start_handshake(p, pr, sessions, events, o)
    BY Zenon, <1>1, <1>6
  <2>2. QED
    BY Zenon, <1>1, <1>4, <1>5, <2>1, StartHandshakeKeys DEF SendsOwn
<1>7. CASE ~ (pr.hs.st = "none" /\ needs_rotation(pr))
  <2>1. /\ peers' = [peers EXCEPT ![p] = pr] /\ sent' = sent \cup o
        /\ ephs' = ephs /\ delivered' = delivered /\ replayed' = replayed
    BY Zenon, <1>1, <1>7 DEF NoHandshakeMade, NoDelivery
  <2>2. SentData' = SentData \cup o
    BY Zenon, <1>5, <2>1 DEF SentData
  <2>3. NoReplay'
    BY Zenon, <1>3, <2>1 DEF NoReplay
  <2>4. QED
    BY Zenon, <1>1, <1>5, <2>1, <2>2, <2>3, KeepKeys
<1>8. QED
  BY Zenon, <1>6, <1>7

(* Nothing the invariant speaks of changes: a panic, the passage of time, a *)
(* timer without effect.                                                    *)
LEMMA StillKeys ==
    ASSUME KInv, UNCHANGED <<peers, ephs, sent, delivered, replayed>>
    PROVE  KInv'
<1>1. Generated' = Generated /\ SentData' = SentData /\ NoReplay' = NoReplay
  BY Zenon DEF Generated, SentData, NoReplay
<1>2. QED
  BY Zenon, <1>1 DEF KInv

(* A call for p that sends nothing, delivers nothing and generates no      *)
(* ephemeral preserves the invariant when p holds its keys in order.       *)
LEMMA SilentKeys ==
    ASSUME IInv, KInv, NEW p \in PeerIds, peers[p] # None, NEW new,
           peers' = [peers EXCEPT ![p] = new],
           UNCHANGED <<ephs, sent, delivered, replayed>>,
           KeysOK(new, SentData, delivered),
           \A e : Holds(new, e) => Holds(peers[p], e)
    PROVE  KInv'
<1>1. SentData' = SentData /\ NoReplay' /\ Distinct(SentData)
  BY Zenon DEF SentData, NoReplay, KInv
<1>2. QED
  BY Zenon, <1>1, KeepKeys

(* Endpoint::process_one_handshake preserves the invariant. *)
LEMMA RespondKeys ==
    ASSUME IInv, KInv, NEW m \in Initiations, process_one_handshake(m)
    PROVE  KInv'
<1> DEFINE p == nodeKeys[m.from]
           pr == peers[p]
<1>1. /\ p # None /\ pr # None /\ ephs' = ephs + 1
      /\ delivered' = delivered /\ replayed' = replayed
  BY Zenon DEF process_one_handshake, NoDelivery
<1>2. PICK id \in allocate_session(sessions) :
        /\ sent' = sent \cup {HandshakeResponse(pr, m, id)}
        /\ peers' = [peers EXCEPT ![p] = [pr EXCEPT
              !.lastSeen = m.ts,
              !.hs = Responded(
                  ReceiveSession(id, SessionKey(m.eph, OwnEphemeral, pr.psk, "i")),
                  TransmitSession(m.sid, SessionKey(m.eph, OwnEphemeral, pr.psk, "r")))]]
  BY Zenon DEF process_one_handshake
<1> DEFINE r == ReceiveSession(id, SessionKey(m.eph, OwnEphemeral, pr.psk, "i"))
           s == TransmitSession(m.sid, SessionKey(m.eph, OwnEphemeral, pr.psk, "r"))
           hs == Responded(r, s)
           new == [pr EXCEPT !.lastSeen = m.ts, !.hs = hs]
<1>3. m.from \in Keys
  BY Zenon DEF Initiations
<1>4. p \in PeerIds
  BY Zenon, <1>1, <1>3 DEF IInv, TypeOK, Option
<1>5. /\ PeerOK(pr, now) /\ ephs \in Nat /\ KeysOK(pr, SentData, delivered)
      /\ Distinct(SentData) /\ ~ replayed
      /\ \A e : Holds(pr, e) => e \in Generated
      /\ \A a \in SentData : SendEph(a.key) \in Generated
      /\ \A a \in delivered : ReceiveEph(a.key) \in Generated
  BY Zenon, <1>1, <1>4, KeysOf
<1>6. pr \in Peers
  BY Zenon, <1>5 DEF PeerOK
<1>7. /\ ReceiveEph(r.key) = OwnEphemeral /\ SendEph(s.key) = OwnEphemeral /\ s.nonce = 0
  BY DEF ReceiveEph, SendEph, ReceiveSession, TransmitSession, SessionKey
<1> HIDE DEF r, s
<1>8. hs.st = "responded" /\ hs.recv = r /\ hs.send = s
  BY Zenon DEF Responded
<1> HIDE DEF hs
<1>9. new.hs = hs /\ new.recv = pr.recv /\ new.prev = pr.prev /\ new.send = pr.send
  BY Zenon, <1>6 DEF Peers
<1> HIDE DEF new
<1>10. \A e : InHandshake(new, e) <=> e = OwnEphemeral
  BY <1>7, <1>8, <1>9 DEF InHandshake
<1>11. OwnEphemeral \notin Generated
  BY Zenon, <1>1, <1>5, OwnEphemeralFresh
<1>12. /\ SendEph(new.hs.send.key) = ReceiveEph(new.hs.recv.key)
       /\ new.hs.send.nonce = 0
  BY Zenon, <1>7, <1>8, <1>9
<1>13. /\ ~ Holds(pr, OwnEphemeral)
       /\ \A a \in SentData : SendEph(a.key) # OwnEphemeral
       /\ \A a \in delivered : ReceiveEph(a.key) # OwnEphemeral
  BY Zenon, <1>5, <1>11
<1>14. /\ KeysOK(new, SentData, delivered)
       /\ \A e : Holds(new, e) => Holds(pr, e) \/ e = OwnEphemeral
  <2>1. Begins(pr, new, OwnEphemeral, SentData, delivered)
    BY Zenon, <1>9, <1>10, <1>12, <1>13 DEF Begins
  <2>2. QED
    BY ZenonT(40), <1>5, <2>1, BeginKeys
<1>15. SentData' = SentData
  <2>1. HandshakeResponse(pr, m, id).type # "data"
    BY DEF HandshakeResponse
  <2>2. QED
    BY Zenon, <1>2, <2>1 DEF SentData
<1>16. peers' = [peers EXCEPT ![p] = new] /\ NoReplay'
  BY Zenon, <1>1, <1>2, <1>5 DEF new, hs, r, s, NoReplay
<1>17. QED
  BY Zenon, <1>1, <1>4, <1>5, <1>14, <1>15, <1>16, KeepKeys

(* Peer::recv_handshake_response preserves the invariant: the ephemeral of *)
(* the initiation becomes that of the current session.                     *)
LEMMA FinishKeys ==
    ASSUME IInv, KInv, NEW p \in PeerIds, peers[p] # None, NEW m \in Responses,
           recv_handshake_response(p, m)
    PROVE  KInv'
<1> DEFINE old == peers[p]
           hs == old.hs
           pr == [old EXCEPT !.hs = NoHandshake]
           r == ReceiveSession(hs.id, SessionKey(m.ini, m.rsp, pr.psk, "r"))
           s == TransmitSession(m.sid, SessionKey(m.ini, m.rsp, pr.psk, "i"))
           act == activate(pr, r, s)
           flushed == ActivateSends(pr, s)
           new == IF flushed = {} THEN encrypt_or_queue(act, <<Empty>>) ELSE act
           o == IF flushed = {} THEN Encrypted(act, <<Empty>>) ELSE flushed
<1>1. /\ hs.st = "initiated" /\ NoHandshakeMade /\ NoDelivery
      /\ IF ~ CanFinish(old, m)
         THEN peers' = [peers EXCEPT ![p] = pr] /\ UNCHANGED sent
         ELSE IF RemovePanics(ActivateReleases(pr))
         THEN Panic
         ELSE peers' = [peers EXCEPT ![p] = new] /\ sent' = sent \cup o
  BY Zenon DEF recv_handshake_response
<1>2. /\ PeerOK(old, now) /\ now \in Nat /\ KeysOK(old, SentData, delivered)
      /\ Distinct(SentData) /\ ~ replayed /\ \A a \in SentData : a.ctr \in Nat
  BY Zenon, KeysOf
<1>3. /\ PeerOK(pr, now) /\ pr.hs = NoHandshake /\ pr.psk = old.psk
      /\ pr.recv = old.recv /\ pr.prev = old.prev /\ pr.send = old.send
  BY Zenon, <1>2, DropHandshakeOK
<1> HIDE DEF pr
<1>4. /\ KeysOK(pr, SentData, delivered)
      /\ \A e : Holds(pr, e) => Holds(old, e) /\ ~ InHandshake(old, e)
  BY Zenon, <1>2, <1>3, DropKeys
<1>5. CASE ~ CanFinish(old, m)
  <2>1. peers' = [peers EXCEPT ![p] = pr] /\ UNCHANGED <<ephs, sent, delivered, replayed>>
    BY Zenon, <1>1, <1>5 DEF NoHandshakeMade, NoDelivery
  <2>2. QED
    BY Zenon, <1>4, <2>1, SilentKeys
<1>6. CASE CanFinish(old, m) /\ RemovePanics(ActivateReleases(pr))
  BY Zenon, <1>1, <1>6, StillKeys DEF Panic
<1>7. CASE CanFinish(old, m) /\ ~ RemovePanics(ActivateReleases(pr))
  <2>1. /\ peers' = [peers EXCEPT ![p] = new] /\ sent' = sent \cup o
        /\ ephs' = ephs /\ delivered' = delivered /\ replayed' = replayed
    BY Zenon, <1>1, <1>7 DEF NoHandshakeMade, NoDelivery
  <2>2. m.ini = hs.eph
    BY Zenon, <1>7 DEF CanFinish
  <2>3. /\ ReceiveEph(r.key) = hs.eph /\ SendEph(s.key) = hs.eph /\ s.nonce = 0
        /\ r.created = now /\ s.created = now
    BY <2>2 DEF ReceiveEph, SendEph, ReceiveSession, TransmitSession, SessionKey
  <2>4. r \in ReceiveSessions /\ s \in TransmitSessions
    <3>1. /\ m.ini \in OwnEphemerals /\ m.rsp \in RemoteEphs /\ m.sid \in RemoteIds
      BY Zenon DEF Responses
    <3>2. old \in Peers /\ pr.psk \in Psks
      BY Zenon, <1>2, <1>3 DEF PeerOK, Peers
    <3>3. hs.id \in SessionIds
      BY <1>1, <3>2 DEF Peers, Handshakes, NoHandshake
    <3>4. QED
      BY Zenon, <1>2, <3>1, <3>2, <3>3
         DEF ReceiveSession, TransmitSession, SessionKey, ReceiveSessions, TransmitSessions,
             SessionKeys
  <2> HIDE DEF r, s
  <2>5. InHandshake(old, hs.eph)
    BY Zenon, <1>1 DEF InHandshake
  <2>6. /\ ~ Holds(pr, hs.eph) /\ Holds(old, hs.eph)
        /\ \A a \in SentData : SendEph(a.key) # hs.eph
        /\ \A a \in delivered : ReceiveEph(a.key) # hs.eph
    BY Zenon, <1>2, <1>4, <2>5 DEF KeysOK, NonceBelow, Remembered, Holds
  <2>7. /\ KeysOK(act, SentData \cup flushed, delivered) /\ Distinct(SentData \cup flushed)
        /\ \A e : Holds(act, e) => Holds(pr, e) \/ e = ReceiveEph(r.key)
        /\ \A a \in flushed : a.type = "data" /\ a.ctr \in Nat /\ a.key = s.key
    <3>1. \A a \in SentData : a.ctr \in Nat /\ SendEph(a.key) # SendEph(s.key)
      BY Zenon, <1>2, <2>3, <2>6
    <3>2. \A a \in delivered : ReceiveEph(a.key) = ReceiveEph(r.key) => a.ctr \in r.seen
      BY Zenon, <2>3, <2>6
    <3>3. SendEph(s.key) = ReceiveEph(r.key) /\ ~ Holds(pr, ReceiveEph(r.key))
      BY Zenon, <2>3, <2>6
    <3>4. QED
      <4>1. Unused(pr, r, s, SentData, delivered)
        BY Zenon, <1>3, <2>3, <2>4, <3>1, <3>2, <3>3 DEF Unused
      <4>2. Activated(pr, act, flushed, r, s, SentData, delivered)
        BY ZenonT(40), <1>2, <1>3, <1>4, <4>1, ActivateKeys
      <4> HIDE DEF act, flushed
      <4>3. QED
        BY Zenon, <4>2 DEF Activated
  <2>8. PeerOK(act, now)
    <3>1. now <= now
      BY <1>2
    <3>2. pr.recv # None => pr.recv.created <= now
      BY Zenon, <1>3 DEF PeerOK, Ages
    <3>3. QED
      BY <1>2, <1>3, <2>3, <2>4, <3>1, <3>2, ActivateOK
  <2> HIDE DEF act, flushed
  <2>9. \A e : Holds(act, e) => Holds(old, e)
    BY Zenon, <1>4, <2>3, <2>6, <2>7
  <2>10. /\ KeysOK(new, SentData \cup o, delivered) /\ Distinct(SentData \cup o)
         /\ \A e : Holds(new, e) => Holds(old, e)
         /\ \A a \in o : a.type = "data" /\ a.ctr \in Nat /\ Holds(old, SendEph(a.key))
    <3>1. CASE flushed = {}
      <4>1. SentData \cup flushed = SentData /\ <<Empty>> \in Seq(Packets \cup {Empty})
        BY <3>1
      <4>2. KeysOK(act, SentData, delivered)
        BY Zenon, <2>7, <4>1
      <4>3. /\ KeysOK(encrypt_or_queue(act, <<Empty>>),
                      SentData \cup Encrypted(act, <<Empty>>), delivered)
            /\ Distinct(SentData \cup Encrypted(act, <<Empty>>))
            /\ \A e : Holds(encrypt_or_queue(act, <<Empty>>), e) => Holds(act, e)
            /\ \A a \in Encrypted(act, <<Empty>>) :
                 a.type = "data" /\ a.ctr \in Nat /\ Holds(act, SendEph(a.key))
        BY Zenon, <1>2, <2>8, <4>1, <4>2, EncryptKeys
      <4>4. new = encrypt_or_queue(act, <<Empty>>) /\ o = Encrypted(act, <<Empty>>)
        BY Zenon, <3>1
      <4> HIDE DEF new, o
      <4>5. QED
        BY Zenon, <2>9, <4>3, <4>4
    <3>2. CASE flushed # {}
      <4>1. new = act /\ o = flushed
        BY Zenon, <3>2
      <4> HIDE DEF new, o
      <4>2. QED
        BY Zenon, <2>3, <2>6, <2>7, <2>9, <4>1
    <3>3. QED
      BY Zenon, <3>1, <3>2
  <2> HIDE DEF new, o
  <2>11. SentData' = SentData \cup o
    BY Zenon, <2>1, <2>10 DEF SentData
  <2>12. NoReplay'
    BY Zenon, <1>2, <2>1 DEF NoReplay
  <2>13. QED
    BY Zenon, <2>1, <2>10, <2>11, <2>12, KeepKeys
<1>8. QED
  BY Zenon, <1>5, <1>6, <1>7

(* Peer::recv_cookie_reply preserves the invariant. *)
LEMMA CookieReplyKeys ==
    ASSUME IInv, KInv, NEW p \in PeerIds, peers[p] # None, NEW m, recv_cookie_reply(p, m)
    PROVE  KInv'
<1> DEFINE old == peers[p]
           new == [old EXCEPT !.cookie = now + COOKIE_ROTATION_TIME]
<1>1. PeerOK(old, now) /\ KeysOK(old, SentData, delivered) /\ peers \in [PeerIds -> Option(Peers)]
  BY Zenon, KeysOf DEF IInv, TypeOK
<1>2. peers' = [peers EXCEPT ![p] = new] /\ UNCHANGED <<ephs, sent, delivered, replayed>>
  BY Zenon, <1>1 DEF recv_cookie_reply, NoHandshakeMade, NoDelivery
<1>3. new.hs = old.hs /\ new.recv = old.recv /\ new.prev = old.prev /\ new.send = old.send
  BY Zenon, <1>1 DEF PeerOK, Peers
<1> HIDE DEF new
<1>4. KeysOK(new, SentData, delivered) /\ \A e : Holds(new, e) => Holds(old, e)
  BY Zenon, <1>1, <1>3, SameKeys
<1>5. QED
  BY Zenon, <1>2, <1>4, SilentKeys

(* Peer::recv_transport_data on an established session preserves the       *)
(* invariant.                                                              *)
LEMMA RecvOnSessionKeys ==
    ASSUME IInv, KInv, NEW p \in PeerIds, peers[p] # None, NEW m \in TransportData,
           NEW which \in {"recv", "prev"}, RecvOnSession(p, m, which)
    PROVE  KInv'
<1> DEFINE old == peers[p]
           read == IF which = "recv" THEN [old EXCEPT !.recv.seen = @ \cup {m.ctr}]
                                     ELSE [old EXCEPT !.prev.seen = @ \cup {m.ctr}]
           new == schedule_keepalive(read)
<1>1. /\ PeerOK(old, now) /\ KeysOK(old, SentData, delivered) /\ Distinct(SentData)
      /\ ~ replayed
  BY Zenon, KeysOf
<1>2. /\ get_recv(old, m.rid) = which
      /\ Decrypts(IF which = "recv" THEN old.recv ELSE old.prev, m)
      /\ peers' = [peers EXCEPT ![p] = new]
      /\ delivered' = delivered \cup {m} /\ replayed' = (replayed \/ m \in delivered)
      /\ ephs' = ephs /\ sent' = sent
  BY Zenon DEF RecvOnSession, NoHandshakeMade, Deliver
<1>3. m.ctr \in Nat /\ old \in Peers /\ old.recv # None
  <2>1. old.recv # None
    BY <1>2 DEF get_recv
  <2>2. QED
    BY Zenon, <1>1, <2>1, EndpointAssumption DEF TransportData, PeerOK
<1>4. /\ new.recv = read.recv /\ new.prev = read.prev /\ new.send = read.send
      /\ new.hs = read.hs
      /\ read.recv # None /\ read.send = old.send /\ read.hs = old.hs
      /\ \/ /\ m.key = old.recv.key /\ m.ctr \notin old.recv.seen
            /\ read.recv.key = old.recv.key /\ read.recv.seen = old.recv.seen \cup {m.ctr}
            /\ read.prev = old.prev
         \/ /\ old.prev # None /\ m.key = old.prev.key /\ m.ctr \notin old.prev.seen
            /\ read.prev # None /\ read.prev.key = old.prev.key
            /\ read.prev.seen = old.prev.seen \cup {m.ctr}
            /\ read.recv = old.recv
  <2>1. CASE which = "recv"
    <3> DEFINE x == [old.recv EXCEPT !.seen = @ \cup {m.ctr}]
    <3>1. old.recv \in ReceiveSessions
      BY Zenon, <1>3 DEF Peers, Option
    <3>2. x \in ReceiveSessions /\ x.key = old.recv.key /\ x.seen = old.recv.seen \cup {m.ctr}
          /\ x # None
      BY Zenon, <1>3, <3>1, SeenOK
    <3>3. read = [old EXCEPT !.recv = x]
      BY Zenon, <1>3, <2>1
    <3>4. m.key = old.recv.key /\ m.ctr \notin old.recv.seen
      BY Zenon, <1>2, <2>1 DEF Decrypts, Fresh
    <3> HIDE DEF x, read
    <3>5. /\ read \in Peers /\ read.recv = x /\ read.prev = old.prev /\ read.send = old.send
          /\ read.hs = old.hs
      BY Zenon, <1>3, <3>2, <3>3 DEF Peers, Option
    <3>6. /\ new.recv = read.recv /\ new.prev = read.prev /\ new.send = read.send
          /\ new.hs = read.hs
      BY Zenon, <3>5 DEF schedule_keepalive, Peers
    <3>7. QED
      BY Zenon, <3>2, <3>4, <3>5, <3>6
  <2>2. CASE which = "prev"
    <3> DEFINE x == [old.prev EXCEPT !.seen = @ \cup {m.ctr}]
    <3>0. old.prev # None
      BY Zenon, <1>2, <2>2 DEF get_recv
    <3>1. old.prev \in ReceiveSessions
      BY Zenon, <1>3, <3>0 DEF Peers, Option
    <3>2. x \in ReceiveSessions /\ x.key = old.prev.key /\ x.seen = old.prev.seen \cup {m.ctr}
          /\ x # None
      BY Zenon, <1>3, <3>1, SeenOK
    <3>3. read = [old EXCEPT !.prev = x]
      BY Zenon, <1>3, <2>2
    <3>4. m.key = old.prev.key /\ m.ctr \notin old.prev.seen
      BY Zenon, <1>2, <2>2 DEF Decrypts, Fresh
    <3> HIDE DEF x, read
    <3>5. /\ read \in Peers /\ read.prev = x /\ read.recv = old.recv /\ read.send = old.send
          /\ read.hs = old.hs
      BY Zenon, <1>3, <3>2, <3>3 DEF Peers, Option
    <3>6. /\ new.recv = read.recv /\ new.prev = read.prev /\ new.send = read.send
          /\ new.hs = read.hs
      BY Zenon, <3>5 DEF schedule_keepalive, Peers
    <3>7. QED
      BY Zenon, <1>3, <3>0, <3>2, <3>4, <3>5, <3>6
  <2>3. QED
    BY Zenon, <2>1, <2>2
<1> HIDE DEF read, new
<1>5. /\ m \notin delivered
      /\ KeysOK(read, SentData, delivered \cup {m})
      /\ \A e : Holds(read, e) => Holds(old, e)
      /\ Holds(old, ReceiveEph(m.key))
  BY Zenon, <1>1, <1>3, <1>4, ReadKeys
<1>6. KeysOK(new, SentData, delivered \cup {m}) /\ \A e : Holds(new, e) => Holds(read, e)
  BY Zenon, <1>4, <1>5, SameKeys
<1>7. NoReplay' /\ SentData' = SentData
  BY Zenon, <1>1, <1>2, <1>5 DEF NoReplay, SentData
<1>8. QED
  BY Zenon, <1>1, <1>2, <1>5, <1>6, <1>7, KeepKeys

(* Handshake::confirm and the activation that follows preserve the         *)
(* invariant: the datagram that confirms the tentative session is the      *)
(* first one it delivers.                                                  *)
LEMMA ConfirmKeys ==
    ASSUME IInv, KInv, NEW p \in PeerIds, peers[p] # None, NEW m \in TransportData, Confirm(p, m)
    PROVE  KInv'
<1> DEFINE old == peers[p]
           hs == old.hs
           r == [hs.recv EXCEPT !.seen = @ \cup {m.ctr}]
           s == hs.send
           dropped == [old EXCEPT !.hs = NoHandshake]
           kept == schedule_keepalive(dropped)
           new == activate(kept, r, s)
           o == ActivateSends(old, s)
           eph == ReceiveEph(hs.recv.key)
<1>1. /\ PeerOK(old, now) /\ now \in Nat /\ KeysOK(old, SentData, delivered)
      /\ Distinct(SentData) /\ ~ replayed /\ \A a \in SentData : a.ctr \in Nat
  BY Zenon, KeysOf
<1>2. /\ hs.st = "responded" /\ Decrypts(hs.recv, m)
      /\ IF RemovePanics(ActivateReleases(old))
         THEN Panic
         ELSE /\ peers' = [peers EXCEPT ![p] = new]
              /\ sent' = sent \cup o
              /\ Deliver(m)
              /\ NoHandshakeMade
  BY Zenon DEF Confirm
<1>3. m.ctr \in Nat /\ old \in Peers
  BY Zenon, <1>1, EndpointAssumption DEF TransportData, PeerOK
<1>4. hs.recv \in ReceiveSessions /\ s \in TransmitSessions
  BY <1>2, <1>3 DEF Peers, Handshakes, NoHandshake
<1>5. /\ r \in ReceiveSessions /\ r.key = hs.recv.key /\ r.seen = hs.recv.seen \cup {m.ctr}
  BY Zenon, <1>3, <1>4, SeenOK
<1>6. /\ PeerOK(dropped, now) /\ dropped.hs = NoHandshake /\ dropped.queue = old.queue
      /\ dropped.recv = old.recv /\ dropped.prev = old.prev /\ dropped.send = old.send
  BY Zenon, <1>1, DropHandshakeOK
<1> HIDE DEF dropped, r
<1>7. /\ PeerOK(kept, now) /\ kept.hs = NoHandshake /\ kept.queue = old.queue
      /\ kept.recv = old.recv /\ kept.prev = old.prev /\ kept.send = old.send
  BY <1>6, ScheduleKeepaliveOK
<1> HIDE DEF kept
<1>8. /\ KeysOK(kept, SentData, delivered)
      /\ \A e : Holds(kept, e) => Holds(old, e) /\ ~ InHandshake(old, e)
  BY Zenon, <1>1, <1>7, DropKeys
<1>9. InHandshake(old, eph) /\ Holds(old, eph)
  BY Zenon, <1>2 DEF InHandshake, Holds
<1>10. m.key = hs.recv.key /\ SendEph(s.key) = eph /\ s.nonce = 0 /\ ReceiveEph(r.key) = eph
  BY Zenon, <1>1, <1>2, <1>5 DEF Decrypts, KeysOK, SlotsApart
<1> HIDE DEF eph
<1>11. /\ ~ Holds(kept, eph) /\ m \notin delivered
       /\ \A a \in SentData : SendEph(a.key) # eph
       /\ \A a \in delivered : ReceiveEph(a.key) # eph
  BY Zenon, <1>1, <1>5, <1>8, <1>9, <1>10 DEF KeysOK, NonceBelow, Remembered
<1>12. KeysOK(kept, SentData, delivered \cup {m})
  <2>1. SessionShape(kept) /\ SlotsApart(kept) /\ ReceiveEph(m.key) = eph
    BY Zenon, <1>5, <1>7, <1>8, <1>10 DEF PeerOK, KeysOK
  <2>2. Remembered(kept, m)
    BY Zenon, <1>11, <2>1, Elsewhere
  <2>3. QED
    BY Zenon, <1>8, <2>2 DEF KeysOK
<1>13. CASE RemovePanics(ActivateReleases(old))
  BY Zenon, <1>2, <1>13, StillKeys DEF Panic
<1>14. CASE ~ RemovePanics(ActivateReleases(old))
  <2>1. /\ peers' = [peers EXCEPT ![p] = new] /\ sent' = sent \cup o /\ ephs' = ephs
        /\ delivered' = delivered \cup {m} /\ replayed' = (replayed \/ m \in delivered)
    BY Zenon, <1>2, <1>14 DEF NoHandshakeMade, Deliver
  <2>2. o = ActivateSends(kept, s)
    BY Zenon, <1>7 DEF ActivateSends
  <2> HIDE DEF o
  <2>3. /\ KeysOK(new, SentData \cup o, delivered \cup {m}) /\ Distinct(SentData \cup o)
        /\ \A e : Holds(new, e) => Holds(kept, e) \/ e = eph
        /\ \A a \in o : a.type = "data" /\ a.ctr \in Nat /\ a.key = s.key
    <3>1. \A a \in SentData : a.ctr \in Nat /\ SendEph(a.key) # SendEph(s.key)
      BY Zenon, <1>1, <1>10, <1>11
    <3>2. \A a \in delivered \cup {m} : ReceiveEph(a.key) = ReceiveEph(r.key) => a.ctr \in r.seen
      BY Zenon, <1>5, <1>10, <1>11
    <3>3. SendEph(s.key) = ReceiveEph(r.key) /\ ~ Holds(kept, ReceiveEph(r.key))
      BY Zenon, <1>10, <1>11
    <3> HIDE DEF s
    <3>4. /\ KeysOK(new, SentData \cup ActivateSends(kept, s), delivered \cup {m})
          /\ Distinct(SentData \cup ActivateSends(kept, s))
          /\ \A e : Holds(new, e) => Holds(kept, e) \/ e = ReceiveEph(r.key)
          /\ \A a \in ActivateSends(kept, s) : a.type = "data" /\ a.ctr \in Nat /\ a.key = s.key
      <4>1. Unused(kept, r, s, SentData, delivered \cup {m})
        BY Zenon, <1>4, <1>5, <1>7, <1>10, <3>1, <3>2, <3>3 DEF Unused
      <4>2. Activated(kept, new, ActivateSends(kept, s), r, s, SentData, delivered \cup {m})
        BY ZenonT(40), <1>1, <1>7, <1>12, <4>1, ActivateKeys
      <4> HIDE DEF new
      <4>3. QED
        BY Zenon, <4>2 DEF Activated
    <3> HIDE DEF new
    <3>5. QED
      BY Zenon, <1>10, <2>2, <3>4
  <2> HIDE DEF new
  <2>4. \A e : Holds(new, e) => Holds(old, e)
    BY Zenon, <1>8, <1>9, <2>3
  <2>5. \A a \in o : a.type = "data" /\ a.ctr \in Nat /\ Holds(old, SendEph(a.key))
    BY Zenon, <1>9, <1>10, <2>3
  <2>6. SentData' = SentData \cup o
    BY Zenon, <2>1, <2>5 DEF SentData
  <2>7. NoReplay'
    BY Zenon, <1>1, <1>11, <2>1 DEF NoReplay
  <2>8. Holds(old, ReceiveEph(m.key))
    BY Zenon, <1>5, <1>9, <1>10
  <2>9. QED
    BY Zenon, <2>1, <2>3, <2>4, <2>5, <2>6, <2>7, <2>8, KeepKeys
<1>15. QED
  BY Zenon, <1>13, <1>14

(* Peer::handshake_timeout preserves the invariant: the old ephemeral is   *)
(* dropped with the handshake and a new one takes its place.               *)
LEMMA TimeoutKeys ==
    ASSUME IInv, KInv, NEW e \in EventIds, handshake_timeout(e)
    PROVE  KInv'
<1> DEFINE p == events[e].peer
           old == peers[p]
           rest == [events EXCEPT ![e] = None]
           pr == [old EXCEPT !.hs = NoHandshake]
           sess == Removed({session_id(old.hs)})
<1>1. /\ events[e] # None /\ NoDelivery
      /\ IF old = None \/ old.hs.st = "none"
         THEN UNCHANGED <<peers, sessions, sent>> /\ NoHandshakeMade
         ELSE IF RemovePanics({session_id(old.hs)})
         THEN Panic
         ELSE start_handshake(p, pr, sess, rest, {})
  BY Zenon DEF handshake_timeout, Due
<1>2. p \in PeerIds
  BY Zenon, <1>1 DEF IInv, TypeOK, Option, PendingEvents
<1>3. CASE old = None \/ old.hs.st = "none"
  BY Zenon, <1>1, <1>3, StillKeys DEF NoDelivery, NoHandshakeMade
<1>4. CASE ~ (old = None \/ old.hs.st = "none") /\ RemovePanics({session_id(old.hs)})
  BY Zenon, <1>1, <1>4, StillKeys DEF Panic
<1>5. CASE ~ (old = None \/ old.hs.st = "none") /\ ~ RemovePanics({session_id(old.hs)})
  <2>1. start_handshake(p, pr, sess, rest, {})
    BY Zenon, <1>1, <1>5
  <2>2. PeerOK(old, now) /\ KeysOK(old, SentData, delivered) /\ Distinct(SentData)
    BY Zenon, <1>2, <1>5, KeysOf
  <2>3. /\ PeerOK(pr, now) /\ pr.hs = NoHandshake
        /\ pr.recv = old.recv /\ pr.prev = old.prev /\ pr.send = old.send
    BY Zenon, <2>2, DropHandshakeOK
  <2> HIDE DEF pr, sess, rest
  <2>4. KeysOK(pr, SentData, delivered) /\ \A x : Holds(pr, x) => Holds(old, x)
    BY Zenon, <2>2, <2>3, DropKeys
  <2>5. SentData \cup {} = SentData /\ pr \in Peers
    BY Zenon, <2>3 DEF PeerOK
  <2>6. KeysOK(pr, SentData \cup {}, delivered) /\ Distinct(SentData \cup {})
    BY Zenon, <2>2, <2>4, <2>5
  <2>7. \A m \in {} : m.type = "data" /\ m.ctr \in Nat /\ Holds(old, SendEph(m.key))
    BY Zenon
  <2>8. old # None /\ NoDelivery
    BY Zenon, <1>1, <1>5
  <2> HIDE DEF p
  <2>9. SendsOwn(old, pr, {})
    BY Zenon, <2>4, <2>6, <2>7 DEF SendsOwn
  <2>10. QED
    BY ZenonT(40), <1>2, <2>1, <2>5, <2>8, <2>9, StartHandshakeKeys
<1>6. QED
  BY Zenon, <1>3, <1>4, <1>5

(* Peer::send_keepalive preserves the invariant. *)
LEMMA KeepaliveKeys ==
    ASSUME IInv, KInv, NEW e \in EventIds, send_keepalive(e)
    PROVE  KInv'
<1> DEFINE p == events[e].peer
           old == peers[p]
           sending == [old.send EXCEPT !.nonce = @ + 1]
           done == [old EXCEPT !.send.nonce = @ + 1, !.keepalive = FALSE]
           again == [schedule_keepalive(done) EXCEPT !.another = FALSE]
           new == IF old.another THEN again ELSE done
           q == encrypt_or_queue(old, <<Empty>>)
           o == Encrypted(old, <<Empty>>)
<1>1. /\ events[e] # None
      /\ IF old = None \/ ~ CanTransmit(old)
         THEN UNCHANGED <<peers, sent>>
         ELSE peers' = [peers EXCEPT ![p] = new] /\ sent' = sent \cup o
      /\ UNCHANGED <<ephs, delivered, replayed>>
  BY Zenon DEF send_keepalive, Due, NoHandshakeMade, NoDelivery
<1>2. p \in PeerIds
  BY Zenon, <1>1 DEF IInv, TypeOK, Option, PendingEvents
<1>3. CASE old = None \/ ~ CanTransmit(old)
  BY Zenon, <1>1, <1>3, StillKeys
<1>4. CASE ~ (old = None \/ ~ CanTransmit(old))
  <2>1. /\ PeerOK(old, now) /\ KeysOK(old, SentData, delivered) /\ Distinct(SentData)
        /\ ~ replayed /\ \A m \in SentData : m.ctr \in Nat
    BY Zenon, <1>2, <1>4, KeysOf
  <2>2. old \in Peers /\ old.send \in TransmitSessions
    BY Zenon, <1>4, <2>1 DEF PeerOK, Peers, Option, CanTransmit
  <2>3. <<Empty>> \in Seq(Packets \cup {Empty}) /\ Len(<<Empty>>) = 1
    OBVIOUS
  <2>4. q = [old EXCEPT !.send = sending]
    BY Zenon, <1>4, <2>3 DEF encrypt_or_queue, CanTransmit
  <2>5. /\ KeysOK(q, SentData \cup o, delivered) /\ Distinct(SentData \cup o)
        /\ \A x : Holds(q, x) => Holds(old, x)
        /\ \A m \in o : m.type = "data" /\ m.ctr \in Nat /\ Holds(old, SendEph(m.key))
    BY Zenon, <2>1, <2>3, EncryptKeys
  <2>6. done = [old EXCEPT !.send = sending, !.keepalive = FALSE]
    BY Zenon, <2>2 DEF Peers
  <2>7. sending \in TransmitSessions
    BY <2>2 DEF TransmitSessions
  <2> HIDE DEF done, sending, q, o
  <2>8. /\ done \in Peers /\ done.hs = q.hs /\ done.recv = q.recv
        /\ done.prev = q.prev /\ done.send = q.send
    BY ZenonT(60), <2>2, <2>4, <2>6, <2>7 DEF Peers, Option
  <2>9. new.recv = q.recv /\ new.prev = q.prev /\ new.send = q.send /\ new.hs = q.hs
    <3> DEFINE kept == schedule_keepalive(done)
    <3>1. /\ kept \in Peers /\ kept.hs = done.hs /\ kept.recv = done.recv
          /\ kept.prev = done.prev /\ kept.send = done.send
      BY Zenon, <2>8 DEF schedule_keepalive, Peers
    <3>2. again = [kept EXCEPT !.another = FALSE]
      OBVIOUS
    <3> HIDE DEF kept, again
    <3>3. /\ again.hs = kept.hs /\ again.recv = kept.recv /\ again.prev = kept.prev
          /\ again.send = kept.send
      BY Zenon, <3>1, <3>2 DEF Peers
    <3>4. QED
      BY Zenon, <2>8, <3>1, <3>3
  <2>10. peers' = [peers EXCEPT ![p] = new] /\ sent' = sent \cup o
    BY Zenon, <1>1, <1>4
  <2> HIDE DEF new
  <2>11. /\ KeysOK(new, SentData \cup o, delivered)
         /\ \A x : Holds(new, x) => Holds(old, x)
    BY Zenon, <2>5, <2>9, SameKeys
  <2>12. SentData' = SentData \cup o
    BY Zenon, <2>5, <2>10 DEF SentData
  <2>13. NoReplay'
    BY Zenon, <1>1, <2>1 DEF NoReplay
  <2>14. QED
    BY Zenon, <1>1, <1>2, <1>4, <2>5, <2>10, <2>11, <2>12, <2>13, KeepKeys
<1>5. QED
  BY Zenon, <1>3, <1>4

(* Endpoint::upsert_peer preserves the invariant: a changed key or         *)
(* pre-shared key leaves the sessions alone.                               *)
LEMMA UpsertKeys ==
    ASSUME IInv, KInv, NEW p \in PeerIds, NEW key, NEW psk, upsert_peer(p, key, psk)
    PROVE  KInv'
<1> DEFINE old == peers[p]
<1>1. peers \in [PeerIds -> Option(Peers)]
  BY Zenon DEF IInv, TypeOK
<1>2. CASE Panic
  BY Zenon, <1>2, StillKeys DEF Panic
<1>3. CASE ~ Panic /\ old = None
  <2> DEFINE new == NewPeer(key, psk)
  <2>1. peers' = [peers EXCEPT ![p] = new] /\ UNCHANGED <<ephs, sent, delivered, replayed>>
    BY Zenon, <1>3 DEF upsert_peer, OnlyPeersAndKeys, NoHandshakeMade, NoDelivery
  <2>2. new.recv = None /\ new.prev = None /\ new.send = None /\ new.hs = NoHandshake
    BY Zenon DEF NewPeer
  <2> HIDE DEF new
  <2>3. new.hs.st # "initiated" /\ new.hs.st # "responded"
    BY <2>2 DEF NoHandshake
  <2>4. (\A e : ~ Holds(new, e)) /\ KeysOK(new, SentData, delivered)
    BY Zenon, <2>2, <2>3 DEF Holds, InHandshake, KeysOK, SlotsApart, NonceBelow, Remembered
  <2>5. SentData' = SentData /\ NoReplay' /\ Distinct(SentData)
    BY Zenon, <2>1 DEF SentData, NoReplay, KInv
  <2>6. QED
    BY Zenon, <2>1, <2>4, <2>5, KeepKeys
<1>4. CASE ~ Panic /\ old # None
  <2> DEFINE new == [old EXCEPT !.key = key, !.psk = psk]
  <2>1. /\ peers' = [peers EXCEPT ![p].key = key, ![p].psk = psk]
        /\ UNCHANGED <<ephs, sent, delivered, replayed>>
    BY Zenon, <1>4 DEF upsert_peer, OnlyPeersAndKeys, NoHandshakeMade, NoDelivery
  <2>2. peers' = [peers EXCEPT ![p] = new] /\ old \in Peers
    BY Zenon, <1>1, <1>4, <2>1 DEF Option
  <2>3. new.recv = old.recv /\ new.prev = old.prev /\ new.send = old.send /\ new.hs = old.hs
    BY Zenon, <2>2 DEF Peers
  <2> HIDE DEF new
  <2>4. KeysOK(new, SentData, delivered) /\ \A e : Holds(new, e) => Holds(old, e)
    BY Zenon, <1>4, <2>3, KeysOf, SameKeys
  <2>5. QED
    BY Zenon, <1>4, <2>1, <2>2, <2>4, SilentKeys
<1>5. QED
  BY Zenon, <1>2, <1>3, <1>4

(* Endpoint::remove_peer preserves the invariant. *)
LEMMA RemoveKeys ==
    ASSUME IInv, KInv, NEW p \in PeerIds, remove_peer(p)
    PROVE  KInv'
<1>1. CASE Panic
  BY Zenon, <1>1, StillKeys DEF Panic
<1>2. CASE ~ Panic
  <2>1. peers' = [peers EXCEPT ![p] = None] /\ UNCHANGED <<ephs, sent, delivered, replayed>>
    BY Zenon, <1>2 DEF remove_peer, OnlyPeersAndKeys, NoHandshakeMade, NoDelivery
  <2>2. SentData' = SentData /\ NoReplay' /\ Distinct(SentData)
    BY Zenon, <2>1 DEF SentData, NoReplay, KInv
  <2>3. QED
    BY Zenon, <2>1, <2>2, KeepKeys
<1>3. QED
  BY Zenon, <1>1, <1>2

(* A datagram of each kind preserves the invariant. *)
LEMMA RecvKeys ==
    ASSUME IInv, KInv, NEW m \in Datagrams, recv(m)
    PROVE  KInv'
<1>1. CASE m.type = "init"
  <2>1. process_one_handshake(m)
    BY Zenon, <1>1 DEF recv
  <2>2. m \in Initiations
    BY Zenon, <1>1 DEF Datagrams, Responses, CookieReplies, TransportData
  <2>3. QED
    BY Zenon, <2>1, <2>2, RespondKeys
<1>2. CASE m.type # "init"
  <2> DEFINE p == sessions[m.rid]
  <2>1. /\ p # None /\ peers[p] # None
        /\ \/ m.type = "resp" /\ recv_handshake_response(p, m)
           \/ m.type = "cookie" /\ recv_cookie_reply(p, m)
           \/ m.type = "data" /\ RecvOnSession(p, m, "recv")
           \/ m.type = "data" /\ RecvOnSession(p, m, "prev")
           \/ m.type = "data" /\ Confirm(p, m)
    BY Zenon, <1>2 DEF recv, recv_session
  <2>2. m.rid \in SessionIds
    BY Zenon, <1>2 DEF Datagrams, Initiations, Responses, CookieReplies, TransportData
  <2>3. p \in PeerIds
    BY Zenon, <2>1, <2>2 DEF IInv, TypeOK, Option
  <2>4. CASE m.type = "resp" /\ recv_handshake_response(p, m)
    <3>1. m \in Responses
      BY Zenon, <2>4 DEF Datagrams, Initiations, CookieReplies, TransportData
    <3>2. QED
      BY Zenon, <2>1, <2>3, <2>4, <3>1, FinishKeys
  <2>5. CASE m.type = "cookie" /\ recv_cookie_reply(p, m)
    BY Zenon, <2>1, <2>3, <2>5, CookieReplyKeys
  <2>6. m.type = "data" => m \in TransportData
    BY Zenon DEF Datagrams, Initiations, Responses, CookieReplies
  <2>7. CASE m.type = "data" /\ RecvOnSession(p, m, "recv")
    BY Zenon, <2>1, <2>3, <2>6, <2>7, RecvOnSessionKeys
  <2>8. CASE m.type = "data" /\ RecvOnSession(p, m, "prev")
    BY Zenon, <2>1, <2>3, <2>6, <2>8, RecvOnSessionKeys
  <2>9. CASE m.type = "data" /\ Confirm(p, m)
    BY Zenon, <2>1, <2>3, <2>6, <2>9, ConfirmKeys
  <2>10. QED
    BY Zenon, <2>1, <2>4, <2>5, <2>7, <2>8, <2>9
<1>3. QED
  BY Zenon, <1>1, <1>2

(* No session has been made at first. *)
LEMMA InitKeys == Init => KInv
<1> SUFFICES ASSUME Init PROVE KInv
  OBVIOUS
<1>1. SentData = {} /\ delivered = {} /\ ~ replayed /\ \A p \in PeerIds : peers[p] = None
  BY Zenon DEF Init, InitWith, SentData
<1>2. QED
  BY Zenon, <1>1 DEF KInv, Distinct, NoReplay

(* The invariant is inductive, given IInv. *)
LEMMA NextKeys == IInv /\ KInv /\ [Next]_vars => KInv'
<1> SUFFICES ASSUME IInv, KInv, [Next]_vars PROVE KInv'
  OBVIOUS
<1>1. ASSUME NEW p \in PeerIds, NEW pkts \in Batches, send(p, pkts) PROVE KInv'
  BY Zenon, <1>1, SendKeys
<1>2. ASSUME NEW m \in Datagrams, recv(m) PROVE KInv'
  BY Zenon, <1>2, RecvKeys
<1>3. ASSUME NEW e \in EventIds, handshake_timeout(e) PROVE KInv'
  BY Zenon, <1>3, TimeoutKeys
<1>4. ASSUME NEW e \in EventIds, send_keepalive(e) PROVE KInv'
  BY Zenon, <1>4, KeepaliveKeys
<1>5. ASSUME NEW p \in PeerIds, NEW key \in Keys, NEW psk \in Psks, upsert_peer(p, key, psk)
      PROVE  KInv'
  BY Zenon, <1>5, UpsertKeys
<1>6. ASSUME NEW p \in Removable, remove_peer(p) PROVE KInv'
  BY Zenon, <1>6, RemoveKeys, EndpointAssumption
<1>7. CASE Tick
  BY Zenon, <1>7, StillKeys DEF Tick
<1>8. CASE UNCHANGED vars
  BY Zenon, <1>8, StillKeys DEF vars
<1>9. QED
  BY Zenon, <1>1, <1>2, <1>3, <1>4, <1>5, <1>6, <1>7, <1>8 DEF Next

(* KInv always holds, since IInv does (InvariantHolds). *)
LEMMA KeysHold == Spec => []KInv
BY InvariantHolds, InitKeys, NextKeys, PTL DEF Spec

-----------------------------------------------------------------------------
(* No nonce is ever used twice with one session key, whatever is queued,   *)
(* rotated, timed out or removed in between.                               *)
THEOREM EndpointNonceUnique == Spec => []NonceUnique
<1>1. KInv => NonceUnique
  BY Zenon DEF KInv, Distinct, SentData, NonceUnique
<1>2. QED
  BY KeysHold, <1>1, PTL

(* No transport datagram is ever delivered twice, however often and        *)
(* whenever the network repeats it.                                        *)
THEOREM EndpointNoReplay == Spec => []NoReplay
<1>1. KInv => NoReplay
  BY Zenon DEF KInv
<1>2. QED
  BY KeysHold, <1>1, PTL
=============================================================================
