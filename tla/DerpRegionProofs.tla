-------------------------- MODULE DerpRegionProofs --------------------------
(***************************************************************************)
(* Proofs about DerpRegion for any servers, any peers and any number of    *)
(* packets, frames and drops: the inactivity timer follows the home role,  *)
(* a home connection is not closed for inactivity, and packets are         *)
(* forwarded in order and at most once.                                    *)
(***************************************************************************)
EXTENDS DerpRegion, TLAPS

-----------------------------------------------------------------------------
(* The timer *)

TimerInv ==
    /\ home \in BOOLEAN /\ seen \in BOOLEAN /\ armed \in BOOLEAN
    /\ TimerFollowsHome

(* Every step of the region's task, of Multiderp and of the server keeps   *)
(* the timer of a connection in step with the home watch.                  *)
LEMMA TimerStep == TimerInv /\ [RegionNext]_regionVars => TimerInv'
<1> SUFFICES ASSUME TimerInv, [RegionNext]_regionVars
             PROVE  TimerInv'
    OBVIOUS
<1> USE DEF TimerInv, TimerFollowsHome, Connected, world
<1>1. CASE WakeHome BY Zenon, <1>1 DEF WakeHome
<1>2. CASE WakePacket BY Zenon, <1>2 DEF WakePacket
<1>3. CASE Serve BY Zenon, <1>3 DEF Serve
<1>4. CASE Backoff BY Zenon, <1>4 DEF Backoff
<1>5. CASE End BY Zenon, <1>5 DEF End
<1>6. CASE \E f \in Controls : ReadControl(f) BY <1>6 DEF ReadControl
<1>7. CASE \E f \in Data : ReadPacket(f) BY <1>7 DEF ReadPacket
<1>8. CASE WritePong BY Zenon, <1>8 DEF WritePong
<1>9. CASE ReadFails BY Zenon, <1>9 DEF ReadFails
<1>10. CASE Timeout BY Zenon, <1>10 DEF Timeout
<1>11. CASE HomeChanged BY Zenon, <1>11 DEF HomeChanged
<1>12. CASE \E ok \in BOOLEAN : SendBatch(ok) BY <1>12 DEF SendBatch
<1>13. CASE \E reach \in Reaches, outcome \in {"ok", "tls", "http"} : Connect(reach, outcome)
    BY <1>13 DEF Connect
<1>14. CASE \E p \in Peers : Enqueue(p) BY <1>14 DEF Enqueue
<1>15. CASE \E b \in BOOLEAN : SetHome(b) BY Zenon, <1>15 DEF SetHome
<1>16. CASE \E s \in SUBSET Peers : SetKnown(s) BY <1>16 DEF SetKnown
<1>17. CASE \E f \in Controls \cup Data \cup {[type |-> "health"]} : ServerSends(f)
    BY <1>17 DEF ServerSends
<1>18. CASE InactivityPasses BY Zenon, <1>18 DEF InactivityPasses
<1>19. CASE BeginShutdown BY Zenon, <1>19 DEF BeginShutdown
<1>20. CASE UNCHANGED regionVars BY Zenon, <1>20 DEF regionVars
<1> QED
    BY <1>1, <1>2, <1>3, <1>4, <1>5, <1>6, <1>7, <1>8, <1>9, <1>10, <1>11, <1>12, <1>13, <1>14,
       <1>15, <1>16, <1>17, <1>18, <1>19, <1>20 DEF RegionNext, RegionTask, Serving

(* Whatever changes of the home region, packets, frames and timeouts       *)
(* interleave: once the task has looked at the watch, its connection has   *)
(* an inactivity timer exactly when the region is not home                 *)
(* (run_derp_once).                                                        *)
THEOREM RegionTimerFollowsHome == RegionSpec => []TimerFollowsHome
<1>1. RegionInit => TimerInv
    BY Zenon DEF RegionInit, TimerInv, TimerFollowsHome, Connected
<1>2. TimerInv => TimerFollowsHome
    BY Zenon DEF TimerInv
<1> QED
    BY <1>1, <1>2, TimerStep, PTL DEF RegionSpec

(* A connection of the home region never goes back to waiting, so it is    *)
(* never closed for inactivity: of the steps that leave the inner loop,    *)
(* only Timeout leads there, and it looks at the watch again.              *)
THEOREM RegionHomeKept == RegionSpec => HomeKept
<1>1. [RegionNext]_regionVars => [Connected /\ task' = "waiting" => ~home]_regionVars
    <2> SUFFICES ASSUME [RegionNext]_regionVars, Connected, task' = "waiting", home
                 PROVE  UNCHANGED regionVars
        BY Zenon DEF regionVars
    <2> USE DEF Connected
    <2>1. ~WakeHome /\ ~WakePacket /\ ~Serve /\ ~Backoff /\ ~End
        BY Zenon DEF WakeHome, WakePacket, Serve, Backoff, End
    <2>2. /\ ~\E f \in Controls : ReadControl(f)
          /\ ~\E f \in Data : ReadPacket(f)
        BY Zenon DEF ReadControl, ReadPacket
    <2>3. ~WritePong /\ ~ReadFails /\ ~Timeout /\ ~HomeChanged
        BY Zenon DEF WritePong, ReadFails, Timeout, HomeChanged
    <2>4. ~\E ok \in BOOLEAN : SendBatch(ok)
        BY Zenon DEF SendBatch
    <2>5. ~\E reach \in Reaches, outcome \in {"ok", "tls", "http"} : Connect(reach, outcome)
        BY Zenon DEF Connect
    <2>6. /\ ~\E p \in Peers : Enqueue(p)
          /\ ~\E b \in BOOLEAN : SetHome(b)
          /\ ~\E s \in SUBSET Peers : SetKnown(s)
        BY Zenon DEF Enqueue, SetHome, SetKnown
    <2>7. /\ ~\E f \in Controls \cup Data \cup {[type |-> "health"]} : ServerSends(f)
          /\ ~InactivityPasses /\ ~BeginShutdown
        BY Zenon DEF ServerSends, InactivityPasses, BeginShutdown
    <2> QED
        BY <2>1, <2>2, <2>3, <2>4, <2>5, <2>6, <2>7 DEF RegionNext, RegionTask, Serving
<1> QED
    BY <1>1, PTL DEF RegionSpec, HomeKept

-----------------------------------------------------------------------------
(* The order of packets *)

Packet == [peer : Peers, n : Nat]
Increasing(s) == \A i, j \in DOMAIN s : i < j => s[i].n < s[j].n
Before(s, t) == \A i \in DOMAIN s, j \in DOMAIN t : s[i].n < t[j].n
UpTo(s, m) == \A i \in DOMAIN s : s[i].n <= m

(* What was sent, what woke the task and what is queued follow each other  *)
(* in the order of their numbers.                                          *)
OrderInv ==
    /\ packets \in Nat
    /\ sent \in Seq(Packet) /\ pending \in Seq(Packet) /\ queue \in Seq(Packet)
    /\ Increasing(sent) /\ Increasing(pending) /\ Increasing(queue)
    /\ Before(sent, pending) /\ Before(sent, queue) /\ Before(pending, queue)
    /\ UpTo(sent, packets) /\ UpTo(pending, packets) /\ UpTo(queue, packets)
    /\ Connected => pending = <<>>

(* Packets are numbered. *)
LEMMA Numbered == ASSUME NEW s \in Seq(Packet) PROVE \A i \in DOMAIN s : s[i].n \in Nat
<1>1. \A i \in DOMAIN s : s[i] \in Packet
    OBVIOUS
<1> QED
    BY Zenon, <1>1 DEF Packet

(* Joining two increasing sequences, the first before the second. *)
LEMMA Joined ==
    ASSUME NEW s \in Seq(Packet), NEW t \in Seq(Packet), NEW u \in Seq(Packet), NEW m \in Nat,
           Increasing(s), Increasing(t), Before(s, t), Before(s, u), Before(t, u),
           UpTo(s, m), UpTo(t, m)
    PROVE  /\ s \o t \in Seq(Packet) /\ Increasing(s \o t) /\ Before(s \o t, u)
           /\ UpTo(s \o t, m)
<1> DEFINE st == s \o t
<1>1. st \in Seq(Packet) /\ Len(st) = Len(s) + Len(t)
    OBVIOUS
<1>2. \A i \in 1 .. Len(st) :
          st[i] = IF i <= Len(s) THEN s[i] ELSE t[i - Len(s)]
    OBVIOUS
<1>3. \A i \in 1 .. Len(st) : \/ i \in DOMAIN s /\ st[i] = s[i]
                              \/ i > Len(s) /\ i - Len(s) \in DOMAIN t /\ st[i] = t[i - Len(s)]
    BY <1>1, <1>2
<1>4. DOMAIN st = 1 .. Len(st)
    BY <1>1
<1> HIDE DEF st
<1>5. Increasing(st)
    <2> SUFFICES ASSUME NEW i \in DOMAIN st, NEW j \in DOMAIN st, i < j
                 PROVE  st[i].n < st[j].n
        BY Zenon DEF Increasing
    <2> QED
        BY <1>3, <1>4 DEF Increasing, Before
<1>6. Before(st, u)
    BY Zenon, <1>3, <1>4 DEF Before
<1>7. UpTo(st, m)
    BY Zenon, <1>3, <1>4 DEF UpTo
<1> QED
    BY <1>1, <1>5, <1>6, <1>7 DEF st

(* Taking the head of an increasing sequence. *)
LEMMA Taken ==
    ASSUME NEW q \in Seq(Packet), q # <<>>, Increasing(q), NEW s \in Seq(Packet), Before(s, q),
           NEW m \in Nat, UpTo(q, m)
    PROVE  /\ <<Head(q)>> \in Seq(Packet) /\ Tail(q) \in Seq(Packet)
           /\ Increasing(<<Head(q)>>) /\ Increasing(Tail(q)) /\ Before(<<Head(q)>>, Tail(q))
           /\ Before(s, <<Head(q)>>) /\ Before(s, Tail(q))
           /\ UpTo(<<Head(q)>>, m) /\ UpTo(Tail(q), m)
<1>1. /\ Head(q) = q[1] /\ 1 \in DOMAIN q /\ Head(q) \in Packet
      /\ Tail(q) \in Seq(Packet) /\ DOMAIN Tail(q) = 1 .. Len(q) - 1
      /\ \A i \in DOMAIN Tail(q) : i + 1 \in DOMAIN q /\ Tail(q)[i] = q[i + 1]
    OBVIOUS
<1>2. /\ <<Head(q)>> \in Seq(Packet) /\ DOMAIN <<Head(q)>> = {1} /\ <<Head(q)>>[1] = q[1]
    BY <1>1
<1>3. Increasing(<<Head(q)>>) /\ Before(s, <<Head(q)>>) /\ UpTo(<<Head(q)>>, m)
    BY Zenon, <1>1, <1>2 DEF Increasing, Before, UpTo
<1>4. Increasing(Tail(q)) /\ Before(s, Tail(q)) /\ UpTo(Tail(q), m)
    BY <1>1 DEF Increasing, Before, UpTo
<1>5. Before(<<Head(q)>>, Tail(q))
    BY <1>1, <1>2 DEF Increasing, Before
<1> QED
    BY <1>1, <1>2, <1>3, <1>4, <1>5

(* Nothing is in order with everything. *)
LEMMA Nothing ==
    ASSUME NEW s, NEW m
    PROVE  /\ <<>> \in Seq(Packet) /\ Increasing(<<>>) /\ Before(<<>>, s) /\ Before(s, <<>>)
           /\ UpTo(<<>>, m)
BY DEF Increasing, Before, UpTo

(* What is written of a batch is the batch or nothing. *)
LEMMA WrittenBatch == ASSUME NEW b PROVE Written(b) \in {b, <<>>}
BY Zenon DEF Written

(* The steps that neither take a packet nor number one. *)
LEMMA OrderKept ==
    ASSUME OrderInv, UNCHANGED <<packets, sent, queue>>,
           pending' \in {pending, <<>>}, Connected' => pending' = <<>>
    PROVE  OrderInv'
<1>1. CASE pending' = pending
    BY Zenon, <1>1 DEF OrderInv, Increasing, Before, UpTo
<1>2. CASE pending' = <<>>
    BY <1>2, Nothing DEF OrderInv, Increasing, Before, UpTo
<1> QED
    BY <1>1, <1>2

(* Every step keeps the numbers in order; the ones that move packets are   *)
(* Enqueue, WakePacket, Serve and SendBatch.                               *)
LEMMA OrderStep == OrderInv /\ [RegionNext]_regionVars => OrderInv'
<1> SUFFICES ASSUME OrderInv, [RegionNext]_regionVars
             PROVE  OrderInv'
    OBVIOUS
<1>1. CASE \E p \in Peers : Enqueue(p)
    <2>1. PICK p \in Peers : Enqueue(p)
        BY Zenon, <1>1
    <2> DEFINE e == [peer |-> p, n |-> packets + 1]
    <2>2. /\ packets' = packets + 1 /\ packets' \in Nat
          /\ queue' = Append(queue, e) /\ e \in Packet /\ e.n = packets + 1
          /\ UNCHANGED <<task, sent, pending>>
        BY <2>1 DEF Enqueue, OrderInv, Packet
    <2>3. /\ queue' \in Seq(Packet) /\ DOMAIN queue' = 1 .. Len(queue) + 1
          /\ \A i \in DOMAIN queue' : \/ i \in DOMAIN queue /\ queue'[i] = queue[i]
                                      \/ i = Len(queue) + 1 /\ queue'[i] = e
        BY <2>2 DEF OrderInv
    <2>4. /\ \A i \in DOMAIN queue : queue[i].n \in Nat
          /\ \A i \in DOMAIN sent : sent[i].n \in Nat
          /\ \A i \in DOMAIN pending : pending[i].n \in Nat
        BY Zenon, Numbered DEF OrderInv
    <2> HIDE DEF e
    <2>5. Increasing(queue')
        BY SMTT(30), <2>2, <2>3, <2>4 DEF OrderInv, Increasing, UpTo
    <2>6. Before(sent, queue') /\ Before(pending, queue')
        BY SMTT(30), <2>2, <2>3, <2>4 DEF OrderInv, Before, UpTo
    <2>7. UpTo(queue', packets') /\ UpTo(sent, packets') /\ UpTo(pending, packets')
        BY <2>2, <2>3, <2>4 DEF OrderInv, UpTo
    <2> QED
        BY <2>2, <2>3, <2>5, <2>6, <2>7 DEF OrderInv, Connected
<1>2. CASE WakePacket
    <2>1. /\ pending' = <<Head(queue)>> /\ queue' = Tail(queue) /\ queue # <<>>
          /\ UNCHANGED <<packets, sent>> /\ ~Connected'
        BY Zenon, <1>2 DEF WakePacket, world, Connected
    <2> QED
        BY Zenon, <2>1, Taken DEF OrderInv
<1>3. CASE Serve
    <2>1. /\ sent' = sent \o Written(pending) /\ pending' = <<>>
          /\ UNCHANGED <<packets, queue>>
        BY Zenon, <1>3 DEF Serve, world
    <2>2. /\ Written(pending) \in Seq(Packet) /\ Increasing(Written(pending))
          /\ Before(sent, Written(pending)) /\ Before(Written(pending), queue)
          /\ UpTo(Written(pending), packets)
        BY WrittenBatch, Nothing DEF OrderInv
    <2> QED
        BY <2>1, <2>2, Joined, Nothing DEF OrderInv
<1>4. CASE \E ok \in BOOLEAN : SendBatch(ok)
    <2>1. /\ queue # <<>> /\ queue' = Tail(queue) /\ UNCHANGED <<packets, pending>>
          /\ sent' \in {sent, sent \o Written(<<Head(queue)>>)} /\ pending = <<>>
        BY Zenon, <1>4 DEF SendBatch, world, OrderInv
    <2> DEFINE w == Written(<<Head(queue)>>)
    <2>2. /\ Tail(queue) \in Seq(Packet) /\ Increasing(Tail(queue))
          /\ Before(sent, Tail(queue)) /\ UpTo(Tail(queue), packets)
        BY Zenon, <2>1, Taken DEF OrderInv
    <2>3. /\ w \in Seq(Packet) /\ Increasing(w) /\ Before(sent, w) /\ Before(w, Tail(queue))
          /\ UpTo(w, packets)
        <3>1. CASE w = <<Head(queue)>>
            BY <3>1, <2>1, Taken DEF OrderInv
        <3>2. CASE w = <<>>
            BY Zenon, <3>2, Nothing
        <3> QED
            BY <3>1, <3>2, WrittenBatch
    <2> HIDE DEF w
    <2>4. /\ sent' \in Seq(Packet) /\ Increasing(sent') /\ Before(sent', Tail(queue))
          /\ UpTo(sent', packets)
        <3>1. CASE sent' = sent
            BY Zenon, <3>1, <2>2 DEF OrderInv
        <3>2. CASE sent' = sent \o w
            BY <3>2, <2>2, <2>3, Joined DEF OrderInv
        <3> QED
            BY <3>1, <3>2, <2>1 DEF w
    <2> QED
        BY <2>1, <2>2, <2>4, Nothing DEF OrderInv
<1>5. CASE \/ WakeHome \/ Backoff \/ End \/ WritePong \/ ReadFails \/ Timeout \/ HomeChanged
           \/ \E f \in Controls : ReadControl(f)
           \/ \E f \in Data : ReadPacket(f)
    <2>1. UNCHANGED <<packets, sent, queue>> /\ pending' \in {pending, <<>>}
        BY Zenon, <1>5 DEF WakeHome, Backoff, End, WritePong, ReadFails, Timeout, HomeChanged,
                    ReadControl, ReadPacket, world
    <2>2. Connected' => pending' = <<>>
        BY Zenon, <1>5 DEF WakeHome, Backoff, End, WritePong, ReadFails, Timeout, HomeChanged,
                    ReadControl, ReadPacket, world, Connected, OrderInv
    <2> QED
        BY <2>1, <2>2, OrderKept
<1>6. CASE \E reach \in Reaches, outcome \in {"ok", "tls", "http"} : Connect(reach, outcome)
    <2>1. /\ UNCHANGED <<packets, sent, queue>> /\ pending' \in {pending, <<>>}
          /\ ~Connected'
        BY Zenon, <1>6 DEF Connect, world, Connected
    <2> QED
        BY Zenon, <2>1, OrderKept
<1>7. CASE \/ \E b \in BOOLEAN : SetHome(b)
           \/ \E s \in SUBSET Peers : SetKnown(s)
           \/ \E f \in Controls \cup Data \cup {[type |-> "health"]} : ServerSends(f)
           \/ InactivityPasses \/ BeginShutdown \/ UNCHANGED regionVars
    <2>1. UNCHANGED <<task, packets, sent, queue, pending>>
        BY <1>7 DEF SetHome, SetKnown, ServerSends, InactivityPasses, BeginShutdown, regionVars
    <2> QED
        BY Zenon, <2>1, OrderKept DEF OrderInv, Connected
<1> QED
    BY <1>1, <1>2, <1>3, <1>4, <1>5, <1>6, <1>7 DEF RegionNext, RegionTask, Serving

(* What reaches a server is, in order and at most once each, what the data *)
(* plane queued, across any number of connections, failed writes, dials    *)
(* that panic and packets dropped for an unknown peer.                     *)
THEOREM RegionForwardedInOrder == RegionSpec => []ForwardedInOrder
<1>1. RegionInit => OrderInv
    BY Nothing DEF RegionInit, OrderInv, Connected
<1>2. OrderInv => ForwardedInOrder
    BY Zenon DEF OrderInv, Increasing, ForwardedInOrder
<1> QED
    BY <1>1, <1>2, OrderStep, PTL DEF RegionSpec
=============================================================================
