----------------------------- MODULE DerpRegion ------------------------------
(***************************************************************************)
(* The task that serves one DERP region: Multiderp's loop around           *)
(* run_derp_once (src/ts_runtime/src/multiderp.rs), the dialling of the    *)
(* region's servers (ts_derp/src/dial.rs), the handshake and the receive   *)
(* path of the client (ts_derp/src/client.rs), and the key lookup between  *)
(* them (ts_transport/src/map_key.rs).                                     *)
(*                                                                         *)
(* The server and the network are external: every dial, every answer and   *)
(* every frame is a choice.  Packets are numbered in the order the         *)
(* dataplane queued them.                                                  *)
(***************************************************************************)
EXTENDS Integers, Sequences, FiniteSets, SequencesExt

CONSTANTS
    Servers,       \* the region's servers in order: [stunOnly, selfSigned, stacks]
    Peers,         \* peers of this node
    MaxPackets,    \* bound on the packets the dataplane queues
    MaxFrames,     \* bound on the frames the server sends
    MaxDrops    \* bound on failed dials, handshakes and connections

VARIABLES
    task,          \* where the task is
    home, seen,    \* the watch channel's value; has the receiver seen it?
    armed,         \* is the inactivity timeout of this iteration set?
    idle,          \* has INACTIVITY_TIMEOUT passed since last_activity?
    shutdown,      \* the shutdown watch channel
    queue,         \* from_dataplane
    pending,       \* the packet that woke the task, if any
    derpIn,         \* frames from the server not yet read
    sent,          \* packets written to a server connection
    pongs,         \* pings read, pings answered on this connection
    up,            \* to_dataplane: peers packets were received from
    known,         \* the peers the peer database knows
    packets, frames, drops    \* what was used of the bounds

regionVars == <<task, home, seen, armed, idle, shutdown, queue, pending, derpIn, sent, pongs, up,
                known, packets, frames, drops>>
world == <<home, shutdown, known, packets, frames>>

(* The task is inside the connection's select: waiting, or writing the     *)
(* pong of a ping it has read.                                             *)
Connected == task \in {"serving", "ponging"}

RegionInit ==
    /\ task = "waiting" /\ home = FALSE /\ seen = TRUE /\ armed = FALSE /\ idle = FALSE
    /\ shutdown = FALSE /\ queue = <<>> /\ pending = <<>> /\ derpIn = <<>>
    /\ sent = <<>> /\ pongs = [read |-> 0, written |-> 0] /\ up = <<>>
    /\ known = {} /\ packets = 0 /\ frames = 0 /\ drops = 0

-----------------------------------------------------------------------------
(* Around the task *)

(* The dataplane writes to the region's transport. *)
Enqueue(p) ==
    /\ packets < MaxPackets /\ task \notin {"ended", "panicked"}
    /\ packets' = packets + 1
    /\ queue' = Append(queue, [peer |-> p, n |-> packets'])
    /\ UNCHANGED <<task, home, seen, armed, idle, shutdown, pending, derpIn, sent, pongs, up,
                   known, frames, drops>>

(* Multiderp moves the home region (watch::Sender::send). *)
SetHome(b) ==
    /\ home # b
    /\ home' = b /\ seen' = FALSE
    /\ UNCHANGED <<task, armed, idle, shutdown, queue, pending, derpIn, sent, pongs, up,
                   known, packets, frames, drops>>

SetKnown(s) ==
    /\ known # s /\ known' = s
    /\ UNCHANGED <<task, home, seen, armed, idle, shutdown, queue, pending, derpIn, sent, pongs, up,
                   packets, frames, drops>>

BeginShutdown ==
    /\ ~shutdown /\ shutdown' = TRUE
    /\ UNCHANGED <<task, home, seen, armed, idle, queue, pending, derpIn, sent, pongs, up,
                   known, packets, frames, drops>>

(* The server sends a frame to the connected client. *)
ServerSends(f) ==
    /\ Connected /\ frames < MaxFrames
    /\ frames' = frames + 1
    /\ derpIn' = Append(derpIn, f)
    /\ UNCHANGED <<task, home, seen, armed, idle, shutdown, queue, pending, sent, pongs, up,
                   known, packets, drops>>

InactivityPasses ==
    /\ Connected /\ ~idle /\ idle' = TRUE
    /\ UNCHANGED <<task, home, seen, armed, shutdown, queue, pending, derpIn, sent, pongs, up,
                   known, packets, frames, drops>>

-----------------------------------------------------------------------------
(* Waiting for the region to be needed *)

(* Mutant of WakeHome: a change is waited for, and the value not looked at *)
(* before.                                                                 *)
WakeHomeChanged ==
    /\ task = "waiting" /\ ~shutdown /\ home /\ ~seen
    /\ task' = "dialing" /\ seen' = TRUE /\ pending' = <<>>
    /\ UNCHANGED <<world, armed, idle, queue, derpIn, sent, pongs, up, drops>>

(* The loop condition: this has become the home region. *)
WakeHome ==
    /\ task = "waiting" /\ ~shutdown /\ home
    /\ task' = "dialing" /\ seen' = TRUE /\ pending' = <<>>
    /\ UNCHANGED <<world, armed, idle, queue, derpIn, sent, pongs, up, drops>>

(* Mutant of WakePacket: the packet is looked at, and stays queued. *)
WakePacketKeeps ==
    /\ task = "waiting" /\ ~shutdown /\ ~home /\ queue # <<>>
    /\ task' = "dialing" /\ seen' = TRUE
    /\ pending' = <<Head(queue)>>
    /\ UNCHANGED <<world, armed, idle, queue, derpIn, sent, pongs, up, drops>>

(* A packet to send. *)
WakePacket ==
    /\ task = "waiting" /\ ~shutdown /\ ~home /\ queue # <<>>
    /\ task' = "dialing" /\ seen' = TRUE
    /\ pending' = <<Head(queue)>> /\ queue' = Tail(queue)
    /\ UNCHANGED <<world, armed, idle, derpIn, sent, pongs, up, drops>>

-----------------------------------------------------------------------------
(* Dialling *)

(* Servers dial_region_tcp does not skip. *)
Usable == {i \in DOMAIN Servers : ~Servers[i].stunOnly /\ ~Servers[i].selfSigned}

(* dial_server races the enabled stacks: it connects when one of them      *)
(* does.  The servers are tried in order; 0 when none can be reached.      *)
DialRegion(reach) ==
    LET up_(i) == \E s \in Servers[i].stacks : <<i, s>> \in reach
        hits == {i \in Usable : up_(i)}
    IN  IF hits = {} THEN 0 ELSE CHOOSE i \in hits : \A j \in hits : i <= j

(* Client::connect: no server and a TLS error are unwrapped and end the    *)
(* task with a panic; an HTTP or handshake error is returned, and the loop *)
(* sleeps before it tries again.                                           *)
Connect(reach, outcome) ==
    LET fails == DialRegion(reach) = 0 \/ outcome # "ok"
    IN  /\ task = "dialing" /\ ~shutdown
        /\ fails => drops < MaxDrops
        /\ drops' = drops + (IF fails THEN 1 ELSE 0)
        /\ task' = IF DialRegion(reach) = 0 \/ outcome = "tls" THEN "panicked"
                   ELSE IF outcome = "ok" THEN "connected" ELSE "backoff"
        /\ pending' = IF task' = "connected" THEN pending ELSE <<>>
        /\ UNCHANGED <<world, seen, armed, idle, queue, derpIn, sent, pongs, up>>

Reaches == SUBSET UNION {{i} \X Servers[i].stacks : i \in DOMAIN Servers}

(* MapPeerKey::send and Client::send: packets for a peer the database does *)
(* not know are filtered out.  A batch has one packet here, or none.       *)
Written(batch) == IF \A i \in DOMAIN batch : batch[i].peer \in known THEN batch ELSE <<>>

(* The packet that woke the task goes first; then the inner loop begins.   *)
Serve ==
    /\ task = "connected" /\ ~shutdown
    /\ task' = "serving" /\ idle' = FALSE /\ armed' = ~home
    /\ sent' = sent \o Written(pending) /\ pending' = <<>>
    /\ derpIn' = <<>> /\ pongs' = [read |-> 0, written |-> 0]
    /\ UNCHANGED <<world, seen, queue, up, drops>>

-----------------------------------------------------------------------------
(* The inner select.  A branch that completes drops the other futures, and *)
(* with them a pong that was not yet written.                              *)

(* recv_one reads frames until one carries data. *)
ReadControl(f) ==
    /\ task = "serving" /\ ~shutdown /\ derpIn # <<>> /\ Head(derpIn) = f
    /\ derpIn' = Tail(derpIn)
    /\ task' = IF f.type = "ping" THEN "ponging" ELSE "serving"
    /\ pongs' = [pongs EXCEPT !.read = @ + (IF f.type = "ping" THEN 1 ELSE 0)]
    /\ UNCHANGED <<world, seen, armed, idle, queue, pending, sent, up, drops>>

WritePong ==
    /\ task = "ponging" /\ ~shutdown
    /\ task' = "serving" /\ pongs' = [pongs EXCEPT !.written = @ + 1]
    /\ UNCHANGED <<world, seen, armed, idle, queue, pending, derpIn, sent, up, drops>>

(* A packet from the server, for the peer its source key belongs to. *)
ReadPacket(f) ==
    /\ task = "serving" /\ ~shutdown /\ derpIn # <<>> /\ Head(derpIn) = f
    /\ derpIn' = Tail(derpIn)
    /\ up' = IF f.src \in known THEN Append(up, f.src) ELSE up
    /\ idle' = FALSE /\ armed' = ~home
    /\ UNCHANGED <<world, task, seen, queue, pending, sent, pongs, drops>>

(* A frame recv_one does not expect, or the end of the stream. *)
ReadFails ==
    /\ task = "serving" /\ ~shutdown
    /\ \/ derpIn # <<>> /\ Head(derpIn).type = "health" /\ derpIn' = Tail(derpIn)
          /\ UNCHANGED drops
       \/ derpIn = <<>> /\ drops < MaxDrops /\ drops' = drops + 1 /\ UNCHANGED derpIn
    /\ task' = "backoff"
    /\ UNCHANGED <<world, seen, armed, idle, queue, pending, sent, pongs, up>>

(* A batch from the dataplane; a write that fails loses it. *)
SendBatch(ok) ==
    /\ Connected /\ ~shutdown /\ queue # <<>>
    /\ ~ok => drops < MaxDrops
    /\ drops' = drops + (IF ok THEN 0 ELSE 1)
    /\ queue' = Tail(queue)
    /\ sent' = IF ok THEN sent \o Written(<<Head(queue)>>) ELSE sent
    /\ task' = IF ok THEN "serving" ELSE "backoff"
    /\ idle' = FALSE /\ armed' = ~home
    /\ UNCHANGED <<world, seen, pending, derpIn, pongs, up>>

(* Mutant of Timeout: it trusts the value the timer was armed with. *)
TimeoutArmed ==
    /\ Connected /\ ~shutdown /\ armed /\ idle
    /\ task' = "waiting" /\ seen' = TRUE
    /\ UNCHANGED <<world, armed, idle, queue, pending, derpIn, sent, pongs, up, drops>>

(* The inactivity timeout looks at the watch again before it closes. *)
Timeout ==
    /\ Connected /\ ~shutdown /\ armed /\ idle
    /\ seen' = TRUE /\ armed' = ~home
    /\ task' = IF home THEN "serving" ELSE "waiting"
    /\ UNCHANGED <<world, idle, queue, pending, derpIn, sent, pongs, up, drops>>

HomeChanged ==
    /\ Connected /\ ~shutdown /\ ~seen
    /\ seen' = TRUE /\ armed' = ~home /\ task' = "serving"
    /\ UNCHANGED <<world, idle, queue, pending, derpIn, sent, pongs, up, drops>>

-----------------------------------------------------------------------------
(* The outer loop: the sleep after an error is not interrupted, everything *)
(* else is.                                                                *)
Backoff ==
    /\ task = "backoff"
    /\ task' = IF shutdown THEN "ended" ELSE "waiting"
    /\ UNCHANGED <<world, seen, armed, idle, queue, pending, derpIn, sent, pongs, up, drops>>

End ==
    /\ shutdown /\ task \notin {"backoff", "ended", "panicked"}
    /\ task' = "ended"
    /\ UNCHANGED <<world, seen, armed, idle, queue, pending, derpIn, sent, pongs, up, drops>>

Controls == {[type |-> "ping"], [type |-> "keepAlive"]}
Data == [type : {"recv"}, src : Peers]

Serving ==
    \/ \E f \in Controls : ReadControl(f)
    \/ \E f \in Data : ReadPacket(f)
    \/ WritePong \/ ReadFails \/ Timeout \/ HomeChanged
    \/ \E ok \in BOOLEAN : SendBatch(ok)

RegionTask ==
    \/ WakeHome \/ WakePacket \/ Serve \/ Backoff \/ End \/ Serving
    \/ \E reach \in Reaches, outcome \in {"ok", "tls", "http"} : Connect(reach, outcome)

RegionNext ==
    \/ RegionTask
    \/ \E p \in Peers : Enqueue(p)
    \/ \E b \in BOOLEAN : SetHome(b)
    \/ \E s \in SUBSET Peers : SetKnown(s)
    \/ \E f \in Controls \cup Data \cup {[type |-> "health"]} : ServerSends(f)
    \/ InactivityPasses \/ BeginShutdown

(* The task is polled whenever it can move; the clock runs. *)
RegionRuns == /\ WF_regionVars(RegionTask) /\ WF_regionVars(Serving)
              /\ WF_regionVars(InactivityPasses) /\ WF_regionVars(Timeout)

RegionSpec == RegionInit /\ [][RegionNext]_regionVars /\ RegionRuns

-----------------------------------------------------------------------------
(* What reaches a server is, in order and at most once each, what the      *)
(* dataplane queued (run_derp_once drops packets on errors, never repeats  *)
(* or swaps them, across any number of connections).                       *)
ForwardedInOrder ==
    \A i, j \in DOMAIN sent : i < j => sent[i].n < sent[j].n

(* The home region's connection is not closed for inactivity, however the  *)
(* timer, the traffic and the moves of the home region interleave.         *)
HomeKept == [][Connected /\ task' = "waiting" => ~home]_regionVars

(* Once the watch has been looked at, the timer is armed exactly when this *)
(* is not the home region.                                                 *)
TimerFollowsHome == Connected /\ seen => armed = ~home

(* A region that becomes home gets connected, unless the role moves on,    *)
(* the runtime shuts down or the task panicked.                            *)
HomeConnects ==
    home ~> (Connected \/ ~home \/ shutdown \/ task = "panicked")

(* Shutdown ends the task wherever it is. *)
ShutdownEnds == shutdown ~> task \in {"ended", "panicked"}

(* A connection that stops being home's is closed once it is idle.         *)
IdleCloses ==
    []<>(home \/ shutdown \/ ~Connected \/ ~idle)
=============================================================================
