------------------------------ MODULE Netstack ------------------------------
(***************************************************************************)
(* The userspace network stack (src/ts_netstack_smoltcp_core), its sockets *)
(* (ts_netstack_smoltcp_socket) and the task that runs it                  *)
(* (ts_netstack_smoltcp).  Sockets send requests over a channel; a request *)
(* that would block is queued and tried again whenever the stack may have  *)
(* made progress.                                                          *)
(*                                                                         *)
(* smoltcp is external: a socket is a slot of a set that reuses its lowest *)
(* free slot, with a TCP state or an open packet socket, a receive buffer  *)
(* and a transmit buffer of Buffer packets each.  A handle is the number   *)
(* of a slot.  Payloads are numbers, the endpoints of a TCP connection are *)
(* the number of the connection.  Clients are the tasks that use sockets;  *)
(* a future they drop leaves its request in the stack.                     *)
(***************************************************************************)
EXTENDS Integers, Sequences, FiniteSets, SequencesExt, FiniteSetsExt

CONSTANTS
    Configs,            \* stacks to consider: records of
                        \*   packet, stream: clients of a packet socket (udp or raw) and of a TCP stream,
                        \*   opens: how a stream is opened, a subset of {"connect", "accept"},
                        \*   async: is the stack run by run, or by run_blocking?
                        \*   and bounds on the command channel, the requests and the arriving packets
    Slots, Buffer, DeviceRoom       \* bounds: socket set, buffers, device queue

VARIABLES
    config,             \* one of Configs
    ns,                 \* the stack: sockets, listener, blocked_commands, pending_tcp_closes, and
                        \* per client: its handle, the request it waits for, the last payload it got
    chan,               \* the command channel
    rx, tx,             \* the device: arrived packets, number of packets not yet taken from it
    pc, done,           \* the task: does it poll, and has its future nothing to send?
    woken,              \* has the sleeping task been woken?
    asked, arrived, conns

netVars == <<config, ns, chan, rx, tx, pc, done, woken, asked, arrived, conns>>
Packet == config.packet
Stream == config.stream
Async == config.async
Clients == Packet \cup Stream

-----------------------------------------------------------------------------
(* smoltcp *)

Free == [kind |-> "free", owner |-> 0, state |-> "closed", rx |-> <<>>, tx |-> <<>>, out |-> FALSE]
Socket(kind, owner, state) == [Free EXCEPT !.kind = kind, !.owner = owner, !.state = state]
Add(s, sock) == [s EXCEPT !.sockets[Min({h \in Slots : s.sockets[h].kind = "free"})] = sock]
Added(s) == Min({h \in Slots : s.sockets[h].kind = "free"})

(* tcp::Socket::close *)
Shut(sock) ==
    CASE sock.state \in {"listen", "synsent"} -> [sock EXCEPT !.state = "closed"]
      [] sock.state \in {"synrcvd", "est"} -> [sock EXCEPT !.state = "finwait", !.out = TRUE]
      [] sock.state = "closewait" -> [sock EXCEPT !.state = "lastack", !.out = TRUE]
      [] OTHER -> sock

(* What a packet does to the socket it is for. *)
Segment(sock, ev, conn) ==
    CASE ev = "syn" -> [sock EXCEPT !.state = "synrcvd", !.owner = conn, !.out = TRUE]
      [] ev = "ack" /\ sock.state \in {"synrcvd", "synsent"} /\ ~sock.out -> [sock EXCEPT !.state = "est"]
      [] ev = "ack" /\ sock.state = "lastack" /\ ~sock.out -> [sock EXCEPT !.state = "closed"]
      [] ev = "rst" /\ sock.state = "synrcvd" -> [sock EXCEPT !.state = "listen", !.owner = 0, !.out = FALSE]
      [] ev = "rst" /\ sock.state # "synrcvd" -> [sock EXCEPT !.state = "closed", !.out = FALSE]
      [] ev = "fin" /\ sock.state \in {"est", "synrcvd"} -> [sock EXCEPT !.state = "closewait"]
      [] ev = "fin" /\ sock.state = "finwait" -> [sock EXCEPT !.state = "timewait"]
      [] OTHER -> sock

(* The socket a packet is for: the first of the set that accepts it. *)
Accepts(s, p) ==
    {h \in Slots : LET sock == s.sockets[h]
                   IN  \/ p.ev = "datagram" /\ sock.kind = "packet" /\ sock.owner = p.to
                       \/ p.ev = "syn" /\ sock.kind = "tcp" /\ sock.state = "listen"
                       \/ /\ p.ev \in {"ack", "rst", "fin", "data"} /\ sock.kind = "tcp"
                          /\ sock.owner = p.to /\ sock.state \notin {"listen", "closed"}}

Delivered(s, p) ==
    IF Accepts(s, p) = {} THEN s
    ELSE LET h == Min(Accepts(s, p))
             sock == s.sockets[h]
         IN  [s EXCEPT !.sockets[h] =
                 IF p.ev \in {"datagram", "data"}
                 THEN IF Len(sock.rx) < Buffer /\ sock.state \in {"open", "est", "finwait"}
                      THEN [sock EXCEPT !.rx = Append(@, [n |-> p.n, to |-> p.to])] ELSE sock
                 ELSE Segment(sock, p.ev, p.to)]

(* poll_egress: each socket with something to send sends one packet.  A    *)
(* send to a full device blocks the thread until there is room: the rest   *)
(* of the poll is seen as done before, and the task goes on after it.      *)
Wanting(s) == {h \in Slots : s.sockets[h].tx # <<>> \/ s.sockets[h].out}
Transmit(s) ==
    [s EXCEPT !.sockets = [h \in Slots |->
        IF h \notin Wanting(s) THEN @[h]
        ELSE IF @[h].out THEN [@[h] EXCEPT !.out = FALSE] ELSE [@[h] EXCEPT !.tx = Tail(@)]]]

-----------------------------------------------------------------------------
(* Commands.  s is the stack and its clients; a client that waits for the  *)
(* request gets the answer, else the response channel is closed.           *)

Nothing == [n |-> 0, to |-> 0]

Answer(s, r, handle, got) ==
    IF s.clients[r.c].want # r.id THEN s
    ELSE [s EXCEPT !.clients[r.c] = [@ EXCEPT !.want = 0, !.h = handle,
                                              !.got = IF got = Nothing THEN @ ELSE got]]

Block(s, r) == [s EXCEPT !.blocked = Append(@, r)]

(* socket_set.get_mut: no socket, or one of another kind, is a panic. *)
Refers(s, r) == s.sockets[r.h].kind = r.kind

ProcessSend(s, r) ==
    LET sock == s.sockets[r.h]
    IN  CASE ~Refers(s, r) -> [s EXCEPT !.dead = TRUE]
          [] Refers(s, r) /\ sock.state \notin {"open", "est", "closewait"} -> Answer(s, r, r.h, Nothing)
          [] Refers(s, r) /\ sock.state \in {"open", "est", "closewait"} ->
                 IF Len(sock.tx) < Buffer
                 THEN Answer([s EXCEPT !.sockets[r.h].tx = Append(@, [id |-> r.id, c |-> r.c])], r, r.h, Nothing)
                 ELSE Block(s, r)

ProcessRecv(s, r) ==
    LET sock == s.sockets[r.h]
    IN  CASE ~Refers(s, r) -> [s EXCEPT !.dead = TRUE]
          [] Refers(s, r) /\ sock.rx # <<>> ->
                 Answer([s EXCEPT !.sockets[r.h].rx = Tail(@)], r, r.h, Head(sock.rx))
          [] Refers(s, r) /\ sock.rx = <<>> ->
                 IF sock.state \in {"open", "est", "finwait"} THEN Block(s, r) ELSE Answer(s, r, r.h, Nothing)

(* A packet socket is removed at once, a TCP socket when it has closed. *)
ProcessClose(s, r) ==
    CASE ~Refers(s, r) -> [s EXCEPT !.dead = TRUE]
      [] Refers(s, r) /\ r.kind = "packet" -> [s EXCEPT !.sockets[r.h] = Free]
      [] Refers(s, r) /\ r.kind = "tcp" ->
             [s EXCEPT !.sockets[r.h] = Shut(@), !.closing = Append(@, r.h)]

(* Connect: a request with a handle polls the connection it started. *)
ProcessConnect(s, r) ==
    IF r.h = 0
    THEN Block(Add(s, [Socket("tcp", r.to, "synsent") EXCEPT !.out = TRUE]), [r EXCEPT !.h = Added(s)])
    ELSE LET state == s.sockets[r.h].state
         IN  CASE state = "est" -> Answer(s, r, r.h, Nothing)
               [] state \in {"synrcvd", "synsent"} -> Block(s, r)
               [] OTHER -> Answer([s EXCEPT !.closing = Append(@, r.h)], r, 0, Nothing)

(* Accept: sort the half-open sockets, then take the first established one *)
(* of the accept queue; sockets in other states are closed or let go.      *)
Finish(s, hs) ==
    [s EXCEPT !.sockets = [h \in Slots |-> IF h \in Range(hs) THEN Shut(@[h]) ELSE @[h]],
              !.closing = @ \o hs]

InState(s, hs, states) == SelectSeq(hs, LAMBDA h : s.sockets[h].state \in states)

SortHalfOpen(s) ==
    LET half == s.listener.half
    IN  [Finish(s, InState(s, half, {"closewait", "listen"})) EXCEPT
            !.listener.half = InState(s, half, {"synrcvd"}),
            !.listener.ready = s.listener.ready \o InState(s, half, {"est"})]

TakeReady(s, r) ==
    LET ready == s.listener.ready
        est == {i \in DOMAIN ready : s.sockets[ready[i]].state = "est"}
        upto == IF est = {} THEN Len(ready) ELSE Min(est)
        t == [Finish(s, InState(s, SubSeq(ready, 1, upto), {"closewait"})) EXCEPT
                 !.listener.ready = SubSeq(ready, upto + 1, Len(ready))]
    IN  IF est = {} THEN Block(t, r) ELSE Answer(t, r, ready[upto], Nothing)

Listen(s) == [Add(s, Socket("tcp", 0, "listen")) EXCEPT !.listener.open = TRUE, !.listener.current = Added(s)]

ProcessAccept(s, r) ==
    IF ~s.listener.open THEN Answer(s, r, 0, Nothing) ELSE TakeReady(SortHalfOpen(s), r)

ProcessListenClose(s, r) ==
    [Finish(s, <<s.listener.current>> \o s.listener.half \o s.listener.ready) EXCEPT
        !.listener = [open |-> FALSE, current |-> 0, half |-> <<>>, ready |-> <<>>]]

ProcessPacket(s, r) ==
    CASE r.op = "open" -> Answer(Add(s, Socket("packet", r.c, "open")), r, Added(s), Nothing)
      [] r.op = "send" -> ProcessSend(s, r)
      [] r.op = "recv" -> ProcessRecv(s, r)
      [] r.op = "close" -> ProcessClose(s, r)

ProcessTcpStream(s, r) ==
    CASE r.op = "connect" -> ProcessConnect(s, r)
      [] r.op = "send" -> ProcessSend(s, r)
      [] r.op = "recv" -> ProcessRecv(s, r)
      [] r.op = "close" -> ProcessClose(s, r)

ProcessTcpListen(s, r) == IF r.op = "accept" THEN ProcessAccept(s, r) ELSE ProcessListenClose(s, r)

(* After a panic there is no stack. *)
ProcessOneCmd(s, r) ==
    IF s.dead THEN s
    ELSE IF r.op \in {"accept", "unlisten"} THEN ProcessTcpListen(s, r)
    ELSE IF r.kind = "tcp" THEN ProcessTcpStream(s, r) ELSE ProcessPacket(s, r)

ProcessAll(s, rs) == FoldLeft(ProcessOneCmd, s, rs)

(* A listening socket that left LISTEN is replaced. *)
PumpTcpAccept(s) ==
    IF ~s.listener.open \/ s.sockets[s.listener.current].state = "listen" THEN s
    ELSE LET cur == s.listener.current
             state == s.sockets[cur].state
             t == CASE state = "synrcvd" -> [s EXCEPT !.listener.half = Append(@, cur)]
                    [] state = "est" -> [s EXCEPT !.listener.ready = Append(@, cur)]
                    [] OTHER -> Finish(s, <<cur>>)
         IN  [Add(t, Socket("tcp", 0, "listen")) EXCEPT !.listener.current = Added(t)]

(* Mutant of PumpBlocked: the newest request first. *)
PumpBlockedReversed(s) == ProcessAll([s EXCEPT !.blocked = <<>>], Reverse(s.blocked))

(* Every blocked command is tried once, in order. *)
PumpBlocked(s) == ProcessAll([s EXCEPT !.blocked = <<>>], s.blocked)

PumpWaiters(s) == PumpBlocked(PumpTcpAccept(s))

DrainTcpCloses(s) ==
    LET gone == {h \in Range(s.closing) : s.sockets[h].state = "closed"}
    IN  [s EXCEPT !.sockets = [h \in Slots |-> IF h \in gone THEN Free ELSE @[h]],
                  !.closing = SelectSeq(@, LAMBDA h : h \notin gone),
                  !.dead = @ \/ \E h \in Range(s.closing) : s.sockets[h].kind # "tcp"]

-----------------------------------------------------------------------------
(* Polling the device.  p is a poll in progress: the stack, the device, and *)
(* the flags of IoPoller.                                                   *)

(* poll_device_ingress_async: every packet the device has, when a reply    *)
(* could be sent.  It returns when the device is drained, before it would  *)
(* pump the waiters; poll_device_io pumps them.                            *)
IngressOne(p, packet) ==
    IF packet.ev = "empty" THEN p
    ELSE [p EXCEPT !.ns = PumpTcpAccept(Delivered(@, packet)), !.changed = TRUE]

IngressStep(p) ==
    IF p.ingress THEN p
    ELSE IF p.rx = <<>> \/ (Async /\ p.tx >= DeviceRoom) THEN [p EXCEPT !.ingress = TRUE]
    ELSE LET q == FoldLeft(IngressOne, [p EXCEPT !.rx = <<>>, !.changed = FALSE], p.rx)
         IN  [q EXCEPT !.ingress = ~q.changed, !.egress = FALSE, !.progress = @ \/ q.changed,
                       !.ns = IF ~Async /\ q.changed THEN PumpWaiters(@) ELSE @]

(* poll_device_egress_async: with nothing to send, the future will not try *)
(* again.                                                                  *)
EgressStep(p) ==
    LET sent == Wanting(p.ns)
    IN  IF p.done \/ p.egress THEN p
        ELSE IF p.tx >= DeviceRoom THEN [p EXCEPT !.egress = TRUE]
        ELSE IF sent = {} THEN [p EXCEPT !.done = TRUE]
        ELSE [p EXCEPT !.ns = PumpWaiters(Transmit(@)), !.ingress = FALSE, !.progress = TRUE,
                       !.tx = IF Async THEN @ + Cardinality(sent) ELSE @]

RECURSIVE IoLoop(_)
IoLoop(p) == IF p.ns.dead \/ (p.ingress /\ (p.done \/ p.egress)) THEN p ELSE IoLoop(EgressStep(IngressStep(p)))

(* IoPoller::poll and poll_device_io: the waiters, the loop and, with      *)
(* progress, the sockets that have closed.                                 *)
PollIo ==
    LET p == IoLoop([ns |-> PumpWaiters(ns), rx |-> rx, tx |-> tx, ingress |-> FALSE, done |-> done /\ Async,
                     egress |-> FALSE, progress |-> FALSE, changed |-> FALSE])
    IN  IF p.progress THEN [p EXCEPT !.ns = DrainTcpCloses(@)] ELSE p

-----------------------------------------------------------------------------
(* The task *)

NetInit ==
    /\ config \in Configs
    /\ LET idle == [h |-> 0, want |-> 0, op |-> "none", got |-> Nothing]
           empty == [sockets |-> [h \in Slots |-> Free], blocked |-> <<>>, closing |-> <<>>, dead |-> FALSE,
                     listener |-> [open |-> FALSE, current |-> 0, half |-> <<>>, ready |-> <<>>],
                     clients |-> [c \in Clients |-> idle]]
       IN  ns = IF "accept" \in config.opens THEN Listen(empty) ELSE empty
    /\ chan = <<>> /\ rx = <<>> /\ tx = 0 /\ pc = "poll" /\ done = FALSE /\ woken = FALSE
    /\ asked = 0 /\ arrived = 0 /\ conns = 0

(* A poll that made progress ends its future, and a new one begins. *)
PollReady ==
    /\ pc = "poll" /\ ~ns.dead /\ tx <= DeviceRoom /\ PollIo.progress
    /\ ns' = PollIo.ns /\ rx' = PollIo.rx /\ tx' = PollIo.tx /\ done' = FALSE /\ woken' = FALSE
    /\ UNCHANGED <<config, chan, pc, asked, arrived, conns>>

(* Else commands, or sleep. *)
PollPending ==
    /\ pc = "poll" /\ ~ns.dead /\ tx <= DeviceRoom /\ ~PollIo.progress
    /\ rx' = PollIo.rx /\ tx' = PollIo.tx /\ woken' = FALSE
    /\ IF chan = <<>> \/ PollIo.ns.dead
       THEN ns' = PollIo.ns /\ pc' = "wait" /\ done' = PollIo.done /\ UNCHANGED chan
       ELSE ns' = ProcessAll(PollIo.ns, chan) /\ chan' = <<>> /\ pc' = "poll" /\ done' = FALSE
    /\ UNCHANGED <<config, asked, arrived, conns>>

(* The device or a command wakes the task, which polls the same future;    *)
(* run_blocking wakes by itself.                                           *)
Wake ==
    /\ pc = "wait" /\ ~ns.dead /\ tx <= DeviceRoom /\ (woken \/ ~Async)
    /\ pc' = "poll" /\ UNCHANGED <<config, ns, chan, rx, tx, done, woken, asked, arrived, conns>>

(* poll_delay has passed: connections in TIME-WAIT expire. *)
Timer ==
    /\ pc = "wait" /\ ~ns.dead /\ tx <= DeviceRoom /\ \E h \in Slots : ns.sockets[h].state = "timewait"
    /\ ns' = [ns EXCEPT !.sockets = [h \in Slots |-> IF @[h].state = "timewait"
                                                     THEN [@[h] EXCEPT !.state = "closed"] ELSE @[h]]]
    /\ pc' = "poll" /\ done' = FALSE /\ UNCHANGED <<config, chan, rx, tx, woken, asked, arrived, conns>>

Task == PollReady \/ PollPending \/ Wake \/ Timer

-----------------------------------------------------------------------------
(* The clients, the network and the other end of the device.  A poll does  *)
(* not yield: what they do meanwhile is seen as done before or after it.   *)
(* Packets that no socket has a use for when they are sent are left out.   *)

Kind(c) == IF c \in Packet THEN "packet" ELSE "tcp"

(* A client waits for one request at a time. *)
Request(c, op) ==
    /\ ns.clients[c].want = 0 /\ asked < config.requests /\ Len(chan) < config.channel
    /\ asked' = asked + 1 /\ conns' = IF op = "connect" THEN conns + 1 ELSE conns
    /\ ns' = [ns EXCEPT !.clients[c] = [@ EXCEPT !.want = asked', !.op = op]]
    /\ chan' = Append(chan, [id |-> asked', c |-> c, op |-> op, kind |-> Kind(c),
                             h |-> ns.clients[c].h, to |-> conns'])
    /\ woken' = TRUE /\ UNCHANGED <<config, rx, tx, pc, done, arrived>>

Holds(c) == ns.clients[c].h # 0
Bind(c) == c \in Packet /\ ~Holds(c) /\ Request(c, "open")
SendTo(c) == c \in Packet /\ Holds(c) /\ Request(c, "send")
RecvFrom(c) == c \in Packet /\ Holds(c) /\ Request(c, "recv")
Connect(c) == c \in Stream /\ "connect" \in config.opens /\ ~Holds(c) /\ Request(c, "connect")
Accept(c) == c \in Stream /\ ns.listener.open /\ ~Holds(c) /\ Request(c, "accept")
Write(c) == c \in Stream /\ Holds(c) /\ Request(c, "send")
Read(c) == c \in Stream /\ Holds(c) /\ Request(c, "recv")

(* The future of a request is dropped. *)
Cancel(c) ==
    /\ ns.clients[c].want # 0 /\ ns' = [ns EXCEPT !.clients[c].want = 0]
    /\ UNCHANGED <<config, chan, rx, tx, pc, done, woken, asked, arrived, conns>>

(* The socket is dropped; a full channel loses the close. *)
Drop(c) ==
    /\ ns.clients[c].want = 0 /\ ns.clients[c].h # 0
    /\ ns' = [ns EXCEPT !.clients[c].h = 0]
    /\ chan' = IF Len(chan) = config.channel THEN chan
               ELSE Append(chan, [id |-> 0, c |-> c, op |-> "close", kind |-> Kind(c),
                                  h |-> ns.clients[c].h, to |-> 0])
    /\ woken' = TRUE /\ UNCHANGED <<config, rx, tx, pc, done, asked, arrived, conns>>

DropListener ==
    /\ ns.listener.open /\ Len(chan) < config.channel
    /\ \A i \in DOMAIN chan : chan[i].op # "unlisten"
    /\ \A c \in Stream : ns.clients[c].want = 0 \/ ns.clients[c].op # "accept"
    /\ chan' = Append(chan, [id |-> 0, c |-> 0, op |-> "unlisten", kind |-> "tcp", h |-> 0, to |-> 0])
    /\ woken' = TRUE /\ UNCHANGED <<config, ns, rx, tx, pc, done, asked, arrived, conns>>

Arrive(ev, to) ==
    LET p == [ev |-> ev, to |-> IF ev = "syn" THEN conns + 1 ELSE to, n |-> arrived + 1]
    IN  /\ arrived < config.arrivals /\ (ev = "empty" \/ Delivered(ns, p) # ns)
        /\ arrived' = arrived + 1 /\ conns' = IF ev = "syn" THEN conns + 1 ELSE conns
        /\ rx' = Append(rx, p)
        /\ woken' = TRUE /\ UNCHANGED <<config, ns, chan, tx, pc, done, asked>>

Take ==
    /\ tx > 0 /\ tx' = tx - 1 /\ woken' = TRUE
    /\ UNCHANGED <<config, ns, chan, rx, pc, done, asked, arrived, conns>>

Around ==
    \/ \E c \in Packet : Bind(c) \/ SendTo(c) \/ RecvFrom(c)
    \/ \E c \in Stream : Connect(c) \/ Accept(c) \/ Write(c) \/ Read(c)
    \/ \E c \in Clients : Cancel(c) \/ Drop(c)
    \/ DropListener \/ Take
    \/ \E c \in Packet : Arrive("datagram", c) \/ Arrive("empty", c)
    \/ "accept" \in config.opens /\ Arrive("syn", 0)
    \/ \E k \in 1 .. conns, ev \in {"ack", "rst", "fin", "data"} : Arrive(ev, k)

NetNext == Task \/ Around

(* The executor polls a task that can run.  This is WF_netVars(Task), with *)
(* ENABLED Task written out.                                               *)
Runnable == ~ns.dead /\ tx <= DeviceRoom /\ (pc = "poll" \/ woken \/ ~Async \/ \E h \in Slots : ns.sockets[h].state = "timewait")
TaskRuns == []<>~Runnable \/ []<><<Task>>_netVars

NetSpec == NetInit /\ [][NetNext]_netVars /\ TaskRuns

-----------------------------------------------------------------------------
(* The task sleeps only when it has nothing to do: another round of the    *)
(* waiters would change nothing, and what wants to be sent finds the       *)
(* device full.  Nothing waits for an event that has already happened.     *)
SleepsWhenIdle ==
    pc = "wait" /\ ~woken /\ ~ns.dead
        => PumpWaiters(ns) = ns /\ (Wanting(ns) = {} \/ tx >= DeviceRoom)

(* A live socket belongs to one client: handles that clients hold are      *)
(* distinct, refer to a socket of their kind, and are neither closing nor  *)
(* in the listener's hands.                                                *)
HandlesOwned ==
    /\ \A c, d \in Clients : c # d /\ ns.clients[c].h # 0 => ns.clients[c].h # ns.clients[d].h
    /\ \A c \in Clients : ns.clients[c].h # 0 =>
           /\ ns.sockets[ns.clients[c].h].kind = Kind(c)
           /\ ns.clients[c].h \notin Range(ns.closing \o ns.listener.half \o ns.listener.ready)
    /\ IsInjective(ns.closing \o ns.listener.half \o ns.listener.ready)

(* What a client wrote to its socket leaves in the order it was written,   *)
(* also when it gave up waiting for a send in between.                     *)
SendsInOrder ==
    \A h \in Slots, c \in Clients :
        LET blocked == SelectSeq(ns.blocked, LAMBDA r : r.op = "send" /\ r.h = h)
            own == SelectSeq(ns.sockets[h].tx \o blocked, LAMBDA e : e.c = c)
        IN  ns.clients[c].h = h => \A i, j \in DOMAIN own : i < j => own[i].id < own[j].id

(* A client of a packet socket receives what was sent to it, in order:     *)
(* what waits in its socket is its own and later than what it got last.    *)
ReceivesOwn ==
    \A c \in Packet :
        LET last == ns.clients[c].got
            waits == IF ns.clients[c].h = 0 THEN <<>> ELSE ns.sockets[ns.clients[c].h].rx
        IN  /\ last = Nothing \/ last.to = c
            /\ \A i \in DOMAIN waits : waits[i].to = c /\ waits[i].n > last.n
            /\ \A i, j \in DOMAIN waits : i < j => waits[i].n < waits[j].n

(* The stack's shared tables serve each client by itself: no waiter sleeps *)
(* through its event, no socket has two owners, and what a client sends    *)
(* and receives is its own, in order.                                      *)
ClientsServed == SleepsWhenIdle /\ HandlesOwned /\ SendsInOrder /\ ReceivesOwn

(* A receive whose data is there is answered, an accept whose connection   *)
(* is established too.                                                     *)
Names == UNION {k.packet \cup k.stream : k \in Configs}
Waits(c, op) == c \in Clients /\ ns.clients[c].want # 0 /\ ns.clients[c].op = op /\ ~ns.dead
HasData(c) == ns.clients[c].h # 0 /\ ns.sockets[ns.clients[c].h].rx # <<>>
RecvAnswered == \A c \in Names : Waits(c, "recv") /\ HasData(c) ~> ~(Waits(c, "recv") /\ HasData(c))

Established == ns.listener.open /\ \E h \in {ns.listener.current} \cup Range(ns.listener.half \o ns.listener.ready) :
                   ns.sockets[h].state = "est"
AcceptAnswered == \A c \in Names : Waits(c, "accept") /\ Established ~> ~(Waits(c, "accept") /\ Established)
=============================================================================
