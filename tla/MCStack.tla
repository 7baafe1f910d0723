------------------------------ MODULE MCStack ------------------------------
(***************************************************************************)
(* Model checking of what carries packets in and out of the node: the      *)
(* network stack (Netstack), the pipe that feeds it (WakingPipe), a        *)
(* connection to a DERP server (DerpFrames) and the server of terminal     *)
(* sessions above the stack (ChannelServer), each by itself: part says     *)
(* which one runs, the others rest in an initial state.                    *)
(***************************************************************************)
EXTENDS Netstack

VARIABLES
    part,
    shape, inbox, rxWaker, txWaker, at, notified, sent, received,  \* the pipe's
    phase, script, open, down, net, src, returned, ping, writer, up, dst, wire, seen, sends,
    cancels,                                                      \* the connection's
    conn, dropped, channel_state, serving, queue, task, running, aborted, ending, client,
    events, handled                                               \* the server's

PipeShapes == {[devices |-> {1}, limit |-> 1], [devices |-> {1, 2}, limit |-> 3]}

Pipe == INSTANCE WakingPipe WITH Shapes <- PipeShapes, MaxPackets <- 2, pc <- at

(* DerpFrames: servers that keep to the protocol, that hang up, and that   *)
(* send a frame the client does not take.                                  *)
F(typ, len) == [typ |-> typ, len |-> len, valid |-> TRUE]
Invalid(f) == [f EXCEPT !.valid = FALSE]
FrameScripts ==
    { <<F("ServerInfo", 1)>> \o s : s \in
        { <<F("RecvPacket", 1), F("RecvPacket", 2)>>,
          <<F("Ping", 1), F("RecvPacket", 1), F("Ping", 1)>>,
          <<F("KeepAlive", 0), F("PeerGone", 1), F("Ping", 0), F("RecvPacket", 1)>>,
          <<F("RecvPacket", 1), F("Close", 0)>>, <<F("Ping", 1), F("Close", 0)>>,
          <<Invalid(F("PeerGone", 1))>>, <<F("Health", 0)>>, <<F("RecvPacket", 4)>>,
          <<F("RecvPacket", 0)>> } }
    \cup {<<Invalid(F("ServerInfo", 1))>>, <<F("Close", 0)>>}
Frames == INSTANCE DerpFrames WITH
    HeaderLen <- 2, MaxLen <- 3, Scripts <- FrameScripts, Payloads <- {1, 3}, MaxSends <- 2,
    MaxCancels <- 1, lock <- writer

(* ChannelServer: a channel of a terminal session, and two events in it. *)
Ssh == INSTANCE ChannelServer WITH Channels <- {1}, MaxEvents <- 2, at <- task, asked <- ending

pipeVars == <<shape, inbox, rxWaker, txWaker, at, notified, sent, received>>
frameVars == <<phase, script, open, down, net, src, returned, ping, writer, up, dst, wire, seen, sends,
               cancels>>
serverVars == <<conn, dropped, channel_state, serving, queue, task, running, aborted, ending, client,
                events, handled>>
vars == <<part, netVars, pipeVars, frameVars, serverVars>>

(* One client that does nothing but what the configuration says. *)
Plain == [packet |-> {}, stream |-> {}, opens |-> {}, async |-> TRUE, channel |-> 1,
          requests |-> 3, arrivals |-> 3]
MCConfigs ==
    { [Plain EXCEPT !.packet = {1, 2}, !.channel = 2, !.arrivals = 1],
      [Plain EXCEPT !.packet = {1}, !.requests = 5, !.arrivals = 1],
      [Plain EXCEPT !.stream = {1}, !.opens = {"accept"}, !.requests = 2],
      [Plain EXCEPT !.stream = {1}, !.opens = {"connect"}, !.requests = 2],
      [Plain EXCEPT !.stream = {1}, !.opens = {"accept"}, !.requests = 2, !.async = FALSE] }

Init ==
    /\ part \in {"stack", "pipe", "frames", "ssh"}
    /\ NetInit /\ (part # "stack" => config = CHOOSE k \in Configs : TRUE)
    /\ Pipe!PipeInit /\ (part # "pipe" => shape = CHOOSE k \in PipeShapes : TRUE)
    /\ Frames!DerpInit /\ (part # "frames" => script = <<F("Close", 0)>>)
    /\ Ssh!SshInit

StackStep == part = "stack" /\ NetNext /\ UNCHANGED <<part, pipeVars, frameVars, serverVars>>
PipeStep(e) ==
    part = "pipe" /\ Pipe!EndStep(e) /\ UNCHANGED <<part, netVars, frameVars, serverVars>>
FramesStep ==
    part = "frames" /\ Frames!DerpNext /\ UNCHANGED <<part, netVars, pipeVars, serverVars>>
SshStep == part = "ssh" /\ Ssh!SshNext /\ UNCHANGED <<part, netVars, pipeVars, frameVars>>

Next == StackStep \/ FramesStep \/ SshStep \/ \E e \in Pipe!Ends : PipeStep(e)

(* Each part keeps its own fairness (the first conjunct is TaskRuns). *)
Live(p, Act) == part = p /\ Act /\ UNCHANGED part
Fairness ==
    /\ []<>(part # "stack" \/ ~Runnable) \/ []<><<Task>>_netVars
    /\ \A e \in Pipe!Ends : WF_vars(PipeStep(e))
    /\ WF_frameVars(Live("frames", Frames!Moves))
    /\ SF_frameVars(Live("frames", Frames!SendPong))
    /\ WF_serverVars(Live("ssh", Ssh!DropServer))
    /\ \A c \in {1} : /\ WF_serverVars(Live("ssh", Ssh!ChannelTask(c)))
                     /\ WF_serverVars(Live("ssh", Ssh!RemoveEntry(c)))
                     /\ WF_serverVars(Live("ssh", ending[c] /\ Ssh!channel_close(c)))

Spec == Init /\ [][Next]_vars /\ Fairness

-----------------------------------------------------------------------------
(* Streams stay in step: wherever a DERP connection is cut or a call on it *)
(* is cancelled, the client returns the packets it is sent in order and    *)
(* the server decodes the frames that were encoded; and the handler of an  *)
(* SSH channel sees the events of its channel in order, without a gap, and *)
(* is not missed by its session when it ends.                              *)
StreamsIntact == Frames!PacketsInOrder /\ Frames!ServerParses /\ Ssh!HandlersFollow

(* What must happen does: a receive whose data is there and an accept      *)
(* whose connection is established are answered, every packet that an end  *)
(* of a pipe sends reaches the other end, every packet of an orderly DERP  *)
(* server is returned, and an SSH channel's events are handled until the   *)
(* channel, its entry and its task have ended.                             *)
PacketsMove ==
    /\ part = "stack" => RecvAnswered /\ AcceptAnswered
    /\ part = "pipe" => Pipe!PacketsArrive
    /\ part = "frames" => Frames!AllReturned
    /\ part = "ssh" => Ssh!ChannelsEnd
=============================================================================
