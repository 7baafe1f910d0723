---------------------------- MODULE ChannelServer ----------------------------
(***************************************************************************)
(* The SSH server on the tailnet (src/src/ssh): one connection, served by  *)
(* a ChannelServer, whose channels each have a task that feeds the events  *)
(* of the channel to a handler (RatatuiTerm).  The callbacks of russh run  *)
(* one after the other in the session's task; the channels' tasks run      *)
(* beside it.  Aborting a task takes effect when it is not being polled.   *)
(***************************************************************************)
EXTENDS Naturals, Sequences, FiniteSets, SequencesExt

CONSTANTS
    Channels,      \* the channels the client may open
    MaxEvents      \* bound on the events of a channel before it is closed

VARIABLES
    conn,          \* the session: "auth", "open" or "ended"
    dropped,       \* the server was dropped with its session
    channel_state, \* the channels that have an entry: their sender and JoinSet
    serving,       \* channels whose channel_close is between its two steps
    queue,         \* the events in a channel's mpsc
    at,            \* the task: "none", "new", "recv", "input", "pending", "draw", "done"
    running,       \* whether the task is being polled
    aborted,       \* whether its JoinSet was dropped
    asked,         \* the session was asked to close the channel
    client,        \* the client's view of the channel: "unopened", "open", "eof", "closed"
    events, handled   \* the events of a channel so far, and those its handler took

sshVars == <<conn, dropped, channel_state, serving, queue, at, running, aborted, asked, client,
             events, handled>>
taskVars == <<at, running, asked, handled>>

SshInit ==
    /\ conn = "auth" /\ dropped = FALSE /\ channel_state = {} /\ serving = {}
    /\ queue = [c \in Channels |-> <<>>] /\ at = [c \in Channels |-> "none"]
    /\ running = [c \in Channels |-> FALSE] /\ aborted = [c \in Channels |-> FALSE]
    /\ asked = [c \in Channels |-> FALSE] /\ client = [c \in Channels |-> "unopened"]
    /\ events = [c \in Channels |-> <<>>] /\ handled = [c \in Channels |-> <<>>]

-----------------------------------------------------------------------------
(* The callbacks of the session                                            *)

Callback == conn = "open" /\ serving = {}

(* A client with a known peer's address is let in; without one, or when    *)
(* the lookup fails, the connection comes to nothing.                      *)
auth_none ==
    /\ conn = "auth" /\ conn' \in {"open", "ended"}
    /\ UNCHANGED <<dropped, channel_state, serving, queue, taskVars, aborted, client, events>>

channel_open_session(c) ==
    /\ Callback /\ client[c] = "unopened"
    /\ client' = [client EXCEPT ![c] = "open"]
    /\ channel_state' = channel_state \cup {c}
    /\ at' = [at EXCEPT ![c] = "new"]
    /\ UNCHANGED <<conn, dropped, serving, queue, running, aborted, asked, events, handled>>

(* ChannelState::send: the event is lost when the task has ended. *)
send(c, e) ==
    /\ events' = [events EXCEPT ![c] = Append(@, e)]
    /\ queue' = IF at[c] = "done" THEN queue ELSE [queue EXCEPT ![c] = Append(@, e)]

(* get_channel: a callback for a channel without an entry fails, which     *)
(* ends the session.                                                       *)
ForChannel(c, e) ==
    IF c \in channel_state THEN send(c, e) /\ UNCHANGED conn
    ELSE conn' = "ended" /\ UNCHANGED <<events, queue>>

Event(c, e) ==
    /\ Callback /\ client[c] \in (IF e = "data" THEN {"open"} ELSE {"open", "eof"})
    /\ Len(events[c]) < MaxEvents
    /\ ForChannel(c, e)
    /\ UNCHANGED <<dropped, channel_state, serving, taskVars, aborted, client>>

(* data, and a signal that terminates the session or does not. *)
Input(c) == \E e \in {"data", "term", "hup"} : Event(c, e)

(* window_change_request and pty_request *)
Resize(c) == Event(c, "resize")

channel_eof(c) ==
    /\ Callback /\ client[c] = "open" /\ client' = [client EXCEPT ![c] = "eof"]
    /\ ForChannel(c, "eof")
    /\ UNCHANGED <<dropped, channel_state, serving, taskVars, aborted>>

(* channel_close first sends the last event, which may wake the task. *)
channel_close(c) ==
    /\ Callback /\ client[c] \in {"open", "eof"}
    /\ client' = [client EXCEPT ![c] = "closed"]
    /\ ForChannel(c, "close")
    /\ serving' = channel_state \cap {c}
    /\ UNCHANGED <<dropped, channel_state, taskVars, aborted>>

Abort(cs) == aborted' = [c \in Channels |-> aborted[c] \/ c \in cs]

(* It then removes the entry; dropping its JoinSet aborts the task. *)
RemoveEntry(c) ==
    /\ c \in serving /\ serving' = {}
    /\ channel_state' = channel_state \ {c}
    /\ Abort({c})
    /\ UNCHANGED <<conn, dropped, queue, taskVars, client, events>>

(* The client hangs up.  The session's task ends, and with it the server.  *)
Disconnect ==
    /\ conn = "open" /\ serving = {} /\ conn' = "ended"
    /\ UNCHANGED <<dropped, channel_state, serving, queue, taskVars, aborted, client, events>>

DropServer ==
    /\ conn = "ended" /\ ~dropped /\ dropped' = TRUE
    /\ channel_state' = {} /\ Abort(channel_state)
    /\ UNCHANGED <<conn, serving, queue, taskVars, client, events>>

-----------------------------------------------------------------------------
(* The task of a channel                                                   *)

TaskStep == UNCHANGED <<conn, dropped, channel_state, serving, aborted, client, events>>

(* The runtime polls a task that can move. *)
Poll(c) ==
    /\ ~running[c] /\ ~aborted[c]
    /\ at[c] = "recv" => queue[c] # <<>> \/ c \notin channel_state
    /\ at[c] \in {"new", "recv", "pending"}
    /\ running' = [running EXCEPT ![c] = TRUE]
    /\ at' = [at EXCEPT ![c] = IF @ = "pending" THEN "draw" ELSE @]
    /\ UNCHANGED <<queue, asked, handled>> /\ TaskStep

(* The task's future is dropped, and its receiver with it. *)
Ended(c) ==
    /\ at' = [at EXCEPT ![c] = "done"] /\ queue' = [queue EXCEPT ![c] = <<>>]
    /\ running' = [running EXCEPT ![c] = FALSE]

Cancelled(c) ==
    /\ aborted[c] /\ ~running[c] /\ at[c] \notin {"none", "done"}
    /\ Ended(c) /\ UNCHANGED <<asked, handled>> /\ TaskStep

(* Handle::close reaches the session as long as that lives. *)
Close(c) == asked' = [asked EXCEPT ![c] = @ \/ conn # "ended"]

(* A handler that cannot be made, or that fails on an event. *)
Fails(c) == Ended(c) /\ Close(c)

Continues(c) == at' = [at EXCEPT ![c] = "recv"] /\ UNCHANGED <<queue, running, asked>>

New(c) ==
    /\ running[c] /\ at[c] = "new"
    /\ Continues(c) \/ Fails(c)
    /\ UNCHANGED handled /\ TaskStep

(* The next event, of one of kinds, goes to handle_event. *)
Take(c, kinds) ==
    /\ running[c] /\ at[c] = "recv" /\ queue[c] # <<>> /\ Head(queue[c]) \in kinds
    /\ handled' = [handled EXCEPT ![c] = Append(@, Head(queue[c]))] /\ TaskStep

Rest(c) == queue' = [queue EXCEPT ![c] = Tail(@)]

(* Data is input to the application, which may wait. *)
TakeData(c) ==
    /\ Take(c, {"data"}) /\ Rest(c)
    /\ at' = [at EXCEPT ![c] = "input"] /\ UNCHANGED <<running, asked>>

Pends(c) ==
    /\ running[c] /\ at[c] = "input" /\ at' = [at EXCEPT ![c] = "pending"]
    /\ running' = [running EXCEPT ![c] = FALSE]
    /\ UNCHANGED <<queue, asked, handled>> /\ TaskStep

(* Then it is drawn.  The application may have closed the channel. *)
Draw(c) ==
    /\ running[c] /\ at[c] \in {"input", "draw"}
    /\ \/ Continues(c)
       \/ at' = [at EXCEPT ![c] = "recv"] /\ Close(c) /\ UNCHANGED <<queue, running>>
       \/ Fails(c)
    /\ UNCHANGED handled /\ TaskStep

(* A resize is drawn, a close clears the terminal: either may fail. *)
TakeDrawn(c) ==
    /\ Take(c, {"resize", "close"})
    /\ \/ Rest(c) /\ UNCHANGED <<at, running, asked>>
       \/ Fails(c)

(* The end of the input and the signals that terminate close the channel. *)
TakeEnd(c) ==
    /\ Take(c, {"eof", "term"})
    /\ IF conn = "ended" THEN Fails(c) ELSE Rest(c) /\ Close(c) /\ UNCHANGED <<at, running>>

TakeOther(c) == Take(c, {"hup"}) /\ Rest(c) /\ UNCHANGED <<at, running, asked>>

(* No event is left: the task waits, or ends when the sender is gone. *)
Waits(c) ==
    /\ running[c] /\ at[c] = "recv" /\ queue[c] = <<>>
    /\ IF c \in channel_state THEN running' = [running EXCEPT ![c] = FALSE] /\ UNCHANGED <<at, queue>>
       ELSE Ended(c)
    /\ UNCHANGED <<asked, handled>> /\ TaskStep

ChannelTask(c) ==
    \/ Poll(c) \/ Cancelled(c) \/ New(c) \/ TakeData(c) \/ Pends(c) \/ Draw(c) \/ TakeDrawn(c)
    \/ TakeEnd(c) \/ TakeOther(c) \/ Waits(c)

SshNext ==
    \/ auth_none \/ Disconnect \/ DropServer
    \/ \E c \in Channels : \/ channel_open_session(c) \/ channel_eof(c) \/ channel_close(c)
                           \/ RemoveEntry(c) \/ ChannelTask(c) \/ Input(c) \/ Resize(c)

(* Tasks are polled, callbacks return, and a client answers a close. *)
SshFair(c) ==
    /\ WF_sshVars(ChannelTask(c))
    /\ WF_sshVars(RemoveEntry(c))
    /\ WF_sshVars(asked[c] /\ channel_close(c))

SshSpec == SshInit /\ [][SshNext]_sshVars /\ WF_sshVars(DropServer) /\ \A c \in Channels : SshFair(c)

-----------------------------------------------------------------------------
(* Handlers see the events of their channel in order and without a gap; a  *)
(* channel that lost its handler is being closed, so that no session waits *)
(* for a task that is gone; and a client's message never ends the session  *)
(* for want of an entry.                                                   *)
HandlersFollow ==
    \A c \in Channels :
        /\ IsPrefix(handled[c], events[c])
        /\ conn # "ended" /\ c \in channel_state /\ at[c] = "done" => asked[c]
        /\ conn # "ended" /\ client[c] \in {"open", "eof"} => c \in channel_state

(* What a channel is told is handled or the handler ends; the end of the   *)
(* input ends the channel; and no task outlives its entry.                 *)
ChannelsEnd ==
    \A c \in Channels :
        /\ handled[c] # events[c] ~> handled[c] = events[c] \/ at[c] = "done"
        /\ client[c] = "eof" ~> c \notin channel_state
        /\ c \notin channel_state /\ client[c] # "unopened" ~> at[c] = "done"
=============================================================================
