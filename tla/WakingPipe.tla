----------------------------- MODULE WakingPipe -----------------------------
(***************************************************************************)
(* The pipe that carries packets to and from a network stack               *)
(* (src/ts_netstack_smoltcp/src/pipe.rs): two channels, and for each       *)
(* direction a waker of the task that waits for packets and one of the     *)
(* task that waits for room.  An end is a device of a network stack, which *)
(* polls (WakingPipeDev), or an application's, which receives and sends.   *)
(*                                                                         *)
(* A send or a receive and the wake that follows it are separate steps, as *)
(* are registering a waker and looking at the channel.  Channels (flume)   *)
(* and AtomicWaker are external: a wake takes the registered waker and     *)
(* notifies its task, which its executor then polls again.                 *)
(***************************************************************************)
EXTENDS Naturals, Sequences

CONSTANTS
    Shapes,         \* pipes to consider: records of devices, the ends that are devices,
                    \* and limit, the capacity of a channel
    MaxPackets      \* bound: packets an end sends

Ends == 1 .. 2
Other(e) == 3 - e

VARIABLES
    shape,          \* one of Shapes
    inbox,          \* inbox[e]: packets on their way to e
    rxWaker,        \* rxWaker[e]: has e registered to be woken for a packet?
    txWaker,        \* txWaker[e]: ... for room?
    pc, notified,   \* the task of each end
    sent, received

pipeVars == <<shape, inbox, rxWaker, txWaker, pc, notified, sent, received>>

Devices == shape.devices

PipeInit ==
    /\ shape \in Shapes
    /\ inbox = [e \in Ends |-> <<>>]
    /\ rxWaker = [e \in Ends |-> FALSE] /\ txWaker = [e \in Ends |-> FALSE]
    /\ pc = [e \in Ends |-> IF e \in Devices THEN "poll" ELSE "idle"]
    /\ notified = [e \in Ends |-> FALSE]
    /\ sent = [e \in Ends |-> 0] /\ received = [e \in Ends |-> 0]

Full(e) == Len(inbox[Other(e)]) = shape.limit     \* may e not send?
At(e, here, there) == pc[e] = here /\ pc' = [pc EXCEPT ![e] = there]

Push(e) ==
    /\ sent[e] < MaxPackets /\ ~Full(e)
    /\ sent' = [sent EXCEPT ![e] = @ + 1]
    /\ inbox' = [inbox EXCEPT ![Other(e)] = Append(@, sent'[e])]

Pop(e) ==
    /\ inbox[e] # <<>>
    /\ received' = [received EXCEPT ![e] = Head(inbox[e])]
    /\ inbox' = [inbox EXCEPT ![e] = Tail(@)]

-----------------------------------------------------------------------------
(* A device: IoPoller polls it for a packet, then, with something to send, *)
(* for room.                                                               *)

PollRx(e) ==
    /\ At(e, "poll", "rx") /\ rxWaker' = [rxWaker EXCEPT ![e] = TRUE]
    /\ UNCHANGED <<shape, inbox, txWaker, notified, sent, received>>

RxReady(e) ==
    /\ pc[e] = "rx" /\ pc' = [pc EXCEPT ![e] = IF inbox[e] = <<>> THEN "egress" ELSE "room"]
    /\ UNCHANGED <<shape, inbox, rxWaker, txWaker, notified, sent, received>>

(* A packet is received only when a reply could be sent. *)
PollRoom(e) ==
    /\ At(e, "room", "receive") /\ txWaker' = [txWaker EXCEPT ![e] = TRUE]
    /\ UNCHANGED <<shape, inbox, rxWaker, notified, sent, received>>

(* Device::receive does not wake the other end. *)
Receive(e) ==
    /\ ~Full(e) /\ At(e, "receive", "poll") /\ Pop(e)
    /\ UNCHANGED <<shape, rxWaker, txWaker, notified, sent>>

NoRoom(e) ==
    /\ Full(e) /\ At(e, "receive", "egress")
    /\ UNCHANGED <<shape, inbox, rxWaker, txWaker, notified, sent, received>>

PollTx(e) ==
    /\ sent[e] < MaxPackets /\ At(e, "egress", "tx") /\ txWaker' = [txWaker EXCEPT ![e] = TRUE]
    /\ UNCHANGED <<shape, inbox, rxWaker, notified, sent, received>>

(* TxToken::consume, then the wake. *)
Transmit(e) ==
    /\ At(e, "tx", "wake rx") /\ Push(e) /\ UNCHANGED <<shape, rxWaker, txWaker, notified, received>>

(* Pending, with nothing to send or no room. *)
Sleep(e) ==
    /\ \/ sent[e] = MaxPackets /\ At(e, "egress", "asleep")
       \/ Full(e) /\ At(e, "tx", "asleep")
    /\ UNCHANGED <<shape, inbox, rxWaker, txWaker, notified, sent, received>>

Awake(e) ==
    /\ notified[e] /\ At(e, "asleep", "poll") /\ notified' = [notified EXCEPT ![e] = FALSE]
    /\ UNCHANGED <<shape, inbox, rxWaker, txWaker, sent, received>>

-----------------------------------------------------------------------------
(* The wakes, and an application's end *)

(* Mutant of WakeRx: the wrong waker, the one of the sender's own end. *)
WakeRxOwn(e) ==
    /\ At(e, "wake rx", IF e \in Devices THEN "poll" ELSE "idle")
    /\ notified' = [notified EXCEPT ![e] = @ \/ rxWaker[e]]
    /\ rxWaker' = [rxWaker EXCEPT ![e] = FALSE]
    /\ UNCHANGED <<shape, inbox, txWaker, sent, received>>

WakeRx(e) ==
    /\ At(e, "wake rx", IF e \in Devices THEN "poll" ELSE "idle")
    /\ notified' = [notified EXCEPT ![Other(e)] = @ \/ rxWaker[Other(e)]]
    /\ rxWaker' = [rxWaker EXCEPT ![Other(e)] = FALSE]
    /\ UNCHANGED <<shape, inbox, txWaker, sent, received>>

WakeTx(e) ==
    /\ At(e, "wake tx", "idle")
    /\ notified' = [notified EXCEPT ![Other(e)] = @ \/ txWaker[Other(e)]]
    /\ txWaker' = [txWaker EXCEPT ![Other(e)] = FALSE]
    /\ UNCHANGED <<shape, inbox, rxWaker, sent, received>>

(* recv and recv_async; try_recv is the same. *)
Recv(e) ==
    /\ At(e, "idle", "wake tx") /\ Pop(e) /\ UNCHANGED <<shape, rxWaker, txWaker, notified, sent>>

(* send, send_async, and try_send that finds room. *)
Send(e) ==
    /\ At(e, "idle", "wake rx") /\ Push(e) /\ UNCHANGED <<shape, rxWaker, txWaker, notified, received>>

Device(e) ==
    \/ PollRx(e) \/ RxReady(e) \/ PollRoom(e) \/ Receive(e) \/ NoRoom(e)
    \/ PollTx(e) \/ Transmit(e) \/ Sleep(e) \/ Awake(e) \/ WakeRx(e)

Application(e) == Recv(e) \/ Send(e) \/ WakeRx(e) \/ WakeTx(e)

EndStep(e) == (e \in Devices /\ Device(e)) \/ (e \notin Devices /\ Application(e))

PipeNext == \E e \in Ends : EndStep(e)

(* The executor polls a notified task, and an application receives. *)
PipeFairness == \A e \in Ends : WF_pipeVars(EndStep(e))

PipeSpec == PipeInit /\ [][PipeNext]_pipeVars /\ PipeFairness

-----------------------------------------------------------------------------
(* No lost wakeup: a device that sleeps with no wake on its way has        *)
(* nothing to receive or no room for a reply, and nothing to send or no    *)
(* room for it.                                                            *)
Waking(e) == notified[e] \/ pc[Other(e)] \in {"wake rx", "wake tx"}
NoLostWakeup ==
    \A e \in Devices : pc[e] = "asleep" /\ ~Waking(e)
        => (inbox[e] = <<>> \/ Full(e)) /\ (sent[e] = MaxPackets \/ Full(e))

(* Every packet that an end sends reaches the other. *)
PacketsArrive == \A e \in Ends : <>(received[e] = MaxPackets)
=============================================================================
