----------------------------- MODULE DerpFrames -----------------------------
(***************************************************************************)
(* The DERP protocol on its connection (src/ts_derp): the frame codec      *)
(* (frame/codec.rs, header.rs, raw.rs), the handshake of a client, its     *)
(* receive loop and its senders, which share the connection's write half   *)
(* (client.rs).  DerpRegion models the task that uses such a client.       *)
(*                                                                         *)
(* A byte is the frame it belongs to and its place there, so a decoder     *)
(* that loses its place is seen to.  The network cuts the stream anywhere. *)
(* The server is external: it sends the frames of a script, and hangs up   *)
(* if the script ends with "Close".                                        *)
(***************************************************************************)
EXTENDS Integers, Sequences, SequencesExt

CONSTANTS
    HeaderLen,      \* Header::LEN_BYTES
    MaxLen,         \* frame::MAX_PACKET_SIZE
    Scripts,        \* what servers send: sequences of [typ, len, valid]
    Payloads,       \* lengths of the packets sent
    MaxSends, MaxCancels

VARIABLES
    phase,          \* "key" and "info" in the handshake, "ready", "failed", "panicked"
    script,         \* frames the server has yet to send
    open,           \* whether the server keeps the connection open
    down, net, src, \* frames the server sent, their bytes in flight, in the read buffer
    returned,       \* packets recv_one returned
    ping,           \* the ping recv_one is answering, 0 if none
    lock,           \* who holds write_conn: "nobody", "reader", "sender"
    up, dst, wire,  \* frames the client encoded, bytes in the write buffer, bytes at the server
    seen,           \* frames the server decoded
    sends, cancels

derpVars == <<phase, script, open, down, net, src, returned, ping, lock, up, dst, wire, seen, sends, cancels>>

-----------------------------------------------------------------------------
(* Frames *)

(* The types the client meets; the others differ from Health in name only. *)
Known == {"ServerKey", "ClientInfo", "ServerInfo", "SendPacket", "RecvPacket", "KeepAlive", "Ping",
          "Pong", "PeerGone", "Health"}

(* Size of the fixed part of a body: the smallest body as_type accepts. *)
Fixed(typ) == CASE typ \in {"KeepAlive", "Health"} -> 0 [] typ = "ServerKey" -> 2 [] OTHER -> 1

(* The bytes of frame number n of f. *)
Bytes(f, n) == [k \in 1 .. HeaderLen + f.len |-> [frame |-> n, at |-> k]]

(* Mutant of from_body: the header does not count the payload. *)
from_bodyBare(typ, payload) == [typ |-> typ, len |-> Fixed(typ), valid |-> TRUE]

from_body(typ, payload) == [typ |-> typ, len |-> Fixed(typ) + payload, valid |-> TRUE]

(* Header::new and Header::try_from *)
HeaderOk(f) == f.typ \in Known /\ f.len <= MaxLen

(* as_type for the body of the type itself *)
AsType(f) == f.len >= Fixed(f.typ)

(* Decoder::decode on the bytes b of the frames fs: nothing yet, an error, *)
(* or a frame, and the bytes left.  A decoder that lost its place takes a  *)
(* byte of a body for a header.                                            *)
Nothing(b) == [kind |-> "none", n |-> 0, rest |-> b]

decode(b, fs) ==
    IF Len(b) < HeaderLen THEN Nothing(b)
    ELSE LET n == b[1].frame
             size == HeaderLen + fs[n].len
         IN  IF b[1].at # 1 \/ ~HeaderOk(fs[n]) THEN [kind |-> "error", n |-> n, rest |-> b]
             ELSE IF size > Len(b) THEN Nothing(b)
             ELSE [kind |-> "frame", n |-> n, rest |-> SubSeq(b, size + 1, Len(b))]

(* Encoder::encode appends a whole frame to the write buffer. *)
encode(f, payload) ==
    /\ up' = Append(up, f)
    /\ dst' = dst \o [k \in 1 .. HeaderLen + Fixed(f.typ) + payload |->
                        [frame |-> Len(up'), at |-> k]]

(* What the client checks of a body, abstracted to one bit: the magic      *)
(* number of a server's key, that its info decrypts and names the version, *)
(* the reason why a peer is gone.                                          *)
validate(f) == f.typ = "ServerKey" /\ AsType(f) /\ f.valid
decrypt_server_info(f) == f.typ = "ServerInfo" /\ AsType(f) /\ f.valid
reason(f) == f.typ = "PeerGone" /\ AsType(f) /\ f.valid

make_clientinfo == from_body("ClientInfo", 1)

-----------------------------------------------------------------------------
(* The client *)

DerpInit ==
    /\ phase = "key" /\ script \in Scripts /\ open = TRUE
    /\ down = <<from_body("ServerKey", 0)>> /\ net = Bytes(down[1], 1) /\ src = <<>>
    /\ returned = <<>> /\ ping = 0 /\ lock = "nobody"
    /\ up = <<>> /\ dst = <<>> /\ wire = <<>> /\ seen = <<>> /\ sends = 0 /\ cancels = 0

(* FramedRead::next on the read half comes to the result d. *)
Next1(d) == d = decode(src, down) /\ d.kind # "none" /\ src' = d.rest

(* handshake: the first frame is the server's key; the client's info is    *)
(* sent in return.                                                         *)
ReadServerKey ==
    \E d \in {decode(src, down)} :
        /\ phase = "key" /\ Next1(d) /\ d.kind = "frame"
        /\ validate(down[d.n])
        /\ phase' = "info" /\ encode(make_clientinfo, 1)
        /\ UNCHANGED <<script, open, down, net, returned, ping, lock, wire, seen, sends, cancels>>

(* The second is its info, which has to decrypt and to name the version. *)
ReadServerInfo ==
    \E d \in {decode(src, down)} :
        /\ phase = "info" /\ dst = <<>> /\ Next1(d) /\ d.kind = "frame"
        /\ decrypt_server_info(down[d.n])
        /\ phase' = "ready"
        /\ UNCHANGED <<script, open, down, net, returned, ping, lock, up, dst, wire, seen, sends, cancels>>

(* Anything else ends the handshake. *)
HandshakeFails ==
    \E d \in {decode(src, down)} :
        /\ phase \in {"key", "info"} /\ (phase = "info" => dst = <<>>) /\ Next1(d)
        /\ \/ d.kind = "error"
           \/ phase = "key" /\ ~validate(down[d.n])
           \/ phase = "info" /\ ~decrypt_server_info(down[d.n])
        /\ phase' = "failed"
        /\ UNCHANGED <<script, open, down, net, returned, ping, lock, up, dst, wire, seen, sends, cancels>>

(* recv_one, one frame: a keepalive, a short ping and a notice that a peer *)
(* is gone are passed over.                                                *)
Skipped(f) == f.typ = "KeepAlive" \/ (f.typ = "Ping" /\ ~AsType(f))
              \/ reason(f)

Reading(d) == phase = "ready" /\ ping = 0 /\ lock # "reader" /\ Next1(d)

SkipFrame ==
    \E d \in {decode(src, down)} :
        /\ Reading(d) /\ d.kind = "frame" /\ Skipped(down[d.n])
        /\ UNCHANGED <<phase, script, open, down, net, returned, ping, lock, up, dst, wire, seen, sends, cancels>>

ReturnPacket ==
    \E d \in {decode(src, down)} :
        /\ Reading(d) /\ d.kind = "frame" /\ down[d.n].typ = "RecvPacket" /\ AsType(down[d.n])
        /\ returned' = Append(returned, d.n)
        /\ UNCHANGED <<phase, script, open, down, net, ping, lock, up, dst, wire, seen, sends, cancels>>

TakePing ==
    \E d \in {decode(src, down)} :
        /\ Reading(d) /\ d.kind = "frame" /\ down[d.n].typ = "Ping" /\ AsType(down[d.n])
        /\ ping' = d.n
        /\ UNCHANGED <<phase, script, open, down, net, returned, lock, up, dst, wire, seen, sends, cancels>>

(* Another frame, a reason that is not known, or bytes that are no frame,  *)
(* end the connection.                                                     *)
RecvFails ==
    \E d \in {decode(src, down)} :
        /\ Reading(d)
        /\ \/ d.kind = "error"
           \/ down[d.n].typ \notin {"KeepAlive", "Ping", "PeerGone", "RecvPacket"}
           \/ down[d.n].typ = "PeerGone" /\ AsType(down[d.n]) /\ ~reason(down[d.n])
        /\ phase' = "failed"
        /\ UNCHANGED <<script, open, down, net, returned, ping, lock, up, dst, wire, seen, sends, cancels>>

(* The unwrap of a body that is too short. *)
RecvPanics ==
    \E d \in {decode(src, down)} :
        /\ Reading(d) /\ d.kind = "frame"
        /\ down[d.n].typ \in {"PeerGone", "RecvPacket"} /\ ~AsType(down[d.n])
        /\ phase' = "panicked"
        /\ UNCHANGED <<script, open, down, net, returned, ping, lock, up, dst, wire, seen, sends, cancels>>

(* The stream ends while the client waits for a frame. *)
StreamEnds ==
    /\ \/ phase \in {"key", "info"} /\ (phase = "info" => dst = <<>>)
       \/ phase = "ready" /\ ping = 0 /\ lock # "reader"
    /\ ~open /\ net = <<>> /\ decode(src, down).kind = "none"
    /\ phase' = "failed"
    /\ UNCHANGED <<script, open, down, net, src, returned, ping, lock, up, dst, wire, seen, sends, cancels>>

(* send_frame of the pong, under the lock. *)
SendPong ==
    /\ phase = "ready" /\ ping # 0 /\ lock = "nobody" /\ lock' = "reader"
    /\ encode(from_body("Pong", 0), 0) /\ ping' = 0
    /\ UNCHANGED <<phase, script, open, down, net, src, returned, wire, seen, sends, cancels>>

(* The future of recv_one is dropped by its caller's select, while it      *)
(* waits for the lock or for its bytes to go out.                          *)
CancelRecv ==
    /\ phase = "ready" /\ (ping # 0 \/ lock = "reader")
    /\ cancels < MaxCancels /\ cancels' = cancels + 1
    /\ ping' = 0 /\ lock' = IF lock = "reader" THEN "nobody" ELSE lock
    /\ UNCHANGED <<phase, script, open, down, net, src, returned, up, dst, wire, seen, sends>>

(* send_one, of a packet that fits; another is refused before the lock. *)
SendOne(payload) ==
    /\ phase = "ready" /\ lock = "nobody" /\ sends < MaxSends /\ sends' = sends + 1
    /\ HeaderOk(from_body("SendPacket", payload))
    /\ lock' = "sender" /\ encode(from_body("SendPacket", payload), payload)
    /\ UNCHANGED <<phase, script, open, down, net, src, returned, ping, wire, seen, cancels>>

(* The connection takes k bytes of the write buffer. *)
Flush(k) ==
    /\ phase \in {"info", "ready"} /\ dst # <<>> /\ open
    /\ wire' = wire \o SubSeq(dst, 1, k) /\ dst' = SubSeq(dst, k + 1, Len(dst))
    /\ UNCHANGED <<phase, script, open, down, net, src, returned, ping, lock, up, seen, sends, cancels>>

(* A write to a connection that the server closed fails; so does the task. *)
SendFails ==
    /\ phase \in {"info", "ready"} /\ dst # <<>> /\ ~open /\ phase' = "failed" /\ lock' = "nobody"
    /\ UNCHANGED <<script, open, down, net, src, returned, ping, up, dst, wire, seen, sends, cancels>>

(* The send returns once all of them are gone. *)
Sent ==
    /\ lock # "nobody" /\ dst = <<>> /\ lock' = "nobody"
    /\ UNCHANGED <<phase, script, open, down, net, src, returned, ping, up, dst, wire, seen, sends, cancels>>

-----------------------------------------------------------------------------
(* The network and the server *)

Arrive(k) ==
    /\ net # <<>> /\ src' = src \o SubSeq(net, 1, k) /\ net' = SubSeq(net, k + 1, Len(net))
    /\ UNCHANGED <<phase, script, open, down, returned, ping, lock, up, dst, wire, seen, sends, cancels>>

ServerDecodes ==
    \E d \in {decode(wire, up)} :
        /\ d.kind # "none"
        /\ wire' = IF d.kind = "frame" THEN d.rest ELSE <<>>
        /\ seen' = Append(seen, IF d.kind = "frame" THEN d.n ELSE 0)
        /\ UNCHANGED <<phase, script, open, down, net, src, returned, ping, lock, up, dst, sends, cancels>>

(* The script begins with the server's info. *)
ServerSends ==
    /\ seen # <<>> /\ script # <<>> /\ Head(script).typ # "Close"
    /\ down' = Append(down, Head(script)) /\ script' = Tail(script)
    /\ net' = net \o Bytes(Head(script), Len(down'))
    /\ UNCHANGED <<phase, open, src, returned, ping, lock, up, dst, wire, seen, sends, cancels>>

ServerCloses ==
    /\ seen # <<>> /\ script # <<>> /\ Head(script).typ = "Close"
    /\ open' = FALSE /\ script' = <<>>
    /\ UNCHANGED <<phase, down, net, src, returned, ping, lock, up, dst, wire, seen, sends, cancels>>

Handshake == ReadServerKey \/ ReadServerInfo \/ HandshakeFails
RecvOne == SkipFrame \/ ReturnPacket \/ TakePing \/ RecvFails \/ RecvPanics

DerpNext ==
    \/ Handshake \/ RecvOne \/ StreamEnds \/ SendPong \/ CancelRecv \/ SendFails \/ Sent
    \/ ServerDecodes \/ ServerSends \/ ServerCloses
    \/ \E p \in Payloads : SendOne(p)
    \/ \E k \in 1 .. Len(dst) : Flush(k)
    \/ \E k \in 1 .. Len(net) : Arrive(k)

(* The tasks run, the network delivers and the server serves. *)
Moves == \/ Handshake \/ RecvOne \/ Sent \/ ServerDecodes \/ ServerSends
         \/ (\E k \in 1 .. Len(dst) : Flush(k)) \/ (\E k \in 1 .. Len(net) : Arrive(k))

DerpSpec == DerpInit /\ [][DerpNext]_derpVars /\ WF_derpVars(Moves) /\ SF_derpVars(SendPong)

-----------------------------------------------------------------------------
PacketsOf(fs) == SelectSeq([n \in DOMAIN fs |-> n], LAMBDA n : fs[n].typ = "RecvPacket")

(* Packets are returned in the order they were sent, none is left out or   *)
(* repeated, wherever the network cuts the stream and also those that      *)
(* arrive with the end of the handshake.                                   *)
PacketsInOrder == IsPrefix(returned, PacketsOf(down))

(* The server decodes the frames that were encoded, in that order, also    *)
(* when a send was cancelled with half of a frame on the wire.             *)
ServerParses == seen = [i \in DOMAIN seen |-> i] /\ Len(seen) <= Len(up)

(* A server that keeps to the protocol has all its packets returned. *)
Proper(f) == HeaderOk(f) /\ AsType(f) /\ (f.typ = "RecvPacket" \/ f.typ = "Ping" \/ Skipped(f))
Orderly ==
    /\ script # <<>> /\ Head(script).typ = "ServerInfo" /\ Head(script).valid
    /\ \A i \in 2 .. Len(script) : Proper(script[i])

AllReturned == Orderly ~> (script = <<>> /\ returned = PacketsOf(down))
=============================================================================
