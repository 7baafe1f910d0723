---------------------------- MODULE ControlNoise ----------------------------
(***************************************************************************)
(* The byte stream under a connection to the control server: the end of    *)
(* the Noise handshake and the record layer (src/ts_control_noise), the    *)
(* optional early challenge and the bytes chained back when there is none  *)
(* (src/ts_control/src/tokio/{connect,prefixed_reader}.rs).                *)
(*                                                                         *)
(* Bytes arrive in pieces of any size.  A header is Header bytes, a tag    *)
(* Overhead bytes, a record carries at most MaxChunk bytes; the challenge  *)
(* is Magic, its length, and that many bytes.  Ciphers are external: a     *)
(* record opens under the nonce it was sealed with.                        *)
(***************************************************************************)
EXTENDS Integers, Sequences, SequencesExt, FiniteSetsExt

CONSTANTS
    Header, Overhead, MaxChunk, MaxChallenge,
    Magic,          \* a sequence of bytes
    Challenges,     \* early payloads a server may send: sequences of bytes
    Greetings,      \* types of the first message
    Reads,          \* sizes of the buffers that the HTTP/2 layer reads into
    MaxBytes, MaxErrors     \* bounds: bytes and Error messages the server sends

VARIABLES
    wire, have,     \* messages not yet decoded, and how many of their bytes have arrived
    sealed,         \* next_nonce of the server's sending codec
    codec,          \* the receiving side: next_nonce, is_readable (of Framed), chunk (of FramedIo)
    phase,          \* header, response, magic, length, challenge, h2; refused, failed, panicked
    plain,          \* what read_exact has gathered
    skip,           \* bytes of the challenge still to discard
    prefix,         \* of PrefixedReader
    sent, read,     \* number of HTTP/2 bytes sent, and the bytes read
    errors

noiseVars == <<wire, have, sealed, codec, phase, plain, skip, prefix, sent, read, errors>>

Size(m) == Header + m.len

Chunks(b) ==
    LET n == (Len(b) + MaxChunk - 1) \div MaxChunk
    IN  [i \in 1 .. n |-> SubSeq(b, (i - 1) * MaxChunk + 1, Min({i * MaxChunk, Len(b)}))]

(* Encoder::encode: one record per chunk, each under its own nonce. *)
Encode(b, nonce) ==
    [i \in DOMAIN Chunks(b) |-> [typ |-> "Record", len |-> Len(Chunks(b)[i]) + Overhead,
                                 data |-> Chunks(b)[i], nonce |-> nonce + i - 1]]

NoiseInit ==
    /\ \E t \in Greetings : wire = <<[typ |-> t, len |-> 1, data |-> <<>>, nonce |-> 0]>>
    /\ have = 0 /\ sealed = 0 /\ codec = [nonce |-> 0, readable |-> FALSE, chunk |-> <<>>]
    /\ phase = "header" /\ plain = <<>> /\ skip = 0 /\ prefix = <<>>
    /\ sent = 0 /\ read = <<>> /\ errors = 0

-----------------------------------------------------------------------------
(* The server and the network *)

(* The early payload, before any byte of HTTP/2. *)
SendChallenge(b) ==
    /\ sealed = 0 /\ sent = 0
    /\ wire' = wire \o Encode(Magic \o <<Len(b)>> \o b, sealed)
    /\ sealed' = sealed + Len(Encode(Magic \o <<Len(b)>> \o b, sealed))
    /\ UNCHANGED <<have, codec, phase, plain, skip, prefix, sent, read, errors>>

SendBytes(n) ==
    LET b == [i \in 1 .. n |-> sent + i]
    IN  /\ sent + n <= MaxBytes /\ sent' = sent + n
        /\ wire' = wire \o Encode(b, sealed) /\ sealed' = sealed + Len(Encode(b, sealed))
        /\ UNCHANGED <<have, codec, phase, plain, skip, prefix, read, errors>>

(* An empty record, which the server's codec may send. *)
SendEmpty ==
    /\ errors < MaxErrors /\ errors' = errors + 1 /\ sealed' = sealed + 1
    /\ wire' = Append(wire, [typ |-> "Record", len |-> Overhead, data |-> <<>>, nonce |-> sealed])
    /\ UNCHANGED <<have, codec, phase, plain, skip, prefix, sent, read>>

SendError ==
    /\ errors < MaxErrors /\ errors' = errors + 1
    /\ wire' = Append(wire, [typ |-> "Error", len |-> 1, data |-> <<>>, nonce |-> 0])
    /\ UNCHANGED <<have, sealed, codec, phase, plain, skip, prefix, sent, read>>

-----------------------------------------------------------------------------
(* Handshake::complete reads exactly the header and the body from the      *)
(* connection, before there is a codec.                                    *)

InFlight == FoldLeft(LAMBDA n, m : n + Size(m), 0, wire) - have

ReadHeader ==
    /\ phase = "header" /\ InFlight >= Header
    /\ phase' = "response" /\ UNCHANGED <<wire, have, sealed, codec, plain, skip, prefix, sent, read, errors>>

ReadResponse ==
    /\ phase = "response" /\ InFlight >= Size(wire[1])
    /\ wire' = Tail(wire) /\ phase' = IF wire[1].typ = "Response" THEN "magic" ELSE "refused"
    /\ UNCHANGED <<have, sealed, codec, plain, skip, prefix, sent, read, errors>>

-----------------------------------------------------------------------------
(* The decoder, driven by Framed: it decodes what has arrived, and reads   *)
(* more when that is not a whole message.                                  *)

Whole == wire # <<>> /\ have >= Header /\ have - Header >= wire[1].len

(* A record is a chunk.  Of an Error nothing is returned, as if the        *)
(* message were not whole.                                                 *)
Decode(m) == IF m.typ = "Record" THEN [codec EXCEPT !.nonce = @ + 1, !.chunk = m.data]
             ELSE [codec EXCEPT !.readable = FALSE]

Framed == phase \in {"magic", "length", "challenge", "h2"} /\ prefix = <<>> /\ codec.chunk = <<>>

(* poll_fill_buf goes around when a record was empty. *)
PollNext ==
    /\ Framed /\ codec.readable /\ Whole
    /\ wire' = Tail(wire) /\ have' = have - Size(wire[1]) /\ codec' = Decode(wire[1])
    /\ phase' = IF wire[1].typ = "Error" \/ (wire[1].typ = "Record" /\ wire[1].nonce = codec.nonce)
                THEN phase ELSE "failed"
    /\ UNCHANGED <<sealed, plain, skip, prefix, sent, read, errors>>

NotWhole ==
    /\ Framed /\ codec.readable /\ ~Whole /\ codec' = [codec EXCEPT !.readable = FALSE]
    /\ UNCHANGED <<wire, have, sealed, phase, plain, skip, prefix, sent, read, errors>>

Arrives(n) ==
    /\ Framed /\ ~codec.readable /\ n <= InFlight
    /\ have' = have + n /\ codec' = [codec EXCEPT !.readable = TRUE]
    /\ UNCHANGED <<wire, sealed, phase, plain, skip, prefix, sent, read, errors>>

(* n bytes of the chunk: consume. *)
Consume(n) == codec' = [codec EXCEPT !.chunk = SubSeq(@, n + 1, Len(@))]
Ready(n) == Min({n, Len(codec.chunk)})

-----------------------------------------------------------------------------
(* read_challenge_packet *)

(* Mutant of ReadMagic: the first bytes of HTTP/2 are not chained back. *)
ReadMagicDrops ==
    LET n == Ready(Len(Magic) - Len(plain))
        all == plain \o SubSeq(codec.chunk, 1, n)
    IN  /\ phase = "magic" /\ codec.chunk # <<>> /\ Consume(n)
        /\ IF Len(all) < Len(Magic) THEN plain' = all /\ UNCHANGED <<phase, prefix>>
           ELSE plain' = <<>> /\ prefix' = <<>> /\ phase' = IF all = Magic THEN "length" ELSE "h2"
        /\ UNCHANGED <<wire, have, sealed, skip, sent, read, errors>>

ReadMagic ==
    LET n == Ready(Len(Magic) - Len(plain))
        all == plain \o SubSeq(codec.chunk, 1, n)
    IN  /\ phase = "magic" /\ codec.chunk # <<>> /\ Consume(n)
        /\ IF Len(all) < Len(Magic) THEN plain' = all /\ UNCHANGED <<phase, prefix>>
           ELSE /\ plain' = <<>>
                /\ prefix' = IF all = Magic THEN <<>> ELSE all
                /\ phase' = IF all = Magic THEN "length" ELSE "h2"
        /\ UNCHANGED <<wire, have, sealed, skip, sent, read, errors>>

ReadLength ==
    /\ phase = "length" /\ codec.chunk # <<>> /\ Consume(1)
    /\ skip' = codec.chunk[1]
    /\ phase' = IF codec.chunk[1] > MaxChallenge THEN "refused" ELSE "challenge"
    /\ UNCHANGED <<wire, have, sealed, plain, prefix, sent, read, errors>>

Discard ==
    /\ phase = "challenge" /\ codec.chunk # <<>>
    /\ Consume(Ready(skip)) /\ skip' = skip - Ready(skip)
    /\ phase' = IF skip' = 0 THEN "h2" ELSE phase
    /\ UNCHANGED <<wire, have, sealed, plain, prefix, sent, read, errors>>

(* PrefixedReader::poll_read; put panics with a buffer that is too small. *)
ReadPrefix(n) ==
    /\ phase = "h2" /\ prefix # <<>>
    /\ IF n < Len(prefix) THEN phase' = "panicked" /\ UNCHANGED <<prefix, read>>
       ELSE read' = read \o prefix /\ prefix' = <<>> /\ UNCHANGED phase
    /\ UNCHANGED <<wire, have, sealed, codec, plain, skip, sent, errors>>

(* FramedIo::poll_read *)
ReadChunk(n) ==
    /\ phase = "h2" /\ prefix = <<>> /\ codec.chunk # <<>>
    /\ read' = read \o SubSeq(codec.chunk, 1, Ready(n)) /\ Consume(Ready(n))
    /\ UNCHANGED <<wire, have, sealed, phase, plain, skip, prefix, sent, errors>>

Server == SendEmpty \/ SendError \/ (\E b \in Challenges : SendChallenge(b)) \/ \E n \in 1 .. MaxBytes : SendBytes(n)

Client ==
    \/ ReadHeader \/ ReadResponse \/ PollNext \/ NotWhole \/ ReadMagic \/ ReadLength \/ Discard
    \/ \E n \in Reads : ReadPrefix(n) \/ ReadChunk(n)
    \/ \E n \in 1 .. InFlight : Arrives(n)

NoiseNext == Server \/ Client

(* The connection delivers, and the client polls it. *)
NoiseRuns == WF_noiseVars(Client)
NoiseSpec == NoiseInit /\ [][NoiseNext]_noiseVars /\ NoiseRuns

-----------------------------------------------------------------------------
(* The HTTP/2 layer reads the bytes that the server's wrote, from the      *)
(* first, in order, whether a challenge came before them or not and        *)
(* however they were cut into records and reads.                           *)
ReadsInOrder == read = [i \in DOMAIN read |-> i]

(* A well-formed stream is never refused: the nonces of the two codecs     *)
(* agree, also around Error messages and empty records, and no buffer of   *)
(* the HTTP/2 layer is too small for the bytes chained back.               *)
StreamAccepted == phase \notin {"failed", "panicked"}

(* Everything sent is read, once it is enough to tell whether there is a   *)
(* challenge, unless the handshake or the challenge was refused, or an     *)
(* Error arrived with what followed it: that waits for the next arrival.   *)
Stalled == ~codec.readable /\ Whole /\ InFlight = 0
AllRead == \A n \in Len(Magic) .. MaxBytes : sent = n ~> Len(read) >= n \/ phase = "refused" \/ Stalled
=============================================================================
