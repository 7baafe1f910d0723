-------------------------------- MODULE Obfs ---------------------------------
(***************************************************************************)
(* Carrier obfuscation of ts_tunnel's ShadowVPN datagrams                  *)
(* (src/ts_tunnel/src/shadowvpn/obfs.rs): the QUIC short header and base64 *)
(* as functions on sequences of bytes, for every datagram up to a length.  *)
(*                                                                         *)
(* The code's bytes have 8 bits and its base64 symbols 6; SymBits scales   *)
(* both down in the same proportion, 3 bytes to 4 symbols.  The first byte *)
(* of a QUIC header keeps its 8 bits.                                      *)
(***************************************************************************)
EXTENDS Integers, Sequences, SequencesExt

CONSTANTS
    SymBits,       \* bits of a base64 symbol, a multiple of 3
    Bytes,         \* the byte values datagrams are made of
    MaxDatagram,   \* bound on the length of a datagram
    DcidLen,       \* QuicObfs::dcid_len
    PnLen          \* PN_LEN, 1 .. 4

VARIABLES
    datagram,      \* a finished crypto datagram
    pn             \* QuicObfs::pn

obfsVars == <<datagram, pn>>

Base == 2 ^ ((SymBits \div 3) * 4)
Sym == 2 ^ SymBits
Pad == -1
Other == -2           \* any byte outside the alphabet
Rejected == <<Other>>

Symbol(n, i) == (n \div Sym ^ (3 - i)) % Sym

(* Mutant of EncodeChunk: a short chunk is not padded with zero bytes on   *)
(* the right.                                                              *)
EncodeChunkLow(chunk) ==
    LET n == FoldLeft(LAMBDA acc, b : acc * Base + b, 0, chunk)
    IN  [i \in 1 .. 4 |-> IF i <= Len(chunk) + 1 THEN Symbol(n, i - 1) ELSE Pad]

(* One to three bytes as four symbols, the missing ones as padding. *)
EncodeChunk(chunk) ==
    LET at(i) == IF i <= Len(chunk) THEN chunk[i] ELSE 0
        n == at(1) * Base ^ 2 + at(2) * Base + at(3)
    IN  [i \in 1 .. 4 |-> IF i <= Len(chunk) + 1 THEN Symbol(n, i - 1) ELSE Pad]

Chunks(data) ==
    [c \in 1 .. (Len(data) + 2) \div 3 |->
        SubSeq(data, 3 * c - 2, IF 3 * c < Len(data) THEN 3 * c ELSE Len(data))]

base64_encode(data) == FlattenSeq([c \in DOMAIN Chunks(data) |-> EncodeChunk(Chunks(data)[c])])

(* Symbols shift into a 32-bit buffer (four bytes wide here) that gives up *)
(* a byte as soon as it holds one; padding ends the input.                 *)
base64_decode(input) ==
    LET byteBits == (SymBits \div 3) * 4
        take(st, c) ==
            IF st.done THEN st
            ELSE IF c = Pad THEN [st EXCEPT !.done = TRUE]
            ELSE IF c = Other THEN [st EXCEPT !.done = TRUE, !.out = Rejected]
            ELSE LET buf == (st.buf * Sym + c) % Base ^ 4
                     bits == st.bits + SymBits
                 IN  IF bits < byteBits THEN [st EXCEPT !.buf = buf, !.bits = bits]
                     ELSE [st EXCEPT !.buf = buf, !.bits = bits - byteBits,
                                     !.out = Append(@, (buf \div 2 ^ (bits - byteBits)) % Base)]
    IN  FoldLeft(take, [buf |-> 0, bits |-> 0, out |-> <<>>, done |-> FALSE], input).out

(* QuicObfs::wrap: the form bits 01, four random bits, the length of the   *)
(* packet number less one; then the connection id, the number, the         *)
(* datagram.                                                               *)
QuicWrap(data, rnd) ==
    <<64 + 4 * rnd + (PnLen - 1)>> \o [i \in 1 .. DcidLen |-> 0] \o [i \in 1 .. PnLen |-> pn] \o data

(* QuicObfs::unwrap: whatever the first byte says, the header must fit. *)
QuicUnwrap(pkt) ==
    IF pkt = <<>> \/ pkt[1] \div 128 # 0 \/ (pkt[1] \div 64) % 2 = 0 THEN Rejected
    ELSE LET hdr == 1 + DcidLen + (pkt[1] % 4) + 1
         IN  IF Len(pkt) < hdr THEN Rejected ELSE SubSeq(pkt, hdr + 1, Len(pkt))

ObfsInit == datagram = <<>> /\ pn = 0

(* A longer datagram; the counter of the packets sent moves on. *)
Extend(b) ==
    /\ Len(datagram) < MaxDatagram
    /\ datagram' = Append(datagram, b)
    /\ pn' = (pn + 1) % Base

ObfsNext == \E b \in Bytes : Extend(b)

ObfsSpec == ObfsInit /\ [][ObfsNext]_obfsVars

(* The round trips of Obfuscator::wrap and Obfuscator::unwrap that both    *)
(* ends rely on: every datagram survives each carrier byte for byte; a     *)
(* symbol outside the alphabet before the padding is rejected, never       *)
(* decoded; a truncated or foreign first byte never reads past the packet. *)
CarriersInvert ==
    /\ base64_decode(base64_encode(datagram)) = datagram
    /\ Len(base64_encode(datagram)) = 4 * ((Len(datagram) + 2) \div 3)
    /\ \A i \in DOMAIN base64_encode(datagram) :
          base64_encode(datagram)[i] # Pad =>
              base64_decode([base64_encode(datagram) EXCEPT ![i] = Other]) = Rejected
    /\ \A rnd \in 0 .. 15 : QuicUnwrap(QuicWrap(datagram, rnd)) = datagram
    /\ \A n \in 0 .. DcidLen + PnLen : QuicUnwrap(SubSeq(QuicWrap(datagram, 0), 1, n)) = Rejected
=============================================================================
