--------------------------- MODULE NoiseHandshake ---------------------------
(***************************************************************************)
(* The Noise handshakes of src/ts_noise: IK, which opens the control       *)
(* connection, and IKpsk2, which opens WireGuard sessions (core.rs, ik.rs, *)
(* ikpsk2.rs, messages.rs).                                                *)
(*                                                                         *)
(* Cryptography is symbolic.  A hash is the sequence of what was mixed     *)
(* into it and a derived key the sequence of its inputs, so two are equal  *)
(* when they were computed from the same data; a shared secret is the set  *)
(* of the two keys of an exchange; a ciphertext names its key, its         *)
(* associated data and its text, and opens with these only.  The network   *)
(* keeps every message: it loses, repeats, reorders and misdelivers them,  *)
(* and damages some.                                                       *)
(***************************************************************************)
EXTENDS Integers, Sequences, FiniteSets

CONSTANTS
    Parties,
    Calls,          \* the pairs <<p, q>> of which p calls q
    Settings,       \* what the parties are set up with: see NoiseInit
    MaxInitiations, MaxResponses

VARIABLES
    setup,          \* pattern, prologue of each party, psk of each party for each other
    keys,           \* ephemeral keys generated so far
    sent,           \* SentHandshakes
    received,       \* ReceivedHandshakes
    inits, resps,   \* messages on the network
    sessions        \* Sessions obtained

noiseVars == <<setup, keys, sent, received, inits, resps, sessions>>

NoiseInit ==
    /\ setup \in Settings
    /\ keys = 0 /\ sent = {} /\ received = {} /\ inits = {} /\ resps = {} /\ sessions = {}

-----------------------------------------------------------------------------
(* core.rs *)

Static(p) == <<"static", p>>
Ephemeral(n) == <<"ephemeral", n>>

(* Output i of the key derivation. *)
must_hkdf(chaining_key, input, i) == Append(chaining_key, <<input, i>>)

New(protocol) == [hash |-> <<protocol>>, chaining_key |-> <<protocol>>]

mix_hash(s, data) == [s EXCEPT !.hash = Append(@, data)]

mix_hash_and_key(s, public) ==
    [mix_hash(s, public) EXCEPT !.chaining_key = must_hkdf(@, public, 1)]

mix_dh(s, private, public) ==
    [hash |-> s.hash, chaining_key |-> must_hkdf(s.chaining_key, {private, public}, 1),
     aead |-> must_hkdf(s.chaining_key, {private, public}, 2)]

mix_psk(s, psk) ==
    [hash |-> Append(s.hash, must_hkdf(s.chaining_key, {psk}, 2)),
     chaining_key |-> must_hkdf(s.chaining_key, {psk}, 1),
     aead |-> must_hkdf(s.chaining_key, {psk}, 3)]

Ciphertext(s, text) == [key |-> s.aead, ad |-> s.hash, text |-> text]

(* seal and open mix the ciphertext in and use the cipher up. *)
Mixed(s, cipher) ==
    [hash |-> Append(s.hash, cipher), chaining_key |-> s.chaining_key]

Opens(s, cipher) == cipher.key = s.aead /\ cipher.ad = s.hash

finish_as_initiator(s) ==
    [send |-> must_hkdf(s.chaining_key, {}, 1), recv |-> must_hkdf(s.chaining_key, {}, 2)]

finish_as_responder(s) ==
    [send |-> must_hkdf(s.chaining_key, {}, 2), recv |-> must_hkdf(s.chaining_key, {}, 1)]

-----------------------------------------------------------------------------
(* ik.rs and ikpsk2.rs differ in how an ephemeral key is mixed, in the     *)
(* payload and in the pre-shared key.                                      *)

WithPsk == setup.pattern = "IKpsk2"

MixEphemeral(s, e) == IF WithPsk THEN mix_hash_and_key(s, e) ELSE mix_hash(s, e)

(* The part of an initiation that both sides compute from public data. *)
Begin(prologue, responder, e) ==
    MixEphemeral(mix_hash(mix_hash(New(setup.pattern), prologue), responder), e)

(* What the response adds, from the secrets ee and se as each side has them. *)
Complete(s, e, ee, se, psk) ==
    LET dh == mix_dh(mix_dh(MixEphemeral(s, e), ee[1], ee[2]), se[1], se[2])
    IN  IF WithPsk THEN mix_psk(dh, psk) ELSE dh

(* SentHandshake::new, of either pattern *)
Initiate(p, q, payload) ==
    LET e == Ephemeral(keys + 1)
        es == mix_dh(Begin(setup.prologue[p], Static(q), e), e, Static(q))
        identity == Ciphertext(es, Static(p))
        ss == mix_dh(Mixed(es, identity), Static(p), Static(q))
        body == Ciphertext(ss, <<payload>>)
    IN  /\ Cardinality(sent \cup {x \in sessions : x.role = "initiator"}) < MaxInitiations
        /\ keys' = keys + 1
        /\ sent' = sent \cup {[me |-> p, peer |-> q, payload |-> payload, ephemeral |-> e,
                               state |-> Mixed(ss, body)]}
        /\ inits' = inits \cup {[ephemeral |-> e, static |-> identity, payload |-> body]}
        /\ UNCHANGED <<setup, received, resps, sessions>>

(* IK has no payload; that of IKpsk2 is WireGuard's timestamp, another one *)
(* for each call.                                                          *)
InitiateIK(p, q) == ~WithPsk /\ Initiate(p, q, 0)
InitiateIKpsk2(p, q) == WithPsk /\ Initiate(p, q, keys + 1)

(* ReceivedHandshake::new: two ciphertexts to open, the first of which     *)
(* says who the initiator is.                                              *)
Receive(p, m) ==
    LET es == mix_dh(Begin(setup.prologue[p], Static(p), m.ephemeral), Static(p), m.ephemeral)
        ss == mix_dh(Mixed(es, m.static), Static(p), m.static.text)
    IN  /\ Opens(es, m.static) /\ Opens(ss, m.payload)
        /\ received' = received \cup
               {[me |-> p, peer |-> m.static.text[2], payload |-> m.payload.text[1],
                 ephemeral |-> m.ephemeral, state |-> Mixed(ss, m.payload)]}
        /\ UNCHANGED <<setup, keys, sent, inits, resps, sessions>>

ReceiveIK(p, m) == ~WithPsk /\ Receive(p, m)
ReceiveIKpsk2(p, m) == WithPsk /\ Receive(p, m)

NewEphemeral == Ephemeral(keys + 1)

(* ReceivedHandshake::finish *)
Respond(r) ==
    LET e == NewEphemeral
        s == Complete(r.state, e, <<e, r.ephemeral>>, <<e, Static(r.peer)>>, setup.psk[r.me][r.peer])
        tag == Ciphertext(s, <<>>)
        n == Cardinality({x \in sessions : x.role = "responder"})
    IN  /\ n < MaxResponses
        /\ keys' = keys + 1
        /\ received' = received \ {r}
        /\ resps' = resps \cup {[ephemeral |-> e, tag |-> tag]}
        /\ sessions' = sessions \cup
               {[role |-> "responder", me |-> r.me, peer |-> r.peer, payload |-> r.payload,
                 initiation |-> r.ephemeral, response |-> keys + 1,
                 keys |-> finish_as_responder(Mixed(s, tag))]}
        /\ UNCHANGED <<setup, sent, inits>>

RespondIK(r) == ~WithPsk /\ Respond(r)
RespondIKpsk2(r) == WithPsk /\ Respond(r)

(* The state try_finish computes on a clone of the handshake's. *)
Finished(h, m) ==
    Complete(h.state, m.ephemeral, <<h.ephemeral, m.ephemeral>>, <<Static(h.me), m.ephemeral>>,
             setup.psk[h.me][h.peer])

(* Mutant of TryFinish: a response that is refused stays mixed in. *)
TryFinishInPlace(h, m) ==
    LET s == Finished(h, m)
    IN  /\ sent' = (sent \ {h}) \cup IF Opens(s, m.tag) THEN {}
                                     ELSE {[h EXCEPT !.state = Mixed(s, m.tag)]}
        /\ sessions' = sessions \cup IF Opens(s, m.tag) THEN
               {[role |-> "initiator", me |-> h.me, peer |-> h.peer, payload |-> h.payload,
                 initiation |-> h.ephemeral, response |-> 0,
                 keys |-> finish_as_initiator(Mixed(s, m.tag))]} ELSE {}
        /\ UNCHANGED <<setup, keys, received, inits, resps>>

(* try_finish: a session, or the handshake as it was. *)
TryFinish(h, m) ==
    LET s == Finished(h, m)
    IN  /\ sent' = IF Opens(s, m.tag) THEN sent \ {h} ELSE sent
        /\ sessions' = sessions \cup IF Opens(s, m.tag) THEN
               {[role |-> "initiator", me |-> h.me, peer |-> h.peer, payload |-> h.payload,
                 initiation |-> h.ephemeral, response |-> 0,
                 keys |-> finish_as_initiator(Mixed(s, m.tag))]} ELSE {}
        /\ UNCHANGED <<setup, keys, received, inits, resps>>

TryFinishIK(h, m) == ~WithPsk /\ TryFinish(h, m)
TryFinishIKpsk2(h, m) == WithPsk /\ TryFinish(h, m)

-----------------------------------------------------------------------------
(* One message of each kind is damaged on the way: a part of it opens with *)
(* no key, or is another message's.                                        *)

Garbage == [key |-> <<>>, ad |-> <<>>, text |-> <<>>]

DamageInit(m, other) ==
    /\ \A x \in inits : x.payload # Garbage
    /\ inits' = inits \cup {[m EXCEPT !.payload = Garbage], [m EXCEPT !.static = other.static]}
    /\ UNCHANGED <<setup, keys, sent, received, resps, sessions>>

DamageResp(m, other) ==
    /\ \A x \in resps : x.tag # Garbage
    /\ resps' = resps \cup {[m EXCEPT !.tag = Garbage], [m EXCEPT !.ephemeral = other.ephemeral]}
    /\ UNCHANGED <<setup, keys, sent, received, inits, sessions>>

NoiseNext ==
    \/ \E c \in Calls : InitiateIK(c[1], c[2]) \/ InitiateIKpsk2(c[1], c[2])
    \/ \E p \in Parties, m \in inits : ReceiveIK(p, m) \/ ReceiveIKpsk2(p, m)
    \/ \E r \in received : RespondIK(r) \/ RespondIKpsk2(r)
    \/ \E h \in sent, m \in resps : TryFinishIK(h, m) \/ TryFinishIKpsk2(h, m)
    \/ \E m, other \in inits : DamageInit(m, other)
    \/ \E m, other \in resps : DamageResp(m, other)

NoiseSpec == NoiseInit /\ [][NoiseNext]_noiseVars

-----------------------------------------------------------------------------
By(role) == {s \in sessions : s.role = role}
Crossed(i, r) == i.keys.send = r.keys.recv /\ i.keys.recv = r.keys.send

(* Two parties that hold the same keys, in crossed roles, mean each other, *)
(* have the same prologue and the same pre-shared key, and the responder   *)
(* read the initiator's payload.                                           *)
KeysMeanAgreement ==
    \A i \in By("initiator"), r \in By("responder") :
        i.keys.send = r.keys.recv \/ i.keys.recv = r.keys.send =>
            /\ Crossed(i, r)
            /\ i.me = r.peer /\ i.peer = r.me /\ i.payload = r.payload
            /\ setup.prologue[i.me] = setup.prologue[r.me]
            /\ WithPsk => setup.psk[i.me][r.me] = setup.psk[r.me][i.me]

(* An initiator that finishes shares its keys with a session of the peer   *)
(* it meant, whatever was repeated, misdelivered or damaged on the way.    *)
FinishedIsShared == \A i \in By("initiator") : \E r \in By("responder") : r.me = i.peer /\ Crossed(i, r)

(* An initiation that arrives twice is answered with two sessions, and     *)
(* they do not share a key, nor do those of different initiations.         *)
SessionsDistinct ==
    \A role \in {"initiator", "responder"} : \A s, t \in By(role) :
        s # t => s.keys.send # t.keys.send /\ s.keys.recv # t.keys.recv

(* A response that is refused costs nothing: as long as the handshake is   *)
(* open, the answer its peer gave to it finishes it.                       *)
AnswerStillFinishes ==
    \A h \in sent, r \in By("responder") :
        /\ r.initiation = h.ephemeral
        /\ WithPsk => setup.psk[h.me][h.peer] = setup.psk[h.peer][h.me]
        => \E m \in resps : Opens(Finished(h, m), m.tag)
=============================================================================
