------------------------------ MODULE ShadowVpn ------------------------------
(***************************************************************************)
(* ts_tunnel's ShadowVPN endpoint: peers that share a pre-shared key with  *)
(* this node, datagrams that carry no sender, and a receive path that      *)
(* finds the sender by trying the keys.                                    *)
(*                                                                         *)
(* A key of the AEAD scheme is a pair <<leading, trailing>> of halves; a   *)
(* datagram is the record of what was sealed and with which key, and opens *)
(* with exactly that key.  Remote nodes are named by their node keys.      *)
(***************************************************************************)
EXTENDS Naturals, FiniteSets

CONSTANTS
    PeerIds,      \* handles
    NodeKeys,     \* public keys of remote nodes
    Secrets,      \* NodeKeys -> pre-shared key the node seals and opens with
    Cipher,       \* "aes-128-gcm", "aes-256-gcm" or "chacha20-poly1305"
    Payloads      \* lengths of the plaintexts in play

VARIABLES
    peers,        \* Endpoint::peers
    by_key,       \* Endpoint::by_key
    wire,         \* datagrams remote nodes have sent to this one
    local,        \* RecvResult::to_local of the last recv
    sent,         \* SendResult::to_peers of the last send
    answered      \* the last caller of upsert_peer or remove_peer was told

shadowVars == <<peers, by_key, wire, local, sent, answered>>

NoPeers == [id \in {} |-> {}]

(* Endpoint's MIN_DELIVER_LEN: the length of an IPv4 header. *)
MinDeliverLen == 20

KeyLen(c) == IF c = "aes-128-gcm" THEN 16 ELSE 32

(* Peer::new: the leading key_len bytes of the psk. *)
MasterKey(psk) == IF KeyLen(Cipher) = 16 THEN <<psk[1]>> ELSE psk

EncryptPacket(master, from, len) == [master |-> master, from |-> from, len |-> len]

Opens(master, datagram) == datagram.master = master

ShadowInit ==
    /\ peers = NoPeers /\ by_key = NoPeers
    /\ wire = {} /\ local = {} /\ sent = {} /\ answered = TRUE

Configured == DOMAIN peers

(* Mutant of UpsertPeer: the reverse entry of the old key stays behind. *)
UpsertKeepsKey(id, key) ==
    /\ key \in DOMAIN by_key => by_key[key] = id
    /\ peers' = [i \in Configured \cup {id} |->
                    IF i = id THEN [key |-> key, master |-> MasterKey(Secrets[key])] ELSE peers[i]]
    /\ by_key' = [k \in DOMAIN by_key \cup {key} |-> IF k = key THEN id ELSE by_key[k]]
    /\ answered' = (id \in Configured)
    /\ local' = {} /\ sent' = {} /\ UNCHANGED wire

(* upsert_peer; a key held by another handle would panic, and the caller   *)
(* never passes one (PeerDb keeps node keys unique).                       *)
UpsertPeer(id, key) ==
    LET old == IF id \in Configured THEN {peers[id].key} ELSE {}
        kept == DOMAIN by_key \ (old \ {key})
    IN  /\ key \in DOMAIN by_key => by_key[key] = id
        /\ peers' = [i \in Configured \cup {id} |->
                        IF i = id THEN [key |-> key, master |-> MasterKey(Secrets[key])] ELSE peers[i]]
        /\ by_key' = [k \in kept \cup {key} |-> IF k = key THEN id ELSE by_key[k]]
        /\ answered' = (id \in Configured)
        /\ local' = {} /\ sent' = {} /\ UNCHANGED wire

RemovePeer(id) ==
    /\ answered' = (id \in Configured)
    /\ peers' = [i \in Configured \ {id} |-> peers[i]]
    /\ by_key' = [k \in DOMAIN by_key \ {peers[i].key : i \in Configured \cap {id}} |-> by_key[k]]
    /\ local' = {} /\ sent' = {} /\ UNCHANGED wire

(* send: nothing for a handle that is not configured. *)
Send(id, len) ==
    /\ sent' = {<<i, EncryptPacket(peers[i].master, "self", len)>> : i \in Configured \cap {id}}
    /\ local' = {} /\ UNCHANGED <<peers, by_key, wire, answered>>

(* A remote node seals a packet for this one. *)
Arrive(key, len) ==
    /\ wire' = wire \cup {EncryptPacket(MasterKey(Secrets[key]), key, len)}
    /\ local' = {} /\ sent' = {} /\ UNCHANGED <<peers, by_key, answered>>

(* recv of one datagram: the peers are tried in the order of a hash map,   *)
(* and the first whose key opens it is taken for the sender.  Datagrams    *)
(* stay on the wire: they may be delivered again.                          *)
Recv(datagram) ==
    LET openers == {i \in Configured : Opens(peers[i].master, datagram)}
    IN  /\ \/ \E i \in openers :
                local' = IF datagram.len < MinDeliverLen THEN {} ELSE {<<i, datagram>>}
           \/ openers = {} /\ local' = {}
        /\ sent' = {} /\ UNCHANGED <<peers, by_key, wire, answered>>

ShadowNext ==
    \/ \E id \in PeerIds, key \in NodeKeys : UpsertPeer(id, key)
    \/ \E id \in PeerIds : RemovePeer(id)
    \/ \E id \in PeerIds, len \in Payloads : Send(id, len)
    \/ \E key \in NodeKeys, len \in Payloads : Arrive(key, len)
    \/ \E datagram \in wire : Recv(datagram)

ShadowSpec == ShadowInit /\ [][ShadowNext]_shadowVars

(* peer_id and peer_key are inverse: the reverse index names exactly the   *)
(* configured peers, whatever sequence of upserts and removals led here.   *)
KeysIndexed ==
    /\ DOMAIN by_key = {peers[i].key : i \in Configured}
    /\ \A k \in DOMAIN by_key : by_key[k] \in Configured /\ peers[by_key[k]].key = k

(* recv's comment, "the first peer whose key opens the datagram is the     *)
(* sender": what is delivered is at least an IPv4 header long and is       *)
(* reported under the handle of the node that sealed it.                   *)
SenderIdentified ==
    \A d \in local : d[2].len >= MinDeliverLen /\ peers[d[1]].key = d[2].from

=============================================================================
