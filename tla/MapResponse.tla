---------------------------- MODULE MapResponse -----------------------------
(***************************************************************************)
(* What a netmap response does to the peers this node knows: map_stream's  *)
(* conversion of a response (src/ts_control/src/tokio/map_stream.rs) and   *)
(* the peer tracker's application of the result, beside the meaning that   *)
(* ts_control_serde/src/netmap.rs documents for the response's fields.     *)
(*                                                                         *)
(* A peer has a key and a status; partial functions are keyed by node id.  *)
(* An absent field of a response is Missing, as is an absent field of a    *)
(* patch.                                                                  *)
(***************************************************************************)
EXTENDS Naturals, FiniteSets, Functions

CONSTANTS Ids, Keys, Responses, Missing

VARIABLES known,      \* the peer database: id -> [key, status]
          meant,      \* what the documented meaning of the responses gives
          panicked    \* the peer tracker's actor has panicked

mapVars == <<known, meant, panicked>>

NoPeers == [i \in {} |-> 0]

(* f, overridden by g *)
Over(g, f) == [i \in DOMAIN f \cup DOMAIN g |-> IF i \in DOMAIN g THEN g[i] ELSE f[i]]

-----------------------------------------------------------------------------
(* map_stream *)

(* NodeStatus::new(Some(online), None) *)
Online(b) == IF b THEN "online" ELSE "offline"

(* An update without a status says "unknown", which changes nothing. *)
StatusOnly(status) == [key |-> Missing, status |-> status]
SeenUpdate(seen) == StatusOnly(IF seen THEN "offline" ELSE "unknown")

(* Mutant of Updates: a seen change replaces the online change. *)
UpdatesSeenLast(r) ==
    LET seen == [i \in DOMAIN r.seen |-> SeenUpdate(r.seen[i])]
        online == [i \in DOMAIN r.online |-> StatusOnly(Online(r.online[i]))]
    IN  Over(r.patch, Over(seen, online))

(* The map of updates by node: a seen change, replaced by an online        *)
(* change, replaced by a patch of the same node.                           *)
Updates(r) ==
    LET seen == [i \in DOMAIN r.seen |-> SeenUpdate(r.seen[i])]
        online == [i \in DOMAIN r.online |-> StatusOnly(Online(r.online[i]))]
    IN  Over(r.patch, Over(online, seen))

(* A full list excludes everything else; a response that says nothing of   *)
(* peers is no update.                                                     *)
PeerUpdate(r) ==
    IF r.peers # Missing
    THEN [kind |-> "full", full |-> r.peers, upsert |-> NoPeers, remove |-> {}, patch |-> NoPeers]
    ELSE [kind |-> IF r.removed = {} /\ DOMAIN r.changed = {} /\ DOMAIN Updates(r) = {}
                   THEN "none" ELSE "delta",
          full |-> NoPeers, upsert |-> r.changed, remove |-> r.removed, patch |-> Updates(r)]

-----------------------------------------------------------------------------
(* The peer tracker *)

(* Node::apply_update *)
Patched(node, u) ==
    [key |-> IF u.key = Missing THEN node.key ELSE u.key,
     status |-> IF u.status = "unknown" THEN node.status ELSE u.status]

(* Removals, then upserts, then patches. *)
ApplyDelta(db, u) ==
    LET kept == Over(u.upsert, Restrict(db, DOMAIN db \ u.remove))
    IN  [i \in DOMAIN kept |-> IF i \in DOMAIN u.patch THEN Patched(kept[i], u.patch[i]) ELSE kept[i]]

(* The patch of a node that is not in the database unwraps nothing. *)
Unknown(db, u) == DOMAIN u.patch \ ((DOMAIN db \ u.remove) \cup DOMAIN u.upsert)

Apply(db, u) == CASE u.kind = "full" -> u.full
                  [] u.kind = "none" -> db
                  [] u.kind = "delta" -> ApplyDelta(db, u)

-----------------------------------------------------------------------------
(* The documented meaning (external: the documentation of MapResponse): a  *)
(* full list replaces the peers, else removals and changes; seen and       *)
(* online changes and patches are each applied, a patch of an unknown node *)
(* is ignored.                                                             *)
Meaning(db, r) ==
    LET base == IF r.peers # Missing THEN r.peers
                ELSE Over(r.changed, Restrict(db, DOMAIN db \ r.removed))
        status(i) == IF i \in DOMAIN r.patch /\ r.patch[i].status # "unknown" THEN r.patch[i].status
                     ELSE IF i \in DOMAIN r.online THEN Online(r.online[i])
                     ELSE IF i \in DOMAIN r.seen /\ r.seen[i] THEN "offline"
                     ELSE base[i].status
        key(i) == IF i \in DOMAIN r.patch /\ r.patch[i].key # Missing THEN r.patch[i].key
                  ELSE base[i].key
    IN  [i \in DOMAIN base |-> [key |-> key(i), status |-> status(i)]]

-----------------------------------------------------------------------------
MapInit == known = NoPeers /\ meant = NoPeers /\ panicked = FALSE

Respond(r) ==
    LET u == PeerUpdate(r)
    IN  /\ ~panicked
        /\ meant' = Meaning(meant, r)
        /\ IF u.kind = "delta" /\ Unknown(known, u) # {} THEN panicked' = TRUE /\ UNCHANGED known
           ELSE known' = Apply(known, u) /\ UNCHANGED panicked

MapNext == \E r \in Responses : Respond(r)
MapSpec == MapInit /\ [][MapNext]_mapVars

-----------------------------------------------------------------------------
(* After any responses the peers known are the peers meant: conversion and *)
(* application agree with the documented meaning of the fields, also where *)
(* a node is removed, changed and listed as online by the same response.   *)
KnownAsMeant == panicked \/ known = meant
=============================================================================

