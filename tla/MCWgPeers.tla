----------------------------- MODULE MCWgPeers ------------------------------
(***************************************************************************)
(* Model checking of WgEndpoint: either one peer that stays, with sessions *)
(* that expire and rotate, or several peers that come, go and change keys. *)
(* part says which of the two the owner and the network are; Init and the  *)
(* properties are those of the larger instance.  Session ids are           *)
(* interchangeable.                                                        *)
(***************************************************************************)
EXTENDS WgEndpoint, TLC

CONSTANTS p1, k1     \* the peer that stays, and its key

VARIABLE part

Rotation == INSTANCE WgEndpoint WITH
    PeerIds <- {p1}, Keys <- {k1}, Removable <- {}, CookieKeys <- {}

Churn == INSTANCE WgEndpoint WITH Counters <- {0}, MaxTime <- 1, MaxEphemerals <- 2

MCInit == part \in {"rotation", "churn"} /\ Init

MCNext ==
    /\ UNCHANGED part
    /\ \/ part = "rotation" /\ Rotation!Next
       \/ part = "churn" /\ Churn!Next

MCSpec == MCInit /\ [][MCNext]_<<part, vars>>

Symmetry == Permutations(SessionIds)
=============================================================================
