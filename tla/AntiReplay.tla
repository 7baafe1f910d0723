----------------------------- MODULE AntiReplay -----------------------------
(***************************************************************************)
(* What a replay tracker promises, independently of how it stores what it  *)
(* has seen (the doc comment of ReplayWindow in                            *)
(* ts_tunnel/src/wireguard/replay.rs): a counter larger than any seen so   *)
(* far is accepted, one that was seen is rejected, one that lags the       *)
(* newest by the window size or more is rejected, any other is accepted    *)
(* exactly once.                                                           *)
(***************************************************************************)
EXTENDS Naturals

CONSTANTS
    WindowSize,   \* number of counters tracked, the newest one included
    MaxCounter    \* u64::MAX, the largest counter of a transport header

Counters == 0 .. MaxCounter

VARIABLES
    seen,     \* the counters accepted so far
    verdict   \* whether the packet of the last step was accepted

vars == <<seen, verdict>>

Init ==
    /\ seen = {}
    /\ verdict = FALSE

(* The counters a packet may still be accepted with. *)
Fresh(c) == c \notin seen /\ \A s \in seen : s < c + WindowSize

(* A packet with counter c arrives; authentic says whether it decrypts. *)
Receive(c, authentic) ==
    /\ verdict' = (Fresh(c) /\ authentic)
    /\ seen' = IF Fresh(c) /\ authentic THEN seen \cup {c} ELSE seen

Next == \E c \in Counters, authentic \in BOOLEAN : Receive(c, authentic)

Spec == Init /\ [][Next]_vars

=============================================================================
