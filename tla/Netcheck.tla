------------------------------ MODULE Netcheck ------------------------------
(***************************************************************************)
(* What the node finds out about its network (src/ts_netcheck): the        *)
(* latency of the DERP regions, measured by one task for each region over  *)
(* HTTPS, and the node's public address, which an actor (src/ts_runtime/   *)
(* src/stunner.rs) asks of one STUN server after the other.                *)
(***************************************************************************)
EXTENDS Integers, Sequences, FiniteSets, SequencesExt, FiniteSetsExt

CONSTANTS
    Maps,            \* DERP maps: region -> [noMeasure, servers]; a server is dialable or not
    complete_threshold, n_warmup, n_samples, fail_on_status,   \* the probe's configuration
    Latencies,       \* how long a request may take
    Updates,         \* the servers of an update, by how each gives its IPv4 address
    MaxTxns, MaxTime

VARIABLES
    map,             \* the map that is measured
    probe,           \* the task of each region: where it is, its server, requests left, their sum
    joined,          \* the regions whose task was joined
    elapsed,         \* has min_timeout passed?
    stage,           \* measure_derp_map: "loop", "ready" or "returned"
    out,             \* its results
    servers, trying, \* Stunner: the servers, and the one that try_stun is at (0: idle)
    call,            \* StunProber::measure: "none", "send", "sent", "wait"
    txn, sentAt, started,   \* its transaction, when it was sent, and the Instant read after that
    in_flight,       \* the transactions that have a sender
    held,            \* the transaction whose sender run_recv has taken
    answer,          \* the reply in the oneshot channel
    network,         \* requests the servers have received
    found,           \* the latencies with which an address was published
    now

measureVars == <<map, probe, joined, elapsed, stage, out>>
stunVars == <<servers, trying, call, txn, sentAt, started, in_flight, held, answer, network, found, now>>

-----------------------------------------------------------------------------
(* The task of a region: measure_https_latency                             *)

Idle == [at |-> "dial", server |-> 0, left |-> 0, sum |-> 0]
Eligible == {r \in DOMAIN map : ~map[r].noMeasure}

(* measure_derp_map spawns a task for each region that may be home. *)
MeasureInit ==
    /\ map \in Maps
    /\ probe = [r \in DOMAIN map |-> IF map[r].noMeasure THEN [Idle EXCEPT !.at = "none"] ELSE Idle]
    /\ joined = {} /\ elapsed = FALSE /\ stage = "loop" /\ out = <<>>

Goes(r, p) == probe' = [probe EXCEPT ![r] = p] /\ UNCHANGED <<map, joined, elapsed, stage, out>>

(* dial_region_tls takes the servers from the shared iterator: one that is *)
(* not dialable, cannot be reached or fails its handshakes is not tried    *)
(* again.                                                                  *)
Dial(r) ==
    LET next == probe[r].server + 1
    IN  /\ probe[r].at = "dial"
        /\ IF n_samples = 0 \/ next > Len(map[r].servers) THEN Goes(r, [probe[r] EXCEPT !.at = "failed"])
           ELSE \/ Goes(r, [probe[r] EXCEPT !.server = next])
                \/ /\ map[r].servers[next]
                   /\ Goes(r, [at |-> "warmup", server |-> next, left |-> n_warmup, sum |-> 0])

(* measure_http_request: a response of some status, or none. *)
Responses == Latencies \X {"success", "status"}
Usable(resp) == fail_on_status => resp[2] = "success"

(* A warmup's outcome is ignored. *)
Warmup(r) ==
    /\ probe[r].at = "warmup"
    /\ IF probe[r].left = 0 THEN Goes(r, [probe[r] EXCEPT !.at = "sample", !.left = n_samples])
       ELSE Goes(r, [probe[r] EXCEPT !.left = @ - 1])

SampleFails(r) == probe[r].at = "sample" /\ Goes(r, [probe[r] EXCEPT !.at = "dial"])

Sample(r) ==
    /\ probe[r].at = "sample"
    /\ \E resp \in Responses :
        /\ Usable(resp)
        /\ Goes(r, IF probe[r].left > 1
                   THEN [probe[r] EXCEPT !.left = @ - 1, !.sum = @ + resp[1]]
                   ELSE [probe[r] EXCEPT !.at = "measured", !.left = 0, !.sum = @ + resp[1]])

RegionProbe(r) == Dial(r) \/ Warmup(r) \/ SampleFails(r) \/ Sample(r)

-----------------------------------------------------------------------------
(* measure_derp_map                                                        *)

Done(r) == probe[r].at \in {"measured", "failed"}
Result(r) == [latency |-> probe[r].sum \div n_samples, id |-> r]

(* process_joinset_result *)
Taken(r) ==
    /\ Done(r) /\ r \notin joined /\ joined' = joined \cup {r}
    /\ out' = IF probe[r].at = "measured" THEN Append(out, Result(r)) ELSE out
    /\ UNCHANGED <<map, probe, elapsed>>

Enough == Len(out) >= complete_threshold /\ elapsed

JoinNext(r) == stage = "loop" /\ ~Enough /\ Taken(r) /\ UNCHANGED stage

(* The select's other branch.  It is ready again in every later round. *)
MinTimeout ==
    /\ stage = "loop" /\ ~elapsed /\ elapsed' = TRUE
    /\ UNCHANGED <<map, probe, joined, stage, out>>

LeaveLoop ==
    /\ stage = "loop" /\ (Enough \/ joined = Eligible)
    /\ stage' = "ready" /\ UNCHANGED <<map, probe, joined, elapsed, out>>

(* try_join_next takes what is there without waiting. *)
TryJoinNext(r) == stage = "ready" /\ Taken(r) /\ UNCHANGED stage

Before(a, b) == a.latency < b.latency \/ (a.latency = b.latency /\ a.id < b.id)

(* The results are sorted; dropping the JoinSet aborts the other tasks. *)
Return ==
    /\ stage = "ready" /\ \A r \in Eligible \ joined : ~Done(r)
    /\ stage' = "returned" /\ out' = SetToSortSeq(Range(out), Before)
    /\ probe' = [r \in DOMAIN map |-> IF r \in Eligible \ joined THEN [probe[r] EXCEPT !.at = "aborted"]
                                      ELSE probe[r]]
    /\ UNCHANGED <<map, joined, elapsed>>

Measuring ==
    \/ \E r \in Eligible : JoinNext(r) \/ TryJoinNext(r)
    \/ LeaveLoop \/ Return

MeasureNext == Measuring \/ MinTimeout \/ \E r \in Eligible : RegionProbe(r)

-----------------------------------------------------------------------------
(* Stunner and StunProber                                                  *)

(* Transactions count from 1. *)
NoReply == [txn |-> 0, at |-> 0]

StunInit ==
    /\ servers = <<>> /\ trying = 0 /\ call = "none" /\ txn = 0 /\ sentAt = 0 /\ started = 0
    /\ in_flight = {} /\ held = NoReply /\ answer = NoReply /\ network = {} /\ found = {} /\ now = 0

(* The next server of try_stun, or its end. *)
Turn(ss, i) ==
    IF i <= Len(ss) THEN trying' = i /\ call' = "send" ELSE trying' = 0 /\ call' = "none"

(* Message<StateUpdate>: the servers with a STUN port and a fixed address, *)
(* or a name that resolves.  A list that is no longer empty is tried at    *)
(* once.                                                                   *)
SetServers(usage) ==
    /\ trying = 0
    /\ \E kept \in SUBSET DOMAIN usage :
        /\ \A i \in DOMAIN usage : /\ usage[i] = "FixedAddr" => i \in kept
                                  /\ usage[i] = "other" => i \notin kept
        /\ servers' = SetToSortSeq(kept, <)
    /\ IF servers = <<>> THEN Turn(servers', 1) ELSE UNCHANGED <<trying, call>>
    /\ UNCHANGED <<txn, sentAt, started, in_flight, held, answer, network, found, now>>

(* Message<Tick> *)
TickStun ==
    /\ trying = 0 /\ servers # <<>> /\ Turn(servers, 1)
    /\ UNCHANGED <<servers, txn, sentAt, started, in_flight, held, answer, network, found, now>>

(* send_stun: the transaction is entered before the request is sent; when  *)
(* that fails, or is timed out, the guard takes it out again.              *)
SendStun ==
    /\ call = "send" /\ txn < MaxTxns /\ txn' = txn + 1 /\ answer' = NoReply
    /\ \/ /\ in_flight' = in_flight \cup {txn'} /\ network' = network \cup {txn'}
          /\ sentAt' = now /\ call' = "sent" /\ UNCHANGED trying
       \/ UNCHANGED <<in_flight, network, sentAt>> /\ Turn(servers, trying + 1)
    /\ UNCHANGED <<servers, started, held, found, now>>

(* measure reads the clock once the request is sent. *)
Stamp ==
    /\ call = "sent" /\ call' = "wait" /\ started' = now
    /\ UNCHANGED <<servers, trying, txn, sentAt, in_flight, held, answer, network, found, now>>

(* run_recv: a reply to a transaction in flight takes its sender...        *)
TakeSender(t) ==
    /\ t \in network /\ held = NoReply /\ t \in in_flight
    /\ in_flight' = in_flight \ {t} /\ held' = [txn |-> t, at |-> now]
    /\ UNCHANGED <<servers, trying, call, txn, sentAt, started, answer, network, found, now>>

(* ... and answers on it, unless the call is gone.                         *)
SendAnswer ==
    /\ held # NoReply /\ held' = NoReply
    /\ answer' = IF held.txn = txn /\ call \in {"sent", "wait"} THEN held ELSE answer
    /\ UNCHANGED <<servers, trying, call, txn, sentAt, started, in_flight, network, found, now>>

(* Instant::duration_since is zero when the order is reversed. *)
duration_since(later, earlier) == IF later > earlier THEN later - earlier ELSE 0

(* The address is published.  The guard takes the transaction out. *)
Publish ==
    /\ call = "wait" /\ answer # NoReply
    /\ found' = found \cup {[txn |-> answer.txn, latency |-> duration_since(answer.at, started),
                             actual |-> answer.at - sentAt]}
    /\ in_flight' = in_flight \ {txn} /\ trying' = 0 /\ call' = "none"
    /\ UNCHANGED <<servers, txn, sentAt, started, held, answer, network, now>>

(* Mutant of Timeout: the transaction stays in the map. *)
TimeoutKeeps ==
    /\ call = "wait" /\ answer = NoReply
    /\ Turn(servers, trying + 1) /\ UNCHANGED in_flight
    /\ UNCHANGED <<servers, txn, sentAt, started, held, answer, network, found, now>>

(* tokio::time::timeout drops the call, and the guard with it. *)
Timeout ==
    /\ call = "wait" /\ answer = NoReply
    /\ Turn(servers, trying + 1) /\ in_flight' = in_flight \ {txn}
    /\ UNCHANGED <<servers, txn, sentAt, started, held, answer, network, found, now>>

Tick ==
    /\ now < MaxTime /\ now' = now + 1
    /\ UNCHANGED <<servers, trying, call, txn, sentAt, started, in_flight, held, answer, network, found>>

Stunner == SendStun \/ Stamp \/ Publish \/ Timeout

StunNext ==
    \/ \E usage \in Updates : SetServers(usage)
    \/ TickStun \/ Stunner \/ SendAnswer \/ Tick
    \/ \E t \in network : TakeSender(t)

-----------------------------------------------------------------------------
(* A measurement says what was measured: no region twice, none that must   *)
(* not be home, each with a mean of its own samples; it returns no sooner  *)
(* than its threshold and its timeout are met or every task has ended, and *)
(* then in order of latency.                                               *)
ResultsSound ==
    /\ \A i \in DOMAIN out : /\ out[i].id \in Eligible /\ probe[out[i].id].at = "measured"
                             /\ out[i] = Result(out[i].id)
                             /\ map[out[i].id].servers[probe[out[i].id].server]
    /\ \A i, j \in DOMAIN out : i # j => out[i].id # out[j].id
    /\ stage = "returned" =>
        /\ (elapsed /\ Len(out) >= complete_threshold) \/ joined = Eligible
        /\ \A i, j \in DOMAIN out : i < j => Before(out[i], out[j])

(* However timeouts, failures and late replies interleave, no transaction  *)
(* outlives its call, a reply is taken by the call that asked, and the     *)
(* latency is neither negative nor more than the round trip took.          *)
TransactionsEnd ==
    /\ in_flight \subseteq (IF call \in {"sent", "wait"} THEN {txn} ELSE {})
    /\ answer # NoReply => answer.txn = txn
    /\ \A f \in found : f.latency \in 0 .. f.actual

(* A measurement returns, and try_stun does not keep its actor. *)
Returns == <>(stage = "returned")
TryEnds == trying # 0 /\ txn < MaxTxns ~> trying = 0 \/ txn = MaxTxns
=============================================================================
