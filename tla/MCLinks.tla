------------------------------ MODULE MCLinks -------------------------------
(***************************************************************************)
(* Model checking of the long-running loops between this node and the      *)
(* servers: the task of a DERP region (DerpRegion), the control client     *)
(* (ControlClient), the byte stream under it (ControlNoise) and the two    *)
(* measurements of Netcheck, each by itself: part says which one runs, the *)
(* others rest in an initial state.                                        *)
(***************************************************************************)
EXTENDS DerpRegion, ControlClient

VARIABLES
    part,
    wire, have, sealed, codec, phase, plain, skip, prefix, written, read, errors,  \* ControlNoise
    map, probe, joined, elapsed, stage, out,        \* Netcheck
    servers, trying, call, txn, sentAt, started, in_flight, held, answer, network, found, clock

noiseVars == <<wire, have, sealed, codec, phase, plain, skip, prefix, written, read, errors>>
measureVars == <<map, probe, joined, elapsed, stage, out>>
stunVars == <<servers, trying, call, txn, sentAt, started, in_flight, held, answer, network, found, clock>>

-----------------------------------------------------------------------------
(* DerpRegion: a server that only answers STUN, and one on IPv6. *)
RegionServers == <<[stunOnly |-> TRUE, selfSigned |-> FALSE, stacks |-> {"v4"}],
                   [stunOnly |-> FALSE, selfSigned |-> FALSE, stacks |-> {"v6"}]>>

(* ControlClient: plans with a delayed, an unsupported and an empty candidate. *)
Candidate(priority, delay, mode) == [priority |-> priority, delay |-> delay, mode |-> mode]
ClientPlans == {<<Candidate(1, 0, "ip"), Candidate(5, 1, "ip"), Candidate(9, 0, "ace")>>,
                <<Candidate(3, 0, "ip"), Candidate(2, 0, "none")>>}
ClientPings == {[types |-> <<"disco", "c2n", "c2n">>, payload |-> "other"],
                [types |-> <<"c2n">>, payload |-> "echo"], [types |-> <<"c2n">>, payload |-> "missing"],
                [types |-> <<"c2n", "c2n">>, payload |-> "malformed"]}

(* ControlNoise: a challenge that is accepted and one that is too long. *)
Noise == INSTANCE ControlNoise WITH
    Header <- 2, Overhead <- 1, MaxChunk <- 2, MaxChallenge <- 2, Magic <- <<100, 101>>,
    Challenges <- {<<7, 8>>, <<7, 8, 9>>}, Greetings <- {"Response", "Error"}, Reads <- {2, 3},
    MaxBytes <- 3, MaxErrors <- 1,
    sent <- written

(* Netcheck: a region whose first server cannot be dialled, one with a     *)
(* spare, one that must not be home; and lists of STUN servers of which    *)
(* one stays empty unless a name resolves.                                 *)
Region(noMeasure, dialable) == [noMeasure |-> noMeasure, servers |-> dialable]
DerpMap == <<Region(FALSE, <<FALSE, TRUE>>), Region(FALSE, <<TRUE, TRUE>>), Region(TRUE, <<TRUE>>)>>
Net == INSTANCE Netcheck WITH
    Maps <- {DerpMap}, complete_threshold <- 1, n_warmup <- 1, n_samples <- 2, fail_on_status <- TRUE,
    Latencies <- {1, 2}, Updates <- {<<>>, <<"FixedAddr", "UseDns">>, <<"other", "UseDns">>},
    MaxTxns <- 3, MaxTime <- 2,
    now <- clock

-----------------------------------------------------------------------------
Init ==
    /\ part \in {"region", "client", "noise", "measure", "stun"}
    /\ RegionInit /\ ClientInit /\ Noise!NoiseInit /\ Net!MeasureInit /\ Net!StunInit
    /\ part # "noise" => wire[1].typ = "Response"

RegionStep ==
    part = "region" /\ RegionNext /\ UNCHANGED <<part, clientVars, noiseVars, measureVars, stunVars>>
ClientStep ==
    part = "client" /\ ClientNext /\ UNCHANGED <<part, regionVars, noiseVars, measureVars, stunVars>>
NoiseStep ==
    part = "noise" /\ Noise!NoiseNext
    /\ UNCHANGED <<part, regionVars, clientVars, measureVars, stunVars>>
MeasureStep ==
    part = "measure" /\ Net!MeasureNext
    /\ UNCHANGED <<part, regionVars, clientVars, noiseVars, stunVars>>
StunStep ==
    part = "stun" /\ Net!StunNext
    /\ UNCHANGED <<part, regionVars, clientVars, noiseVars, measureVars>>

Next == RegionStep \/ ClientStep \/ NoiseStep \/ MeasureStep \/ StunStep

vars == <<part, regionVars, clientVars, noiseVars, measureVars, stunVars>>

(* Each part keeps its own fairness. *)
Live(p, Act) == part = p /\ Act /\ UNCHANGED part
Fairness ==
    /\ WF_regionVars(Live("region", RegionTask))
    /\ WF_regionVars(Live("region", Serving))
    /\ WF_regionVars(Live("region", InactivityPasses))
    /\ WF_regionVars(Live("region", Timeout))
    /\ WF_clientVars(Live("client", ClientTask))
    /\ SF_clientVars(Live("client", TakeCommand))
    /\ WF_clientVars(Live("client", Receive))
    /\ WF_noiseVars(Live("noise", Noise!Client))
    /\ WF_measureVars(Live("measure", Net!Measuring))
    /\ WF_measureVars(Live("measure", Net!MinTimeout))
    /\ \A r \in DOMAIN DerpMap : WF_measureVars(Live("measure", r \in Net!Eligible /\ Net!RegionProbe(r)))
    /\ WF_stunVars(Live("stun", Net!Stunner))
Spec == Init /\ [][Next]_vars /\ Fairness

-----------------------------------------------------------------------------
(* The HTTP/2 layer reads the server's bytes in order, from the first, and *)
(* no well-formed stream of records is refused.                            *)
ReadsInOrder == Noise!ReadsInOrder /\ Noise!StreamAccepted

(* A latency measurement holds the regions it measured, once each, in      *)
(* order, and ends no sooner than it may; and no STUN transaction outlives *)
(* its call, however timeouts, failures and late replies interleave.       *)
NetcheckSound == Net!ResultsSound /\ Net!TransactionsEnd

(* What must happen does: a region that becomes home gets connected, an    *)
(* idle one is closed, shutdown ends its task; the control client streams  *)
(* again and again and takes every command; everything the control server  *)
(* sends is read; a latency measurement returns, and trying the STUN       *)
(* servers comes to an end.                                                *)
LinksLive ==
    /\ part = "region" => HomeConnects /\ IdleCloses /\ ShutdownEnds
    /\ part = "client" => StreamsAgain /\ CommandsTaken
    /\ part = "noise" => Noise!AllRead
    /\ part = "measure" => Net!Returns
    /\ part = "stun" => Net!TryEnds
=============================================================================
