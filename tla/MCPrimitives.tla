---------------------------- MODULE MCPrimitives ----------------------------
(***************************************************************************)
(* Model checking of the pieces that the WireGuard endpoint is built from: *)
(* its replay window, the clock of its handshakes, the scheduler of its    *)
(* timers, as one thread and as several threads see it, and the Noise      *)
(* handshake.  part says which piece runs; the others rest in their        *)
(* initial state.                                                          *)
(***************************************************************************)
EXTENDS ReplayWindow, Tai64nClock, Scheduler, SchedulerRace

VARIABLES
    part,
    setup, keys, sent, received, inits, resps, sessions   \* NoiseHandshake's

(* Three parties: both patterns with settings that agree, a prologue that  *)
(* differs and a pre-shared key that differs.                              *)
NoiseParties == {"a", "b", "c"}
Same(x) == [p \in NoiseParties |-> x]
Psks(x, y) == [p \in NoiseParties |-> [q \in NoiseParties |-> IF p = "a" THEN x ELSE y]]
NoiseSettings ==
    {[pattern |-> t, prologue |-> Same("v"), psk |-> Psks("k", "k")] : t \in {"IK", "IKpsk2"}}
    \cup {[pattern |-> "IK", prologue |-> [Same("v") EXCEPT !["a"] = "w"], psk |-> Psks("k", "k")],
          [pattern |-> "IKpsk2", prologue |-> Same("v"), psk |-> Psks("k", "l")]}
Noise == INSTANCE NoiseHandshake WITH
    Parties <- NoiseParties, Calls <- {<<"a", "b">>, <<"b", "a">>, <<"a", "c">>},
    Settings <- NoiseSettings, MaxInitiations <- 2, MaxResponses <- 2

MCRanges == {<<0, 0>>, <<0, 2>>, <<1, 1>>, <<1, 3>>, <<2, 2>>}

windowVars == vars
noiseVars == <<setup, keys, sent, received, inits, resps, sessions>>
allVars == <<part, windowVars, clockVars, schedulerVars, raceVars, noiseVars>>

AllInit ==
    /\ part \in {"window", "clock", "scheduler", "race", "noise"}
    /\ Init /\ ClockInit /\ SchedulerInit /\ RaceInit /\ Noise!NoiseInit
    /\ part # "noise" => setup = CHOOSE x \in NoiseSettings : TRUE

AllNext ==
    /\ UNCHANGED part
    /\ \/ part = "window" /\ Next /\ UNCHANGED <<clockVars, schedulerVars, raceVars, noiseVars>>
       \/ part = "clock" /\ ClockNext /\ UNCHANGED <<windowVars, schedulerVars, raceVars, noiseVars>>
       \/ part = "scheduler" /\ SchedulerNext /\ UNCHANGED <<windowVars, clockVars, raceVars, noiseVars>>
       \/ part = "race" /\ RaceNext /\ UNCHANGED <<windowVars, clockVars, schedulerVars, noiseVars>>
       \/ part = "noise" /\ Noise!NoiseNext
          /\ UNCHANGED <<windowVars, clockVars, schedulerVars, raceVars>>

AllSpec == AllInit /\ [][AllNext]_allVars

(* Noise: two parties that hold the same keys in crossed roles mean each   *)
(* other and agree on prologue, pre-shared key and payload; an initiator   *)
(* that finishes shares its keys with the peer it meant; no two sessions   *)
(* share a key; and after refused responses the peer's answer still        *)
(* finishes the handshake, whatever the network did to the messages.       *)
SessionsAgree ==
    Noise!KeysMeanAgreement /\ Noise!FinishedIsShared /\ Noise!SessionsDistinct
    /\ Noise!AnswerStillFinishes
=============================================================================
