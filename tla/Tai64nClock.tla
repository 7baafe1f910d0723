---------------------------- MODULE Tai64nClock -----------------------------
(***************************************************************************)
(* TAI64NClock (ts_tunnel/src/wireguard/time.rs), the source of the        *)
(* timestamps that order handshake initiations.  The nanoseconds field is  *)
(* counted in steps of WHITEN_INCREMENT, the only values it takes: it is a *)
(* u32, so it holds Steps of them, of which SystemSteps occur in system    *)
(* time.  The system clock may jump to any reading at any call.            *)
(***************************************************************************)
EXTENDS Naturals

CONSTANTS
    Steps,        \* 2^32 / WHITEN_INCREMENT, 256 in the code
    SystemSteps,  \* the steps below 10^9 ns, 60 in the code
    MaxSecs,      \* bound on the seconds of the system clock
    MaxCalls      \* bound on the calls

ASSUME ClockAssumption ==
    /\ Steps \in Nat \ {0} /\ SystemSteps \in 1 .. Steps
    /\ MaxSecs \in Nat /\ MaxCalls \in Nat

VARIABLES latest, calls

clockVars == <<latest, calls>>

TAI64N(secs, nanos) == [secs |-> secs, nanos |-> nanos]

(* The derived order of the struct: seconds first. *)
Later(a, b) == a.secs > b.secs \/ (a.secs = b.secs /\ a.nanos > b.nanos)

(* Mutant of clamp_after: the carry into the seconds is dropped. *)
clamp_afterNoCarry(t, min) ==
    IF Later(t, min) THEN t ELSE TAI64N(min.secs, (min.nanos + 1) % Steps)

clamp_after(t, min) ==
    IF Later(t, min) THEN t
    ELSE LET carry == min.nanos + 1 = Steps
         IN  TAI64N(IF carry THEN min.secs + 1 ELSE min.secs,
                    IF carry THEN 0 ELSE min.nanos + 1)

SystemTimes == {TAI64N(s, n) : s \in 0 .. MaxSecs, n \in 0 .. SystemSteps - 1}

ClockInit == latest = TAI64N(0, 0) /\ calls = 0

now(t) ==
    /\ calls < MaxCalls
    /\ latest' = clamp_after(t, latest)
    /\ calls' = calls + 1

ClockNext == \E t \in SystemTimes : now(t)

ClockSpec == ClockInit /\ [][ClockNext]_clockVars

(* Timestamps stay representable: the nanoseconds fit their u32. *)
ClockTypeOK == latest \in [secs : Nat, nanos : 0 .. Steps - 1] /\ calls \in Nat

(* "Successive timestamps are guaranteed to advance relative to past       *)
(* timestamps", however the system clock jumps and also when the           *)
(* nanoseconds of a clamped timestamp overflow into the seconds.           *)
Advances == [][Later(latest', latest)]_clockVars
=============================================================================
