---------------------------- MODULE ControlClient ----------------------------
(***************************************************************************)
(* The client of the control plane (src/ts_control): the task that dials,  *)
(* registers and reads the netmap stream, reconnecting for ever            *)
(* (tokio/client.rs), the dial plan it follows (control_dialer.rs,         *)
(* dial_plan.rs), the broadcast of updates to the runtime and the command  *)
(* channel back.                                                           *)
(*                                                                         *)
(* The server and the network are external: what a dial, a handshake, a    *)
(* registration or a request comes to is a choice, of which MaxFailures    *)
(* fail.  A response is two reads, its length and its body.  Responses     *)
(* are numbered over the life of the client; MapResponse models what one   *)
(* says.  A ping of control (tokio/ping.rs) is the types it asks for and   *)
(* what its payload is: a request for /echo, one for another path, text    *)
(* that is no request, or none at all.                                     *)
(***************************************************************************)
EXTENDS Integers, Sequences, FiniteSets, SequencesExt

CONSTANTS
    Plans,          \* dial plans control may send: sequences of [priority, delay, mode]
    Pings,          \* pings control may send: [types, payload]
    Capacity,       \* of the broadcast channel (32 in the code)
    MaxResponses, MaxCommands, MaxFailures, MaxTime

VARIABLES
    pc,                             \* where run_once is
    plan, stamp, attempted,         \* ControlDialer: plan, timestamp, attempted_candidates
    choice,                         \* the candidate run_once dials: its index, 0 for system DNS
    tried,                          \* history: indices of the plan dialled since it was stored
    opened,                         \* history: the counts when the stream was opened
    inbox, half,                    \* reads the server's data allows; has a length been read?
    update,                         \* the update being handled
    todo, answers,                  \* handle_ping: types left to look at; history: its posts
    published, next, got, missed,   \* broadcast: sent, the receiver's position, received, skipped
    commands, carried, reported,    \* commands queued, being sent, and known to control
    issued, responses, failures, now

dialer == <<plan, stamp, attempted>>
stream == <<opened, inbox, half, update, todo, answers>>
channel == <<published, next, got, missed>>
control == <<commands, carried, reported, issued>>
clientVars == <<pc, dialer, choice, tried, stream, channel, control, responses, failures, now>>

NoPing == [types |-> <<>>, payload |-> "missing"]
None == [n |-> 0, plan |-> <<>>, changes |-> FALSE, ping |-> NoPing]

ClientInit ==
    /\ pc = "connecting" /\ plan = <<>> /\ stamp = 0 /\ attempted = {} /\ choice = 0 /\ tried = {}
    /\ opened = [published |-> 0, responses |-> 0]
    /\ inbox = <<>> /\ half = FALSE /\ update = None /\ todo = <<>> /\ answers = <<>>
    /\ published = 0 /\ next = 1 /\ got = <<>> /\ missed = {}
    /\ commands = <<>> /\ carried = 0 /\ reported = <<>> /\ issued = 0
    /\ responses = 0 /\ failures = 0 /\ now = 0

-----------------------------------------------------------------------------
(* The dialer *)

(* DialCandidate::try_from and DialPlan::from: candidates without a host   *)
(* or an address are left out, priorities are clamped, and the plan is     *)
(* sorted by decreasing (priority, delay).  An empty plan is UseDns.       *)
Clamp(c) == [c EXCEPT !.priority = IF @ < 0 THEN 0 ELSE IF @ > 256 THEN 256 ELSE @]
Above(a, b) == a.priority > b.priority \/ (a.priority = b.priority /\ a.delay >= b.delay)
FromControl(p) ==
    SortSeq([i \in DOMAIN SelectSeq(p, LAMBDA c : c.mode # "none") |->
                Clamp(SelectSeq(p, LAMBDA c : c.mode # "none")[i])], Above)

(* Candidates that may be dialled now. *)
Ready == {i \in DOMAIN plan : i \notin attempted /\ stamp + plan[i].delay <= now
                              /\ plan[i].mode = "ip"}

(* The comparison in the loop never replaces the first candidate found. *)
NextDialer == IF Ready = {} THEN 0 ELSE CHOOSE i \in Ready : \A j \in Ready : i <= j

(* Resubmission of the stored plan changes nothing; a new plan does not    *)
(* clear the attempted candidates.                                         *)
UpdateDialPlan(p) ==
    IF p = plan THEN UNCHANGED <<dialer, tried>>
    ELSE plan' = p /\ stamp' = now /\ tried' = {} /\ UNCHANGED attempted

-----------------------------------------------------------------------------
(* run and run_once *)

(* Mutant of Dial: the candidate is not marked as attempted. *)
DialUnmarked ==
    /\ pc = "connecting" /\ pc' = "dialling"
    /\ choice' = NextDialer /\ tried' = tried \cup ({NextDialer} \ {0})
    /\ UNCHANGED <<dialer, stream, channel, control, responses, failures, now>>

(* full_connect_next: selecting and marking a candidate. *)
Dial ==
    /\ pc = "connecting" /\ pc' = "dialling"
    /\ choice' = NextDialer
    /\ attempted' = attempted \cup ({NextDialer} \ {0}) /\ tried' = tried \cup ({NextDialer} \ {0})
    /\ UNCHANGED <<plan, stamp, stream, channel, control, responses, failures, now>>

(* Each await of the connection succeeds, *)
Proceed(from, to) ==
    /\ pc = from /\ pc' = to
    /\ UNCHANGED <<dialer, choice, tried, stream, channel, control, responses, failures, now>>

(* TcpDialer::dial, by the system's DNS or at the candidate's address,     *)
ConnectDns == choice = 0 /\ Proceed("dialling", "upgrading")
ConnectCandidate == choice # 0 /\ Proceed("dialling", "upgrading")

(* complete_connection: HTTP over TLS, the control key, which is fetched   *)
(* on a connection of its own, the Noise upgrade and HTTP/2 over it,       *)
CompleteConnection == Proceed("upgrading", "fetching key")
FetchControlKey == Proceed("fetching key", "handshaking")
UpgradeTs2021 == Proceed("handshaking", "registering")

(* register: control authorised the machine,                               *)
Register == Proceed("registering", "requesting")

(* and send_map_request opens the stream.                                  *)
OpenStream ==
    /\ pc = "requesting" /\ pc' = "streaming"
    /\ opened' = [published |-> published, responses |-> responses]
    /\ UNCHANGED <<dialer, choice, tried, inbox, half, update, todo, answers, channel, control,
                   responses, failures, now>>

(* Or it fails, also because the machine is not authorised, and run waits  *)
(* before it dials again.                                                  *)
Fails ==
    /\ pc \in {"dialling", "upgrading", "fetching key", "handshaking", "registering", "requesting"}
    /\ failures < MaxFailures
    /\ failures' = failures + 1 /\ pc' = "sleeping"
    /\ UNCHANGED <<dialer, choice, tried, stream, channel, control, responses, now>>

Restart ==
    /\ pc = "sleeping" /\ pc' = "connecting"
    /\ inbox' = <<>> /\ half' = FALSE /\ update' = None
    /\ UNCHANGED <<dialer, choice, tried, opened, todo, answers, channel, control, responses, failures, now>>

(* map_stream reads a length and then a body; a read that is interrupted   *)
(* by a command keeps its place in the unfold's state.                     *)
ReadLength ==
    /\ pc = "streaming" /\ ~half /\ inbox # <<>> /\ half' = TRUE
    /\ UNCHANGED <<pc, dialer, choice, tried, opened, inbox, update, todo, answers, channel, control,
                   responses, failures, now>>

ReadBody ==
    /\ pc = "streaming" /\ half
    /\ half' = FALSE /\ update' = Head(inbox) /\ inbox' = Tail(inbox) /\ pc' = "pinging"
    /\ todo' = Head(inbox).ping.types /\ answers' = <<>>
    /\ UNCHANGED <<dialer, choice, tried, opened, channel, control, responses, failures, now>>

(* The stream ends, or a response cannot be read: run_once returns Ok and  *)
(* the client dials again at once.                                         *)
StreamEnds ==
    /\ pc = "streaming" /\ failures < MaxFailures /\ failures' = failures + 1
    /\ pc' = "connecting" /\ inbox' = <<>> /\ half' = FALSE
    /\ UNCHANGED <<dialer, choice, tried, opened, update, todo, answers, channel, control,
                   responses, now>>

(* One round of handle_ping's loop. *)
Round ==
    /\ pc = "pinging" /\ todo # <<>>
    /\ UNCHANGED <<pc, dialer, choice, tried, opened, inbox, half, update, channel, control,
                   responses, now>>

(* Other types and requests that cannot be parsed are passed over. *)
SkipPing ==
    /\ Round /\ (Head(todo) # "c2n" \/ update.ping.payload = "malformed")
    /\ todo' = Tail(todo) /\ UNCHANGED <<answers, failures>>

(* A request without a payload is an error. *)
BadPing ==
    /\ Round /\ Head(todo) = "c2n" /\ update.ping.payload = "missing"
    /\ todo' = <<>> /\ UNCHANGED <<answers, failures>>

Status(payload) == IF payload = "echo" THEN "200 OK" ELSE "400 Bad Request"

AnswerPing ==
    /\ Round /\ Head(todo) = "c2n" /\ update.ping.payload \in {"echo", "other"}
    /\ todo' = Tail(todo) /\ answers' = Append(answers, Status(update.ping.payload))
    /\ UNCHANGED failures

(* The post of an answer fails. *)
AnswerFails ==
    /\ Round /\ Head(todo) = "c2n" /\ update.ping.payload \in {"echo", "other"}
    /\ failures < MaxFailures /\ failures' = failures + 1
    /\ todo' = <<>> /\ answers' = Append(answers, "lost")

(* Whatever came of the ping: the dial plan, then the broadcast. *)
HandleUpdate ==
    /\ pc = "pinging" /\ todo = <<>> /\ pc' = "streaming"
    /\ IF update.changes THEN UpdateDialPlan(FromControl(update.plan)) ELSE UNCHANGED <<dialer, tried>>
    /\ published' = published + 1
    /\ update' = None
    /\ answers' = <<>>
    /\ UNCHANGED <<choice, opened, inbox, half, todo, next, got, missed, control, responses,
                   failures, now>>

(* Mutant of TakeCommand: the read in progress is dropped with its place. *)
TakeCommandDrops ==
    /\ pc = "streaming" /\ commands # <<>> /\ pc' = "commanding"
    /\ carried' = Head(commands) /\ commands' = Tail(commands)
    /\ half' = FALSE /\ inbox' = IF half THEN Tail(inbox) ELSE inbox
    /\ UNCHANGED <<dialer, choice, tried, opened, update, todo, answers, channel, reported, issued, responses, failures, now>>

TakeCommand ==
    /\ pc = "streaming" /\ commands # <<>> /\ pc' = "commanding"
    /\ carried' = Head(commands) /\ commands' = Tail(commands)
    /\ UNCHANGED <<dialer, choice, tried, stream, channel, reported, issued, responses, failures, now>>

(* A second map request carries the home region; if it fails run_once      *)
(* returns and the command is gone.                                        *)
SendCommand ==
    /\ pc = "commanding" /\ pc' = "streaming"
    /\ reported' = Append(reported, carried) /\ carried' = 0
    /\ UNCHANGED <<dialer, choice, tried, stream, channel, commands, issued, responses, failures, now>>

CommandFails ==
    /\ pc = "commanding" /\ failures < MaxFailures /\ failures' = failures + 1
    /\ pc' = "sleeping" /\ carried' = 0
    /\ UNCHANGED <<dialer, choice, tried, stream, channel, commands, reported, issued, responses, now>>

-----------------------------------------------------------------------------
(* Around the task *)

(* Control sends a response on the open stream, perhaps with a dial plan. *)
ServerResponds(r) ==
    /\ pc \in {"streaming", "pinging", "commanding"} /\ responses < MaxResponses
    /\ responses' = responses + 1
    /\ inbox' = Append(inbox, [r EXCEPT !.n = responses'])
    /\ UNCHANGED <<pc, dialer, choice, tried, opened, half, update, todo, answers, channel, control,
                   failures, now>>

(* The control runner takes an item of the broadcast; a receiver that fell *)
(* behind jumps to the oldest item still held.                             *)
Oldest == IF published > Capacity THEN published - Capacity + 1 ELSE 1

Receive ==
    /\ next <= published
    /\ IF next < Oldest
       THEN next' = Oldest /\ missed' = missed \cup (next .. Oldest - 1) /\ UNCHANGED got
       ELSE next' = next + 1 /\ got' = Append(got, next) /\ UNCHANGED missed
    /\ UNCHANGED <<pc, dialer, choice, tried, stream, published, control, responses, failures, now>>

(* set_home_region *)
SetHomeRegion ==
    /\ issued < MaxCommands /\ issued' = issued + 1
    /\ commands' = Append(commands, issued')
    /\ UNCHANGED <<pc, dialer, choice, tried, stream, channel, carried, reported, responses, failures,
                   now>>

Tick ==
    /\ now < MaxTime /\ now' = now + 1
    /\ UNCHANGED <<pc, dialer, choice, tried, stream, channel, control, responses, failures>>

Responses ==
    [n : {0}, plan : Plans, changes : {TRUE}, ping : {NoPing}]
    \cup [n : {0}, plan : {<<>>}, changes : {FALSE}, ping : Pings \cup {NoPing}]

ClientTask ==
    \/ Dial \/ Restart \/ ConnectDns \/ ConnectCandidate \/ CompleteConnection
    \/ FetchControlKey \/ UpgradeTs2021 \/ Register \/ OpenStream
    \/ ReadLength \/ ReadBody \/ SkipPing \/ BadPing \/ AnswerPing \/ HandleUpdate \/ SendCommand

ClientNext ==
    \/ ClientTask \/ TakeCommand \/ Fails \/ StreamEnds \/ AnswerFails \/ CommandFails
    \/ \E r \in Responses : ServerResponds(r)
    \/ Receive \/ SetHomeRegion \/ Tick

(* The task runs, the select does not starve the command channel, and the  *)
(* receiver is polled.                                                     *)
ClientRuns == WF_clientVars(ClientTask) /\ SF_clientVars(TakeCommand) /\ WF_clientVars(Receive)

ClientSpec == ClientInit /\ [][ClientNext]_clientVars /\ ClientRuns

-----------------------------------------------------------------------------
(* Every response read on a connection is published, once and in its      *)
(* place, also when a command interrupts its reading.                      *)
EveryResponsePublished ==
    pc \in {"streaming", "commanding"} =>
        published - opened.published = responses - opened.responses - Len(inbox)

(* handle_ping: "non-C2N requests are skipped with a warning, while C2N    *)
(* requests for an unhandled path return a 400 Bad Request": when an       *)
(* update is published, each of its C2N requests that can be read got its  *)
(* answer, in order, up to the first post that failed.                     *)
PingsAnswered ==
    LET asked == SelectSeq(update.ping.types, LAMBDA t : t = "c2n")
        due == IF update.ping.payload \in {"echo", "other"}
               THEN [i \in DOMAIN asked |-> Status(update.ping.payload)] ELSE <<>>
    IN  pc = "pinging" /\ todo = <<>> =>
            \/ answers = due
            \/ answers # <<>> /\ Last(answers) = "lost" /\ IsPrefix(Front(answers), due)
               /\ Len(answers) <= Len(due)

(* The candidate dialled has the highest priority of those that are ready, *)
(* although next_dialer keeps the first it finds.                          *)
HighestPriorityFirst ==
    [][pc = "connecting" /\ choice' # 0 /\ pc' = "dialling"
          => \A i \in Ready : plan[i].priority <= plan[choice'].priority]_clientVars

(* A candidate is dialled at most once for a stored plan. *)
CandidateOnce == [][pc = "connecting" /\ pc' = "dialling" => choice' \notin tried]_clientVars

(* The runtime receives updates in order and none twice, and misses only   *)
(* what fell out of the channel.                                           *)
ReceivedInOrder ==
    /\ \A i, j \in DOMAIN got : i < j => got[i] < got[j]
    /\ Range(got) \cup missed = 1 .. next - 1 /\ Range(got) \cap missed = {}

(* What control sends is handled on its way to the runtime, across         *)
(* reconnects and commands: published in its place, its pings answered,    *)
(* and received in order.                                                  *)
UpdatesHandled == EveryResponsePublished /\ PingsAnswered /\ ReceivedInOrder

(* Candidates are dialled by priority, each at most once for a plan. *)
CandidatesInTurn == HighestPriorityFirst /\ CandidateOnce

(* The client keeps reconnecting: it streams again and again. *)
StreamsAgain == []<>(pc = "streaming")

(* A command is taken in the end, whatever the stream does. *)
CommandsTaken == commands # <<>> ~> commands = <<>>
=============================================================================
