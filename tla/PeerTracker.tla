---------------------------- MODULE PeerTracker -----------------------------
(***************************************************************************)
(* The peer tracker actor (src/ts_runtime/src/peer_tracker/mod.rs) over    *)
(* the peer database, and the tunnel peers that the dataplane actor keeps  *)
(* in step with the published peer states.                                 *)
(*                                                                         *)
(* Peer updates come from the control plane.  An update is admitted when   *)
(* the nodes it leaves have distinct keys, addresses and qualified names   *)
(* ("all indexed fields are unique per-node"), when a patch names a known  *)
(* node, and when no such field passes from one node to another within the *)
(* update: from a node that survives it unless Moves = "any", from a node  *)
(* the update removes unless Moves # "none".                               *)
(***************************************************************************)
EXTENDS Naturals, Sequences, FiniteSets, Functions, SequencesExt

-----------------------------------------------------------------------------
(***************************************************************************)
(* The peer database of ts_runtime: a map from PeerId to Node and the      *)
(* indexes kept beside it (src/ts_runtime/src/peer_tracker/peer_db.rs),    *)
(* with the part of ts_control's Node that the database looks at.          *)
(*                                                                         *)
(* A database is a record: peers and the indexes are partial functions,    *)
(* ok turns FALSE when an assertion of the code fails (the actor that      *)
(* owns the database panics).  Indexes are keyed by model values; an       *)
(* accepted route occurs once in a node's list.                            *)
(***************************************************************************)

CONSTANTS NoField,      \* an absent optional field
          NoNode        \* no node

(* Partial functions: entry, removal.                                      *)
Put(f, k, v) == [x \in DOMAIN f \cup {k} |-> IF x = k THEN v ELSE f[x]]
Drop(f, k) == Restrict(f, DOMAIN f \ {k})
Holds(f, k, v) == k \in DOMAIN f /\ f[k] = v
NoEntries == [x \in {} |-> 0]

-----------------------------------------------------------------------------
(* Node *)

(* fqdn_opt: the name with its tailnet, if the tailnet is known.           *)
FqdnOpt(node) == IF node.net = NoField THEN {} ELSE {<<node.host, node.net>>}

(* matches_name: the bare host name, or the host name with the node's own  *)
(* tailnet.  A name is <<host>> or <<host, tailnet>>.                      *)
MatchesName(node, name) ==
    \/ name = <<node.host>>
    \/ node.net # NoField /\ name = <<node.host, node.net>>

(* apply_update: an absent field of the update is left as it is.           *)
ApplyUpdate(node, update) ==
    [node EXCEPT !.key = IF update.key = NoField THEN @ ELSE update.key,
                 !.disco = IF update.disco = NoField THEN @ ELSE update.disco,
                 !.region = IF update.region = NoField THEN @ ELSE update.region,
                 !.status = IF update.status = NoField THEN @ ELSE update.status]

-----------------------------------------------------------------------------
(* The database *)

EmptyDb == [peers |-> NoEntries, nk |-> NoEntries, stable |-> NoEntries,
            control |-> NoEntries, disco |-> NoEntries, name |-> NoEntries,
            ip |-> NoEntries, routes |-> NoEntries, next |-> 0, ok |-> TRUE]

OptField(v) == IF v = NoField THEN {} ELSE {v}

(* The values of a node that an index of unique fields is keyed by.        *)
FieldsOf(node, idx) == CASE idx = "nk" -> {node.key}
                         [] idx = "stable" -> {node.stable}
                         [] idx = "control" -> {node.ctl}
                         [] idx = "disco" -> OptField(node.disco)
                         [] idx = "ip" -> node.ips

UniqueIndexes == {"nk", "stable", "control", "disco", "ip"}

(* A removed key must have been mapped to the node's own id.               *)
RemoveFields(db, idx, node, id) ==
    [db EXCEPT ![idx] = Restrict(@, DOMAIN @ \ FieldsOf(node, idx)),
               !.ok = @ /\ \A v \in FieldsOf(node, idx) : Holds(db[idx], v, id)]

InsertFields(db, idx, node, id) ==
    [db EXCEPT ![idx] =
        [v \in DOMAIN @ \cup FieldsOf(node, idx) |->
            IF v \in FieldsOf(node, idx) THEN id ELSE @[v]]]

(* Mutant of MaybeUpdate: the new entry is made before the old one goes.   *)
MaybeUpdateSwapped(db, idx, new, old, id) ==
    IF old # NoNode /\ FieldsOf(old, idx) = FieldsOf(new, idx) THEN db
    ELSE LET added == InsertFields(db, idx, new, id)
         IN  IF old = NoNode THEN added ELSE RemoveFields(added, idx, old, id)

(* maybe_update, maybe_update_idx: nothing unless the field changed; the   *)
(* old node's entry, if there is an old node, goes before the new one's.   *)
MaybeUpdate(db, idx, new, old, id) ==
    IF old # NoNode /\ FieldsOf(old, idx) = FieldsOf(new, idx) THEN db
    ELSE InsertFields(IF old = NoNode THEN db ELSE RemoveFields(db, idx, old, id),
                      idx, new, id)

(* The name index holds host names, which nodes may share (the last one    *)
(* inserted wins and only the owner removes it), and fully qualified names.*)
RemoveNames(db, node, id) ==
    LET host == IF Holds(db.name, <<node.host>>, id) THEN {<<node.host>>} ELSE {}
    IN [db EXCEPT !.name = Restrict(@, DOMAIN @ \ (host \cup FqdnOpt(node)))]

FqdnOwned(db, node, id) == \A n \in FqdnOpt(node) : Holds(db.name, n, id)

InsertNames(db, node, id) ==
    LET names == {<<node.host>>} \cup FqdnOpt(node)
    IN [db EXCEPT !.name = [n \in DOMAIN @ \cup names |->
                               IF n \in names THEN id ELSE @[n]]]

UpdateNames(db, new, old, id) ==
    IF old # NoNode /\ <<old.host, old.net>> = <<new.host, new.net>> THEN db
    ELSE InsertNames(IF old = NoNode THEN db
                     ELSE [RemoveNames(db, old, id) EXCEPT
                              !.ok = @ /\ FqdnOwned(db, old, id)],
                     new, id)

(* remove_route over a node's routes: every occurrence of the id goes, and *)
(* there must have been one where the route is known at all.               *)
RemoveRoutes(db, node, id) ==
    LET left == [r \in DOMAIN db.routes |->
                    IF r \in node.routes THEN SelectSeq(db.routes[r], LAMBDA x : x # id)
                    ELSE db.routes[r]]
    IN [db EXCEPT !.routes = Restrict(left, {r \in DOMAIN left : left[r] # << >>}),
                  !.ok = @ /\ \A r \in node.routes \cap DOMAIN db.routes :
                                 id \in Range(db.routes[r])]

InsertRoutes(db, node, id) ==
    [db EXCEPT !.routes =
        [r \in DOMAIN @ \cup node.routes |->
            (IF r \in DOMAIN @ THEN @[r] ELSE << >>)
              \o (IF r \in node.routes THEN <<id>> ELSE << >>)]]

UpdateRoutes(db, new, old, id) ==
    IF old # NoNode /\ old.routes = new.routes THEN db
    ELSE InsertRoutes(IF old = NoNode THEN db ELSE RemoveRoutes(db, old, id), new, id)

NextPeerId(db, new) ==
    IF new.stable \in DOMAIN db.stable THEN db.stable[new.stable] ELSE db.next

(* upsert: the stable id is the primary key; a node equal to the stored    *)
(* one changes nothing.                                                    *)
Upsert(db, new) ==
    LET id == NextPeerId(db, new)
        d1 == [db EXCEPT !.next = IF id = @ THEN @ + 1 ELSE @]
        old == IF id \in DOMAIN db.peers THEN db.peers[id] ELSE NoNode
        idx == FoldSet(LAMBDA i, d : MaybeUpdate(d, i, new, old, id), d1, UniqueIndexes)
    IN IF old = new THEN db
       ELSE [UpdateRoutes(UpdateNames(idx, new, old, id), new, old, id)
                EXCEPT !.peers = Put(@, id, new)]

(* patch: the node is found by its control id, taken out of peers, updated *)
(* and upserted; an unknown id is a panic.                                 *)
Patch(db, update) ==
    IF update.ctl \notin DOMAIN db.control THEN [db EXCEPT !.ok = FALSE]
    ELSE LET id == db.control[update.ctl]
         IN Upsert([db EXCEPT !.peers = Drop(@, id)],
                   ApplyUpdate(db.peers[id], update))

(* IndexState::remove takes unique fields out whoever they map to.         *)
IndexRemove(db, id, node) ==
    LET d1 == FoldSet(LAMBDA i, d :
                 [d EXCEPT ![i] = Restrict(@, DOMAIN @ \ FieldsOf(node, i))],
                 db, UniqueIndexes)
    IN RemoveRoutes(RemoveNames(d1, node, id), node, id)

RemoveId(db, id) ==
    [IndexRemove(db, id, db.peers[id]) EXCEPT !.peers = Drop(@, id)]

(* remove, by a field whose lookup gives an id (or nothing).               *)
RemoveBy(db, idx, field) ==
    IF field \in DOMAIN db[idx] /\ db[idx][field] \in DOMAIN db.peers
    THEN RemoveId(db, db[idx][field]) ELSE db

(* retain: the nodes a predicate rejects are removed.                      *)
Retain(db, kept) ==
    FoldSet(LAMBDA id, d : RemoveId(d, id), db,
            {id \in DOMAIN db.peers : db.peers[id] \notin kept})

(* get and has, by an index.                                               *)
LookupBy(db, idx, field) == IF field \in DOMAIN db[idx] THEN {db[idx][field]} ELSE {}
GetBy(db, idx, field) ==
    {db.peers[id] : id \in LookupBy(db, idx, field) \cap DOMAIN db.peers}

(* get_route, for a route that is in the table itself.                     *)
GetRoute(db, route) ==
    IF route \in DOMAIN db.routes
    THEN [i \in DOMAIN db.routes[route] |-> db.peers[db.routes[route][i]]] ELSE << >>

-----------------------------------------------------------------------------
CONSTANTS NodeSet,      \* the nodes control may send
          PatchSet,     \* the patches control may send
          Clients,      \* callers of the lookup messages
          Queries,      \* the lookups they make: [idx, field]
          MaxPeerId,    \* bound on next_id
          MaxDelta,     \* bound on the nodes one delta upserts
          MaxRouteIds,  \* bound on the ids stored for one route: each patch adds one
          Moves         \* "none", "fromRemoved" or "any": fields that may move

VARIABLES db,           \* PeerTracker.peer_db
          seen,         \* seen_state_update
          pending,      \* pending_requests
          reply,        \* client -> what it waits for or has received
          tunnel,       \* the dataplane's tunnel: PeerId -> node key
          accepted      \* FALSE once the tunnel panicked: "nodekey collision"

trackerVars == <<db, seen, pending, reply, tunnel, accepted>>

Idle == [state |-> "idle"]
Waiting(q) == [state |-> "waiting", query |-> q]
Found(nodes) == [state |-> "answered", answer |-> {n.stable : n \in nodes}]

TrackerInit ==
    /\ db = EmptyDb
    /\ seen = FALSE
    /\ pending = << >>
    /\ reply = [c \in Clients |-> Idle]
    /\ tunnel = NoEntries
    /\ accepted = TRUE

-----------------------------------------------------------------------------
(* What control sends *)

DistinctNodes(nodes) ==
    \A m, n \in nodes : m # n =>
        /\ m.stable # n.stable
        /\ \A i \in UniqueIndexes : FieldsOf(m, i) \cap FieldsOf(n, i) = {}
        /\ FqdnOpt(m) \cap FqdnOpt(n) = {}

(* gone: the control ids the update removes by name; a full update removes *)
(* the nodes it leaves out.                                                *)
NoMoves(before, gone, after) ==
    \A m \in before, n \in after :
        LET survives == m.ctl \notin gone /\ \E k \in after : k.stable = m.stable
        IN  (IF survives THEN m.stable # n.stable ELSE Moves = "none")
            => /\ \A i \in UniqueIndexes : FieldsOf(m, i) \cap FieldsOf(n, i) = {}
               /\ FqdnOpt(m) \cap FqdnOpt(n) = {}

Admitted(gone, after) ==
    /\ DistinctNodes(after)
    /\ Moves = "any" \/ NoMoves(Range(db.peers), gone, after)

NodeLists == {s \in SeqOf(NodeSet, 2) : DistinctNodes(Range(s)) /\ IsInjective(s)}

-----------------------------------------------------------------------------
(* The tracker's handlers *)

NodeIds(d, nodes) == {d.stable[n.stable] : n \in nodes}

(* PeerUpdate::Full: nodes that are gone are removed, then every node is   *)
(* upserted in the order of the message.                                   *)
FullUpdate(d, nodes) ==
    LET kept == {n \in Range(d.peers) : \E m \in Range(nodes) : m.stable = n.stable}
    IN FoldLeft(Upsert, Retain(d, kept), nodes)

(* PeerUpdate::Delta: removals, upserts, patches.                          *)
DeltaUpdate(d, gone, nodes, patches) ==
    LET d1 == FoldSet(LAMBDA c, e : RemoveBy(e, "control", c), d, gone)
    IN FoldLeft(Patch, FoldLeft(Upsert, d1, nodes), patches)

(* A lookup message's answer: the nodes found by an index, or those with   *)
(* an accepted route.                                                      *)
Answer(d, q) ==
    Found(IF q.idx = "route" THEN Range(GetRoute(d, q.field))
             ELSE GetBy(d, q.idx, q.field))

(* service_pending_requests: the first peer update answers what waited.    *)
ServicePending(d) ==
    /\ seen' = TRUE
    /\ pending' = IF seen THEN pending ELSE << >>
    /\ reply' = [c \in Clients |->
                    IF ~seen /\ \E i \in DOMAIN pending : pending[i][1] = c
                    THEN Answer(d, reply[c].query)
                    ELSE reply[c]]

(* The dataplane's handler: upserts first, deletions after them.  The      *)
(* tunnel panics on a new peer whose key an existing peer has.             *)
ApplyPeerState(upserts, deletions, d) ==
    LET collides == \E id \in upserts \ DOMAIN tunnel, other \in DOMAIN tunnel :
                        tunnel[other] = d.peers[id].key
    IN  /\ accepted' = (accepted /\ ~collides)
        /\ tunnel' = IF ~accepted' THEN tunnel
                     ELSE [id \in (DOMAIN tunnel \cup upserts) \ deletions |->
                              IF id \in upserts THEN d.peers[id].key ELSE tunnel[id]]

PublishState(d, upserts, deletions) ==
    /\ db' = d
    /\ IF d.ok THEN /\ ServicePending(d)
                    /\ ApplyPeerState(upserts, deletions, d)
       ELSE UNCHANGED <<seen, pending, reply, tunnel, accepted>>

HandleFull ==
    /\ db.ok
    /\ \E nodes \in NodeLists :
        LET d == FullUpdate(db, nodes)
        IN /\ d.next <= MaxPeerId
           /\ Admitted({}, Range(nodes))
           /\ PublishState(d, {id \in DOMAIN d.peers : d.peers[id] \in Range(nodes)},
                      DOMAIN db.peers \ DOMAIN d.peers)

HandleDelta ==
    /\ db.ok
    /\ \E gone \in SUBSET {n.ctl : n \in NodeSet}, nodes \in {s \in NodeLists : Len(s) <= MaxDelta},
          patches \in {<< >>} \cup {<<p>> : p \in PatchSet} :
        LET d == DeltaUpdate(db, gone, nodes, patches)
            mid == DeltaUpdate(db, gone, nodes, << >>)
            known == {n \in Range(db.peers) : n.ctl \notin gone} \cup Range(nodes)
        IN /\ \A p \in Range(patches) : \E n \in known : n.ctl = p.ctl
           /\ Admitted(gone, Range(mid.peers))
           /\ d.next <= MaxPeerId
           /\ \A r \in DOMAIN d.routes : Len(d.routes[r]) <= MaxRouteIds
           /\ Admitted(gone, Range(d.peers))
           /\ PublishState(d, NodeIds(d, Range(nodes))
                            \cup {d.control[p.ctl] : p \in Range(patches)},
                      {id \in DOMAIN db.peers : db.peers[id].ctl \in gone})

(* peer_by_name, peer_by_accepted_route, peer_by_tailnet_ip: queued until  *)
(* the first peer update, answered at once after it.                       *)
Ask(c) ==
    /\ db.ok
    /\ reply[c].state # "waiting"
    /\ \E q \in Queries :
        IF seen THEN /\ reply' = [reply EXCEPT ![c] = Answer(db, q)]
                     /\ UNCHANGED pending
        ELSE /\ pending' = Append(pending, <<c, q>>)
             /\ reply' = [reply EXCEPT ![c] = Waiting(q)]
    /\ UNCHANGED <<db, seen, tunnel, accepted>>

TrackerNext == HandleFull \/ HandleDelta \/ \E c \in Clients : Ask(c)

TrackerSpec == TrackerInit /\ [][TrackerNext]_trackerVars

-----------------------------------------------------------------------------
(* No assertion of the database fails while control keeps its fields       *)
(* unique (peer_db.rs: the asserts of upsert and remove_route).            *)
DbAssertionsHold == db.ok

(* Every indexed field of every stored node finds that node: get by key,   *)
(* id, address and qualified name, and by each accepted route.             *)
PeersFindable ==
    db.ok => \A id \in DOMAIN db.peers :
        LET n == db.peers[id]
        IN /\ \A i \in UniqueIndexes : \A v \in FieldsOf(n, i) : Holds(db[i], v, id)
           /\ FqdnOwned(db, n, id)
           /\ \A r \in n.routes : r \in DOMAIN db.routes /\ id \in Range(db.routes[r])

(* A field that patches leave alone finds only a node that has it, a name  *)
(* only a node it matches, and a route only nodes that accept it.          *)
LookupsSound ==
    db.ok =>
        /\ \A i \in {"stable", "control", "ip"} : \A v \in DOMAIN db[i] :
              db[i][v] \in DOMAIN db.peers /\ v \in FieldsOf(db.peers[db[i][v]], i)
        /\ \A v \in DOMAIN db.name :
              db.name[v] \in DOMAIN db.peers /\ MatchesName(db.peers[db.name[v]], v)
        /\ \A r \in DOMAIN db.routes : \A id \in Range(db.routes[r]) :
              id \in DOMAIN db.peers /\ r \in db.peers[id].routes

(* A request that waited is answered by the first peer update, and none    *)
(* waits after it.                                                         *)
NoneWaitsOnceSeen ==
    /\ seen => pending = << >>
    /\ \A c \in Clients : reply[c].state = "waiting" <=>
           \E i \in DOMAIN pending : pending[i] = <<c, reply[c].query>>

(* The tunnel has exactly the database's peers, under their current keys.  *)
TunnelMirrorsDb ==
    db.ok /\ accepted => tunnel = [id \in DOMAIN db.peers |-> db.peers[id].key]

(* The tunnel's assertion: no peer update makes it panic with "nodekey     *)
(* collision" (upsert_peer of ts_tunnel).                                  *)
TunnelAccepts == accepted

(* The tracker's three views of the peers agree after any updates: the     *)
(* database with its indexes, the requests that wait for it, and the       *)
(* tunnel; and no assertion of either fails.                               *)
PeersConsistent ==
    /\ DbAssertionsHold /\ PeersFindable /\ LookupsSound
    /\ NoneWaitsOnceSeen
    /\ TunnelMirrorsDb /\ TunnelAccepts
=============================================================================
