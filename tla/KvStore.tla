------------------------------ MODULE KvStore -------------------------------
(***************************************************************************)
(* The key-value store (ts_kv_store): singletons and an indexed table      *)
(* behind one std RwLock, used by threads through raw operations, read-    *)
(* write transactions and read-only ones.  A panic while the lock is held  *)
(* for writing poisons it; the next access clears the poison and collects  *)
(* what the abandoned transaction left behind.                             *)
(*                                                                         *)
(* While a thread holds the lock for writing nobody else sees the storage, *)
(* so the body of an operation is one step; taking the lock, clearing its  *)
(* poison and leaving are steps of their own.                              *)
(***************************************************************************)
EXTENDS Integers, FiniteSets, FiniteSetsExt

-----------------------------------------------------------------------------
(***************************************************************************)
(* Tables of the key-value store (ts_kv_store/src/storage.rs): a value has *)
(* two versions, deletes of a transaction live in a mask beside the data,  *)
(* and an index is a second table derived from the first.                  *)
(*                                                                         *)
(* Transaction ids are positive integers; 0 stands for "none".  A map is a *)
(* total function, a missing key being one without versions: an entry of   *)
(* the code's HashMap always holds a version (new, set and gc_txn keep it  *)
(* so).                                                                    *)
(***************************************************************************)

CONSTANTS Keys,         \* primary keys of the base table
          Vals,         \* rows
          Fields,       \* keys of the index
          FieldsOf,     \* the index keys of a row: [Vals -> SUBSET Fields]
          NoVal         \* Option::None

NoSlot == [id |-> 0, val |-> NoVal]
NoVersions == [a |-> NoSlot, b |-> NoSlot]

(***************************************************************************)
(* VersionedValue                                                          *)
(***************************************************************************)
VvNew(v, id) == [a |-> [id |-> id, val |-> v], b |-> NoSlot]

VvGc(vv, id) == [a |-> IF vv.a.id = id THEN NoSlot ELSE vv.a,
                 b |-> IF vv.b.id = id THEN NoSlot ELSE vv.b]

Visible(slot, id) == slot # NoSlot /\ slot.id <= id

\* The slot get(id) reads: the newer of the visible ones.
ReadSlot(vv, id) ==
    IF Visible(vv.a, id) /\ (Visible(vv.b, id) => vv.a.id > vv.b.id) THEN "a" ELSE "b"

VvGet(vv, id) ==
    LET slot == vv[ReadSlot(vv, id)] IN IF Visible(slot, id) THEN slot.val ELSE NoVal

\* get_mut(id) gives access to the slot get reads, whatever its version.
VvGetMut(vv, id, v) == [vv EXCEPT ![ReadSlot(vv, id)].val = v]

\* The value take(id) moves out of an entry that is already out of its map.
VvTake(vv, id) == VvGet(vv, id)

\* The slot a write of id goes to: its own, else an empty one, else the older.
WriteSlot(vv, id) ==
    IF vv.a.id # id /\ (vv.b.id = id \/ vv.a.id > vv.b.id) THEN "b" ELSE "a"

VvSet(vv, v, id) == [vv EXCEPT ![WriteSlot(vv, id)] = [id |-> id, val |-> v]]

\* The version of id is made by copying the other slot, unless it exists.
InternalClone(vv, id) ==
    LET s == WriteSlot(vv, id)
        other == IF s = "a" THEN vv.b ELSE vv.a
    IN  IF vv = NoVersions \/ vv[s].id = id THEN vv
        ELSE [vv EXCEPT ![s] = [id |-> id, val |-> other.val]]

(***************************************************************************)
(* DeleteMask: "none", "all" (the table was cleared; rows are the new      *)
(* ones) or "some" (keys of the data that are removed).                    *)
(***************************************************************************)
NoRows(K) == [k \in K |-> NoVersions]
NoMask(K) == [kind |-> "none", id |-> 0, rows |-> NoRows(K), removed |-> {}]

\* check_txn_id, the debug assertion of every mask operation
MaskIdOk(mask, id) == mask.kind = "none" \/ mask.id = id

MaskClear(mask, id) ==
    [kind |-> "all", id |-> id, rows |-> NoRows(DOMAIN mask.rows), removed |-> {}]

\* Only a key whose row is in the data is recorded as removed.
MaskRemove(mask, k, id, data) ==
    LET present == VvGet(data[k], id) # NoVal IN
    IF mask.kind = "all"
    THEN [mask EXCEPT !.rows[k] = NoVersions]
    ELSE IF present
    THEN [mask EXCEPT !.kind = "some", !.id = id, !.removed = @ \union {k}]
    ELSE mask

\* The value MaskRemove returns: only a row of a cleared table.
MaskRemoved(mask, k, id) == IF mask.kind = "all" THEN VvTake(mask.rows[k], id) ELSE NoVal

\* MaskStatus of a key
MaskGet(mask, k, id) ==
    CASE mask.kind = "all" /\ mask.id = id ->
            IF mask.rows[k] = NoVersions THEN "removed"
            ELSE IF VvGet(mask.rows[k], id) # NoVal THEN "overwritten" ELSE "unknown"
      [] mask.kind = "some" /\ mask.id = id ->
            IF k \in mask.removed THEN "removed" ELSE "unknown"
      [] OTHER -> "unknown"

MaskInsert(mask, k, v, id) ==
    CASE mask.kind = "none" -> mask
      [] mask.kind = "all"  -> [mask EXCEPT !.rows[k] = VvNew(v, id)]
      [] mask.kind = "some" -> [mask EXCEPT !.removed = @ \ {k}]

(***************************************************************************)
(* Table: owner, data, delete mask and the keys a transaction modified     *)
(* (an id of 0 is None).  id is the transaction that acts and max the last *)
(* committed one; a raw operation has id = max.                            *)
(***************************************************************************)
NoMutations == [id |-> 0, keys |-> {}]

NewTable(K, noOwner) ==
    [owner |-> noOwner, data |-> NoRows(K), mask |-> NoMask(K), modified |-> NoMutations]

GetFromTable(t, k, id) ==
    CASE MaskGet(t.mask, k, id) = "unknown"     -> VvGet(t.data[k], id)
      [] MaskGet(t.mask, k, id) = "removed"     -> NoVal
      [] MaskGet(t.mask, k, id) = "overwritten" -> VvGet(t.mask.rows[k], id)

RecordMutation(modified, k, id, max) ==
    IF id = max THEN modified ELSE [id |-> id, keys |-> modified.keys \union {k}]

TableGc(t, id) ==
    [t EXCEPT !.mask = NoMask(DOMAIN t.data),
              !.data = [k \in DOMAIN @ |-> IF k \in t.modified.keys THEN VvGc(@[k], id) ELSE @[k]],
              !.modified = NoMutations]

CheckTxnConsistency(t, id) ==
    /\ t.modified.id \in {0, id}
    /\ MaskIdOk(t.mask, id)

\* Mutant of TableCommit: a clear is forgotten, only removals are carried out.
TableCommitUncleared(t, id) ==
    [t EXCEPT !.modified = NoMutations,
              !.mask = NoMask(DOMAIN t.data),
              !.data = [k \in DOMAIN @ |-> IF k \in t.mask.removed THEN NoVersions ELSE @[k]]]

TableCommit(t, id) ==
    [t EXCEPT !.modified = NoMutations,
              !.mask = NoMask(DOMAIN t.data),
              !.data = IF t.mask.kind = "all" THEN t.mask.rows
                       ELSE [k \in DOMAIN @ |->
                                IF k \in t.mask.removed THEN NoVersions ELSE @[k]]]

\* The keys iter_data(id) yields
DataKeys(t, id) == {k \in DOMAIN t.data : VvGet(t.data[k], id) # NoVal}

TableLen(t, id) ==
    CASE t.mask.kind = "none" -> Cardinality(DataKeys(t, id))
      [] t.mask.kind = "all"  -> Cardinality({k \in DOMAIN t.data : t.mask.rows[k] # NoVersions})
      [] t.mask.kind = "some" -> Cardinality(DataKeys(t, id)) - Cardinality(t.mask.removed)

TableIsEmpty(t, id) ==
    CASE t.mask.kind = "all" -> \A k \in DOMAIN t.data : t.mask.rows[k] = NoVersions
      [] t.mask.kind = "some" /\ t.data = NoRows(DOMAIN t.data) -> TRUE
      [] OTHER -> Cardinality(DataKeys(t, id)) - Cardinality(t.mask.removed) = 0

\* The rows a TableIterator yields
TableIter(t, id) ==
    LET rows == IF t.mask.kind = "all" THEN t.mask.rows ELSE t.data
        seen == {k \in DOMAIN rows : VvGet(rows[k], id) # NoVal} \ t.mask.removed
    IN  [k \in seen |-> VvGet(rows[k], id)]

(***************************************************************************)
(* Mutations of one table, without its indexes                             *)
(***************************************************************************)
PutRow(t, k, v, id, max) ==
    IF t.mask.kind = "all"
    THEN [t EXCEPT !.mask = MaskInsert(@, k, v, id)]
    ELSE [t EXCEPT !.mask = MaskInsert(@, k, v, id),
                   !.modified = RecordMutation(@, k, id, max),
                   !.data[k] = VvSet(@, v, id)]

DropRow(t, k, id, max) ==
    IF id = max THEN [t EXCEPT !.data[k] = NoVersions]
    ELSE [t EXCEPT !.mask = MaskRemove(@, k, id, t.data)]

ClearRows(t, id, max) ==
    IF id = max THEN [t EXCEPT !.data = NoRows(DOMAIN t.data)]
    ELSE [t EXCEPT !.mask = MaskClear(@, id)]

\* The row DropRow hands to the indexes: what the mask returned, else the
\* version in the data, whether or not the mask already hides it.
DroppedRow(t, k, id, max) ==
    IF id # max /\ MaskRemoved(t.mask, k, id) # NoVal
    THEN MaskRemoved(t.mask, k, id)
    ELSE VvGet(t.data[k], id)

\* The row with_mut gives to its closure, and the table once v is stored there
MutableRow(t, k, id) ==
    CASE MaskGet(t.mask, k, id) = "removed"     -> NoVal
      [] MaskGet(t.mask, k, id) = "overwritten" -> VvGet(t.mask.rows[k], id)
      [] MaskGet(t.mask, k, id) = "unknown"     -> VvGet(InternalClone(t.data[k], id), id)

StoreRow(t, k, v, id, max) ==
    LET recorded == [t EXCEPT !.modified = RecordMutation(@, k, id, max)] IN
    IF MaskGet(t.mask, k, id) = "overwritten"
    THEN [recorded EXCEPT !.mask.rows[k] = VvGetMut(@, id, v)]
    ELSE [recorded EXCEPT !.data[k] = VvSet(InternalClone(@, id), v, id)]

(***************************************************************************)
(* A base table and its index.  on_insert and on_remove visit the index    *)
(* keys of a row; they are distinct, so their order does not matter.       *)
(***************************************************************************)
OnInsert(idx, k, v, id, max) ==
    FoldSet(LAMBDA f, acc : PutRow(acc, f, k, id, max), idx, FieldsOf[v])

OnRemove(idx, v, id, max) ==
    FoldSet(LAMBDA f, acc : DropRow(acc, f, id, max), idx, FieldsOf[v])

\* Mutant of TableInsert: the index keys of the old row stay.
TableInsertStale(tb, k, v, id, max) ==
    [base |-> PutRow(tb.base, k, v, id, max), idx |-> OnInsert(tb.idx, k, v, id, max)]

TableInsert(tb, k, v, id, max) ==
    LET old == GetFromTable(tb.base, k, id)
        idx == IF old = NoVal THEN tb.idx ELSE OnRemove(tb.idx, old, id, max)
    IN  [base |-> PutRow(tb.base, k, v, id, max), idx |-> OnInsert(idx, k, v, id, max)]

TableRemove(tb, k, id, max) ==
    LET old == DroppedRow(tb.base, k, id, max) IN
    [base |-> DropRow(tb.base, k, id, max),
     idx  |-> IF old = NoVal THEN tb.idx ELSE OnRemove(tb.idx, old, id, max)]

TableClear(tb, id, max) ==
    [base |-> ClearRows(tb.base, id, max), idx |-> ClearRows(tb.idx, id, max)]

\* f is the closure as a function on rows.
TableWithMut(tb, k, f, id, max) ==
    LET old == MutableRow(tb.base, k, id) IN
    IF old = NoVal THEN tb
    ELSE [base |-> StoreRow(tb.base, k, f[old], id, max),
          idx  |-> OnInsert(OnRemove(tb.idx, old, id, max), k, f[old], id, max)]

\* A row that the mask hides is still cloned by the iterator, then skipped.
\* The closures keep a row's index keys, so the order of rows does not matter.
TableForEachMut(tb, f, id, max) ==
    LET visit(k, acc) ==
            IF acc.base.mask.kind = "some" /\ k \in acc.base.mask.removed
            THEN [acc EXCEPT !.base.data[k] = InternalClone(@, id)]
            ELSE TableWithMut(acc, k, f, id, max)
    IN  FoldSet(visit, tb, Keys)

(***************************************************************************)
(* Access through the index                                                *)
(***************************************************************************)
IndexedGet(tb, f, id) ==
    LET k == GetFromTable(tb.idx, f, id) IN
    IF k = NoVal THEN NoVal ELSE GetFromTable(tb.base, k, id)

IndexedWithMut(tb, field, f, id, max) ==
    LET k == GetFromTable(tb.idx, field, id) IN
    IF k = NoVal THEN tb ELSE TableWithMut(tb, k, f, id, max)

IndexedRemove(tb, field, id, max) ==
    LET k == GetFromTable(tb.idx, field, id)
        rest == TableRemove(tb, k, id, max)
    IN  IF k = NoVal THEN tb
        ELSE [rest EXCEPT !.idx = DropRow(@, field, id, max)]

IndexedForEachMut(tb, f, id, max) ==
    LET entries == TableIter(tb.idx, id)
        visit(field, acc) == TableWithMut(acc, entries[field], f, id, max)
    IN  FoldSet(visit, tb, DOMAIN entries)

\* The rows an IndexIterator yields
IndexedIter(tb, id) ==
    LET entries == TableIter(tb.idx, id)
        seen == {f \in DOMAIN entries : GetFromTable(tb.base, entries[f], id) # NoVal}
    IN  [f \in seen |-> GetFromTable(tb.base, entries[f], id)]

-----------------------------------------------------------------------------
CONSTANTS Threads, Owners, Singletons,
          NoOwner,       \* a table or singleton without an owner
          NoThread,      \* nobody holds the lock for writing
          Tombstone,     \* SinValue::None
          Workloads,     \* records of what a program does with the store: the threads
                         \* it has (by), the kinds of mutations they make (ops), the
                         \* values they write (vals) and, as a bound, the last
                         \* transaction id that is handed out (txns)
          DropPanics,    \* may a row's destructor panic during a roll-back?
          StaleRemoves,  \* may a transaction remove a key it cannot see?
          MaskedUpdates  \* may for_each_mut follow a remove in a transaction?

ASSUME StoreAssumption ==
    /\ \A w \in Workloads :
          w.by \subseteq Threads /\ w.vals \subseteq Vals /\ w.txns \in Nat \ {0}
    /\ IsFiniteSet(Keys) /\ IsFiniteSet(Fields) /\ FieldsOf \in [Vals -> SUBSET Fields]
    /\ NoThread \notin Threads /\ Keys \cap Singletons = {}
    /\ {DropPanics, StaleRemoves, MaskedUpdates} \subseteq BOOLEAN
    /\ NoVal \notin Vals \union Keys \union {Tombstone}
    /\ Tombstone \notin Vals

VARIABLES st,        \* Storage
          writer,    \* the thread that holds the write guard
          readers,   \* the threads that hold a read guard
          poisoned,  \* the poison flag of the lock
          pc, goal,  \* where each thread is, and what it wants the lock for
          txnId,     \* Transaction::id of each thread
          load       \* one of Workloads

lockVars == <<writer, readers, poisoned>>
kvVars == <<st, writer, readers, poisoned, pc, goal, txnId, load>>

\* "read" stands for raw reads and begin_ro_transaction, "write" for raw writes.
Goals == {"read", "write", "begin", "tryBegin", "tryRo"}

(***************************************************************************)
(* Storage: the transaction in progress is pending (0: None), touched the  *)
(* singletons it modified.                                                 *)
(***************************************************************************)
NoSingleton == [owner |-> NoOwner, vv |-> NoVersions]

NewStorage ==
    [sin |-> [s \in Singletons |-> NoSingleton],
     tables |-> [base |-> NewTable(Keys, NoOwner), idx |-> NewTable(Fields, NoOwner)],
     committed |-> 1, pending |-> 0, touched |-> {}, next |-> 2]

\* Storage::txn_id
StorageTxn(s) == IF s.pending # 0 THEN s.pending ELSE s.committed

Touch(s, key) == IF s.pending # 0 /\ s.committed # StorageTxn(s)
                 THEN s.touched \union {key} ELSE s.touched

InsertSingleton(s, key, o, v) ==
    LET old == s.sin[key] IN
    [s EXCEPT !.touched = Touch(s, key),
              !.sin[key] = IF old = NoSingleton
                           THEN [owner |-> o, vv |-> VvNew(v, StorageTxn(s))]
                           ELSE [old EXCEPT !.vv = VvSet(old.vv, v, StorageTxn(s))]]

RemoveSingleton(s, key) ==
    LET old == s.sin[key] IN
    [s EXCEPT !.touched = Touch(s, key),
              !.sin[key] = IF old = NoSingleton THEN old
                           ELSE [old EXCEPT !.vv = VvSet(old.vv, Tombstone, StorageTxn(s))]]

\* get_singleton_value: a tombstone reads as None.
GetSingleton(s, key, id) ==
    LET v == VvGet(s.sin[key].vv, id) IN IF v = Tombstone THEN NoVal ELSE v

BeginTransaction(s) == [s EXCEPT !.pending = s.next, !.touched = {}, !.next = @ + 1]

\* GeneratedStorage::commit_txn checks every table before it changes one.
CommitPossible(s, id) ==
    /\ s.pending = id
    /\ CheckTxnConsistency(s.tables.base, id)
    /\ CheckTxnConsistency(s.tables.idx, id)

CommitTransaction(s, id) ==
    [s EXCEPT !.tables = [base |-> TableCommit(@.base, id), idx |-> TableCommit(@.idx, id)],
              !.committed = id, !.pending = 0, !.touched = {}]

\* The first loop of clear_transaction; an entry left empty is freed.
GcSingletons(s) ==
    [s EXCEPT !.sin = [k \in Singletons |->
        LET old == s.sin[k]
            vv == VvGc(old.vv, s.pending)
        IN  CASE k \notin s.touched \/ old = NoSingleton -> old
              [] k \in s.touched /\ vv = NoVersions -> NoSingleton
              [] OTHER -> [old EXCEPT !.vv = vv]]]

\* Mutant of GcTables: the index is not collected.
GcTablesBase(s) ==
    [s EXCEPT !.tables.base = TableGc(@, s.pending), !.pending = 0, !.touched = {}]

GcTables(s) ==
    [s EXCEPT !.tables = [base |-> TableGc(@.base, s.pending), idx |-> TableGc(@.idx, s.pending)],
              !.pending = 0, !.touched = {}]

ClearTransaction(s) == IF s.pending = 0 THEN s ELSE GcTables(GcSingletons(s))

RollbackTransaction(s, id) == IF s.pending # id THEN s ELSE ClearTransaction(s)

(***************************************************************************)
(* The operations (operations.rs), as the set of storages they may leave.  *)
(* A caller keeps index keys unique, as the crate asks; owners that do not *)
(* match panic (see Panic).                                                *)
(***************************************************************************)
OwnerOk(cur, o) == cur \in {NoOwner, o}

View(s) == [k \in Keys |-> GetFromTable(s.tables.base, k, StorageTxn(s))]

\* The reads (operations.rs), at the transaction in progress or the last
\* committed one
SingletonOps(s) == [k \in Singletons |-> GetSingleton(s, k, StorageTxn(s))]

TabularOps(s) ==
    LET id == StorageTxn(s)
    IN  [get |-> View(s), len |-> TableLen(s.tables.base, id),
         is_empty |-> TableIsEmpty(s.tables.base, id), iter |-> TableIter(s.tables.base, id)]

IndexedOps(s) ==
    LET id == StorageTxn(s)
    IN  [get |-> [f \in Fields |-> IndexedGet(s.tables, f, id)],
         len |-> TableLen(s.tables.base, id),
         is_empty |-> TableIsEmpty(s.tables.base, id), iter |-> IndexedIter(s.tables, id)]

\* What a read-only transaction reads, all through the guard it holds
RoTransaction(s) == SingletonOps(s)
RoTable(s) == TabularOps(s)
RoIndex(s) == IndexedOps(s)

\* No other row has an index key of v.
UniqueAt(s, k, v) ==
    \A j \in Keys \ {k} : View(s)[j] # NoVal => FieldsOf[View(s)[j]] \cap FieldsOf[v] = {}

OwnTable(s, o) == [s EXCEPT !.tables.base.owner = IF @ = NoOwner THEN o ELSE @]

Constantly(v) == [x \in Vals |-> v]

\* Closures of for_each_mut: idempotent, and they leave the index keys alone.
RowUpdates == {f \in [load.vals -> load.vals] :
                  \A v \in load.vals : f[f[v]] = f[v] /\ FieldsOf[f[v]] = FieldsOf[v]}

SingletonOpsMut(s, o) ==
    UNION {IF OwnerOk(s.sin[key].owner, o)
           THEN {InsertSingleton(s, key, o, v) : v \in load.vals} \union {RemoveSingleton(s, key)}
           ELSE {} : key \in Singletons}

\* init, clear and insert are the same through a table and through its index.
BaseOpsMut(s, o) ==
    LET id == StorageTxn(s)
        owned(tb) == OwnTable([s EXCEPT !.tables = tb], o)
    IN  {OwnTable(s, o), owned(TableClear(s.tables, id, s.committed))}
        \union {owned(TableInsert(s.tables, kv[1], kv[2], id, s.committed)) :
                   kv \in {x \in Keys \X load.vals : UniqueAt(s, x[1], x[2])}}

Removable(s, k) == StaleRemoves \/ s.pending = 0 \/ View(s)[k] # NoVal
Updatable(s) == MaskedUpdates \/ s.tables.base.mask.kind # "some"

TabularOpsMut(s, o) ==
    LET id == StorageTxn(s)
        with(tb) == [s EXCEPT !.tables = tb]
    IN  IF ~OwnerOk(s.tables.base.owner, o) THEN {}
        ELSE BaseOpsMut(s, o)
             \union {with(TableWithMut(s.tables, kv[1], Constantly(kv[2]), id, s.committed)) :
                        kv \in {x \in Keys \X load.vals : UniqueAt(s, x[1], x[2])}}
             \union {with(TableRemove(s.tables, k, id, s.committed)) :
                        k \in {x \in Keys : Removable(s, x)}}
             \union {with(TableForEachMut(s.tables, f, id, s.committed)) :
                        f \in {x \in RowUpdates : Updatable(s)}}

IndexedOpsMut(s, o) ==
    LET id == StorageTxn(s)
        with(tb) == [s EXCEPT !.tables = tb]
        row(f) == GetFromTable(s.tables.idx, f, id)
    IN  IF ~OwnerOk(s.tables.base.owner, o) THEN {}
        ELSE BaseOpsMut(s, o)
             \union {with(IndexedWithMut(s.tables, fv[1], Constantly(fv[2]), id, s.committed)) :
                        fv \in {x \in Fields \X load.vals : UniqueAt(s, row(x[1]), x[2])}}
             \union {with(IndexedRemove(s.tables, f, id, s.committed)) : f \in Fields}
             \union {with(IndexedForEachMut(s.tables, f, id, s.committed)) :
                        f \in {x \in RowUpdates : Updatable(s)}}

(***************************************************************************)
(* Threads and the lock                                                    *)
(***************************************************************************)
Init ==
    /\ st = NewStorage
    /\ writer = NoThread /\ readers = {} /\ poisoned = FALSE
    /\ pc = [t \in Threads |-> "idle"]
    /\ goal = [t \in Threads |-> "none"]
    /\ txnId = [t \in Threads |-> 0]
    /\ load \in Workloads

Free == writer = NoThread /\ readers = {}

\* A thread moves to l; its goal is forgotten once it has the lock or gives up.
Goto(t, l) ==
    /\ pc' = [pc EXCEPT ![t] = l]
    /\ goal' = [goal EXCEPT ![t] = IF l \in {"recover", "lock"} THEN @ ELSE "none"]

\* Threads that are about to begin a transaction (for the bound load.txns)
Beginners == {t \in Threads : goal[t] \in {"begin", "tryBegin"}}

\* A thread calls into the store; every entry point begins with
\* clear_lock_poison, whose first step is is_poisoned.
Call(t, g) ==
    /\ pc[t] = "idle"
    /\ g \in {"begin", "tryBegin"} => st.next + Cardinality(Beginners) <= load.txns
    /\ goal' = [goal EXCEPT ![t] = g]
    /\ pc' = [pc EXCEPT ![t] = IF poisoned THEN "unpoison" ELSE "lock"]
    /\ UNCHANGED <<st, writer, readers, poisoned, txnId>>

ClearPoison(t) ==
    /\ pc[t] = "unpoison"
    /\ poisoned' = FALSE
    /\ Goto(t, "recover")
    /\ UNCHANGED <<st, writer, readers, txnId>>

\* The write().unwrap() of clear_lock_poison: it panics if the lock was
\* poisoned again meanwhile, else it collects the abandoned transaction.
Recover(t) ==
    /\ pc[t] = "recover"
    /\ Free
    /\ IF poisoned THEN Goto(t, "idle") /\ UNCHANGED st
       ELSE Goto(t, "lock") /\ st' = ClearTransaction(st)
    /\ UNCHANGED <<writer, readers, poisoned, txnId>>

\* get_read_lock.  With a transaction still pending it asks for the write
\* lock while its read guard is alive, which is granted to nobody: "upgrade"
\* has no way out.
GetReadLock(t) ==
    /\ pc[t] = "lock" /\ goal[t] = "read"
    /\ writer = NoThread
    /\ IF poisoned THEN Goto(t, "idle") /\ UNCHANGED readers
       ELSE /\ readers' = readers \union {t}
            /\ Goto(t, IF st.pending = 0 THEN "reading" ELSE "upgrade")
    /\ UNCHANGED <<st, writer, poisoned, txnId>>

\* get_write_lock, and begin_transaction on top of it
GetWriteLock(t) ==
    /\ pc[t] = "lock" /\ goal[t] \in {"write", "begin"}
    /\ Free
    /\ IF poisoned THEN Goto(t, "idle") /\ UNCHANGED <<st, writer, txnId>>
       ELSE /\ writer' = t
            /\ IF goal[t] = "write"
               THEN st' = ClearTransaction(st) /\ Goto(t, "writing") /\ UNCHANGED txnId
               ELSE /\ st' = BeginTransaction(ClearTransaction(st))
                    /\ txnId' = [txnId EXCEPT ![t] = st'.pending]
                    /\ Goto(t, "txn")
    /\ UNCHANGED <<readers, poisoned>>

TryBeginTransaction(t) ==
    /\ pc[t] = "lock" /\ goal[t] = "tryBegin"
    /\ IF ~Free \/ poisoned THEN Goto(t, "idle") /\ UNCHANGED <<st, writer, txnId>>
       ELSE /\ writer' = t
            /\ st' = BeginTransaction(ClearTransaction(st))
            /\ txnId' = [txnId EXCEPT ![t] = st'.pending]
            /\ Goto(t, "txn")
    /\ UNCHANGED <<readers, poisoned>>

\* try_begin_ro_transaction: try_read, and if that fails one try_write.
TryRead(t) ==
    /\ pc[t] = "lock" /\ goal[t] = "tryRo"
    /\ IF writer = NoThread /\ ~poisoned
       THEN readers' = readers \union {t} /\ Goto(t, "reading")
       ELSE Goto(t, "tryWrite") /\ UNCHANGED readers
    /\ UNCHANGED <<st, writer, poisoned, txnId>>

TryWriteThenDowngrade(t) ==
    /\ pc[t] = "tryWrite"
    /\ IF Free /\ ~poisoned
       THEN st' = ClearTransaction(st) /\ readers' = {t} /\ Goto(t, "reading")
       ELSE Goto(t, "idle") /\ UNCHANGED <<st, readers>>
    /\ UNCHANGED <<writer, poisoned, txnId>>

\* The end of a raw read, or of a read-only transaction
EndRead(t) ==
    /\ pc[t] = "reading"
    /\ readers' = readers \ {t}
    /\ Goto(t, "idle")
    /\ UNCHANGED <<st, writer, poisoned, txnId>>

\* Raw operations of KvStore, KvTable and KvTableIndex: one mutation, then
\* the guard is dropped.
RawWrite(t, next) ==
    /\ pc[t] = "writing"
    /\ st' = next
    /\ writer' = NoThread
    /\ Goto(t, "idle")
    /\ UNCHANGED <<readers, poisoned, txnId>>

RawSingleton(t) == "singleton" \in load.ops /\ \E o \in Owners : \E s \in SingletonOpsMut(st, o) : RawWrite(t, s)
RawTable(t) == "table" \in load.ops /\ \E o \in Owners : \E s \in TabularOpsMut(st, o) : RawWrite(t, s)
RawIndexed(t) == "indexed" \in load.ops /\ \E o \in Owners : \E s \in IndexedOpsMut(st, o) : RawWrite(t, s)

\* Operations of a Transaction, KvTableTransactional, KvTableTransactionalIndex
TxnWrite(t, next) ==
    /\ pc[t] = "txn"
    /\ st' = next
    /\ UNCHANGED <<writer, readers, poisoned, pc, goal, txnId>>

TxnSingleton(t) == "singleton" \in load.ops /\ \E o \in Owners : \E s \in SingletonOpsMut(st, o) : TxnWrite(t, s)
TxnTable(t) == "table" \in load.ops /\ \E o \in Owners : \E s \in TabularOpsMut(st, o) : TxnWrite(t, s)
TxnIndexed(t) == "indexed" \in load.ops /\ \E o \in Owners : \E s \in IndexedOpsMut(st, o) : TxnWrite(t, s)

\* The guard goes: the thread is back to idle.
Release(t) ==
    /\ writer' = NoThread
    /\ txnId' = [txnId EXCEPT ![t] = 0]
    /\ Goto(t, "idle")
    /\ UNCHANGED readers

\* commit, then the destructor's roll-back, which finds nothing to do if the
\* commit succeeded
Commit(t) ==
    /\ pc[t] = "txn"
    /\ st' = IF CommitPossible(st, txnId[t])
             THEN RollbackTransaction(CommitTransaction(st, txnId[t]), txnId[t])
             ELSE RollbackTransaction(st, txnId[t])
    /\ Release(t)
    /\ UNCHANGED poisoned

\* What the destructor of a transaction may leave: rolled back; or, when the
\* destructor of a singleton's value or of a row panics inside the roll-back,
\* before or after the first loop of clear_transaction, still pending.
Dropped(t, panicking) ==
    {RollbackTransaction(st, txnId[t])}
    \union (IF DropPanics /\ panicking THEN {st, GcSingletons(st)} ELSE {})

\* The transaction goes out of scope without a commit: by an early return, or
\* by a panic, which also poisons the lock.
Drop(t, panicking) ==
    /\ pc[t] = "txn"
    /\ st' \in Dropped(t, panicking)
    /\ poisoned' = (poisoned \/ panicking)
    /\ Release(t)

\* A raw operation whose owner is not the table's panics before it changes
\* anything.
RawPanic(t) ==
    /\ pc[t] = "writing"
    /\ \E o \in Owners : ~OwnerOk(st.tables.base.owner, o)
    /\ poisoned' = TRUE
    /\ Release(t)
    /\ UNCHANGED st

Step(t) ==
    \/ ClearPoison(t) \/ Recover(t)
    \/ GetReadLock(t) \/ GetWriteLock(t)
    \/ TryBeginTransaction(t) \/ TryRead(t) \/ TryWriteThenDowngrade(t)
    \/ EndRead(t)
    \/ RawSingleton(t) \/ RawTable(t) \/ RawIndexed(t) \/ RawPanic(t)
    \/ TxnSingleton(t) \/ TxnTable(t) \/ TxnIndexed(t)
    \/ Commit(t) \/ Drop(t, FALSE) \/ Drop(t, TRUE)

Next == UNCHANGED load /\ \E t \in load.by : Step(t) \/ \E g \in Goals : Call(t, g)

Spec == Init /\ [][Next]_kvVars

(***************************************************************************)
(* Properties                                                              *)
(***************************************************************************)
\* storage.rs, on pending_txn: the tables and singletons hold uncommitted
\* state only while a transaction is pending.
UncommittedOnlyWhilePending ==
    st.pending = 0 =>
        /\ \A k \in Keys : \A s \in {"a", "b"} : st.tables.base.data[k][s].id <= st.committed
        /\ \A f \in Fields : \A s \in {"a", "b"} : st.tables.idx.data[f][s].id <= st.committed
        /\ \A k \in Singletons : \A s \in {"a", "b"} : st.sin[k].vv[s].id <= st.committed
        /\ st.tables.base.mask = NoMask(Keys) /\ st.tables.idx.mask = NoMask(Fields)
        /\ st.tables.base.modified = NoMutations /\ st.tables.idx.modified = NoMutations

\* The index is exactly the inverse of the visible rows, inside a transaction
\* and outside one.
IndexMatchesTable ==
    (\E t \in Threads : pc[t] \in {"txn", "writing", "reading"}) =>
        TableIter(st.tables.idx, StorageTxn(st)) =
            LET owner(f) == {k \in Keys : View(st)[k] # NoVal /\ f \in FieldsOf[View(st)[k]]}
                held == {f \in Fields : owner(f) # {}}
            IN  [f \in held |-> CHOOSE k \in Keys : k \in owner(f)]

\* Whatever a thread reads through, raw, in a transaction or in a read-only
\* one: get, iter, len and is_empty of a table describe the same rows, and so
\* do the same operations through the index, the inverse of the visible rows.
ReadsAgree ==
    /\ IndexMatchesTable
    /\ (\E t \in Threads : pc[t] \in {"txn", "reading"}) =>
        LET tab == TabularOps(st)
            ind == IndexedOps(st)
            rows == {k \in Keys : tab.get[k] # NoVal}
        IN  /\ tab.iter = [k \in rows |-> tab.get[k]]
            /\ tab.len = Cardinality(rows) /\ ind.len = tab.len
            /\ tab.is_empty <=> rows = {}
            /\ ind.is_empty <=> rows = {}
            /\ \A f \in Fields :
                 ind.get[f] = IF f \in DOMAIN ind.iter THEN ind.iter[f] ELSE NoVal
            /\ {ind.get[f] : f \in Fields} \ {NoVal} = {tab.get[k] : k \in rows}

\* The lock is a readers-writer lock and every guard belongs to a thread
\* that is where it holds one.
TypeOK ==
    /\ writer = NoThread \/ (writer \in Threads /\ readers = {})
    /\ readers = {t \in Threads : pc[t] \in {"reading", "upgrade"}}
    /\ \A t \in Threads : (writer = t) <=> (pc[t] \in {"writing", "txn"})
    /\ st.committed < st.next /\ st.pending < st.next
    /\ poisoned \in BOOLEAN

\* Threads are isolated by the lock although each storage call is made under
\* a guard taken earlier: the guards exclude each other, a read outside a
\* read-write transaction never sees uncommitted state, and the thread that
\* writes finds only its own masks and lists of mutations, as the storage
\* asserts, so that its commit always succeeds.
Isolated ==
    /\ TypeOK
    /\ UncommittedOnlyWhilePending
    /\ \A t \in Threads : pc[t] = "reading" => st.pending = 0
    /\ \A t \in Threads : pc[t] = "txn" => CommitPossible(st, txnId[t])

\* A read-only transaction reads one state from its begin to its end, through
\* singletons, table and index.
RoSnapshot ==
    [][\A t \in Threads : pc[t] = "reading" /\ pc'[t] = "reading" =>
           /\ RoTransaction(st') = RoTransaction(st)
           /\ RoTable(st') = RoTable(st)
           /\ RoIndex(st') = RoIndex(st)]_kvVars

(***************************************************************************)
(* The store implements SerialStore: what the committed id sees is the     *)
(* content, what the pending one sees is the copy.                         *)
(***************************************************************************)
TxnOpen == \E t \in Threads : pc[t] = "txn"

Content(id) == [c \in Keys \union Singletons |->
                   IF c \in Singletons THEN GetSingleton(st, c, id)
                   ELSE IF id = st.committed THEN VvGet(st.tables.base.data[c], id)
                   ELSE GetFromTable(st.tables.base, c, id)]

Serial == INSTANCE SerialStore
              WITH Cells <- Keys \union Singletons, Rows <- Keys,
                   Contents <- Vals, Nothing <- NoVal,
                   db <- Content(st.committed),
                   work <- IF TxnOpen THEN Content(st.pending) ELSE Content(st.committed),
                   open <- TxnOpen

\* Transactions are atomic and serializable: every step of the threads is a
\* raw change, a step of the one open transaction, its commit as a whole or
\* its roll-back, or changes nothing anybody can read.  A read-only one reads
\* one state from its begin to its end.
TransactionsAtomic == Serial!StoreSpec /\ RoSnapshot
=============================================================================
