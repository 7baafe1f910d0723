--------------------------- MODULE KvStoreProofs ----------------------------
(***************************************************************************)
(* The theorems about the key-value store, for every set of threads, keys, *)
(* rows and index keys, and every workload.  The argument goes up in three *)
(* levels:                                                                 *)
(*   - KvStorageProofs says what each operation does to what the acting    *)
(*     transaction sees and to what is committed;                          *)
(*   - here, begin, commit and roll-back move what is seen to and from     *)
(*     what is committed;                                                  *)
(*   - KvInv ties the storage to the lock, and every action is one of the  *)
(*     moves KvMove, which are steps of the serial store.                  *)
(***************************************************************************)
EXTENDS KvStorageProofs

-----------------------------------------------------------------------------
(* The begin and the end of a transaction.                                 *)

(* What Shows depends on. *)
LEMMA ShowsEqual ==
  ASSUME NEW s, NEW n, NEW bv, NEW i, NEW j,
         \A k \in Singletons : VvGet(n.sin[k].vv, j) = VvGet(s.sin[k].vv, i)
  PROVE  Shows(n, bv, j) = Shows(s, bv, i)
<1>1. \A k \in Singletons : GetSingleton(n, k, j) = GetSingleton(s, k, i)
  BY Zenon DEF GetSingleton
<1> QED
  BY Zenon, <1>1 DEF Shows

(* A transaction begins with what is committed. *)
LEMMA TransactionBegins ==
  ASSUME NEW V, ValuesOK(V), NEW s, StoreOK(s, V), s.pending = 0, NEW n, n = BeginTransaction(s)
  PROVE  StoreOK(n, V) /\ n.pending = s.next /\ s.next # 0 /\ Seen(n) = Kept(s) /\ Kept(n) = Kept(s)
<1> DEFINE c == s.committed
           id == s.next
           kept == Committed(s.tables.base, Keys, c)
<1>1. /\ s \in Stores(V) /\ TxnsOK(s) /\ PairOK(s.tables, V, c, StorageTxn(s))
      /\ IndexExact(kept, Committed(s.tables.idx, Fields, c))
      /\ SinglesOK(s.sin, s.touched, c, StorageTxn(s))
  BY Zenon DEF StoreOK
<1>2. StorageTxn(s) = c
  BY Zenon DEF StorageTxn
<1>3. c \in Nat \ {0} /\ id \in Nat /\ c < id
  BY ZenonT(40), <1>1, StoreFields DEF TxnsOK
<1>4. id # 0 /\ c <= id /\ ~ (c < 0)
  BY <1>3
<1>5. /\ n \in Stores(V) /\ n.tables = s.tables /\ n.sin = s.sin /\ n.touched = {}
      /\ n.committed = c /\ n.pending = id /\ n.next = id + 1
  <2>1. s.next + 1 \in Nat /\ s \in Stores(V) /\ s.next \in Nat
    BY <1>1, <1>3
  <2>2. n = [s EXCEPT !.pending = s.next, !.touched = {}, !.next = s.next + 1]
    BY Zenon DEF BeginTransaction
  <2> QED
    BY ZenonT(40), <2>1, <2>2 DEF Stores
<1> HIDE DEF c, id
<1>6. StorageTxn(n) = id /\ TxnsOK(n)
  <2>1. id < id + 1 /\ c < id + 1
    BY SMTT(60), <1>3
  <2> QED
    BY Zenon, <1>3, <1>4, <1>5, <2>1 DEF StorageTxn, TxnsOK
<1>7. Setting(V, c, id) /\ Setting(V, c, c)
  BY Zenon, <1>5, <1>6, StoreActs
<1>8. /\ TableOK(s.tables.base, Keys, V, c, id) /\ ViewOf(s.tables.base, Keys, id) = kept
      /\ TableOK(s.tables.idx, Fields, Keys, c, id)
      /\ ViewOf(s.tables.idx, Fields, id) = Committed(s.tables.idx, Fields, c)
      /\ s.tables \in [base : Tables(Keys, V), idx : Tables(Fields, Keys)]
  <2>1. /\ TableOK(s.tables.base, Keys, V, c, c) /\ TableOK(s.tables.idx, Fields, Keys, c, c)
        /\ s.tables \in [base : Tables(Keys, V), idx : Tables(Fields, Keys)]
    BY Zenon, <1>1, <1>2 DEF PairOK
  <2>2. Acting(V, c, id) /\ Acting(Keys, c, id)
    BY Zenon, <1>7 DEF Setting
  <2> QED
    BY <1>3, <2>1, <2>2, TableBegins
<1> HIDE DEF kept
<1>9. PairOK(s.tables, V, c, id)
  BY Zenon, <1>1, <1>8 DEF PairOK
<1>10. ASSUME NEW k \in Singletons
       PROVE  /\ Apart(s.sin[k].vv) /\ UpTo(s.sin[k].vv, c, c) /\ UpTo(s.sin[k].vv, c, id)
              /\ VvGet(s.sin[k].vv, id) = VvGet(s.sin[k].vv, c)
  <2>1. Apart(s.sin[k].vv) /\ UpTo(s.sin[k].vv, c, c) /\ s.sin[k].vv \in Versions(V \cup {Tombstone})
    BY ZenonT(40), <1>1, <1>2, StoreFields DEF SinglesOK
  <2>2. VvGet(s.sin[k].vv, id) = VvGet(s.sin[k].vv, c) /\ UpTo(s.sin[k].vv, c, id)
    BY ZenonT(40), <1>3, <1>4, <2>1, GetSettled
  <2> QED
    BY Zenon, <2>1, <2>2
<1>11. SinglesOK(n.sin, n.touched, c, id)
  BY Zenon, <1>5, <1>10 DEF SinglesOK
<1>12. StoreOK(n, V)
  BY ZenonT(40), <1>1, <1>5, <1>6, <1>9, <1>11 DEF StoreOK, kept
<1>13. Seen(n) = Shows(n, kept, id) /\ Kept(n) = Shows(n, kept, c) /\ Kept(s) = Shows(s, kept, c)
  BY ZenonT(40), <1>5, <1>6, <1>8 DEF Seen, Kept, kept, c
<1>14. Shows(n, kept, id) = Shows(s, kept, c)
  BY SMTT(60), <1>5, <1>10, ShowsEqual
<1>15. Shows(n, kept, c) = Shows(s, kept, c)
  BY <1>5, ShowsSame
<1> QED
  BY ZenonT(40), <1>4, <1>5, <1>12, <1>13, <1>14, <1>15 DEF id

(* The fields that the end of a transaction changes. *)
LEMMA EndedStore ==
  ASSUME NEW V, NEW s \in Stores(V), NEW c \in Nat \ {0}, NEW n,
         NEW tb \in [base : Tables(Keys, V), idx : Tables(Fields, Keys)],
         n = [s EXCEPT !.tables = tb, !.committed = c, !.pending = 0, !.touched = {}]
  PROVE  n \in Stores(V)
  BY Zenon DEF Stores

(* A commit puts what the transaction sees in place of what was committed. *)
LEMMA TransactionCommits ==
  ASSUME NEW V, ValuesOK(V), NEW s, StoreOK(s, V), s.pending # 0,
         NEW n, n = CommitTransaction(s, s.pending)
  PROVE  StoreOK(n, V) /\ n.pending = 0 /\ Kept(n) = Seen(s) /\ n.next = s.next
<1> DEFINE c == s.committed
           id == s.pending
           base == TableCommit(s.tables.base, id)
           idx == TableCommit(s.tables.idx, id)
           tb == [base |-> base, idx |-> idx]
<1>1. /\ s \in Stores(V) /\ TxnsOK(s) /\ PairOK(s.tables, V, c, StorageTxn(s))
      /\ SinglesOK(s.sin, s.touched, c, StorageTxn(s))
  BY Zenon DEF StoreOK
<1>2. StorageTxn(s) = id /\ c < id /\ id < s.next
  BY Zenon, <1>1 DEF StorageTxn, TxnsOK
<1>3. c \in Nat \ {0} /\ id \in Nat /\ s.next \in Nat
  BY ZenonT(40), <1>1, StoreFields
<1>4. Setting(V, c, id)
  BY Zenon, <1>1, <1>2, StoreActs
<1>5. /\ TableOK(base, Keys, V, id, id) /\ TableOK(idx, Fields, Keys, id, id)
      /\ Committed(base, Keys, id) = ViewOf(s.tables.base, Keys, id)
      /\ Committed(idx, Fields, id) = ViewOf(s.tables.idx, Fields, id)
      /\ IndexExact(ViewOf(s.tables.base, Keys, id), ViewOf(s.tables.idx, Fields, id))
  <2>1. /\ TableOK(s.tables.base, Keys, V, c, id) /\ TableOK(s.tables.idx, Fields, Keys, c, id)
        /\ IndexExact(ViewOf(s.tables.base, Keys, id), ViewOf(s.tables.idx, Fields, id))
    BY Zenon, <1>1, <1>2 DEF PairOK
  <2>2. Acting(V, c, id) /\ Acting(Keys, c, id)
    BY Zenon, <1>4 DEF Setting
  <2> QED
    BY Zenon, <2>1, <2>2, TableCommits
<1> HIDE DEF base, idx
<1>6. tb.base = base /\ tb.idx = idx
  OBVIOUS
<1>7. tb \in [base : Tables(Keys, V), idx : Tables(Fields, Keys)]
  <2>1. base \in Tables(Keys, V) /\ idx \in Tables(Fields, Keys)
    BY Zenon, <1>5 DEF TableOK
  <2> QED
    BY Zenon, <2>1
<1> HIDE DEF tb
<1>8. /\ n \in Stores(V) /\ n.tables = tb /\ n.sin = s.sin /\ n.touched = {}
      /\ n.committed = id /\ n.pending = 0 /\ n.next = s.next
  <2>1. n = [s EXCEPT !.tables = tb, !.committed = id, !.pending = 0, !.touched = {}]
    BY Zenon DEF CommitTransaction, tb, base, idx
  <2>2. s \in Stores(V) /\ id \in Nat \ {0}
    BY <1>1, <1>3
  <2> HIDE DEF id, c
  <2>3. /\ n.tables = tb /\ n.sin = s.sin /\ n.touched = {}
        /\ n.committed = id /\ n.pending = 0 /\ n.next = s.next
    BY ZenonT(40), <2>1, <2>2 DEF Stores
  <2>4. n \in Stores(V)
    BY ZenonT(40), <1>7, <2>1, <2>2, EndedStore
  <2> QED
    BY Zenon, <2>3, <2>4
<1> HIDE DEF c, id
<1>9. StorageTxn(n) = id /\ TxnsOK(n)
  <2>1. 0 < s.next
    BY <1>2, <1>3
  <2> QED
    BY ZenonT(40), <1>2, <1>8, <2>1 DEF StorageTxn, TxnsOK
<1>10. Setting(V, id, id) /\ Acting(V, id, id) /\ Acting(Keys, id, id)
  BY ZenonT(40), <1>8, <1>9, StoreActs DEF Setting
<1>11. /\ ViewOf(base, Keys, id) = Committed(base, Keys, id)
       /\ ViewOf(idx, Fields, id) = Committed(idx, Fields, id)
  BY ZenonT(40), <1>5, <1>10, RawView
<1>12. PairOK(tb, V, id, id) /\ IndexExact(Committed(tb.base, Keys, id), Committed(tb.idx, Fields, id))
  BY ZenonT(40), <1>5, <1>6, <1>7, <1>11 DEF PairOK
<1>13. SinglesOK(n.sin, n.touched, id, id)
  <2> SUFFICES ASSUME NEW k \in Singletons
               PROVE  Apart(s.sin[k].vv) /\ UpTo(s.sin[k].vv, id, id)
    BY Zenon, <1>8 DEF SinglesOK
  <2>1. Apart(s.sin[k].vv) /\ UpTo(s.sin[k].vv, c, id)
    BY Zenon, <1>1, <1>2 DEF SinglesOK
  <2> QED
    BY SMTT(60), <1>2, <1>3, <2>1 DEF UpTo
<1>14. StoreOK(n, V)
  BY ZenonT(40), <1>8, <1>9, <1>12, <1>13 DEF StoreOK
<1> DEFINE bv == ViewOf(s.tables.base, Keys, id)
<1>15. Kept(n) = Shows(n, bv, id) /\ Seen(s) = Shows(s, bv, id)
  BY ZenonT(40), <1>2, <1>5, <1>6, <1>8 DEF Kept, Seen
<1>16. Shows(n, bv, id) = Shows(s, bv, id)
  BY <1>8, ShowsSame
<1> QED
  BY ZenonT(40), <1>8, <1>14, <1>15, <1>16

(* What the collection leaves of a singleton. *)
Collected(old, id, k, touched) ==
  CASE k \notin touched \/ old = NoSingleton -> old
    [] k \in touched /\ VvGc(old.vv, id) = NoVersions -> NoSingleton
    [] OTHER -> [old EXCEPT !.vv = VvGc(old.vv, id)]

(* A collected singleton reads as the last committed transaction did. *)
LEMMA SingletonCollected ==
  ASSUME NEW V, NEW c, NEW id, Acting(V, c, id), c < id, NEW k, NEW touched,
         NEW old \in [owner : Owners \cup {NoOwner}, vv : Versions(V)],
         Apart(old.vv), UpTo(old.vv, c, id), k \notin touched => UpTo(old.vv, c, c)
  PROVE  LET new == Collected(old, id, k, touched) IN
         /\ new \in [owner : Owners \cup {NoOwner}, vv : Versions(V)]
         /\ Apart(new.vv) /\ UpTo(new.vv, c, c) /\ VvGet(new.vv, c) = VvGet(old.vv, c)
<1> DEFINE Entry == [owner : Owners \cup {NoOwner}, vv : Versions(V)]
           gone == VvGc(old.vv, id)
           Good(e) == /\ e \in Entry /\ Apart(e.vv) /\ UpTo(e.vv, c, c)
                      /\ VvGet(e.vv, c) = VvGet(old.vv, c)
<1>1. /\ gone \in Versions(V) /\ Apart(gone) /\ UpTo(gone, c, c)
      /\ VvGet(gone, c) = VvGet(old.vv, c)
  <2>1. old.vv \in Versions(V) /\ c \in Nat /\ id \in Nat /\ id # 0
    BY Zenon DEF Acting
  <2> QED
    BY <2>1, GcVersion
<1>2. CASE k \notin touched
  <2>1. Collected(old, id, k, touched) = old
    BY Zenon, <1>2 DEF Collected
  <2> QED
    BY Zenon, <1>2, <2>1
<1>3. CASE old = NoSingleton
  <2>1. Collected(old, id, k, touched) = old
    BY ZenonT(40), <1>3 DEF Collected
  <2>2. UpTo(old.vv, c, c)
    <3>1. c \in Nat
      BY Zenon DEF Acting
    <3> QED
      BY <1>3, <3>1 DEF UpTo, NoSingleton, NoVersions, NoSlot
  <2> QED
    BY Zenon, <2>1, <2>2
<1>4. CASE k \in touched /\ old # NoSingleton /\ gone = NoVersions
  <2>1. Collected(old, id, k, touched) = NoSingleton
    BY Zenon, <1>4 DEF Collected
  <2>2. NoSingleton.vv = gone /\ NoSingleton.owner = NoOwner /\ NoSingleton \in Entry
    <3> HIDE DEF gone
    <3> QED
      BY <1>1, <1>4 DEF NoSingleton
  <2> QED
    BY ZenonT(40), <1>1, <2>1, <2>2
<1>5. CASE k \in touched /\ old # NoSingleton /\ gone # NoVersions
  <2>1. Collected(old, id, k, touched) = [old EXCEPT !.vv = gone]
    BY Zenon, <1>5 DEF Collected
  <2>2. ASSUME NEW e, e = [old EXCEPT !.vv = gone]
        PROVE  e \in Entry /\ e.vv = gone
    <3> HIDE DEF gone
    <3> QED
      BY <1>1, <2>2
  <2> QED
    BY Zenon, <1>1, <2>1, <2>2
<1> QED
  BY ZenonT(40), <1>2, <1>3, <1>4, <1>5

(* A roll-back forgets the transaction. *)
LEMMA TransactionCollected ==
  ASSUME NEW V, ValuesOK(V), NEW s, StoreOK(s, V), NEW n, n = ClearTransaction(s)
  PROVE  StoreOK(n, V) /\ n.pending = 0 /\ Kept(n) = Kept(s) /\ n.next = s.next
<1>1. CASE s.pending = 0
  BY Zenon, <1>1 DEF ClearTransaction
<1>2. CASE s.pending # 0
  <2> DEFINE c == s.committed
             id == s.pending
             base == TableGc(s.tables.base, id)
             idx == TableGc(s.tables.idx, id)
             tb == [base |-> base, idx |-> idx]
             sin == [k \in Singletons |-> Collected(s.sin[k], id, k, s.touched)]
             m == [s EXCEPT !.sin = sin]
             W == V \cup {Tombstone}
  <2>1. /\ s \in Stores(V) /\ TxnsOK(s) /\ PairOK(s.tables, V, c, StorageTxn(s))
        /\ SinglesOK(s.sin, s.touched, c, StorageTxn(s))
        /\ IndexExact(Committed(s.tables.base, Keys, c), Committed(s.tables.idx, Fields, c))
    BY Zenon DEF StoreOK
  <2>2. StorageTxn(s) = id /\ c < id /\ id < s.next /\ c < s.next
    BY Zenon, <1>2, <2>1 DEF StorageTxn, TxnsOK
  <2>3. c \in Nat \ {0} /\ id \in Nat /\ s.next \in Nat
    BY ZenonT(40), <2>1, StoreFields
  <2>4. Setting(V, c, id) /\ Acting(W, c, id) /\ Setting(V, c, c)
    BY ZenonT(40), <2>1, <2>2, StoreActs
  <2>5. /\ TableOK(base, Keys, V, c, c) /\ TableOK(idx, Fields, Keys, c, c)
        /\ Committed(base, Keys, c) = Committed(s.tables.base, Keys, c)
        /\ Committed(idx, Fields, c) = Committed(s.tables.idx, Fields, c)
    <3>1. TableOK(s.tables.base, Keys, V, c, id) /\ TableOK(s.tables.idx, Fields, Keys, c, id)
      BY Zenon, <2>1, <2>2 DEF PairOK
    <3>2. Acting(V, c, id) /\ Acting(Keys, c, id)
      BY Zenon, <2>4 DEF Setting
    <3> QED
      BY SMTT(60), <2>2, <3>1, <3>2, TableCollects
  <2>6. m.tables = s.tables /\ m.pending = id /\ n = GcTables(m) /\ m.committed = c
    <3>1. m = GcSingletons(s)
      BY Zenon DEF GcSingletons, Collected
    <3>2. n = GcTables(m)
      BY Zenon, <1>2, <3>1 DEF ClearTransaction
    <3>3. ASSUME NEW x, x = [s EXCEPT !.sin = sin]
          PROVE  x.tables = s.tables /\ x.pending = s.pending /\ x.committed = s.committed
      <4> HIDE DEF sin
      <4> QED
        BY <2>1, <3>3 DEF Stores
    <3> QED
      BY Zenon, <3>2, <3>3
  <2>7. ASSUME NEW k \in Singletons
        PROVE  /\ sin[k] \in [owner : Owners \cup {NoOwner}, vv : Versions(W)]
               /\ Apart(sin[k].vv) /\ UpTo(sin[k].vv, c, c) /\ VvGet(sin[k].vv, c) = VvGet(s.sin[k].vv, c)
    <3>1. s.sin[k] \in [owner : Owners \cup {NoOwner}, vv : Versions(W)]
      <4>1. s.sin \in Singles(V)
        BY Zenon, <2>1, StoreFields
      <4> QED
        BY Zenon, <4>1 DEF Singles
    <3>2. /\ Apart(s.sin[k].vv) /\ UpTo(s.sin[k].vv, c, id)
          /\ k \notin s.touched => UpTo(s.sin[k].vv, c, c)
      BY ZenonT(40), <2>1, <2>2 DEF SinglesOK
    <3> DEFINE new == Collected(s.sin[k], id, k, s.touched)
    <3>3. /\ new \in [owner : Owners \cup {NoOwner}, vv : Versions(W)]
          /\ Apart(new.vv) /\ UpTo(new.vv, c, c) /\ VvGet(new.vv, c) = VvGet(s.sin[k].vv, c)
      <4> HIDE DEF W, c, id
      <4> QED
        BY SMTT(60), <2>2, <2>4, <3>1, <3>2, SingletonCollected
    <3>4. sin[k] = new
      BY Zenon
    <3> QED
      BY Zenon, <3>3, <3>4
  <2>8. sin \in Singles(V)
    <3> HIDE DEF sin
    <3>1. sin = [k \in Singletons |-> Collected(s.sin[k], id, k, s.touched)]
      BY Zenon DEF sin
    <3> QED
      BY Zenon, <2>7, <3>1 DEF Singles
  <2> HIDE DEF base, idx, sin
  <2>9. tb.base = base /\ tb.idx = idx
    OBVIOUS
  <2>10. tb \in [base : Tables(Keys, V), idx : Tables(Fields, Keys)]
    <3>1. base \in Tables(Keys, V) /\ idx \in Tables(Fields, Keys)
      BY Zenon, <2>5 DEF TableOK
    <3> QED
      BY <3>1
  <2>11. n = [m EXCEPT !.tables = tb, !.pending = 0, !.touched = {}]
    BY Zenon, <2>6 DEF GcTables, base, idx
  <2> HIDE DEF tb, m, c, id
  <2>12. m \in Stores(V) /\ m.sin = sin /\ m.next = s.next
    <3>1. m = [s EXCEPT !.sin = sin] /\ s \in Stores(V)
      BY Zenon, <2>1 DEF m
    <3> QED
      BY ZenonT(40), <2>8, <3>1 DEF Stores
  <2>13. n = [m EXCEPT !.tables = tb, !.committed = c, !.pending = 0, !.touched = {}]
    BY ZenonT(40), <2>6, <2>11, <2>12 DEF Stores
  <2>14. n \in Stores(V)
    BY Zenon, <2>3, <2>10, <2>12, <2>13, EndedStore
  <2>15. /\ n.tables = tb /\ n.sin = sin /\ n.touched = {} /\ n.committed = c /\ n.pending = 0
         /\ n.next = s.next
    BY <2>12, <2>13 DEF Stores
  <2>16. StorageTxn(n) = c /\ TxnsOK(n)
    <3>1. 0 < s.next
      BY <2>2, <2>3
    <3> QED
      BY ZenonT(40), <2>2, <2>15, <3>1 DEF StorageTxn, TxnsOK
  <2>17. Acting(V, c, c) /\ Acting(Keys, c, c)
    BY Zenon, <2>4 DEF Setting
  <2>18. /\ ViewOf(base, Keys, c) = Committed(base, Keys, c)
         /\ ViewOf(idx, Fields, c) = Committed(idx, Fields, c)
    BY ZenonT(40), <2>5, <2>17, RawView
  <2>19. PairOK(tb, V, c, c) /\ IndexExact(Committed(tb.base, Keys, c), Committed(tb.idx, Fields, c))
    BY ZenonT(40), <2>1, <2>5, <2>9, <2>10, <2>18 DEF PairOK
  <2>20. SinglesOK(n.sin, n.touched, c, c)
    BY ZenonT(40), <2>7, <2>15 DEF SinglesOK
  <2>21. StoreOK(n, V)
    BY ZenonT(40), <2>14, <2>15, <2>16, <2>19, <2>20 DEF StoreOK
  <2> DEFINE bv == Committed(s.tables.base, Keys, c)
  <2>22. Kept(n) = Shows(n, bv, c) /\ Kept(s) = Shows(s, bv, c)
    BY ZenonT(40), <2>5, <2>9, <2>15 DEF Kept, c
  <2>23. Shows(n, bv, c) = Shows(s, bv, c)
    <3> HIDE DEF bv
    <3> QED
      BY SMTT(60), <2>7, <2>15, ShowsEqual
  <2> QED
    BY ZenonT(40), <2>15, <2>21, <2>22, <2>23
<1> QED
  BY Zenon, <1>1, <1>2

(* A commit finds only its own masks and lists of mutations. *)
LEMMA CommitReady ==
  ASSUME NEW V, NEW s, StoreOK(s, V), s.pending # 0
  PROVE  CommitPossible(s, s.pending)
<1>1. PairOK(s.tables, V, s.committed, s.pending)
  BY Zenon DEF StoreOK, StorageTxn
<1>2. ASSUME NEW t, NEW K, NEW W, NEW c, NEW id, TableOK(t, K, W, c, id)
      PROVE  CheckTxnConsistency(t, id)
  <2>1. t.modified.id \in {0, id}
    <3>1. t.modified # NoMutations => t.modified.id = id
      BY Zenon, <1>2 DEF TableOK
    <3>2. NoMutations.id = 0
      BY Zenon DEF NoMutations
    <3> QED
      BY ZenonT(40), <3>1, <3>2
  <2>2. MaskIdOk(t.mask, id)
    BY Zenon, <1>2 DEF TableOK, MaskOK, MaskIdOk
  <2> QED
    BY Zenon, <2>1, <2>2 DEF CheckTxnConsistency
<1> QED
  BY Zenon, <1>1, <1>2 DEF PairOK, CommitPossible

(* A table without rows *)
LEMMA NewTableOK ==
  ASSUME NEW K, NEW V, NEW c, Acting(V, c, c)
  PROVE  /\ TableOK(NewTable(K, NoOwner), K, V, c, c)
         /\ Committed(NewTable(K, NoOwner), K, c) = [k \in K |-> NoVal]
<1> DEFINE t == NewTable(K, NoOwner)
<1>1. /\ t.owner = NoOwner /\ t.data = NoRows(K) /\ t.mask = NoMask(K) /\ t.modified = NoMutations
      /\ t = [owner |-> NoOwner, data |-> NoRows(K), mask |-> NoMask(K), modified |-> NoMutations]
  BY Zenon DEF NewTable
<1> HIDE DEF t
<1>2. c \in Nat
  BY Zenon DEF Acting
<1>3. /\ NoVersions \in Versions(V) /\ Apart(NoVersions) /\ UpTo(NoVersions, c, c)
      /\ VvGet(NoVersions, c) = NoVal
  BY <1>2, NoVersion
<1>4. /\ NoRows(K) \in [K -> Versions(V)] /\ \A k \in K : NoRows(K)[k] = NoVersions
  BY Zenon, <1>3 DEF NoRows
<1>5. /\ NoMask(K) \in Masks(K, V) /\ NoMask(K).kind = "none" /\ NoMask(K).rows = NoRows(K)
      /\ NoMask(K).removed = {} /\ NoMutations \in Mutations(K)
  <2> HIDE DEF NoRows
  <2> QED
    BY <1>4 DEF NoMask, Masks, Mutations, NoMutations
<1>6. t \in Tables(K, V)
  BY ZenonT(40), <1>1, <1>4, <1>5 DEF Tables
<1>7. DataOK(t.data, t.modified.keys, K, c, c)
  BY ZenonT(40), <1>1, <1>3, <1>4 DEF DataOK
<1>8. MaskOK(t.mask, t.data, K, V, c, c)
  <2>1. "none" # "some"
    OBVIOUS
  <2> QED
    BY ZenonT(40), <1>1, <1>4, <1>5, <2>1 DEF MaskOK
<1>9. TableOK(t, K, V, c, c)
  BY ZenonT(40), <1>1, <1>6, <1>7, <1>8 DEF TableOK
<1>10. Committed(t, K, c) = [k \in K |-> NoVal]
  BY ZenonT(40), <1>1, <1>3, <1>4 DEF Committed
<1> QED
  BY Zenon, <1>9, <1>10 DEF t

(* The store is empty at first. *)
LEMMA FirstStore ==
  ASSUME NEW V, ValuesOK(V)
  PROVE  /\ StoreOK(NewStorage, V) /\ NewStorage.pending = 0
         /\ Kept(NewStorage) = [c \in Keys \cup Singletons |-> NoVal]
<1> DEFINE base == NewTable(Keys, NoOwner)
           idx == NewTable(Fields, NoOwner)
           sin == [k \in Singletons |-> NoSingleton]
           tb == [base |-> base, idx |-> idx]
           n == NewStorage
<1>1. /\ n.sin = sin /\ n.tables = tb /\ n.committed = 1 /\ n.pending = 0 /\ n.touched = {} /\ n.next = 2
      /\ n = [sin |-> sin, tables |-> tb, committed |-> 1, pending |-> 0, touched |-> {}, next |-> 2]
      /\ tb.base = base /\ tb.idx = idx
  BY Zenon DEF NewStorage
<1>2. Acting(V, 1, 1) /\ Acting(Keys, 1, 1)
  BY DEF Acting, ValuesOK
<1>3. /\ TableOK(base, Keys, V, 1, 1) /\ TableOK(idx, Fields, Keys, 1, 1)
      /\ Committed(base, Keys, 1) = [k \in Keys |-> NoVal]
      /\ Committed(idx, Fields, 1) = [k \in Fields |-> NoVal]
  BY Zenon, <1>2, NewTableOK
<1>4. /\ ViewOf(base, Keys, 1) = [k \in Keys |-> NoVal]
      /\ ViewOf(idx, Fields, 1) = [k \in Fields |-> NoVal]
  <2>1. /\ ViewOf(base, Keys, 1) = Committed(base, Keys, 1)
        /\ ViewOf(idx, Fields, 1) = Committed(idx, Fields, 1)
    BY <1>2, <1>3, RawView
  <2> QED
    BY Zenon, <1>3, <2>1
<1>5. /\ NoVersions \in Versions(V \cup {Tombstone}) /\ Apart(NoVersions) /\ UpTo(NoVersions, 1, 1)
      /\ VvGet(NoVersions, 1) = NoVal /\ NoSingleton.vv = NoVersions
  <2>1. 1 \in Nat
    OBVIOUS
  <2>2. NoSingleton.vv = NoVersions
    BY Zenon DEF NoSingleton
  <2> QED
    BY ZenonT(40), <2>1, <2>2, NoVersion
<1>6. sin \in Singles(V)
  <2>1. NoSingleton \in [owner : Owners \cup {NoOwner}, vv : Versions(V \cup {Tombstone})]
    BY <1>5 DEF NoSingleton
  <2> QED
    BY Zenon, <2>1 DEF Singles
<1> HIDE DEF base, idx
<1>7. tb \in [base : Tables(Keys, V), idx : Tables(Fields, Keys)]
  <2>1. base \in Tables(Keys, V) /\ idx \in Tables(Fields, Keys)
    BY Zenon, <1>3 DEF TableOK
  <2> QED
    BY <2>1
<1>8. \A k \in Singletons : sin[k] = NoSingleton
  BY Zenon
<1> HIDE DEF tb, sin, n
<1>9. n \in Stores(V)
  BY SMTT(60), <1>1, <1>6, <1>7 DEF Stores
<1>10. TxnsOK(n) /\ StorageTxn(n) = 1
  BY <1>1 DEF TxnsOK, StorageTxn
<1>11. IndexExact([k \in Keys |-> NoVal], [k \in Fields |-> NoVal])
  BY Zenon DEF IndexExact
<1>12. PairOK(tb, V, 1, 1)
  BY ZenonT(40), <1>1, <1>3, <1>4, <1>7, <1>11 DEF PairOK
<1>13. SinglesOK(n.sin, n.touched, 1, 1)
  BY ZenonT(40), <1>1, <1>5, <1>8 DEF SinglesOK
<1>14. StoreOK(n, V)
  BY ZenonT(40), <1>1, <1>3, <1>9, <1>10, <1>11, <1>12, <1>13 DEF StoreOK
<1>15. \A k \in Singletons : GetSingleton(n, k, 1) = NoVal
  <2>1. NoVal # Tombstone
    BY Zenon DEF ValuesOK
  <2> QED
    BY ZenonT(40), <1>1, <1>5, <1>8, <2>1 DEF GetSingleton
<1>16. Kept(n) = [c \in Keys \cup Singletons |-> NoVal]
  <2>1. Kept(n) = Shows(n, [k \in Keys |-> NoVal], 1)
    BY Zenon, <1>1, <1>3 DEF Kept
  <2>2. Shows(n, [k \in Keys |-> NoVal], 1) = [c \in Keys \cup Singletons |-> NoVal]
    BY <1>15 DEF Shows
  <2> QED
    BY Zenon, <2>1, <2>2
<1> QED
  BY ZenonT(40), <1>1, <1>14, <1>16 DEF n

-----------------------------------------------------------------------------
(* The lock.                                                               *)

Quiet == {"idle", "unpoison", "recover", "lock", "tryWrite"}
Labels == Quiet \cup {"reading", "upgrade", "writing", "txn"}

(* The guards, and the threads that hold them *)
LockOK ==
  /\ writer = NoThread \/ (writer \in Threads /\ readers = {})
  /\ readers = {t \in Threads : pc[t] \in {"reading", "upgrade"}}
  /\ \A t \in Threads : (writer = t) <=> (pc[t] \in {"writing", "txn"})
  /\ poisoned \in BOOLEAN
  /\ pc \in [Threads -> Labels]

(* Where the threads are once t is at l *)
LEMMA Moved ==
  ASSUME NEW t \in Threads, NEW l \in Labels, pc \in [Threads -> Labels],
         pc' = [pc EXCEPT ![t] = l]
  PROVE  /\ pc' \in [Threads -> Labels] /\ pc'[t] = l
         /\ \A u \in Threads \ {t} : pc'[u] = pc[u]
  OBVIOUS

(* No step of t touches its guard. *)
LEMMA LockStays ==
  ASSUME LockOK, NEW t \in Threads, NEW l \in Quiet, pc[t] \in Quiet,
         pc' = [pc EXCEPT ![t] = l], writer' = writer, readers' = readers, poisoned' \in BOOLEAN
  PROVE  LockOK' /\ (TxnOpen' <=> TxnOpen) /\ \A u \in Threads : pc'[u] = "txn" <=> pc[u] = "txn"
<1>1. pc \in [Threads -> Labels] /\ l \in Labels
  BY Zenon DEF LockOK, Labels
<1>2. /\ pc' \in [Threads -> Labels] /\ pc'[t] = l
      /\ \A u \in Threads \ {t} : pc'[u] = pc[u]
  BY <1>1, Moved
<1>3. \A x \in Quiet : x \notin {"reading", "upgrade"} /\ x \notin {"writing", "txn"} /\ x # "txn"
  BY Zenon DEF Quiet
<1>4. \A u \in Threads : /\ pc'[u] \in {"reading", "upgrade"} <=> pc[u] \in {"reading", "upgrade"}
                         /\ pc'[u] \in {"writing", "txn"} <=> pc[u] \in {"writing", "txn"}
                         /\ pc'[u] = "txn" <=> pc[u] = "txn"
  BY Zenon, <1>2, <1>3
<1>5. LockOK'
  <2>1. readers' = {u \in Threads : pc'[u] \in {"reading", "upgrade"}}
    BY Zenon, <1>4 DEF LockOK
  <2> QED
    BY ZenonT(40), <1>2, <1>4, <2>1 DEF LockOK
<1> QED
  BY Zenon, <1>4, <1>5 DEF TxnOpen

(* t gets a read guard. *)
LEMMA LockRead ==
  ASSUME LockOK, NEW t \in Threads, NEW l \in {"reading", "upgrade"}, pc[t] \in Quiet,
         pc' = [pc EXCEPT ![t] = l], writer = NoThread, writer' = writer,
         readers' = readers \cup {t}, poisoned' \in BOOLEAN
  PROVE  LockOK' /\ ~ TxnOpen /\ ~ TxnOpen'
<1>1. pc \in [Threads -> Labels] /\ l \in Labels
  BY Zenon DEF LockOK, Labels
<1>2. /\ pc' \in [Threads -> Labels] /\ pc'[t] = l
      /\ \A u \in Threads \ {t} : pc'[u] = pc[u]
  BY ZenonT(40), <1>1, Moved
<1>3. l \notin {"writing", "txn"} /\ l # "txn" /\ NoThread \notin Threads
  BY Zenon, StoreAssumption
<1>4. \A u \in Threads : pc[u] \notin {"writing", "txn"}
  BY Zenon, <1>3 DEF LockOK
<1>5. \A u \in Threads : pc'[u] \notin {"writing", "txn"}
  BY ZenonT(40), <1>2, <1>3, <1>4
<1>6. readers' = {u \in Threads : pc'[u] \in {"reading", "upgrade"}}
  <2>1. readers = {u \in Threads : pc[u] \in {"reading", "upgrade"}}
    BY Zenon DEF LockOK
  <2> QED
    BY ZenonT(40), <1>2, <2>1
<1>7. LockOK'
  BY ZenonT(40), <1>2, <1>3, <1>5, <1>6 DEF LockOK
<1> QED
  BY ZenonT(40), <1>4, <1>5, <1>7 DEF TxnOpen

(* t drops its read guard. *)
LEMMA LockReadEnds ==
  ASSUME LockOK, NEW t \in Threads, pc[t] = "reading", pc' = [pc EXCEPT ![t] = "idle"],
         writer' = writer, readers' = readers \ {t}, poisoned' \in BOOLEAN
  PROVE  LockOK' /\ writer = NoThread /\ ~ TxnOpen /\ ~ TxnOpen'
<1>1. pc \in [Threads -> Labels] /\ "idle" \in Labels
  BY Zenon DEF LockOK, Labels, Quiet
<1>2. /\ pc' \in [Threads -> Labels] /\ pc'[t] = "idle"
      /\ \A u \in Threads \ {t} : pc'[u] = pc[u]
  BY ZenonT(40), <1>1, Moved
<1>3. t \in readers /\ NoThread \notin Threads
  BY StoreAssumption DEF LockOK
<1>4. writer = NoThread
  BY Zenon, <1>3 DEF LockOK
<1>5. \A u \in Threads : pc[u] \notin {"writing", "txn"}
  BY Zenon, <1>3, <1>4 DEF LockOK
<1>6. \A u \in Threads : pc'[u] \notin {"writing", "txn"}
  <2>1. "idle" \notin {"writing", "txn"}
    OBVIOUS
  <2> QED
    BY ZenonT(40), <1>2, <1>5, <2>1
<1>7. readers' = {u \in Threads : pc'[u] \in {"reading", "upgrade"}}
  <2>1. readers = {u \in Threads : pc[u] \in {"reading", "upgrade"}}
    BY Zenon DEF LockOK
  <2> QED
    BY <1>2, <2>1
<1>8. LockOK'
  BY ZenonT(40), <1>2, <1>3, <1>4, <1>6, <1>7 DEF LockOK
<1> QED
  BY ZenonT(40), <1>4, <1>5, <1>6, <1>8 DEF TxnOpen

(* t gets the write guard. *)
LEMMA LockWrite ==
  ASSUME LockOK, NEW t \in Threads, NEW l \in {"writing", "txn"}, Free, pc[t] \in Quiet,
         pc' = [pc EXCEPT ![t] = l], writer' = t, readers' = readers, poisoned' \in BOOLEAN
  PROVE  /\ LockOK' /\ ~ TxnOpen /\ (TxnOpen' <=> l = "txn")
         /\ \A u \in Threads : pc'[u] = "txn" => u = t /\ l = "txn"
<1>1. pc \in [Threads -> Labels] /\ l \in Labels
  BY Zenon DEF LockOK, Labels
<1>2. /\ pc' \in [Threads -> Labels] /\ pc'[t] = l
      /\ \A u \in Threads \ {t} : pc'[u] = pc[u]
  BY ZenonT(40), <1>1, Moved
<1>3. NoThread \notin Threads /\ writer = NoThread /\ readers = {}
  BY Zenon, StoreAssumption DEF Free
<1>4. \A u \in Threads : pc[u] \notin {"writing", "txn"} /\ pc[u] \notin {"reading", "upgrade"}
  BY Zenon, <1>3 DEF LockOK
<1>5. l \notin {"reading", "upgrade"}
  OBVIOUS
<1>6. \A u \in Threads : /\ (t = u) <=> (pc'[u] \in {"writing", "txn"})
                         /\ pc'[u] \notin {"reading", "upgrade"}
                         /\ pc'[u] = "txn" => u = t /\ l = "txn"
  BY ZenonT(40), <1>2, <1>4, <1>5
<1>7. readers' = {u \in Threads : pc'[u] \in {"reading", "upgrade"}}
  BY ZenonT(40), <1>3, <1>6
<1>8. LockOK'
  BY ZenonT(40), <1>2, <1>3, <1>6, <1>7 DEF LockOK
<1>9. ~ TxnOpen /\ (TxnOpen' <=> l = "txn")
  BY ZenonT(40), <1>2, <1>4, <1>6 DEF TxnOpen
<1> QED
  BY ZenonT(40), <1>6, <1>8, <1>9

(* t drops the write guard. *)
LEMMA LockWriteEnds ==
  ASSUME LockOK, NEW t \in Threads, pc[t] \in {"writing", "txn"}, pc' = [pc EXCEPT ![t] = "idle"],
         writer' = NoThread, readers' = readers, poisoned' \in BOOLEAN
  PROVE  LockOK' /\ (TxnOpen <=> pc[t] = "txn") /\ ~ TxnOpen'
<1>1. pc \in [Threads -> Labels] /\ "idle" \in Labels
  BY Zenon DEF LockOK, Labels, Quiet
<1>2. /\ pc' \in [Threads -> Labels] /\ pc'[t] = "idle"
      /\ \A u \in Threads \ {t} : pc'[u] = pc[u]
  BY <1>1, Moved
<1>3. writer = t /\ NoThread \notin Threads
  BY Zenon, StoreAssumption DEF LockOK
<1>4. readers = {}
  BY Zenon, <1>3 DEF LockOK
<1>5. \A u \in Threads : /\ pc[u] \notin {"reading", "upgrade"}
                         /\ u # t => pc[u] \notin {"writing", "txn"}
  BY Zenon, <1>3, <1>4 DEF LockOK
<1>6. "idle" \notin {"writing", "txn"} /\ "idle" \notin {"reading", "upgrade"}
  OBVIOUS
<1>7. \A u \in Threads : pc'[u] \notin {"writing", "txn"} /\ pc'[u] \notin {"reading", "upgrade"}
  BY ZenonT(40), <1>2, <1>5, <1>6
<1>8. readers' = {u \in Threads : pc'[u] \in {"reading", "upgrade"}}
  BY Zenon, <1>4, <1>7
<1>9. LockOK'
  BY ZenonT(40), <1>2, <1>3, <1>7, <1>8 DEF LockOK
<1> QED
  BY ZenonT(40), <1>5, <1>7, <1>9 DEF TxnOpen

-----------------------------------------------------------------------------
(* The inductive invariant: the guards exclude each other, the storage is  *)
(* in order, and exactly a thread inside a transaction has one pending.    *)
KvInv ==
  /\ load \in Workloads /\ LockOK /\ StoreOK(st, load.vals)
  /\ st.pending # 0 <=> TxnOpen
  /\ txnId \in [Threads -> Nat]
  /\ \A t \in Threads : pc[t] = "txn" => txnId[t] = st.pending

(* What a step does to what the transactions read. *)
KvMove ==
  \/ st' = st /\ (TxnOpen' <=> TxnOpen)
  \/ StoreChanges(st, st', load.vals) /\ (TxnOpen' <=> TxnOpen)
  \/ ~ TxnOpen /\ TxnOpen' /\ Kept(st') = Kept(st) /\ Seen(st') = Kept(st)
  \/ TxnOpen /\ ~ TxnOpen' /\ (Kept(st') = Seen(st) \/ Kept(st') = Kept(st))

(* A step keeps the invariant, and the storage while somebody reads. *)
KvStep == KvInv' /\ KvMove /\ (readers # {} => st' = st)

(* The storage, and who is inside a transaction, stay as they are. *)
LEMMA SameStep ==
  ASSUME KvInv, LockOK', load' = load, st' = st, txnId' = txnId, TxnOpen' <=> TxnOpen,
         \A u \in Threads : pc'[u] = "txn" => pc[u] = "txn"
  PROVE  KvStep
<1>1. KvInv'
  BY Zenon DEF KvInv
<1> QED
  BY Zenon, <1>1 DEF KvStep, KvMove

(* A step without a guard *)
LEMMA QuietStep ==
  ASSUME KvInv, load' = load, NEW t \in Threads, NEW l \in Quiet, pc[t] \in Quiet,
         pc' = [pc EXCEPT ![t] = l], writer' = writer, readers' = readers, poisoned' \in BOOLEAN,
         st' = st, txnId' = txnId
  PROVE  KvStep
<1>1. LockOK
  BY Zenon DEF KvInv
<1>2. LockOK' /\ (TxnOpen' <=> TxnOpen) /\ \A u \in Threads : pc'[u] = "txn" <=> pc[u] = "txn"
  BY Zenon, <1>1, LockStays
<1> QED
  BY ZenonT(40), <1>2, SameStep

(* A reader begins. *)
LEMMA ReadStep ==
  ASSUME KvInv, load' = load, NEW t \in Threads, NEW l \in {"reading", "upgrade"}, pc[t] \in Quiet,
         pc' = [pc EXCEPT ![t] = l], writer = NoThread, writer' = writer,
         readers' = readers \cup {t}, poisoned' \in BOOLEAN, st' = st, txnId' = txnId
  PROVE  KvStep
<1>1. LockOK
  BY Zenon DEF KvInv
<1>2. LockOK' /\ ~ TxnOpen /\ ~ TxnOpen'
  BY Zenon, <1>1, LockRead
<1>3. \A u \in Threads : pc'[u] # "txn"
  BY Zenon, <1>2 DEF TxnOpen
<1> QED
  BY Zenon, <1>2, <1>3, SameStep

(* While the lock is free no transaction is pending. *)
LEMMA FreeIdle ==
  ASSUME KvInv, writer = NoThread
  PROVE  ~ TxnOpen /\ st.pending = 0 /\ ClearTransaction(st) = st
<1>1. NoThread \notin Threads
  BY Zenon, StoreAssumption
<1>2. ~ TxnOpen
  BY Zenon, <1>1 DEF KvInv, LockOK, TxnOpen
<1>3. st.pending = 0
  BY ZenonT(40), <1>2 DEF KvInv
<1> QED
  BY Zenon, <1>2, <1>3 DEF ClearTransaction

(* A raw writer gets its guard. *)
LEMMA WriteStep ==
  ASSUME KvInv, load' = load, NEW t \in Threads, Free, pc[t] \in Quiet,
         pc' = [pc EXCEPT ![t] = "writing"], writer' = t, readers' = readers, poisoned' \in BOOLEAN,
         st' = ClearTransaction(st), txnId' = txnId
  PROVE  KvStep
<1>1. LockOK /\ "writing" \in {"writing", "txn"} /\ "writing" # "txn"
  BY Zenon DEF KvInv
<1>2. st' = st
  BY Zenon, FreeIdle DEF Free
<1>3. /\ LockOK' /\ ~ TxnOpen /\ (TxnOpen' <=> "writing" = "txn")
      /\ \A u \in Threads : pc'[u] = "txn" => u = t /\ "writing" = "txn"
  BY Zenon, <1>1, LockWrite
<1> QED
  BY ZenonT(40), <1>1, <1>2, <1>3, SameStep

(* A transaction gets its guard and begins. *)
LEMMA BeginStep ==
  ASSUME KvInv, load' = load, NEW t \in Threads, Free, pc[t] \in Quiet,
         pc' = [pc EXCEPT ![t] = "txn"], writer' = t, readers' = readers, poisoned' \in BOOLEAN,
         st' = BeginTransaction(ClearTransaction(st)), txnId' = [txnId EXCEPT ![t] = st'.pending]
  PROVE  KvStep
<1> DEFINE V == load.vals
<1>1. /\ LockOK /\ "txn" \in {"writing", "txn"} /\ load \in Workloads /\ StoreOK(st, V)
      /\ txnId \in [Threads -> Nat]
  BY Zenon DEF KvInv
<1>2. st.pending = 0 /\ st' = BeginTransaction(st) /\ readers = {}
  BY ZenonT(40), FreeIdle DEF Free
<1>3. /\ LockOK' /\ ~ TxnOpen /\ (TxnOpen' <=> "txn" = "txn")
      /\ \A u \in Threads : pc'[u] = "txn" => u = t /\ "txn" = "txn"
  BY ZenonT(40), <1>1, LockWrite
<1>4. ValuesOK(V)
  BY Zenon, <1>1, ValuesFit
<1> HIDE DEF V
<1>5. /\ StoreOK(st', V) /\ st'.pending = st.next /\ st.next # 0
      /\ Seen(st') = Kept(st) /\ Kept(st') = Kept(st)
  BY <1>1, <1>2, <1>4, TransactionBegins
<1>6. st'.pending \in Nat
  BY ZenonT(40), <1>5, StoreFields DEF StoreOK
<1>7. txnId' \in [Threads -> Nat] /\ txnId'[t] = st'.pending
  BY ZenonT(40), <1>1, <1>6
<1>8. KvInv'
  BY ZenonT(40), <1>1, <1>3, <1>5, <1>7 DEF KvInv, V
<1> QED
  BY Zenon, <1>2, <1>3, <1>5, <1>8 DEF KvStep, KvMove

(* A raw operation, and the end of its guard *)
LEMMA RawStep ==
  ASSUME KvInv, load' = load, NEW t \in Threads, NEW n, RawWrite(t, n), StoreChanges(st, n, load.vals)
  PROVE  KvStep
<1>1. /\ pc[t] = "writing" /\ st' = n /\ writer' = NoThread /\ pc' = [pc EXCEPT ![t] = "idle"]
      /\ readers' = readers /\ poisoned' = poisoned /\ txnId' = txnId
  BY Zenon DEF RawWrite, Goto
<1>2. LockOK /\ pc[t] \in {"writing", "txn"} /\ poisoned' \in BOOLEAN /\ pc[t] # "txn"
  BY <1>1 DEF KvInv, LockOK
<1>3. LockOK' /\ (TxnOpen <=> pc[t] = "txn") /\ ~ TxnOpen'
  BY Zenon, <1>1, <1>2, LockWriteEnds
<1>4. readers = {}
  BY Zenon, <1>2, StoreAssumption DEF LockOK
<1>5. StoreOK(st', load.vals) /\ st'.pending = st.pending
  BY Zenon, <1>1 DEF StoreChanges, SameTxn
<1>6. KvInv'
  BY ZenonT(40), <1>1, <1>2, <1>3, <1>5 DEF KvInv, TxnOpen
<1> QED
  BY ZenonT(40), <1>1, <1>2, <1>3, <1>4, <1>6 DEF KvStep, KvMove

(* An operation of a transaction *)
LEMMA TxnStep ==
  ASSUME KvInv, load' = load, NEW t \in Threads, NEW n, TxnWrite(t, n), StoreChanges(st, n, load.vals)
  PROVE  KvStep
<1>1. /\ pc[t] = "txn" /\ st' = n /\ writer' = writer /\ pc' = pc
      /\ readers' = readers /\ poisoned' = poisoned /\ txnId' = txnId
  BY Zenon DEF TxnWrite
<1>2. LockOK' /\ TxnOpen /\ TxnOpen'
  BY ZenonT(40), <1>1 DEF KvInv, LockOK, TxnOpen
<1>4. readers = {}
  BY ZenonT(40), <1>1, StoreAssumption DEF KvInv, LockOK
<1>5. StoreOK(st', load.vals) /\ st'.pending = st.pending
  BY Zenon, <1>1 DEF StoreChanges, SameTxn
<1>6. KvInv'
  BY ZenonT(40), <1>1, <1>2, <1>5 DEF KvInv
<1> QED
  BY ZenonT(40), <1>1, <1>2, <1>4, <1>6 DEF KvStep, KvMove

(* The end of a transaction *)
LEMMA EndStep ==
  ASSUME KvInv, load' = load, NEW t \in Threads, pc[t] = "txn", Release(t), poisoned' \in BOOLEAN,
         StoreOK(st', load.vals), st'.pending = 0, Kept(st') = Seen(st) \/ Kept(st') = Kept(st)
  PROVE  KvStep
<1>1. /\ writer' = NoThread /\ pc' = [pc EXCEPT ![t] = "idle"] /\ readers' = readers
      /\ txnId' = [txnId EXCEPT ![t] = 0]
  BY Zenon DEF Release, Goto
<1>2. LockOK /\ pc[t] \in {"writing", "txn"} /\ txnId \in [Threads -> Nat]
  BY Zenon DEF KvInv
<1>3. LockOK' /\ TxnOpen /\ ~ TxnOpen'
  BY ZenonT(40), <1>1, <1>2, LockWriteEnds
<1>4. readers = {}
  BY Zenon, <1>2, StoreAssumption DEF LockOK
<1>5. txnId' \in [Threads -> Nat]
  BY <1>1, <1>2
<1>6. KvInv'
  BY ZenonT(40), <1>3, <1>5 DEF KvInv, TxnOpen
<1> QED
  BY ZenonT(40), <1>3, <1>4, <1>6 DEF KvStep, KvMove

(* What the proofs assume of the program: a destructor does not panic, a   *)
(* transaction removes only keys it can see, and for_each_mut does not     *)
(* follow a remove in a transaction.                                       *)
Careful == ~ DropPanics /\ ~ StaleRemoves /\ ~ MaskedUpdates

(* The entry points that take no guard, or fail to *)
LEMMA LockSteps ==
  ASSUME KvInv, load' = load, NEW t \in Threads,
         \/ \E g \in Goals : Call(t, g)
         \/ ClearPoison(t) \/ Recover(t) \/ GetReadLock(t) \/ GetWriteLock(t)
         \/ TryBeginTransaction(t) \/ TryRead(t) \/ TryWriteThenDowngrade(t)
  PROVE  KvStep
<1>1. /\ {"idle", "unpoison", "recover", "lock", "tryWrite"} = Quiet /\ poisoned \in BOOLEAN
      /\ TRUE \in BOOLEAN /\ FALSE \in BOOLEAN
      /\ {"reading", "upgrade"} = {"reading", "upgrade"}
  BY Zenon DEF Quiet, KvInv, LockOK
<1>2. /\ "idle" \in Quiet /\ "unpoison" \in Quiet /\ "recover" \in Quiet /\ "lock" \in Quiet
      /\ "tryWrite" \in Quiet
  BY Zenon DEF Quiet
<1>3. ASSUME NEW g \in Goals, Call(t, g)
      PROVE  KvStep
  <2> DEFINE l == IF poisoned THEN "unpoison" ELSE "lock"
  <2>1. /\ pc[t] = "idle" /\ pc' = [pc EXCEPT ![t] = l] /\ st' = st /\ txnId' = txnId
        /\ writer' = writer /\ readers' = readers /\ poisoned' = poisoned
    BY Zenon, <1>3 DEF Call
  <2>2. l \in Quiet
    BY ZenonT(40), <1>2
  <2> HIDE DEF l
  <2> QED
    BY ZenonT(40), <1>1, <1>2, <2>1, <2>2, QuietStep
<1>4. CASE ClearPoison(t)
  <2>1. /\ pc[t] = "unpoison" /\ pc' = [pc EXCEPT ![t] = "recover"] /\ st' = st /\ txnId' = txnId
        /\ writer' = writer /\ readers' = readers /\ poisoned' = FALSE
    BY Zenon, <1>4 DEF ClearPoison, Goto
  <2> QED
    BY ZenonT(40), <1>1, <1>2, <2>1, QuietStep
<1>5. CASE Recover(t)
  <2> DEFINE l == IF poisoned THEN "idle" ELSE "lock"
  <2>1. st' = st
    BY ZenonT(40), <1>5, FreeIdle DEF Recover, Free
  <2>2. /\ pc[t] = "recover" /\ pc' = [pc EXCEPT ![t] = l] /\ txnId' = txnId
        /\ writer' = writer /\ readers' = readers /\ poisoned' = poisoned
    BY ZenonT(40), <1>5 DEF Recover, Goto
  <2>3. l \in Quiet
    BY Zenon, <1>2
  <2> HIDE DEF l
  <2> QED
    BY ZenonT(40), <1>1, <1>2, <2>1, <2>2, <2>3, QuietStep
<1>6. CASE GetReadLock(t)
  <2>1. /\ pc[t] = "lock" /\ writer = NoThread /\ st' = st /\ txnId' = txnId
        /\ writer' = writer /\ poisoned' = poisoned
    BY Zenon, <1>6 DEF GetReadLock
  <2>2. CASE poisoned
    <3>1. pc' = [pc EXCEPT ![t] = "idle"] /\ readers' = readers
      BY ZenonT(40), <1>6, <2>2 DEF GetReadLock, Goto
    <3> QED
      BY ZenonT(40), <1>1, <1>2, <2>1, <3>1, QuietStep
  <2>3. CASE ~ poisoned
    <3>1. st.pending = 0
      BY ZenonT(40), <2>1, FreeIdle
    <3>2. pc' = [pc EXCEPT ![t] = "reading"] /\ readers' = readers \cup {t}
      BY ZenonT(40), <1>6, <2>3, <3>1 DEF GetReadLock, Goto
    <3> QED
      BY ZenonT(40), <1>1, <1>2, <2>1, <3>2, ReadStep
  <2> QED
    BY ZenonT(40), <2>2, <2>3
<1>7. CASE GetWriteLock(t)
  <2>1. pc[t] = "lock" /\ Free /\ readers' = readers /\ poisoned' = poisoned
    BY ZenonT(40), <1>7 DEF GetWriteLock
  <2>2. CASE poisoned
    <3>1. pc' = [pc EXCEPT ![t] = "idle"] /\ st' = st /\ writer' = writer /\ txnId' = txnId
      BY ZenonT(40), <1>7, <2>2 DEF GetWriteLock, Goto
    <3> QED
      BY ZenonT(40), <1>1, <1>2, <2>1, <3>1, QuietStep
  <2>3. CASE ~ poisoned /\ goal[t] = "write"
    <3>1. /\ pc' = [pc EXCEPT ![t] = "writing"] /\ writer' = t /\ st' = ClearTransaction(st)
          /\ txnId' = txnId
      BY ZenonT(40), <1>7, <2>3 DEF GetWriteLock, Goto
    <3> QED
      BY ZenonT(40), <1>1, <1>2, <2>1, <3>1, WriteStep
  <2>4. CASE ~ poisoned /\ goal[t] # "write"
    <3>1. /\ pc' = [pc EXCEPT ![t] = "txn"] /\ writer' = t
          /\ st' = BeginTransaction(ClearTransaction(st))
          /\ txnId' = [txnId EXCEPT ![t] = st'.pending]
      BY ZenonT(40), <1>7, <2>4 DEF GetWriteLock, Goto
    <3> QED
      BY ZenonT(40), <1>1, <1>2, <2>1, <3>1, BeginStep
  <2> QED
    BY ZenonT(40), <2>2, <2>3, <2>4
<1>8. CASE TryBeginTransaction(t)
  <2>1. pc[t] = "lock" /\ readers' = readers /\ poisoned' = poisoned
    BY Zenon, <1>8 DEF TryBeginTransaction
  <2>2. CASE ~ Free \/ poisoned
    <3>1. pc' = [pc EXCEPT ![t] = "idle"] /\ st' = st /\ writer' = writer /\ txnId' = txnId
      BY ZenonT(40), <1>8, <2>2 DEF TryBeginTransaction, Goto
    <3> QED
      BY ZenonT(40), <1>1, <1>2, <2>1, <3>1, QuietStep
  <2>3. CASE Free /\ ~ poisoned
    <3>1. /\ pc' = [pc EXCEPT ![t] = "txn"] /\ writer' = t
          /\ st' = BeginTransaction(ClearTransaction(st))
          /\ txnId' = [txnId EXCEPT ![t] = st'.pending]
      BY ZenonT(40), <1>8, <2>3 DEF TryBeginTransaction, Goto
    <3> QED
      BY ZenonT(40), <1>1, <1>2, <2>1, <2>3, <3>1, BeginStep
  <2> QED
    BY ZenonT(40), <2>2, <2>3
<1>9. CASE TryRead(t)
  <2>1. /\ pc[t] = "lock" /\ st' = st /\ txnId' = txnId /\ writer' = writer
        /\ poisoned' = poisoned
    BY Zenon, <1>9 DEF TryRead
  <2>2. CASE writer = NoThread /\ ~ poisoned
    <3>1. pc' = [pc EXCEPT ![t] = "reading"] /\ readers' = readers \cup {t}
      BY ZenonT(40), <1>9, <2>2 DEF TryRead, Goto
    <3> QED
      BY ZenonT(40), <1>1, <1>2, <2>1, <2>2, <3>1, ReadStep
  <2>3. CASE ~ (writer = NoThread /\ ~ poisoned)
    <3>1. pc' = [pc EXCEPT ![t] = "tryWrite"] /\ readers' = readers
      BY ZenonT(40), <1>9, <2>3 DEF TryRead, Goto
    <3> QED
      BY ZenonT(40), <1>1, <1>2, <2>1, <3>1, QuietStep
  <2> QED
    BY ZenonT(40), <2>2, <2>3
<1>10. CASE TryWriteThenDowngrade(t)
  <2>1. pc[t] = "tryWrite" /\ writer' = writer /\ poisoned' = poisoned /\ txnId' = txnId
    BY ZenonT(40), <1>10 DEF TryWriteThenDowngrade
  <2>2. CASE Free /\ ~ poisoned
    <3>1. /\ st' = ClearTransaction(st) /\ readers' = {t} /\ pc' = [pc EXCEPT ![t] = "reading"]
          /\ writer = NoThread /\ readers = {}
      BY ZenonT(40), <1>10, <2>2 DEF TryWriteThenDowngrade, Goto, Free
    <3>2. st' = st
      BY ZenonT(40), <3>1, FreeIdle
    <3>3. readers' = readers \cup {t}
      BY Zenon, <3>1
    <3> QED
      BY ZenonT(40), <1>1, <1>2, <2>1, <3>1, <3>2, <3>3, ReadStep
  <2>3. CASE ~ (Free /\ ~ poisoned)
    <3>1. st' = st /\ readers' = readers /\ pc' = [pc EXCEPT ![t] = "idle"]
      BY ZenonT(40), <1>10, <2>3 DEF TryWriteThenDowngrade, Goto
    <3> QED
      BY ZenonT(40), <1>1, <1>2, <2>1, <3>1, QuietStep
  <2> QED
    BY ZenonT(40), <2>2, <2>3
<1> QED
  BY ZenonT(40), <1>3, <1>4, <1>5, <1>6, <1>7, <1>8, <1>9, <1>10

(* What a thread does with a guard, and how it drops it *)
LEMMA GuardSteps ==
  ASSUME Careful, KvInv, load' = load, NEW t \in Threads,
         \/ EndRead(t)
         \/ RawSingleton(t) \/ RawTable(t) \/ RawIndexed(t) \/ RawPanic(t)
         \/ TxnSingleton(t) \/ TxnTable(t) \/ TxnIndexed(t)
         \/ Commit(t) \/ Drop(t, FALSE) \/ Drop(t, TRUE)
  PROVE  KvStep
<1> DEFINE V == load.vals
           AnyOp(o) == SingletonOpsMut(st, o) \cup TabularOpsMut(st, o) \cup IndexedOpsMut(st, o)
<1>1. /\ LockOK /\ load \in Workloads /\ StoreOK(st, V) /\ poisoned \in BOOLEAN
      /\ ~ StaleRemoves /\ ~ MaskedUpdates /\ ~ DropPanics
  BY Zenon DEF KvInv, LockOK, Careful
<1>2. ValuesOK(V)
  BY ZenonT(40), <1>1, ValuesFit
<1>3. CASE EndRead(t)
  <2>1. /\ pc[t] = "reading" /\ readers' = readers \ {t} /\ pc' = [pc EXCEPT ![t] = "idle"]
        /\ st' = st /\ writer' = writer /\ poisoned' = poisoned /\ txnId' = txnId
    BY ZenonT(40), <1>3 DEF EndRead, Goto
  <2>2. LockOK' /\ ~ TxnOpen /\ ~ TxnOpen'
    BY ZenonT(40), <1>1, <2>1, LockReadEnds
  <2>3. \A u \in Threads : pc'[u] # "txn"
    BY Zenon, <2>2 DEF TxnOpen
  <2> QED
    BY ZenonT(40), <2>1, <2>2, <2>3, SameStep
<1>4. ASSUME NEW o \in Owners, NEW n \in AnyOp(o)
      PROVE  StoreChanges(st, n, load.vals)
  <2>1. n \in SingletonOpsMut(st, o) \/ n \in TabularOpsMut(st, o) \/ n \in IndexedOpsMut(st, o)
    BY Zenon DEF AnyOp
  <2> QED
    BY <1>1, <1>2, <2>1, SingletonOpsChange, TabularOpsChange, IndexedOpsChange
<1>5. CASE RawSingleton(t) \/ RawTable(t) \/ RawIndexed(t)
  <2>1. PICK o \in Owners : \E n \in AnyOp(o) : RawWrite(t, n)
    BY ZenonT(40), <1>5 DEF AnyOp, RawSingleton, RawTable, RawIndexed
  <2>2. PICK n \in AnyOp(o) : RawWrite(t, n)
    BY Zenon, <2>1
  <2> QED
    BY ZenonT(40), <1>4, <2>2, RawStep
<1>6. CASE TxnSingleton(t) \/ TxnTable(t) \/ TxnIndexed(t)
  <2>1. PICK o \in Owners : \E n \in AnyOp(o) : TxnWrite(t, n)
    BY ZenonT(40), <1>6 DEF AnyOp, TxnSingleton, TxnTable, TxnIndexed
  <2>2. PICK n \in AnyOp(o) : TxnWrite(t, n)
    BY Zenon, <2>1
  <2> QED
    BY ZenonT(40), <1>4, <2>2, TxnStep
<1>7. CASE RawPanic(t)
  <2>1. /\ pc[t] = "writing" /\ poisoned' = TRUE /\ st' = st /\ writer' = NoThread
        /\ pc' = [pc EXCEPT ![t] = "idle"] /\ readers' = readers /\ txnId' = [txnId EXCEPT ![t] = 0]
    BY ZenonT(40), <1>7 DEF RawPanic, Release, Goto
  <2>2. pc[t] \in {"writing", "txn"} /\ poisoned' \in BOOLEAN /\ pc[t] # "txn"
    BY ZenonT(40), <2>1
  <2>3. LockOK' /\ (TxnOpen <=> pc[t] = "txn") /\ ~ TxnOpen'
    BY Zenon, <1>1, <2>1, <2>2, LockWriteEnds
  <2>4. txnId' \in [Threads -> Nat]
    <3>1. txnId \in [Threads -> Nat]
      BY Zenon DEF KvInv
    <3> QED
      BY <2>1, <3>1
  <2>5. KvInv'
    BY ZenonT(40), <2>1, <2>2, <2>3, <2>4 DEF KvInv, TxnOpen
  <2> QED
    BY ZenonT(40), <2>1, <2>2, <2>3, <2>5 DEF KvStep, KvMove
<1>8. ASSUME pc[t] = "txn"
      PROVE  /\ txnId[t] = st.pending /\ st.pending # 0
             /\ RollbackTransaction(st, txnId[t]) = ClearTransaction(st)
  BY Zenon, <1>8 DEF KvInv, TxnOpen, RollbackTransaction
<1>9. CASE Commit(t)
  <2> DEFINE n == CommitTransaction(st, st.pending)
  <2>1. pc[t] = "txn" /\ Release(t) /\ poisoned' = poisoned
    BY Zenon, <1>9 DEF Commit
  <2>2. txnId[t] = st.pending /\ st.pending # 0
    BY ZenonT(40), <1>8, <2>1
  <2>3. CommitPossible(st, st.pending)
    BY ZenonT(40), <1>1, <2>2, CommitReady
  <2>4. StoreOK(n, V) /\ n.pending = 0 /\ Kept(n) = Seen(st)
    <3> HIDE DEF V
    <3> QED
      BY ZenonT(40), <1>1, <1>2, <2>2, TransactionCommits
  <2>5. st' = n
    <3> HIDE DEF n
    <3>1. n = CommitTransaction(st, st.pending)
      BY Zenon DEF n
    <3> QED
      BY ZenonT(40), <1>9, <2>2, <2>3, <2>4, <3>1 DEF Commit, RollbackTransaction
  <2> QED
    BY ZenonT(40), <1>1, <2>1, <2>4, <2>5, EndStep
<1>10. ASSUME NEW p \in BOOLEAN, Drop(t, p)
       PROVE  KvStep
  <2>1. pc[t] = "txn" /\ Release(t) /\ poisoned' \in BOOLEAN /\ st' = RollbackTransaction(st, txnId[t])
    BY ZenonT(40), <1>1, <1>10 DEF Drop, Dropped
  <2>2. st' = ClearTransaction(st)
    BY ZenonT(40), <1>8, <2>1
  <2>3. StoreOK(st', V) /\ st'.pending = 0 /\ Kept(st') = Kept(st)
    <3> HIDE DEF V
    <3> QED
      BY ZenonT(40), <1>1, <1>2, <2>2, TransactionCollected
  <2> QED
    BY ZenonT(40), <2>1, <2>3, EndStep
<1> QED
  BY ZenonT(40), <1>3, <1>5, <1>6, <1>7, <1>9, <1>10

(* Every step *)
LEMMA KvSteps ==
  ASSUME Careful, KvInv, Next
  PROVE  KvStep
<1>1. load' = load /\ load.by \subseteq Threads
  BY Zenon, StoreAssumption DEF Next, KvInv
<1>2. PICK t \in Threads : Step(t) \/ \E g \in Goals : Call(t, g)
  BY ZenonT(40), <1>1 DEF Next
<1> QED
  BY ZenonT(40), <1>1, <1>2, LockSteps, GuardSteps DEF Step

(* The invariant is inductive. *)
LEMMA InvInductive ==
  ASSUME Careful
  PROVE  Spec => []KvInv
<1>1. Init => KvInv
  <2> SUFFICES ASSUME Init PROVE KvInv
    OBVIOUS
  <2>1. /\ st = NewStorage /\ writer = NoThread /\ readers = {} /\ poisoned = FALSE
        /\ pc = [t \in Threads |-> "idle"] /\ txnId = [t \in Threads |-> 0] /\ load \in Workloads
    BY Zenon DEF Init
  <2>2. StoreOK(st, load.vals) /\ st.pending = 0
    <3>1. ValuesOK(load.vals)
      BY ZenonT(40), <2>1, ValuesFit
    <3> QED
      BY ZenonT(40), <2>1, <3>1, FirstStore
  <2>3. \A t \in Threads : pc[t] \notin {"writing", "txn"} /\ pc[t] \notin {"reading", "upgrade"}
    BY <2>1
  <2>4. pc \in [Threads -> Labels] /\ txnId \in [Threads -> Nat] /\ poisoned \in BOOLEAN
    BY ZenonT(40), <2>1 DEF Labels, Quiet
  <2>5. LockOK
    BY Zenon, <2>1, <2>3, <2>4, StoreAssumption DEF LockOK
  <2> QED
    BY ZenonT(40), <2>1, <2>2, <2>3, <2>4, <2>5 DEF KvInv, TxnOpen
<1>2. KvInv /\ [Next]_kvVars => KvInv'
  <2>1. KvInv /\ Next => KvInv'
    BY Zenon, KvSteps DEF KvStep
  <2>2. KvInv /\ UNCHANGED kvVars => KvInv'
    BY Zenon DEF kvVars, KvInv, LockOK, TxnOpen
  <2> QED
    BY Zenon, <2>1, <2>2
<1> QED
  BY PTL, <1>1, <1>2 DEF Spec

(* Outside a transaction nothing uncommitted is left. *)
LEMMA SettledStore ==
  ASSUME KvInv
  PROVE  UncommittedOnlyWhilePending
<1> SUFFICES ASSUME st.pending = 0
             PROVE  /\ \A k \in Keys : \A s \in {"a", "b"} : st.tables.base.data[k][s].id <= st.committed
                    /\ \A f \in Fields : \A s \in {"a", "b"} : st.tables.idx.data[f][s].id <= st.committed
                    /\ \A k \in Singletons : \A s \in {"a", "b"} : st.sin[k].vv[s].id <= st.committed
                    /\ st.tables.base.mask = NoMask(Keys) /\ st.tables.idx.mask = NoMask(Fields)
                    /\ st.tables.base.modified = NoMutations /\ st.tables.idx.modified = NoMutations
  BY Zenon DEF UncommittedOnlyWhilePending
<1> DEFINE c == st.committed
           V == load.vals
<1>1. /\ StoreOK(st, V) /\ st \in Stores(V) /\ StorageTxn(st) = c
      /\ PairOK(st.tables, V, c, c) /\ SinglesOK(st.sin, st.touched, c, c)
  BY Zenon DEF KvInv, StoreOK, StorageTxn
<1>2. TableOK(st.tables.base, Keys, V, c, c) /\ TableOK(st.tables.idx, Fields, Keys, c, c) /\ c \in Nat
  BY ZenonT(40), <1>1, StoreFields DEF PairOK
<1> HIDE DEF c, V
<1>3. ~ (c < c)
  BY SMTT(60), <1>2
<1>4. ASSUME NEW vv, UpTo(vv, c, c)
      PROVE  \A s \in {"a", "b"} : vv[s].id <= c
  BY SMTT(60), <1>2, <1>4 DEF UpTo
<1>5. ASSUME NEW t, NEW K, NEW W, TableOK(t, K, W, c, c)
      PROVE  /\ \A k \in K : \A s \in {"a", "b"} : t.data[k][s].id <= c
             /\ t.mask = NoMask(K) /\ t.modified = NoMutations
  <2>1. DataOK(t.data, t.modified.keys, K, c, c) /\ MaskOK(t.mask, t.data, K, W, c, c)
    BY Zenon, <1>5 DEF TableOK
  <2>2. \A k \in K : \A s \in {"a", "b"} : t.data[k][s].id <= c
    BY ZenonT(40), <1>4, <2>1 DEF DataOK
  <2>3. t.mask = NoMask(K)
    BY ZenonT(40), <1>3, <2>1 DEF MaskOK
  <2>4. t.modified = NoMutations
    BY ZenonT(40), <1>3, <1>5 DEF TableOK
  <2> QED
    BY ZenonT(40), <2>2, <2>3, <2>4
<1>6. \A k \in Singletons : \A s \in {"a", "b"} : st.sin[k].vv[s].id <= c
  BY ZenonT(40), <1>1, <1>4 DEF SinglesOK
<1> QED
  BY ZenonT(40), <1>2, <1>5, <1>6 DEF c

(* Isolation by the lock: the guards exclude each other, raw reads and     *)
(* read-only transactions find nothing uncommitted, and a commit always    *)
(* finds the masks and lists of mutations its assertions ask for.          *)
THEOREM StoreIsolated ==
  ASSUME Careful
  PROVE  Spec => []Isolated
<1>1. KvInv => Isolated
  <2> SUFFICES ASSUME KvInv PROVE Isolated
    OBVIOUS
  <2>1. TypeOK
    BY Zenon DEF KvInv, LockOK, StoreOK, TxnsOK, TypeOK
  <2>2. ASSUME NEW t \in Threads, pc[t] = "reading"
        PROVE  st.pending = 0
    <3>1. readers # {}
      BY ZenonT(40), <2>2 DEF KvInv, LockOK
    <3>2. writer = NoThread
      BY Zenon, <3>1 DEF KvInv, LockOK
    <3> QED
      BY ZenonT(40), <3>2, FreeIdle
  <2>3. ASSUME NEW t \in Threads, pc[t] = "txn"
        PROVE  CommitPossible(st, txnId[t])
    <3>1. st.pending # 0 /\ txnId[t] = st.pending /\ StoreOK(st, load.vals)
      BY ZenonT(40), <2>3 DEF KvInv, TxnOpen
    <3>2. CommitPossible(st, st.pending)
      BY ZenonT(40), <3>1, CommitReady
    <3> QED
      BY ZenonT(40), <3>1, <3>2
  <2> QED
    BY ZenonT(40), <2>1, <2>2, <2>3, SettledStore DEF Isolated
<1> QED
  BY PTL, <1>1, InvInductive

(* What the serial store is shown. *)
LEMMA ContentShown ==
  ASSUME KvInv
  PROVE  /\ Content(st.committed) = Kept(st)
         /\ TxnOpen => Content(st.pending) = Seen(st)
<1>1. StoreOK(st, load.vals) /\ st \in Stores(load.vals) /\ TxnsOK(st)
  BY Zenon DEF KvInv, StoreOK
<1>2. Content(st.committed) = Kept(st)
  BY DEF Content, Kept, Shows, Committed
<1>3. TxnOpen => Content(st.pending) = Seen(st)
  <2> HAVE TxnOpen
  <2>1. st.pending # 0 /\ StorageTxn(st) = st.pending /\ st.committed < st.pending
    BY ZenonT(40), <1>1 DEF KvInv, StorageTxn, TxnsOK
  <2>2. st.committed \in Nat /\ st.pending \in Nat
    BY ZenonT(40), <1>1, StoreFields
  <2>3. st.committed # st.pending
    BY SMTT(60), <2>1, <2>2
  <2> DEFINE id == st.pending
             view == ViewOf(st.tables.base, Keys, id)
  <2>4. Seen(st) = Shows(st, view, id)
    BY Zenon, <2>1 DEF Seen
  <2>5. \A k \in Keys : view[k] = GetFromTable(st.tables.base, k, id)
    BY Zenon DEF ViewOf
  <2> HIDE DEF view
  <2>6. Content(id) = Shows(st, view, id)
    BY ZenonT(40), <2>3, <2>5 DEF Content, Shows
  <2> QED
    BY ZenonT(40), <2>4, <2>6
<1> QED
  BY ZenonT(40), <1>2, <1>3

(* The same as a state predicate *)
ShownAsIs ==
  /\ Content(st.committed) = Kept(st)
  /\ TxnOpen => Content(st.pending) = Seen(st)

(* What a step does to what the transactions read is a step of the serial  *)
(* store.                                                                  *)
LEMMA SerialStep ==
  ASSUME KvInv, KvInv', ShownAsIs, ShownAsIs', load' = load, KvMove
  PROVE  [Serial!StoreNext]_(Serial!storeVars)
<1> DEFINE db == Content(st.committed)
           work == IF TxnOpen THEN Content(st.pending) ELSE Content(st.committed)
           V == load.vals
<1>1. db = Kept(st) /\ db' = Kept(st')
  BY Zenon DEF ShownAsIs
<1>2. /\ TxnOpen => work = Seen(st)
      /\ ~ TxnOpen => work = Kept(st)
      /\ TxnOpen' => work' = Seen(st')
      /\ ~ TxnOpen' => work' = Kept(st')
  BY Zenon DEF ShownAsIs
<1>3. /\ (TxnOpen' <=> TxnOpen) => TxnOpen' = TxnOpen
      /\ TxnOpen' => TxnOpen' = TRUE
      /\ ~ TxnOpen' => TxnOpen' = FALSE
  BY Zenon DEF TxnOpen
<1>4. CASE st' = st /\ (TxnOpen' <=> TxnOpen)
  <2>1. Kept(st') = Kept(st) /\ Seen(st') = Seen(st)
    BY ZenonT(40), <1>4
  <2>2. db' = db /\ work' = work
    <3> HIDE DEF db, work
    <3> QED
      BY ZenonT(40), <1>1, <1>2, <1>4, <2>1
  <2> QED
    BY ZenonT(40), <1>3, <1>4, <2>2 DEF Serial!storeVars
<1>5. CASE StoreChanges(st, st', V) /\ (TxnOpen' <=> TxnOpen) /\ TxnOpen
  <2>1. st.pending # 0 /\ Kept(st') = Kept(st) /\ Seen(st') \in Serial!Changes(Seen(st))
    BY ZenonT(40), <1>5 DEF StoreChanges, KvInv
  <2>2. db' = db /\ work' \in Serial!Changes(work)
    <3> HIDE DEF db, work
    <3> QED
      BY ZenonT(40), <1>1, <1>2, <1>5, <2>1
  <2> QED
    BY ZenonT(40), <1>3, <1>5, <2>2 DEF Serial!StoreNext, Serial!Change
<1>6. CASE StoreChanges(st, st', V) /\ (TxnOpen' <=> TxnOpen) /\ ~ TxnOpen
  <2>1. ValuesOK(V) /\ StoreOK(st, V) /\ st.pending = 0 /\ StoreOK(st', V) /\ st'.pending = 0
    BY ZenonT(40), <1>6, ValuesFit DEF StoreChanges, SameTxn, KvInv
  <2>2. Seen(st) = Kept(st) /\ Seen(st') = Kept(st')
    <3> HIDE DEF V
    <3> QED
      BY ZenonT(40), <2>1, RawSeen
  <2>3. Seen(st') \in Serial!Changes(Seen(st))
    BY ZenonT(40), <1>6 DEF StoreChanges
  <2>4. db' \in Serial!Changes(db) /\ work' = db'
    <3> HIDE DEF db, work
    <3> QED
      BY ZenonT(40), <1>1, <1>2, <1>6, <2>2, <2>3
  <2> QED
    BY ZenonT(40), <1>3, <1>6, <2>4 DEF Serial!StoreNext, Serial!RawChange
<1>7. CASE ~ TxnOpen /\ TxnOpen' /\ Kept(st') = Kept(st) /\ Seen(st') = Kept(st)
  <2>1. db' = db /\ work' = work
    <3> HIDE DEF db, work
    <3> QED
      BY ZenonT(40), <1>1, <1>2, <1>7
  <2> QED
    BY ZenonT(40), <1>3, <1>7, <2>1 DEF Serial!StoreNext, Serial!Begin
<1>8. CASE TxnOpen /\ ~ TxnOpen' /\ Kept(st') = Seen(st)
  <2>1. db' = work /\ work' = work
    <3> HIDE DEF db, work
    <3> QED
      BY ZenonT(40), <1>1, <1>2, <1>8
  <2> QED
    BY ZenonT(40), <1>3, <1>8, <2>1 DEF Serial!StoreNext, Serial!CommitAll
<1>9. CASE TxnOpen /\ ~ TxnOpen' /\ Kept(st') = Kept(st)
  <2>1. db' = db /\ work' = db
    <3> HIDE DEF db, work
    <3> QED
      BY ZenonT(40), <1>1, <1>2, <1>9
  <2> QED
    BY ZenonT(40), <1>3, <1>9, <2>1 DEF Serial!StoreNext, Serial!DropAll
<1> QED
  BY ZenonT(40), <1>4, <1>5, <1>6, <1>7, <1>8, <1>9 DEF KvMove

(* Transactions are atomic and serializable: every step of the threads,    *)
(* commit and roll-back included, is a step of SerialStore or changes      *)
(* nothing, and a read-only transaction reads one state to its end.        *)
THEOREM StoreSerial ==
  ASSUME Careful
  PROVE  Spec => TransactionsAtomic
<1>1. KvInv => ShownAsIs
  BY ZenonT(40), ContentShown DEF ShownAsIs
<1>2. KvInv' => ShownAsIs'
  BY PTL, <1>1
<1>3. Init /\ KvInv => Serial!StoreInit
  <2> SUFFICES ASSUME Init, KvInv PROVE Serial!StoreInit
    OBVIOUS
  <2>1. Content(st.committed) = Kept(st)
    BY ZenonT(40), <1>1 DEF ShownAsIs
  <2>2. Kept(st) = [c \in Keys \cup Singletons |-> NoVal]
    <3>1. ValuesOK(load.vals)
      BY ZenonT(40), ValuesFit DEF Init
    <3> QED
      BY ZenonT(40), <3>1, FirstStore DEF Init
  <2>3. ~ TxnOpen /\ TxnOpen = FALSE
    BY Zenon DEF Init, TxnOpen
  <2> QED
    BY ZenonT(40), <2>1, <2>2, <2>3 DEF Serial!StoreInit
<1>4. KvInv /\ KvInv' /\ [Next]_kvVars => [Serial!StoreNext]_(Serial!storeVars)
  <2> SUFFICES ASSUME KvInv, KvInv', [Next]_kvVars
               PROVE  [Serial!StoreNext]_(Serial!storeVars)
    OBVIOUS
  <2>1. load' = load
    BY Zenon DEF Next, kvVars
  <2>2. KvMove
    <3>1. CASE Next
      BY ZenonT(40), <3>1, KvSteps DEF KvStep
    <3>2. CASE UNCHANGED kvVars
      BY ZenonT(40), <3>2 DEF kvVars, KvMove, TxnOpen
    <3> QED
      BY ZenonT(40), <3>1, <3>2
  <2> QED
    BY ZenonT(40), <1>1, <1>2, <2>1, <2>2, SerialStep
<1>5. KvInv /\ [Next]_kvVars =>
        [\A t \in Threads : pc[t] = "reading" /\ pc'[t] = "reading" =>
             /\ RoTransaction(st') = RoTransaction(st)
             /\ RoTable(st') = RoTable(st)
             /\ RoIndex(st') = RoIndex(st)]_kvVars
  <2> SUFFICES ASSUME KvInv, Next, NEW t \in Threads, pc[t] = "reading"
               PROVE  st' = st
    BY Zenon
  <2>1. readers # {}
    BY Zenon DEF KvInv, LockOK
  <2> QED
    BY ZenonT(40), <2>1, KvSteps DEF KvStep
<1> QED
  BY PTL, <1>3, <1>4, <1>5, InvInductive DEF Spec, TransactionsAtomic, RoSnapshot, Serial!StoreSpec

-----------------------------------------------------------------------------
(* The reads.                                                              *)

(* Whatever is read of a store in order, the reads agree. *)
LEMMA ReadsOfStore ==
  ASSUME KvInv, \A v \in Vals : FieldsOf[v] # {}
  PROVE  ReadsAgree
<1> DEFINE V == load.vals
           tb == st.tables
           c == st.committed
           id == StorageTxn(st)
           bv == View(st)
           iv == ViewOf(tb.idx, Fields, id)
           rows == {k \in Keys : bv[k] # NoVal}
<1>1. /\ load \in Workloads /\ StoreOK(st, V) /\ st \in Stores(V) /\ TxnsOK(st)
      /\ PairOK(tb, V, c, id)
  BY Zenon DEF KvInv, StoreOK
<1>2. ValuesOK(V)
  BY ZenonT(40), <1>1, ValuesFit
<1>3. /\ Setting(V, c, id) /\ Acting(V, c, id) /\ Acting(Keys, c, id) /\ IsFiniteSet(Keys)
      /\ TableOK(tb.base, Keys, V, c, id) /\ TableOK(tb.idx, Fields, Keys, c, id)
      /\ V \subseteq Vals
  <2>1. Setting(V, c, id)
    BY ZenonT(40), <1>1, <1>2, StoreActs
  <2> QED
    BY ZenonT(40), <1>1, <1>2, <2>1 DEF Setting, PairOK, ValuesOK
<1>4. /\ bv = ViewOf(tb.base, Keys, id) /\ DOMAIN bv = Keys /\ DOMAIN iv = Fields
      /\ \A k \in Keys : bv[k] = GetFromTable(tb.base, k, id)
      /\ \A f \in Fields : iv[f] = GetFromTable(tb.idx, f, id)
  BY Zenon DEF View, ViewOf
<1>5. /\ \A f \in Fields : iv[f] # NoVal => iv[f] \in Keys
      /\ \A k \in Keys : bv[k] # NoVal => bv[k] \in V /\ FieldsOf[bv[k]] \subseteq Fields
      /\ \A f \in Fields, k \in Keys : bv[k] # NoVal /\ f \in FieldsOf[bv[k]] <=> iv[f] = k
      /\ NoVal \notin Keys
  <2> HIDE DEF V, tb, c, id, bv, iv
  <2>1. iv = ViewOf(tb.idx, Fields, id)
    BY Zenon DEF iv
  <2>2. NoVal \notin Keys
    BY ZenonT(40), <1>3 DEF Acting
  <2> QED
    BY <1>1, <1>3, <1>4, <2>1, <2>2, IndexInverse
<1>6. TableIter(tb.base, id) = Present(bv) /\ TableIter(tb.idx, id) = Present(iv)
  <2> HIDE DEF V, tb, c, id, bv
  <2>1. TableIter(tb.base, id) = Present(ViewOf(tb.base, Keys, id))
    BY ZenonT(40), <1>3, IterShows
  <2>2. TableIter(tb.idx, id) = Present(iv)
    BY ZenonT(40), <1>3, IterShows
  <2> QED
    BY ZenonT(40), <1>4, <2>1, <2>2
<1>7. /\ TableLen(tb.base, id) = Cardinality(rows)
      /\ TableIsEmpty(tb.base, id) <=> rows = {}
  <2>1. rows = {k \in Keys : GetFromTable(tb.base, k, id) # NoVal}
    BY ZenonT(40), <1>4
  <2> HIDE DEF V, tb, c, id, bv, rows
  <2> QED
    BY SMTT(60), <1>3, <2>1, TableCounts
<1> HIDE DEF V, tb, c, id, bv, iv
<1>8. IndexMatchesTable
  <2> DEFINE owner(f) == {k \in Keys : bv[k] # NoVal /\ f \in FieldsOf[bv[k]]}
             held == {f \in Fields : owner(f) # {}}
             inv == [f \in held |-> CHOOSE k \in Keys : k \in owner(f)]
  <2>1. ASSUME NEW f \in Fields
        PROVE  /\ f \in held <=> iv[f] # NoVal
               /\ f \in held => (CHOOSE k \in Keys : k \in owner(f)) = iv[f]
    <3>1. \A k \in Keys : k \in owner(f) <=> iv[f] = k
      BY ZenonT(40), <1>5
    <3>2. f \in held <=> \E k \in Keys : k \in owner(f)
      BY Zenon
    <3> HIDE DEF owner, held
    <3>3. f \in held <=> iv[f] # NoVal
      <4>1. iv[f] # NoVal => iv[f] \in Keys
        BY ZenonT(40), <1>5
      <4>2. ASSUME NEW k \in Keys, k \in owner(f)
            PROVE  iv[f] # NoVal
        BY ZenonT(40), <1>5, <3>1, <4>2
      <4> QED
        BY ZenonT(40), <3>1, <3>2, <4>1, <4>2
    <3>4. f \in held => (CHOOSE k \in Keys : k \in owner(f)) = iv[f]
      BY ZenonT(40), <1>5, <3>1, <3>3
    <3> QED
      BY ZenonT(40), <3>3, <3>4
  <2>2. Present(iv) = inv
    <3> DEFINE there == {j \in DOMAIN iv : iv[j] # NoVal}
    <3>1. there = held
      BY ZenonT(40), <1>4, <2>1
    <3>2. \A f \in held : f \in Fields
      BY Zenon
    <3>3. Present(iv) = [f \in there |-> iv[f]]
      BY Zenon DEF Present
    <3> HIDE DEF there, held
    <3>4. [f \in there |-> iv[f]] = [f \in held |-> iv[f]]
      BY ZenonT(40), <3>1
    <3>5. [f \in held |-> iv[f]] = inv
      <4> HIDE DEF owner
      <4> QED
        BY ZenonT(40), <2>1, <3>2
    <3> QED
      BY ZenonT(40), <3>3, <3>4, <3>5
  <2> QED
    BY ZenonT(40), <1>6, <2>2 DEF IndexMatchesTable, tb, id, bv
<1> DEFINE tab == TabularOps(st)
           ind == IndexedOps(st)
<1>9. /\ tab.get = bv /\ tab.len = Cardinality(rows) /\ (tab.is_empty <=> rows = {})
      /\ tab.iter = Present(bv)
      /\ ind.len = Cardinality(rows) /\ (ind.is_empty <=> rows = {})
      /\ ind.get = [f \in Fields |-> IndexedGet(tb, f, id)] /\ ind.iter = IndexedIter(tb, id)
  <2>1. /\ tab.get = bv /\ tab.len = TableLen(tb.base, id)
        /\ tab.is_empty = TableIsEmpty(tb.base, id) /\ tab.iter = TableIter(tb.base, id)
    BY Zenon DEF TabularOps, tb, id, bv
  <2>2. /\ ind.len = TableLen(tb.base, id) /\ ind.is_empty = TableIsEmpty(tb.base, id)
        /\ ind.get = [f \in Fields |-> IndexedGet(tb, f, id)] /\ ind.iter = IndexedIter(tb, id)
    BY Zenon DEF IndexedOps, tb, id
  <2> HIDE DEF tab, ind, rows
  <2> QED
    BY ZenonT(40), <1>6, <1>7, <2>1, <2>2
<1> HIDE DEF tab, ind
<1>10. tab.iter = [k \in rows |-> tab.get[k]]
  BY ZenonT(40), <1>4, <1>9 DEF Present
<1>11. ASSUME NEW f \in Fields
       PROVE  /\ ind.get[f] = IF iv[f] = NoVal THEN NoVal ELSE bv[iv[f]]
              /\ f \in DOMAIN ind.iter <=> iv[f] # NoVal
              /\ iv[f] # NoVal => ind.iter[f] = bv[iv[f]]
  <2> DEFINE entries == TableIter(tb.idx, id)
             seen == {g \in DOMAIN entries : GetFromTable(tb.base, entries[g], id) # NoVal}
  <2>1. ind.get[f] = IF iv[f] = NoVal THEN NoVal ELSE bv[iv[f]]
    <3>1. ind.get[f] = IndexedGet(tb, f, id)
      BY ZenonT(40), <1>9
    <3>2. CASE iv[f] = NoVal
      BY ZenonT(40), <1>4, <3>1, <3>2 DEF IndexedGet
    <3>3. CASE iv[f] # NoVal
      <4>1. IndexedGet(tb, f, id) = GetFromTable(tb.base, iv[f], id)
        BY ZenonT(40), <1>4, <3>3 DEF IndexedGet
      <4> QED
        BY ZenonT(40), <1>4, <1>5, <3>1, <3>3, <4>1
    <3> QED
      BY ZenonT(40), <3>2, <3>3
  <2>2. ind.iter = [g \in seen |-> GetFromTable(tb.base, entries[g], id)]
    BY ZenonT(40), <1>9 DEF IndexedIter
  <2>3. /\ f \in DOMAIN entries <=> iv[f] # NoVal
        /\ iv[f] # NoVal => entries[f] = iv[f]
    BY ZenonT(40), <1>4, <1>6 DEF Present
  <2>4. iv[f] # NoVal => GetFromTable(tb.base, iv[f], id) = bv[iv[f]] /\ bv[iv[f]] # NoVal
    BY ZenonT(40), <1>4, <1>5
  <2> HIDE DEF entries
  <2>5. f \in seen <=> iv[f] # NoVal
    BY ZenonT(40), <2>3, <2>4
  <2> HIDE DEF seen
  <2> QED
    BY ZenonT(40), <2>1, <2>2, <2>3, <2>4, <2>5
<1>12. \A f \in Fields : ind.get[f] = IF f \in DOMAIN ind.iter THEN ind.iter[f] ELSE NoVal
  BY ZenonT(40), <1>11
<1>13. {ind.get[f] : f \in Fields} \ {NoVal} = {tab.get[k] : k \in rows}
  <2>1. ASSUME NEW f \in Fields, ind.get[f] # NoVal
        PROVE  \E k \in rows : ind.get[f] = tab.get[k]
    <3>1. iv[f] \in Keys /\ ind.get[f] = bv[iv[f]]
      BY ZenonT(40), <1>5, <1>11, <2>1
    <3> QED
      BY ZenonT(40), <1>9, <2>1, <3>1
  <2>2. ASSUME NEW k \in rows
        PROVE  \E f \in Fields : ind.get[f] = tab.get[k] /\ tab.get[k] # NoVal
    <3>1. k \in Keys /\ bv[k] # NoVal /\ bv[k] \in V /\ FieldsOf[bv[k]] \subseteq Fields
      BY ZenonT(40), <1>5
    <3>2. PICK f \in Fields : f \in FieldsOf[bv[k]]
      BY ZenonT(40), <1>3, <3>1
    <3>3. iv[f] = k
      BY ZenonT(40), <1>5, <3>1, <3>2
    <3>4. ind.get[f] = bv[k]
      BY ZenonT(40), <1>5, <1>11, <3>1, <3>3
    <3> QED
      BY ZenonT(40), <1>9, <3>1, <3>4
  <2> HIDE DEF rows
  <2> QED
    BY SMTT(60), <2>1, <2>2
<1>14. rows = {k \in Keys : tab.get[k] # NoVal} /\ ind.len = tab.len
  BY ZenonT(40), <1>9
<1> HIDE DEF rows
<1> QED
  BY ZenonT(40), <1>8, <1>9, <1>10, <1>12, <1>13, <1>14 DEF ReadsAgree, tab, ind

(* get, iter, len and is_empty agree through the table and through the     *)
(* index, raw and in both kinds of transactions, when every row has a key  *)
(* in the index (a row without one cannot be found there).                 *)
THEOREM StoreReadsAgree ==
  ASSUME Careful, \A v \in Vals : FieldsOf[v] # {}
  PROVE  Spec => []ReadsAgree
<1>1. KvInv => ReadsAgree
  BY Zenon, ReadsOfStore
<1> QED
  BY PTL, <1>1, InvInductive
=============================================================================
