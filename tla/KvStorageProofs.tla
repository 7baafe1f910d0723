-------------------------- MODULE KvStorageProofs ---------------------------
(***************************************************************************)
(* What the operations of KvStore do to what the acting transaction and    *)
(* the last committed one see: those on versioned values and tables, first *)
(* for one table and then for a base table with its index, and those on    *)
(* the storage, each of which is a change the serial store allows          *)
(* (StoreChanges).                                                         *)
(***************************************************************************)
EXTENDS KvStore, FiniteSetTheorems, WellFoundedInduction, TLAPS

-----------------------------------------------------------------------------
(* Versioned values *)

Slots(V) == [id : Nat, val : V \cup {NoVal}]
Versions(V) == [a : Slots(V), b : Slots(V)]

(* No two versions have the same id, and a slot without one is empty. *)
Apart(vv) ==
  /\ vv.a.id = 0 => vv.a = NoSlot
  /\ vv.b.id = 0 => vv.b = NoSlot
  /\ vv.a.id = vv.b.id => vv.a.id = 0

(* The versions are of committed transactions (up to c) or of p. *)
UpTo(vv, c, p) == vv.a.id \in (0 .. c) \cup {p} /\ vv.b.id \in (0 .. c) \cup {p}

(* One slot is written. *)
LEMMA PutSlot ==
  ASSUME NEW V, NEW vv \in Versions(V), NEW x
  PROVE  /\ [vv EXCEPT !["a"] = x] = [a |-> x, b |-> vv.b]
         /\ [vv EXCEPT !["b"] = x] = [a |-> vv.a, b |-> x]
         /\ vv = [a |-> vv.a, b |-> vv.b]
<1>1. ASSUME NEW n, n = [vv EXCEPT !["a"] = x] PROVE n = [a |-> x, b |-> vv.b]
  BY Zenon, <1>1 DEF Versions
<1>2. ASSUME NEW n, n = [vv EXCEPT !["b"] = x] PROVE n = [a |-> vv.a, b |-> x]
  BY Zenon, <1>2 DEF Versions
<1>3. vv = [a |-> vv.a, b |-> vv.b]
  BY Zenon DEF Versions
<1> QED
  BY Zenon, <1>1, <1>2, <1>3

(* get(id) reads the version with the largest id up to id. *)
LEMMA GetReads ==
  ASSUME NEW V, NEW vv \in Versions(V), Apart(vv), NEW id \in Nat
  PROVE  VvGet(vv, id) =
           IF vv.a.id # 0 /\ vv.a.id <= id /\ ~(vv.b.id <= id /\ vv.a.id < vv.b.id)
           THEN vv.a.val
           ELSE IF vv.b.id # 0 /\ vv.b.id <= id THEN vv.b.val ELSE NoVal
<1>1. /\ vv.a \in Slots(V) /\ vv.b \in Slots(V)
      /\ vv.a.id \in Nat /\ vv.b.id \in Nat
  BY Zenon DEF Versions, Slots
<1>2. (vv.a # NoSlot <=> vv.a.id # 0) /\ (vv.b # NoSlot <=> vv.b.id # 0)
  BY DEF Apart, NoSlot
<1>3. /\ Visible(vv.a, id) <=> vv.a.id # 0 /\ vv.a.id <= id
      /\ Visible(vv.b, id) <=> vv.b.id # 0 /\ vv.b.id <= id
  BY Zenon, <1>2 DEF Visible
<1>4. CASE Visible(vv.a, id) /\ (Visible(vv.b, id) => vv.a.id > vv.b.id)
  <2>1. VvGet(vv, id) = vv.a.val
    BY Zenon, <1>4 DEF VvGet, ReadSlot
  <2>2. vv.a.id # 0 /\ vv.a.id <= id /\ ~(vv.b.id <= id /\ vv.a.id < vv.b.id)
    BY <1>1, <1>3, <1>4
  <2> QED
    BY Zenon, <2>1, <2>2
<1>5. CASE ~(Visible(vv.a, id) /\ (Visible(vv.b, id) => vv.a.id > vv.b.id))
  <2>1. VvGet(vv, id) = IF Visible(vv.b, id) THEN vv.b.val ELSE NoVal
    BY Zenon, <1>5 DEF VvGet, ReadSlot
  <2>2. ~ (vv.a.id # 0 /\ vv.a.id <= id /\ ~(vv.b.id <= id /\ vv.a.id < vv.b.id))
    BY <1>1, <1>3, <1>5 DEF Apart
  <2> QED
    BY Zenon, <1>3, <2>1, <2>2
<1> QED
  BY Zenon, <1>4, <1>5

(* What get(id) returns is a value that was stored, or nothing. *)
LEMMA GetType ==
  ASSUME NEW V, NEW vv \in Versions(V), NEW id \in Nat
  PROVE  VvGet(vv, id) \in V \cup {NoVal}
<1>1. ReadSlot(vv, id) \in {"a", "b"}
  BY Zenon DEF ReadSlot
<1>2. vv["a"].val \in V \cup {NoVal} /\ vv["b"].val \in V \cup {NoVal}
  BY Zenon DEF Versions, Slots
<1> QED
  BY Zenon, <1>1, <1>2 DEF VvGet

(* set(v, id) makes v the version id sees, and leaves what an earlier      *)
(* transaction c sees when the versions are those of c, before it, and id. *)
LEMMA SetVersion ==
  ASSUME NEW V, NEW vv \in Versions(V), Apart(vv),
         NEW id \in Nat \ {0}, NEW c \in Nat, c <= id, UpTo(vv, c, id), NEW v \in V
  PROVE  LET new == VvSet(vv, v, id)
         IN  /\ new \in Versions(V) /\ Apart(new) /\ UpTo(new, c, id)
             /\ VvGet(new, id) = v
             /\ c < id => VvGet(new, c) = VvGet(vv, c)
<1> DEFINE new == VvSet(vv, v, id)
           slot == [id |-> id, val |-> v]
<1>1. /\ vv.a \in Slots(V) /\ vv.b \in Slots(V)
      /\ vv.a.id \in Nat /\ vv.b.id \in Nat
      /\ vv.a.id <= id /\ vv.b.id <= id
      /\ vv.a.id <= c \/ vv.a.id = id
      /\ vv.b.id <= c \/ vv.b.id = id
  BY DEF Versions, Slots, UpTo
<1>2. slot \in Slots(V) /\ slot.id = id /\ slot.val = v /\ slot.id # 0
  BY Zenon DEF Slots
<1> HIDE DEF slot
<1>3. CASE WriteSlot(vv, id) = "a"
  <2>1. new = [a |-> slot, b |-> vv.b]
    <3>1. new = [vv EXCEPT !["a"] = slot]
      BY Zenon, <1>3 DEF VvSet, slot
    <3> QED
      BY Zenon, <3>1, PutSlot
  <2>2. vv.b.id # id
    BY Zenon, <1>1, <1>3 DEF WriteSlot, Apart
  <2>3. vv.a.id = id \/ vv.a.id <= vv.b.id
    BY <1>1, <1>3 DEF WriteSlot, Apart
  <2>4. new \in Versions(V) /\ new.a = slot /\ new.b = vv.b
    BY <1>1, <1>2, <2>1 DEF Versions
  <2>5. Apart(new)
    BY Zenon, <1>2, <2>2, <2>4 DEF Apart
  <2>6. UpTo(new, c, id)
    BY Zenon, <1>2, <2>4 DEF UpTo
  <2>7. VvGet(new, id) = v
    <3> HIDE DEF new
    <3>1. ~ (id < vv.b.id) /\ id <= id
      BY <1>1
    <3> QED
      BY Zenon, GetReads, <1>2, <2>4, <2>5, <3>1
  <2>8. ASSUME c < id PROVE VvGet(new, c) = VvGet(vv, c)
    <3> HIDE DEF new
    <3>1. VvGet(new, c) = IF vv.b.id # 0 /\ vv.b.id <= c THEN vv.b.val ELSE NoVal
      <4>1. ~(id <= c)
        BY <2>8
      <4> QED
        BY Zenon, GetReads, <1>2, <2>4, <2>5, <4>1
    <3>2. VvGet(vv, c) = IF vv.b.id # 0 /\ vv.b.id <= c THEN vv.b.val ELSE NoVal
      <4>1. ~ (vv.a.id # 0 /\ vv.a.id <= c /\ ~(vv.b.id <= c /\ vv.a.id < vv.b.id))
        BY <1>1, <2>2, <2>3, <2>8 DEF Apart
      <4> QED
        BY Zenon, GetReads, <4>1
    <3> QED
      BY <3>1, <3>2
  <2> QED
    BY Zenon, <2>4, <2>5, <2>6, <2>7, <2>8
<1>4. CASE WriteSlot(vv, id) = "b"
  <2>1. new = [a |-> vv.a, b |-> slot]
    <3>1. new = [vv EXCEPT !["b"] = slot]
      BY Zenon, <1>4 DEF VvSet, slot
    <3> QED
      BY Zenon, <3>1, PutSlot
  <2>2. vv.a.id # id
    BY Zenon, <1>1, <1>4 DEF WriteSlot
  <2>3. vv.b.id = id \/ vv.b.id < vv.a.id
    BY Zenon, <1>1, <1>4 DEF WriteSlot
  <2>4. new \in Versions(V) /\ new.a = vv.a /\ new.b = slot
    BY <1>1, <1>2, <2>1 DEF Versions
  <2>5. Apart(new)
    BY Zenon, <1>2, <2>2, <2>4 DEF Apart
  <2>6. UpTo(new, c, id)
    BY Zenon, <1>2, <2>4 DEF UpTo
  <2>7. VvGet(new, id) = v
    <3> HIDE DEF new
    <3>1. id <= id /\ vv.a.id < id
      BY <1>1, <2>2
    <3> QED
      BY Zenon, GetReads, <1>2, <2>4, <2>5, <3>1
  <2>8. ASSUME c < id PROVE VvGet(new, c) = VvGet(vv, c)
    <3> HIDE DEF new
    <3>1. ~(id <= c)
      BY <2>8
    <3>2. VvGet(new, c) = IF vv.a.id # 0 /\ vv.a.id <= c THEN vv.a.val ELSE NoVal
      BY Zenon, GetReads, <1>2, <2>4, <2>5, <3>1
    <3>3. VvGet(vv, c) = IF vv.a.id # 0 /\ vv.a.id <= c THEN vv.a.val ELSE NoVal
      <4>1. ~ (vv.b.id <= c /\ vv.a.id < vv.b.id)
        BY <1>1, <2>2, <2>3, <2>8
      <4>2. ~ (vv.a.id # 0 /\ vv.a.id <= c) => ~ (vv.b.id # 0 /\ vv.b.id <= c)
        BY <1>1, <2>2, <2>3, <2>8
      <4> QED
        BY Zenon, GetReads, <4>1, <4>2
    <3> QED
      BY <3>2, <3>3
  <2> QED
    BY Zenon, <2>4, <2>5, <2>6, <2>7, <2>8
<1>5. WriteSlot(vv, id) \in {"a", "b"}
  BY Zenon DEF WriteSlot
<1> QED
  BY Zenon, <1>3, <1>4, <1>5

(* with_mut writes where set would, after a copy that reads the same. *)
LEMMA CloneReads ==
  ASSUME NEW V, NEW vv \in Versions(V), Apart(vv),
         NEW id \in Nat \ {0}, NEW c \in Nat, c <= id, UpTo(vv, c, id), NEW v
  PROVE  /\ VvGet(InternalClone(vv, id), id) = VvGet(vv, id)
         /\ VvSet(InternalClone(vv, id), v, id) = VvSet(vv, v, id)
<1> DEFINE new == InternalClone(vv, id)
           slot == [id |-> id, val |-> v]
<1>1. /\ vv.a \in Slots(V) /\ vv.b \in Slots(V)
      /\ vv.a.id \in Nat /\ vv.b.id \in Nat
      /\ vv.a.id <= id /\ vv.b.id <= id
  BY DEF Versions, Slots, UpTo
<1>2. WriteSlot(vv, id) \in {"a", "b"}
  BY Zenon DEF WriteSlot
<1>3. CASE vv = NoVersions \/ vv[WriteSlot(vv, id)].id = id
  BY Zenon, <1>3 DEF InternalClone
<1>4. CASE vv # NoVersions /\ vv["a"].id # id /\ WriteSlot(vv, id) = "a"
  <2> DEFINE copy == [id |-> id, val |-> vv.b.val]
  <2>1. new = [a |-> copy, b |-> vv.b]
    <3>1. new = [vv EXCEPT !["a"] = copy]
      BY Zenon, <1>4 DEF InternalClone
    <3> QED
      BY Zenon, <3>1, PutSlot
  <2>2. vv.b.id # id /\ vv.a.id <= vv.b.id
    BY <1>1, <1>4 DEF WriteSlot
  <2>3. vv.b.id # 0
    <3> SUFFICES ASSUME vv.b.id = 0 PROVE FALSE
      OBVIOUS
    <3>1. vv.a.id = 0
      BY <1>1, <2>2
    <3> QED
      BY Zenon, <1>4, <3>1, PutSlot DEF Apart, NoVersions
  <2>4. copy \in Slots(V) /\ copy.id = id /\ copy.val = vv.b.val
    BY Zenon, <1>1 DEF Slots
  <2> HIDE DEF copy
  <2>5. new \in Versions(V) /\ new.a = copy /\ new.b = vv.b
    BY <1>1, <2>1, <2>4 DEF Versions
  <2>6. Apart(new)
    <3>1. copy.id # 0
      BY Zenon, <2>4
    <3> QED
      BY Zenon, <2>2, <2>4, <2>5, <3>1 DEF Apart
  <2>7. VvSet(new, v, id) = VvSet(vv, v, id)
    <3>1. WriteSlot(new, id) = "a"
      BY Zenon, <2>4, <2>5 DEF WriteSlot
    <3>2. VvSet(new, v, id) = [new EXCEPT !["a"] = slot]
      BY Zenon, <3>1 DEF VvSet
    <3>3. VvSet(vv, v, id) = [vv EXCEPT !["a"] = slot]
      BY Zenon, <1>4 DEF VvSet
    <3> HIDE DEF slot, new
    <3>4. [new EXCEPT !["a"] = slot] = [a |-> slot, b |-> vv.b]
      BY <2>1
    <3>5. [vv EXCEPT !["a"] = slot] = [a |-> slot, b |-> vv.b]
      BY ZenonT(40), PutSlot
    <3> QED
      BY Zenon, <3>2, <3>3, <3>4, <3>5
  <2>8. VvGet(new, id) = vv.b.val
    <3> HIDE DEF new
    <3>1. ~ (id < vv.b.id) /\ id <= id /\ id # 0
      BY <1>1
    <3> QED
      BY Zenon, GetReads, <2>4, <2>5, <2>6, <3>1
  <2>9. VvGet(vv, id) = vv.b.val
    <3>1. vv.a.id < vv.b.id
      BY <1>1, <2>2, <2>3 DEF Apart
    <3> QED
      BY Zenon, GetReads, <1>1, <2>3, <3>1
  <2> QED
    BY Zenon, <2>7, <2>8, <2>9
<1>5. CASE vv # NoVersions /\ vv["b"].id # id /\ WriteSlot(vv, id) = "b"
  <2> DEFINE copy == [id |-> id, val |-> vv.a.val]
  <2>1. new = [a |-> vv.a, b |-> copy]
    <3>1. new = [vv EXCEPT !["b"] = copy]
      BY Zenon, <1>5 DEF InternalClone
    <3> QED
      BY Zenon, <3>1, PutSlot
  <2>2. vv.a.id # id /\ vv.b.id < vv.a.id
    BY Zenon, <1>1, <1>5 DEF WriteSlot
  <2>3. vv.a.id # 0
    BY <1>1, <2>2
  <2>4. copy \in Slots(V) /\ copy.id = id /\ copy.val = vv.a.val
    BY Zenon, <1>1 DEF Slots
  <2> HIDE DEF copy
  <2>5. new \in Versions(V) /\ new.a = vv.a /\ new.b = copy
    BY <1>1, <2>1, <2>4 DEF Versions
  <2>6. Apart(new)
    <3>1. copy.id # 0
      BY Zenon, <2>4
    <3> QED
      BY Zenon, <2>2, <2>3, <2>4, <2>5, <3>1 DEF Apart
  <2>7. VvSet(new, v, id) = VvSet(vv, v, id)
    <3>1. WriteSlot(new, id) = "b"
      BY Zenon, <2>2, <2>4, <2>5 DEF WriteSlot
    <3>2. VvSet(new, v, id) = [new EXCEPT !["b"] = slot]
      BY Zenon, <3>1 DEF VvSet
    <3>3. VvSet(vv, v, id) = [vv EXCEPT !["b"] = slot]
      BY Zenon, <1>5 DEF VvSet
    <3> HIDE DEF slot, new
    <3>4. [new EXCEPT !["b"] = slot] = [a |-> vv.a, b |-> slot]
      BY <2>1
    <3>5. [vv EXCEPT !["b"] = slot] = [a |-> vv.a, b |-> slot]
      BY Zenon, PutSlot
    <3> QED
      BY Zenon, <3>2, <3>3, <3>4, <3>5
  <2>8. VvGet(new, id) = vv.a.val
    <3> HIDE DEF new
    <3>1. vv.a.id < id /\ id <= id /\ id # 0
      BY <1>1, <2>2
    <3> QED
      BY Zenon, GetReads, <2>4, <2>5, <2>6, <3>1
  <2>9. VvGet(vv, id) = vv.a.val
    <3>1. ~ (vv.a.id < vv.b.id)
      BY <1>1, <2>2
    <3> QED
      BY Zenon, GetReads, <1>1, <2>3, <3>1
  <2> QED
    BY Zenon, <2>7, <2>8, <2>9
<1> QED
  BY Zenon, <1>2, <1>3, <1>4, <1>5

(* gc_txn(id) takes the version of id away and leaves what c sees. *)
LEMMA GcVersion ==
  ASSUME NEW V, NEW vv \in Versions(V), Apart(vv),
         NEW id \in Nat, NEW c \in Nat, c < id, UpTo(vv, c, id)
  PROVE  LET new == VvGc(vv, id)
         IN  /\ new \in Versions(V) /\ Apart(new) /\ UpTo(new, c, c)
             /\ VvGet(new, c) = VvGet(vv, c)
<1> DEFINE new == VvGc(vv, id)
<1>1. /\ vv.a \in Slots(V) /\ vv.b \in Slots(V)
      /\ vv.a.id \in Nat /\ vv.b.id \in Nat
      /\ vv.a.id <= c \/ vv.a.id = id
      /\ vv.b.id <= c \/ vv.b.id = id
  BY DEF Versions, Slots, UpTo
<1>2. NoSlot \in Slots(V) /\ NoSlot.id = 0
  BY Zenon DEF NoSlot, Slots
<1>3. /\ new \in Versions(V)
      /\ new.a = IF vv.a.id = id THEN NoSlot ELSE vv.a
      /\ new.b = IF vv.b.id = id THEN NoSlot ELSE vv.b
  BY Zenon, <1>1, <1>2 DEF VvGc, Versions
<1> HIDE DEF new
<1>4. Apart(new)
  BY Zenon, <1>2, <1>3 DEF Apart
<1>5. UpTo(new, c, c)
  BY <1>1, <1>2, <1>3 DEF UpTo
<1>6. VvGet(new, c) = VvGet(vv, c)
  <2>1. CASE vv.a.id = id
    <3>1. new.a.id = 0 /\ new.b = vv.b /\ ~ (vv.a.id <= c)
      BY <1>1, <1>2, <1>3, <2>1 DEF Apart
    <3> QED
      BY Zenon, <3>1, GetReads, <1>3, <1>4
  <2>2. CASE vv.b.id = id
    <3>1. new.b.id = 0 /\ new.a = vv.a /\ ~ (vv.b.id <= c) /\ ~ (vv.a.id < 0)
      BY <1>1, <1>2, <1>3, <2>2 DEF Apart
    <3> QED
      BY Zenon, <3>1, GetReads, <1>3, <1>4
  <2>3. CASE vv.a.id # id /\ vv.b.id # id
    <3>1. new = vv
      BY <1>3, <2>3 DEF Versions
    <3> QED
      BY Zenon, <3>1
  <2> QED
    BY Zenon, <2>1, <2>2, <2>3
<1> QED
  BY Zenon, <1>3, <1>4, <1>5, <1>6 DEF new

(* A new value, and no value. *)
LEMMA NewVersion ==
  ASSUME NEW V, NEW v \in V, NEW id \in Nat \ {0}, NEW c \in Nat
  PROVE  /\ VvNew(v, id) \in Versions(V) /\ Apart(VvNew(v, id)) /\ UpTo(VvNew(v, id), c, id)
         /\ VvNew(v, id) # NoVersions
         /\ \A i \in Nat : VvGet(VvNew(v, id), i) = IF id <= i THEN v ELSE NoVal
<1> DEFINE new == VvNew(v, id)
<1>1. /\ new \in Versions(V) /\ new.a.id = id /\ new.a.val = v /\ new.b = NoSlot
      /\ new.b.id = 0 /\ NoVersions.a.id = 0
  BY Zenon DEF VvNew, Versions, Slots, NoSlot, NoVersions
<1> HIDE DEF new
<1>2. Apart(new) /\ UpTo(new, c, id) /\ new # NoVersions
  BY <1>1 DEF Apart, UpTo
<1>3. ASSUME NEW i \in Nat PROVE VvGet(new, i) = IF id <= i THEN v ELSE NoVal
  <2>1. ~ (id < 0) /\ id # 0
    OBVIOUS
  <2> QED
    BY Zenon, <1>1, <1>2, <2>1, GetReads
<1> QED
  BY Zenon, <1>1, <1>2, <1>3 DEF new

(* An entry without versions reads as nothing. *)
LEMMA NoVersion ==
  ASSUME NEW V, NEW c \in Nat, NEW id \in Nat
  PROVE  /\ NoVersions \in Versions(V) /\ Apart(NoVersions) /\ UpTo(NoVersions, c, id)
         /\ VvGet(NoVersions, id) = NoVal
<1>1. /\ NoVersions \in Versions(V) /\ Apart(NoVersions) /\ UpTo(NoVersions, c, id)
      /\ NoVersions.a.id = 0 /\ NoVersions.b.id = 0
  BY DEF NoVersions, Versions, Slots, NoSlot, Apart, UpTo
<1> QED
  BY Zenon, <1>1, GetReads

-----------------------------------------------------------------------------
(* Tables.  c is the last committed transaction and id the acting one: it  *)
(* is c itself for a raw operation, and later than c for a transaction.    *)

Masks(K, V) ==
  [kind : {"none", "all", "some"}, id : Nat, rows : [K -> Versions(V)], removed : SUBSET K]
Mutations(K) == [id : Nat, keys : SUBSET K]
Tables(K, V) ==
  [owner : Owners \cup {NoOwner}, data : [K -> Versions(V)], mask : Masks(K, V),
   modified : Mutations(K)]

(* The data holds versions up to c, and of id where that is recorded. *)
DataOK(data, keys, K, c, id) ==
  \A k \in K : /\ Apart(data[k]) /\ UpTo(data[k], c, id)
               /\ k \notin keys => UpTo(data[k], c, c)

(* A mask belongs to the transaction; its rows are new ones, and what it   *)
(* removes is there.                                                       *)
MaskOK(mask, data, K, V, c, id) ==
  /\ mask.kind = "none" => mask = NoMask(K)
  /\ mask.kind # "none" => c < id /\ mask.id = id
  /\ mask.kind # "some" => mask.removed = {}
  /\ \A k \in K : mask.rows[k] = NoVersions \/ \E v \in V : mask.rows[k] = VvNew(v, id)
  /\ \A k \in mask.removed : VvGet(data[k], id) # NoVal

TableOK(t, K, V, c, id) ==
  /\ t \in Tables(K, V)
  /\ DataOK(t.data, t.modified.keys, K, c, id)
  /\ MaskOK(t.mask, t.data, K, V, c, id)
  /\ t.modified # NoMutations => c < id /\ t.modified.id = id

(* What id sees of a table, and what is committed of it. *)
ViewOf(t, K, id) == [k \in K |-> GetFromTable(t, k, id)]
Committed(t, K, c) == [k \in K |-> VvGet(t.data[k], c)]

(* t became u: the acting transaction sees view, and a transaction leaves  *)
(* what is committed alone.                                                *)
Becomes(t, u, view, K, V, c, id) ==
  /\ TableOK(u, K, V, c, id)
  /\ ViewOf(u, K, id) = view
  /\ c < id => Committed(u, K, c) = Committed(t, K, c)

Acting(V, c, id) == NoVal \notin V /\ c \in Nat \ {0} /\ id \in Nat \ {0} /\ c <= id

(* The fields of a table and of its mask. *)
LEMMA TableFields ==
  ASSUME NEW K, NEW V, NEW t \in Tables(K, V)
  PROVE  /\ t.data \in [K -> Versions(V)] /\ t.mask \in Masks(K, V)
         /\ t.modified \in Mutations(K) /\ t.modified.keys \in SUBSET K /\ t.modified.id \in Nat
         /\ t.mask.rows \in [K -> Versions(V)] /\ t.mask.removed \in SUBSET K
         /\ t.mask.kind \in {"none", "all", "some"} /\ t.mask.id \in Nat
         /\ \A k \in K : t.data[k] \in Versions(V) /\ t.mask.rows[k] \in Versions(V)
         /\ DOMAIN t.data = K /\ DOMAIN t.mask.rows = K
<1>1. t.data \in [K -> Versions(V)] /\ t.mask \in Masks(K, V) /\ t.modified \in Mutations(K)
  BY Zenon DEF Tables
<1>2. t.modified.keys \in SUBSET K /\ t.modified.id \in Nat
  BY Zenon, <1>1 DEF Mutations
<1>3. /\ t.mask.rows \in [K -> Versions(V)] /\ t.mask.removed \in SUBSET K
      /\ t.mask.kind \in {"none", "all", "some"} /\ t.mask.id \in Nat
  BY Zenon, <1>1 DEF Masks
<1> QED
  BY Zenon, <1>1, <1>2, <1>3

(* How id reads a row. *)
LEMMA TableGet ==
  ASSUME NEW K, NEW V, NEW c, NEW id, Acting(V, c, id),
         NEW t, TableOK(t, K, V, c, id), NEW k \in K
  PROVE  /\ GetFromTable(t, k, id) =
              IF t.mask.kind = "all" THEN VvGet(t.mask.rows[k], id)
              ELSE IF k \in t.mask.removed THEN NoVal ELSE VvGet(t.data[k], id)
         /\ t.mask.kind = "all" => (MaskGet(t.mask, k, id) = IF t.mask.rows[k] = NoVersions
                                                            THEN "removed" ELSE "overwritten")
         /\ t.mask.kind # "all" => (MaskGet(t.mask, k, id) = IF k \in t.mask.removed
                                                            THEN "removed" ELSE "unknown")
         /\ GetFromTable(t, k, id) \in V \cup {NoVal}
<1>1. t \in Tables(K, V) /\ MaskOK(t.mask, t.data, K, V, c, id) /\ id \in Nat \ {0} /\ NoVal \notin V
  BY Zenon DEF TableOK, Acting
<1>2. /\ t.mask.kind \in {"none", "all", "some"}
      /\ t.data[k] \in Versions(V) /\ t.mask.rows[k] \in Versions(V)
  BY Zenon, <1>1, TableFields
<1>3. CASE t.mask.kind = "all"
  <2>1. t.mask.id = id
    BY Zenon, <1>1, <1>3 DEF MaskOK
  <2>2. CASE t.mask.rows[k] = NoVersions
    <3>1. MaskGet(t.mask, k, id) = "removed"
      BY Zenon, <1>3, <2>1, <2>2 DEF MaskGet
    <3>2. GetFromTable(t, k, id) = NoVal /\ VvGet(t.mask.rows[k], id) = NoVal
      BY Zenon, <1>1, <2>2, <3>1, NoVersion DEF GetFromTable
    <3> QED
      BY Zenon, <1>3, <2>2, <3>1, <3>2
  <2>3. CASE t.mask.rows[k] # NoVersions
    <3>1. PICK v \in V : t.mask.rows[k] = VvNew(v, id)
      BY Zenon, <1>1, <2>3 DEF MaskOK
    <3>2. id <= id
      BY <1>1
    <3>3. VvGet(t.mask.rows[k], id) = v /\ v # NoVal
      BY Zenon, <1>1, <3>1, <3>2, NewVersion
    <3>4. MaskGet(t.mask, k, id) = "overwritten"
      BY Zenon, <1>3, <2>1, <2>3, <3>3 DEF MaskGet
    <3>5. GetFromTable(t, k, id) = VvGet(t.mask.rows[k], id)
      BY Zenon, <3>4 DEF GetFromTable
    <3> QED
      BY Zenon, <1>3, <2>3, <3>3, <3>4, <3>5
  <2> QED
    BY Zenon, <2>2, <2>3
<1>4. CASE t.mask.kind # "all"
  <2>1. MaskGet(t.mask, k, id) = IF k \in t.mask.removed THEN "removed" ELSE "unknown"
    <3>1. CASE t.mask.kind = "none"
      BY Zenon, <1>1, <3>1 DEF MaskOK, MaskGet
    <3>2. CASE t.mask.kind = "some"
      BY Zenon, <1>1, <3>2 DEF MaskOK, MaskGet
    <3> QED
      BY Zenon, <1>2, <1>4, <3>1, <3>2
  <2>2. VvGet(t.data[k], id) \in V \cup {NoVal}
    BY Zenon, <1>1, <1>2, GetType
  <2>3. CASE k \in t.mask.removed
    BY Zenon, <1>4, <2>1, <2>3 DEF GetFromTable
  <2>4. CASE k \notin t.mask.removed
    BY Zenon, <1>4, <2>1, <2>2, <2>4 DEF GetFromTable
  <2> QED
    BY Zenon, <2>3, <2>4
<1> QED
  BY Zenon, <1>3, <1>4

(* The same for each kind of mask. *)
LEMMA GetCleared ==
  ASSUME NEW K, NEW V, NEW c, NEW id, Acting(V, c, id),
         NEW t, TableOK(t, K, V, c, id), t.mask.kind = "all", NEW k \in K
  PROVE  GetFromTable(t, k, id) = VvGet(t.mask.rows[k], id)
BY SMTT(60), TableGet

(* A table that is not cleared is read through its data. *)
LEMMA GetRemoved ==
  ASSUME NEW K, NEW V, NEW c, NEW id, Acting(V, c, id),
         NEW t, TableOK(t, K, V, c, id), t.mask.kind # "all", NEW k \in K
  PROVE  /\ k \in t.mask.removed => GetFromTable(t, k, id) = NoVal
         /\ k \notin t.mask.removed => GetFromTable(t, k, id) = VvGet(t.data[k], id)
BY TableGet

(* What the data holds of a row. *)
LEMMA DataRow ==
  ASSUME NEW data, NEW keys, NEW K, NEW c, NEW id, DataOK(data, keys, K, c, id), NEW k \in K
  PROVE  Apart(data[k]) /\ UpTo(data[k], c, id) /\ (k \notin keys => UpTo(data[k], c, c))
BY Zenon DEF DataOK

(* A row is set in the data, and in a mask. *)
WithRow(data, k, vv) == [data EXCEPT ![k] = vv]
MaskWithRow(mask, k, vv) == [mask EXCEPT !.rows[k] = vv]

(* A change of the rows of a mask that clears the table. *)
LEMMA MaskedRowBecomes ==
  ASSUME NEW K, NEW V, NEW c, NEW id, Acting(V, c, id),
         NEW t, TableOK(t, K, V, c, id), t.mask.kind = "all", NEW k \in K,
         NEW vv, vv = NoVersions \/ \E v \in V : vv = VvNew(v, id),
         NEW m \in Mutations(K), t.modified.keys \subseteq m.keys,
         m # NoMutations => m.id = id,
         NEW u, u \in Tables(K, V), u.data = t.data, u.modified = m,
         u.mask = MaskWithRow(t.mask, k, vv)
  PROVE  Becomes(t, u, WithRow(ViewOf(t, K, id), k, VvGet(vv, id)), K, V, c, id)
<1>1. /\ t \in Tables(K, V) /\ c < id
      /\ DataOK(t.data, t.modified.keys, K, c, id)
      /\ MaskOK(t.mask, t.data, K, V, c, id)
  BY Zenon DEF TableOK, MaskOK
<1>2. t.mask \in Masks(K, V) /\ t.mask.rows \in [K -> Versions(V)]
  BY Zenon, <1>1, TableFields
<1>3. /\ u.mask.kind = "all" /\ u.mask.id = t.mask.id /\ u.mask.removed = t.mask.removed
      /\ u.mask.rows = [t.mask.rows EXCEPT ![k] = vv]
  BY Zenon, <1>2 DEF Masks, MaskWithRow
<1>4. \A j \in K : u.mask.rows[j] = IF j = k THEN vv ELSE t.mask.rows[j]
  BY Zenon, <1>2, <1>3
<1>5. DataOK(u.data, u.modified.keys, K, c, id)
  BY Zenon, <1>1 DEF DataOK
<1>6. MaskOK(u.mask, u.data, K, V, c, id)
  BY ZenonT(40), <1>1, <1>3, <1>4 DEF MaskOK
<1>7. TableOK(u, K, V, c, id)
  BY Zenon, <1>1, <1>5, <1>6 DEF TableOK
<1>8. \A j \in K : GetFromTable(u, j, id) = IF j = k THEN VvGet(vv, id) ELSE GetFromTable(t, j, id)
  <2> SUFFICES ASSUME NEW j \in K
               PROVE  GetFromTable(u, j, id) = IF j = k THEN VvGet(vv, id) ELSE GetFromTable(t, j, id)
    BY Zenon
  <2>0. u.mask.kind = "all"
    BY Zenon, <1>3
  <2>1. GetFromTable(u, j, id) = VvGet(u.mask.rows[j], id)
    BY SMT, <1>7, <2>0, GetCleared
  <2>2. GetFromTable(t, j, id) = VvGet(t.mask.rows[j], id)
    BY GetCleared
  <2>3. CASE j = k
    BY Zenon, <1>4, <2>1, <2>3
  <2>4. CASE j # k
    BY Zenon, <1>4, <2>1, <2>2, <2>4
  <2> QED
    BY Zenon, <2>3, <2>4
<1>9. ViewOf(u, K, id) = WithRow(ViewOf(t, K, id), k, VvGet(vv, id))
  BY Zenon, <1>8 DEF ViewOf, WithRow
<1>10. Committed(u, K, c) = Committed(t, K, c)
  BY Zenon DEF Committed
<1> QED
  BY Zenon, <1>7, <1>9, <1>10 DEF Becomes

(* A row of the data is set to v for id, and no mask hides it any more. *)
LEMMA DataRowBecomes ==
  ASSUME NEW K, NEW V, NEW c, NEW id, Acting(V, c, id),
         NEW t, TableOK(t, K, V, c, id), t.mask.kind # "all", NEW k \in K, NEW v \in V,
         NEW u, u \in Tables(K, V), u.data = WithRow(t.data, k, VvSet(t.data[k], v, id)),
         u.modified = RecordMutation(t.modified, k, id, c),
         u.mask = MaskInsert(t.mask, k, v, id)
  PROVE  Becomes(t, u, WithRow(ViewOf(t, K, id), k, v), K, V, c, id)
<1>1. /\ t \in Tables(K, V) /\ c \in Nat \ {0} /\ id \in Nat \ {0} /\ c <= id
      /\ DataOK(t.data, t.modified.keys, K, c, id)
      /\ MaskOK(t.mask, t.data, K, V, c, id)
  BY Zenon DEF TableOK, Acting
<1>2. /\ t.mask \in Masks(K, V) /\ t.mask.kind \in {"none", "all", "some"}
      /\ t.data \in [K -> Versions(V)] /\ \A j \in K : t.data[j] \in Versions(V)
      /\ t.modified \in Mutations(K)
  BY Zenon, <1>1, TableFields
<1>3. /\ u.mask.kind = t.mask.kind /\ u.mask.id = t.mask.id /\ u.mask.rows = t.mask.rows
      /\ u.mask.removed = t.mask.removed \ {k}
      /\ t.mask.kind = "none" => u.mask = t.mask
  <2>1. CASE t.mask.kind = "some"
    <3>1. u.mask = [t.mask EXCEPT !.removed = @ \ {k}]
      BY Zenon, <2>1 DEF MaskInsert
    <3> QED
      BY Zenon, <1>2, <2>1, <3>1 DEF Masks
  <2>2. CASE t.mask.kind = "none"
    <3>1. u.mask = t.mask /\ t.mask.removed = {}
      BY Zenon, <1>1, <2>2 DEF MaskOK, MaskInsert
    <3> QED
      BY Zenon, <2>2, <3>1
  <2> QED
    BY Zenon, <1>2, <2>1, <2>2
<1>4. \A j \in K : u.data[j] = IF j = k THEN VvSet(t.data[k], v, id) ELSE t.data[j]
  BY Zenon, <1>2 DEF WithRow
<1>5. \A j \in K : Apart(t.data[j]) /\ UpTo(t.data[j], c, id)
  BY Zenon, <1>1, DataRow
<1> DEFINE new == VvSet(t.data[k], v, id)
<1>6. /\ new \in Versions(V) /\ Apart(new) /\ UpTo(new, c, id) /\ VvGet(new, id) = v
      /\ c < id => VvGet(new, c) = VvGet(t.data[k], c)
  BY <1>1, <1>2, <1>5, SetVersion
<1> HIDE DEF new
<1>7. /\ t.modified.keys \subseteq u.modified.keys
      /\ c < id => k \in u.modified.keys
      /\ u.modified # NoMutations => c < id /\ u.modified.id = id
  <2>1. CASE id = c
    BY <1>1, <2>1 DEF RecordMutation, TableOK
  <2>2. CASE id # c
    BY <1>1, <2>2 DEF RecordMutation
  <2> QED
    BY Zenon, <2>1, <2>2
<1>8. DataOK(u.data, u.modified.keys, K, c, id)
  <2> SUFFICES ASSUME NEW j \in K
               PROVE  /\ Apart(u.data[j]) /\ UpTo(u.data[j], c, id)
                      /\ j \notin u.modified.keys => UpTo(u.data[j], c, c)
    BY Zenon DEF DataOK
  <2>1. CASE j = k
    <3>1. id = c \/ c < id
      BY <1>1
    <3> QED
      BY Zenon, <1>4, <1>6, <1>7, <2>1, <3>1 DEF new
  <2>2. CASE j # k
    <3>1. u.data[j] = t.data[j]
      BY Zenon, <1>4, <2>2
    <3>2. Apart(t.data[j]) /\ UpTo(t.data[j], c, id) /\ (j \notin t.modified.keys => UpTo(t.data[j], c, c))
      BY Zenon, <1>1, DataRow
    <3> QED
      BY Zenon, <1>7, <3>1, <3>2
  <2> QED
    BY Zenon, <2>1, <2>2
<1>9. MaskOK(u.mask, u.data, K, V, c, id)
  <2>1. \A j \in u.mask.removed : j \in K /\ j # k /\ j \in t.mask.removed
    BY Zenon, <1>1, <1>3, TableFields
  <2>2. \A j \in u.mask.removed : VvGet(u.data[j], id) # NoVal
    BY Zenon, <1>1, <1>4, <2>1 DEF MaskOK
  <2>3. u.mask.kind = "none" => u.mask = NoMask(K)
    BY Zenon, <1>1, <1>3 DEF MaskOK
  <2>4. u.mask.kind # "some" => u.mask.removed = {}
    BY Zenon, <1>1, <1>3 DEF MaskOK
  <2> QED
    BY Zenon, <1>1, <1>3, <2>2, <2>3, <2>4 DEF MaskOK
<1>10. TableOK(u, K, V, c, id)
  BY Zenon, <1>7, <1>8, <1>9 DEF TableOK
<1>11. \A j \in K : GetFromTable(u, j, id) = IF j = k THEN v ELSE GetFromTable(t, j, id)
  <2> SUFFICES ASSUME NEW j \in K
               PROVE  GetFromTable(u, j, id) = IF j = k THEN v ELSE GetFromTable(t, j, id)
    BY Zenon
  <2>1. /\ j \in u.mask.removed => GetFromTable(u, j, id) = NoVal
        /\ j \notin u.mask.removed => GetFromTable(u, j, id) = VvGet(u.data[j], id)
    BY <1>3, <1>10, GetRemoved
  <2>2. /\ j \in t.mask.removed => GetFromTable(t, j, id) = NoVal
        /\ j \notin t.mask.removed => GetFromTable(t, j, id) = VvGet(t.data[j], id)
    BY GetRemoved
  <2>3. CASE j = k
    BY Zenon, <1>3, <1>4, <1>6, <2>1, <2>3 DEF new
  <2>4. CASE j # k
    BY Zenon, <1>3, <1>4, <2>1, <2>2, <2>4
  <2> QED
    BY Zenon, <2>3, <2>4
<1>12. ViewOf(u, K, id) = WithRow(ViewOf(t, K, id), k, v)
  BY Zenon, <1>11 DEF ViewOf, WithRow
<1>13. c < id => Committed(u, K, c) = Committed(t, K, c)
  BY Zenon, <1>4, <1>6 DEF Committed, new
<1> QED
  BY Zenon, <1>10, <1>12, <1>13 DEF Becomes

(* A mask with a new row, and one that removes a key. *)
LEMMA MaskEdits ==
  ASSUME NEW K, NEW V, NEW mask \in Masks(K, V), NEW k \in K, NEW id \in Nat,
         NEW vv \in Versions(V), NEW R \in SUBSET K
  PROVE  /\ MaskWithRow(mask, k, vv) \in Masks(K, V)
         /\ [mask EXCEPT !.removed = R] \in Masks(K, V)
         /\ [mask EXCEPT !.kind = "some", !.id = id, !.removed = R] \in Masks(K, V)
BY Zenon DEF MaskWithRow, Masks

(* insert(k, v) makes v the row of k. *)
LEMMA PutRowBecomes ==
  ASSUME NEW K, NEW V, NEW c, NEW id, Acting(V, c, id),
         NEW t, TableOK(t, K, V, c, id), NEW k \in K, NEW v \in V
  PROVE  Becomes(t, PutRow(t, k, v, id, c), WithRow(ViewOf(t, K, id), k, v), K, V, c, id)
<1> DEFINE u == PutRow(t, k, v, id, c)
<1>1. /\ t \in Tables(K, V) /\ c \in Nat \ {0} /\ id \in Nat \ {0} /\ c <= id
      /\ DataOK(t.data, t.modified.keys, K, c, id)
      /\ t.modified # NoMutations => t.modified.id = id
  BY Zenon DEF TableOK, Acting
<1>2. /\ t.mask \in Masks(K, V) /\ t.mask.kind \in {"none", "all", "some"}
      /\ t.data \in [K -> Versions(V)] /\ t.data[k] \in Versions(V)
      /\ t.modified \in Mutations(K) /\ t.modified.keys \in SUBSET K
      /\ t.mask.removed \in SUBSET K
  BY Zenon, <1>1, TableFields
<1>3. /\ VvNew(v, id) \in Versions(V) /\ VvGet(VvNew(v, id), id) = v
  <2>1. id <= id /\ id \in Nat
    BY <1>1
  <2> QED
    BY Zenon, <1>1, <2>1, NewVersion
<1>4. CASE t.mask.kind = "all"
  <2>1. u = [t EXCEPT !.mask = MaskWithRow(t.mask, k, VvNew(v, id))]
    BY Zenon, <1>4 DEF PutRow, MaskInsert, MaskWithRow
  <2>2. MaskWithRow(t.mask, k, VvNew(v, id)) \in Masks(K, V)
    BY Zenon, <1>1, <1>2, <1>3, MaskEdits
  <2> HIDE DEF u
  <2>3. /\ u \in Tables(K, V) /\ u.data = t.data /\ u.modified = t.modified
        /\ u.mask = MaskWithRow(t.mask, k, VvNew(v, id))
    BY Zenon, <1>1, <2>1, <2>2 DEF Tables
  <2>4. Becomes(t, u, WithRow(ViewOf(t, K, id), k, VvGet(VvNew(v, id), id)), K, V, c, id)
    BY Zenon, <1>1, <1>2, <1>4, <2>3, MaskedRowBecomes
  <2> QED
    BY Zenon, <1>3, <2>4 DEF u
<1>5. CASE t.mask.kind # "all"
  <2> DEFINE new == VvSet(t.data[k], v, id)
             m == RecordMutation(t.modified, k, id, c)
             mask == MaskInsert(t.mask, k, v, id)
  <2>1. u = [t EXCEPT !.mask = mask, !.modified = m, !.data = WithRow(t.data, k, new)]
    BY Zenon, <1>5 DEF PutRow, WithRow
  <2>2. new \in Versions(V)
    <3>1. Apart(t.data[k]) /\ UpTo(t.data[k], c, id) /\ c \in Nat
      BY Zenon, <1>1, DataRow
    <3> QED
      BY Zenon, <1>1, <1>2, <3>1, SetVersion
  <2>3. WithRow(t.data, k, new) \in [K -> Versions(V)]
    BY Zenon, <1>2, <2>2 DEF WithRow
  <2>4. m \in Mutations(K)
    BY Zenon, <1>1, <1>2 DEF RecordMutation, Mutations
  <2>5. mask \in Masks(K, V)
    BY Zenon, <1>2, <1>5 DEF MaskInsert, Masks
  <2> HIDE DEF u, m, mask, new
  <2>6. /\ u \in Tables(K, V) /\ u.data = WithRow(t.data, k, new) /\ u.modified = m
        /\ u.mask = mask
    BY Zenon, <1>1, <2>1, <2>3, <2>4, <2>5 DEF Tables
  <2> QED
    BY Zenon, <1>5, <2>6, DataRowBecomes DEF m, mask, new, u
<1> QED
  BY Zenon, <1>4, <1>5

(* A raw operation finds neither a mask nor a list of mutations. *)
LEMMA RawUnmasked ==
  ASSUME NEW K, NEW V, NEW c \in Nat, NEW t, TableOK(t, K, V, c, c)
  PROVE  t.mask = NoMask(K) /\ t.mask.kind = "none" /\ t.mask.removed = {} /\ t.modified = NoMutations
<1>1. ~ (c < c)
  OBVIOUS
<1>2. t.mask.kind = "none" /\ t.mask = NoMask(K) /\ t.modified = NoMutations
  BY Zenon, <1>1 DEF TableOK, MaskOK
<1> QED
  BY <1>2 DEF NoMask

(* The row that is not there is not seen. *)
LEMMA Unmasked ==
  ASSUME NEW K, NEW V, NEW c, NEW id, Acting(V, c, id),
         NEW t, TableOK(t, K, V, c, id), t.mask.removed = {}, t.mask.kind # "all", NEW k \in K
  PROVE  GetFromTable(t, k, id) = VvGet(t.data[k], id)
<1>1. k \notin t.mask.removed
  OBVIOUS
<1> QED
  BY <1>1, GetRemoved

(* remove(k) hides the row of k. *)
LEMMA DropRowBecomes ==
  ASSUME NEW K, NEW V, NEW c, NEW id, Acting(V, c, id),
         NEW t, TableOK(t, K, V, c, id), NEW k \in K
  PROVE  Becomes(t, DropRow(t, k, id, c), WithRow(ViewOf(t, K, id), k, NoVal), K, V, c, id)
<1> DEFINE u == DropRow(t, k, id, c)
<1>1. /\ t \in Tables(K, V) /\ c \in Nat \ {0} /\ id \in Nat \ {0} /\ c <= id
      /\ DataOK(t.data, t.modified.keys, K, c, id)
      /\ MaskOK(t.mask, t.data, K, V, c, id)
      /\ t.modified # NoMutations => c < id /\ t.modified.id = id
  BY Zenon DEF TableOK, Acting
<1>2. /\ t.mask \in Masks(K, V) /\ t.mask.kind \in {"none", "all", "some"}
      /\ t.data \in [K -> Versions(V)] /\ t.data[k] \in Versions(V)
      /\ t.modified \in Mutations(K) /\ t.mask.removed \in SUBSET K
  BY Zenon, <1>1, TableFields
<1>3. /\ NoVersions \in Versions(V) /\ Apart(NoVersions) /\ VvGet(NoVersions, id) = NoVal
      /\ UpTo(NoVersions, c, id) /\ UpTo(NoVersions, c, c)
  BY Zenon, <1>1, NoVersion
<1>4. CASE id = c
  <2>1. u = [t EXCEPT !.data = WithRow(t.data, k, NoVersions)]
    BY Zenon, <1>4 DEF DropRow, WithRow
  <2>2. WithRow(t.data, k, NoVersions) \in [K -> Versions(V)]
    BY Zenon, <1>2, <1>3 DEF WithRow
  <2> HIDE DEF u
  <2>3. /\ u \in Tables(K, V) /\ u.data = WithRow(t.data, k, NoVersions)
        /\ u.mask = t.mask /\ u.modified = t.modified
    BY Zenon, <1>1, <2>1, <2>2 DEF Tables
  <2>4. \A j \in K : u.data[j] = IF j = k THEN NoVersions ELSE t.data[j]
    BY Zenon, <1>2, <2>3 DEF WithRow
  <2>5. t.mask.kind = "none" /\ t.mask.removed = {}
    <3>1. TableOK(t, K, V, c, c) /\ c \in Nat
      BY Zenon, <1>1, <1>4
    <3> QED
      BY Zenon, <3>1, RawUnmasked
  <2>6. DataOK(u.data, u.modified.keys, K, c, id)
    <3> SUFFICES ASSUME NEW j \in K
                 PROVE  /\ Apart(u.data[j]) /\ UpTo(u.data[j], c, id)
                        /\ j \notin u.modified.keys => UpTo(u.data[j], c, c)
      BY Zenon DEF DataOK
    <3>1. CASE j = k
      BY Zenon, <1>3, <2>4, <3>1
    <3>2. CASE j # k
      <4>1. Apart(t.data[j]) /\ UpTo(t.data[j], c, id)
            /\ (j \notin t.modified.keys => UpTo(t.data[j], c, c))
        BY Zenon, <1>1, DataRow
      <4>2. u.data[j] = t.data[j] /\ u.modified = t.modified
        BY Zenon, <2>3, <2>4, <3>2
      <4> QED
        BY Zenon, <4>1, <4>2
    <3> QED
      BY Zenon, <3>1, <3>2
  <2>7. MaskOK(u.mask, u.data, K, V, c, id)
    BY Zenon, <1>1, <2>3, <2>5 DEF MaskOK
  <2>8. TableOK(u, K, V, c, id)
    BY Zenon, <1>1, <2>3, <2>6, <2>7 DEF TableOK
  <2>9. \A j \in K : GetFromTable(u, j, id) = IF j = k THEN NoVal ELSE GetFromTable(t, j, id)
    <3> SUFFICES ASSUME NEW j \in K
                 PROVE  GetFromTable(u, j, id) = IF j = k THEN NoVal ELSE GetFromTable(t, j, id)
      BY Zenon
    <3>0. u.mask.removed = {} /\ u.mask.kind # "all" /\ t.mask.kind # "all"
      BY Zenon, <2>3, <2>5
    <3>1. GetFromTable(u, j, id) = VvGet(u.data[j], id)
      BY <2>8, <3>0, Unmasked
    <3>2. GetFromTable(t, j, id) = VvGet(t.data[j], id)
      BY <2>5, <3>0, Unmasked
    <3> QED
      BY Zenon, <1>3, <2>4, <3>1, <3>2
  <2>10. ViewOf(u, K, id) = WithRow(ViewOf(t, K, id), k, NoVal)
    BY Zenon, <2>9 DEF ViewOf, WithRow
  <2>11. ~ (c < id)
    BY <1>1, <1>4
  <2> QED
    BY Zenon, <2>8, <2>10, <2>11 DEF Becomes, u
<1>5. CASE id # c /\ t.mask.kind = "all"
  <2>1. u = [t EXCEPT !.mask = MaskWithRow(t.mask, k, NoVersions)]
    BY Zenon, <1>5 DEF DropRow, MaskRemove, MaskWithRow
  <2>2. MaskWithRow(t.mask, k, NoVersions) \in Masks(K, V)
    BY Zenon, <1>1, <1>2, <1>3, MaskEdits
  <2> HIDE DEF u
  <2>3. /\ u \in Tables(K, V) /\ u.data = t.data /\ u.modified = t.modified
        /\ u.mask = MaskWithRow(t.mask, k, NoVersions)
    BY Zenon, <1>1, <2>1, <2>2 DEF Tables
  <2>4. Becomes(t, u, WithRow(ViewOf(t, K, id), k, VvGet(NoVersions, id)), K, V, c, id)
    BY Zenon, <1>1, <1>2, <1>5, <2>3, MaskedRowBecomes
  <2> QED
    BY Zenon, <1>3, <2>4 DEF u
<1>6. CASE id # c /\ t.mask.kind # "all" /\ VvGet(t.data[k], id) # NoVal
  <2> DEFINE mask == [t.mask EXCEPT !.kind = "some", !.id = id, !.removed = t.mask.removed \cup {k}]
  <2>1. u = [t EXCEPT !.mask = mask]
    BY Zenon, <1>6 DEF DropRow, MaskRemove
  <2>2. /\ mask \in Masks(K, V) /\ mask.kind = "some" /\ mask.id = id /\ mask.rows = t.mask.rows
        /\ mask.removed = t.mask.removed \cup {k}
    BY Zenon, <1>1, <1>2 DEF Masks
  <2> HIDE DEF u, mask
  <2>3. /\ u \in Tables(K, V) /\ u.data = t.data /\ u.modified = t.modified /\ u.mask = mask
    BY Zenon, <1>1, <2>1, <2>2 DEF Tables
  <2>4. c < id
    BY <1>1, <1>6
  <2>5. MaskOK(u.mask, u.data, K, V, c, id)
    <3>1. \A j \in u.mask.removed : VvGet(u.data[j], id) # NoVal
      BY Zenon, <1>1, <1>6, <2>2, <2>3 DEF MaskOK
    <3>2. u.mask.kind # "none" /\ u.mask.kind = "some"
      BY Zenon, <2>2, <2>3
    <3> QED
      BY Zenon, <1>1, <2>2, <2>3, <2>4, <3>1, <3>2 DEF MaskOK
  <2>6. TableOK(u, K, V, c, id)
    BY Zenon, <1>1, <2>3, <2>5 DEF TableOK
  <2>7. \A j \in K : GetFromTable(u, j, id) = IF j = k THEN NoVal ELSE GetFromTable(t, j, id)
    <3> SUFFICES ASSUME NEW j \in K
                 PROVE  GetFromTable(u, j, id) = IF j = k THEN NoVal ELSE GetFromTable(t, j, id)
      BY Zenon
    <3>0. u.mask.kind # "all"
      BY Zenon, <2>2, <2>3
    <3>1. /\ j \in u.mask.removed => GetFromTable(u, j, id) = NoVal
          /\ j \notin u.mask.removed => GetFromTable(u, j, id) = VvGet(u.data[j], id)
      BY <2>6, <3>0, GetRemoved
    <3>2. /\ j \in t.mask.removed => GetFromTable(t, j, id) = NoVal
          /\ j \notin t.mask.removed => GetFromTable(t, j, id) = VvGet(t.data[j], id)
      BY <1>6, GetRemoved
    <3>3. j \in u.mask.removed <=> j = k \/ j \in t.mask.removed
      BY Zenon, <2>2, <2>3
    <3> QED
      BY Zenon, <2>3, <3>1, <3>2, <3>3
  <2>8. ViewOf(u, K, id) = WithRow(ViewOf(t, K, id), k, NoVal)
    BY Zenon, <2>7 DEF ViewOf, WithRow
  <2>9. Committed(u, K, c) = Committed(t, K, c)
    BY Zenon, <2>3 DEF Committed
  <2> QED
    BY Zenon, <2>6, <2>8, <2>9 DEF Becomes, u
<1>7. CASE id # c /\ t.mask.kind # "all" /\ VvGet(t.data[k], id) = NoVal
  <2>1. u = t
    BY Zenon, <1>1, <1>7 DEF DropRow, MaskRemove, Tables
  <2>2. GetFromTable(t, k, id) = NoVal
    BY Zenon, <1>7, GetRemoved
  <2>3. ViewOf(t, K, id) = WithRow(ViewOf(t, K, id), k, NoVal)
    BY Zenon, <2>2 DEF ViewOf, WithRow
  <2> QED
    BY Zenon, <2>1, <2>3 DEF Becomes
<1> QED
  BY Zenon, <1>4, <1>5, <1>6, <1>7

(* clear() hides every row. *)
LEMMA ClearRowsBecomes ==
  ASSUME NEW K, NEW V, NEW c, NEW id, Acting(V, c, id), NEW t, TableOK(t, K, V, c, id)
  PROVE  Becomes(t, ClearRows(t, id, c), [k \in K |-> NoVal], K, V, c, id)
<1> DEFINE u == ClearRows(t, id, c)
<1>1. /\ t \in Tables(K, V) /\ c \in Nat \ {0} /\ id \in Nat \ {0} /\ c <= id
      /\ DataOK(t.data, t.modified.keys, K, c, id)
      /\ MaskOK(t.mask, t.data, K, V, c, id)
      /\ t.modified # NoMutations => c < id /\ t.modified.id = id
  BY Zenon DEF TableOK, Acting
<1>2. DOMAIN t.data = K /\ DOMAIN t.mask.rows = K
  BY Zenon, <1>1, TableFields
<1>3. /\ NoVersions \in Versions(V) /\ Apart(NoVersions) /\ VvGet(NoVersions, id) = NoVal
      /\ UpTo(NoVersions, c, id) /\ UpTo(NoVersions, c, c)
  BY Zenon, <1>1, NoVersion
<1>4. NoRows(K) \in [K -> Versions(V)] /\ \A k \in K : NoRows(K)[k] = NoVersions
  BY Zenon, <1>3 DEF NoRows
<1>5. CASE id = c
  <2>1. u = [t EXCEPT !.data = NoRows(K)]
    BY Zenon, <1>2, <1>5 DEF ClearRows
  <2> HIDE DEF u
  <2>2. u \in Tables(K, V) /\ u.data = NoRows(K) /\ u.mask = t.mask /\ u.modified = t.modified
    BY Zenon, <1>1, <1>4, <2>1 DEF Tables
  <2>3. t.mask.kind = "none" /\ t.mask.removed = {}
    <3>1. TableOK(t, K, V, c, c) /\ c \in Nat
      BY Zenon, <1>1, <1>5
    <3> QED
      BY Zenon, <3>1, RawUnmasked
  <2>4. DataOK(u.data, u.modified.keys, K, c, id)
    BY Zenon, <1>3, <1>4, <2>2 DEF DataOK
  <2>5. MaskOK(u.mask, u.data, K, V, c, id)
    BY Zenon, <1>1, <2>2, <2>3 DEF MaskOK
  <2>6. TableOK(u, K, V, c, id)
    BY Zenon, <1>1, <2>2, <2>4, <2>5 DEF TableOK
  <2>7. \A k \in K : GetFromTable(u, k, id) = NoVal
    <3> SUFFICES ASSUME NEW k \in K PROVE GetFromTable(u, k, id) = NoVal
      BY Zenon
    <3>1. u.mask.kind # "all" /\ u.mask.removed = {}
      BY Zenon, <2>2, <2>3
    <3>2. GetFromTable(u, k, id) = VvGet(u.data[k], id)
      BY <2>6, <3>1, Unmasked
    <3> QED
      BY Zenon, <1>3, <1>4, <2>2, <3>2
  <2>8. ~ (c < id)
    BY <1>1, <1>5
  <2> QED
    BY Zenon, <2>6, <2>7, <2>8 DEF Becomes, ViewOf, u
<1>6. CASE id # c
  <2> DEFINE mask == [kind |-> "all", id |-> id, rows |-> NoRows(K), removed |-> {}]
  <2>1. u = [t EXCEPT !.mask = mask]
    BY Zenon, <1>2, <1>6 DEF ClearRows, MaskClear
  <2>2. /\ mask \in Masks(K, V) /\ mask.kind = "all" /\ mask.id = id /\ mask.rows = NoRows(K)
        /\ mask.removed = {}
    BY Zenon, <1>1, <1>4 DEF Masks
  <2> HIDE DEF u, mask
  <2>3. u \in Tables(K, V) /\ u.data = t.data /\ u.mask = mask /\ u.modified = t.modified
    BY Zenon, <1>1, <2>1, <2>2 DEF Tables
  <2>4. c < id /\ u.mask.kind # "none" /\ u.mask.kind # "some" /\ u.mask.kind = "all"
    BY <1>1, <1>6, <2>2, <2>3
  <2>5. MaskOK(u.mask, u.data, K, V, c, id)
    BY Zenon, <1>4, <2>2, <2>3, <2>4 DEF MaskOK
  <2>6. TableOK(u, K, V, c, id)
    BY Zenon, <1>1, <2>3, <2>5 DEF TableOK
  <2>7. \A k \in K : GetFromTable(u, k, id) = NoVal
    <3> SUFFICES ASSUME NEW k \in K PROVE GetFromTable(u, k, id) = NoVal
      BY Zenon
    <3>1. GetFromTable(u, k, id) = VvGet(u.mask.rows[k], id)
      BY <2>4, <2>6, GetCleared
    <3> QED
      BY Zenon, <1>3, <1>4, <2>2, <2>3, <3>1
  <2>8. Committed(u, K, c) = Committed(t, K, c)
    BY Zenon, <2>3 DEF Committed
  <2> QED
    BY Zenon, <2>6, <2>7, <2>8 DEF Becomes, ViewOf, u
<1> QED
  BY Zenon, <1>5, <1>6

(* with_mut gives its closure the row that get returns. *)
LEMMA MutableRowGets ==
  ASSUME NEW K, NEW V, NEW c, NEW id, Acting(V, c, id),
         NEW t, TableOK(t, K, V, c, id), NEW k \in K
  PROVE  MutableRow(t, k, id) = GetFromTable(t, k, id)
<1>1. /\ t \in Tables(K, V) /\ c \in Nat /\ id \in Nat \ {0} /\ c <= id
      /\ DataOK(t.data, t.modified.keys, K, c, id)
  BY Zenon DEF TableOK, Acting
<1>2. t.data[k] \in Versions(V) /\ Apart(t.data[k]) /\ UpTo(t.data[k], c, id)
  BY ZenonT(40), <1>1, TableFields, DataRow
<1>3. VvGet(InternalClone(t.data[k], id), id) = VvGet(t.data[k], id)
  BY Zenon, <1>1, <1>2, CloneReads
<1>4. MaskGet(t.mask, k, id) \in {"removed", "overwritten", "unknown"}
  BY TableGet
<1> QED
  BY Zenon, <1>3, <1>4 DEF MutableRow, GetFromTable

(* A row that is seen, and is then stored by with_mut. *)
LEMMA StoreRowBecomes ==
  ASSUME NEW K, NEW V, NEW c, NEW id, Acting(V, c, id),
         NEW t, TableOK(t, K, V, c, id), NEW k \in K, NEW v \in V,
         GetFromTable(t, k, id) # NoVal
  PROVE  /\ Becomes(t, StoreRow(t, k, v, id, c), WithRow(ViewOf(t, K, id), k, v), K, V, c, id)
         /\ StoreRow(t, k, v, id, c).mask.kind = t.mask.kind
<1> DEFINE u == StoreRow(t, k, v, id, c)
           m == RecordMutation(t.modified, k, id, c)
<1>1. /\ t \in Tables(K, V) /\ c \in Nat \ {0} /\ id \in Nat \ {0} /\ c <= id
      /\ DataOK(t.data, t.modified.keys, K, c, id)
      /\ MaskOK(t.mask, t.data, K, V, c, id)
      /\ t.modified # NoMutations => c < id /\ t.modified.id = id
  BY Zenon DEF TableOK, Acting
<1>2. /\ t.mask \in Masks(K, V) /\ t.mask.kind \in {"none", "all", "some"}
      /\ t.data \in [K -> Versions(V)] /\ t.data[k] \in Versions(V)
      /\ t.modified \in Mutations(K) /\ t.modified.keys \in SUBSET K
  BY Zenon, <1>1, TableFields
<1>3. m \in Mutations(K) /\ t.modified.keys \subseteq m.keys
  BY Zenon, <1>1, <1>2 DEF RecordMutation, Mutations
<1>4. CASE t.mask.kind = "all"
  <2>1. c < id /\ m # NoMutations /\ m.id = id
    <3>1. c < id
      BY Zenon, <1>1, <1>4 DEF MaskOK
    <3>2. id # c
      BY <1>1, <3>1
    <3> QED
      BY Zenon, <1>1, <3>1, <3>2 DEF RecordMutation, NoMutations
  <2>2. GetFromTable(t, k, id) = VvGet(t.mask.rows[k], id)
    BY <1>4, GetCleared
  <2>3. t.mask.rows[k] # NoVersions
    BY Zenon, <1>1, <2>2, NoVersion
  <2>4. PICK w \in V : t.mask.rows[k] = VvNew(w, id)
    BY Zenon, <1>1, <2>3 DEF MaskOK
  <2>5. VvGetMut(t.mask.rows[k], id, v) = VvNew(v, id)
    <3>1. ReadSlot(VvNew(w, id), id) = "a"
      BY <1>1 DEF ReadSlot, Visible, VvNew, NoSlot
    <3>2. VvGetMut(VvNew(w, id), id, v) = [VvNew(w, id) EXCEPT !["a"].val = v]
      BY Zenon, <3>1 DEF VvGetMut
    <3>3. ASSUME NEW n, n = [VvNew(w, id) EXCEPT !["a"].val = v]
          PROVE  n = VvNew(v, id)
      BY Zenon, <3>3 DEF VvNew
    <3> QED
      BY Zenon, <2>4, <3>2, <3>3
  <2>6. MaskGet(t.mask, k, id) = "overwritten"
    BY <1>4, <2>3, TableGet
  <2> DEFINE mask == MaskWithRow(t.mask, k, VvNew(v, id))
  <2>7. u = [t EXCEPT !.mask = mask, !.modified = m]
    BY Zenon, <1>1, <1>2, <2>5, <2>6 DEF StoreRow, MaskWithRow, Tables, Masks
  <2>8. VvNew(v, id) \in Versions(V) /\ VvGet(VvNew(v, id), id) = v
    <3>1. id <= id /\ id \in Nat
      BY <1>1
    <3> QED
      BY Zenon, <1>1, <3>1, NewVersion
  <2>9. mask \in Masks(K, V) /\ mask.kind = "all"
    BY Zenon, <1>2, <1>4, <2>8 DEF Masks, MaskWithRow
  <2> HIDE DEF u, mask, m
  <2>10. u \in Tables(K, V) /\ u.data = t.data /\ u.mask = mask /\ u.modified = m
    BY Zenon, <1>1, <1>3, <2>7, <2>9 DEF Tables
  <2>11. Becomes(t, u, WithRow(ViewOf(t, K, id), k, VvGet(VvNew(v, id), id)), K, V, c, id)
    BY Zenon, <1>3, <1>4, <2>1, <2>10, MaskedRowBecomes DEF mask
  <2> QED
    BY Zenon, <1>4, <2>8, <2>9, <2>10, <2>11 DEF u
<1>5. CASE t.mask.kind # "all"
  <2>1. k \notin t.mask.removed
    BY Zenon, <1>5, GetRemoved
  <2>2. MaskGet(t.mask, k, id) = "unknown"
    BY <1>5, <2>1, TableGet
  <2>3. /\ Apart(t.data[k]) /\ UpTo(t.data[k], c, id) /\ c \in Nat
    BY Zenon, <1>1, DataRow
  <2>4. VvSet(InternalClone(t.data[k], id), v, id) = VvSet(t.data[k], v, id)
    BY Zenon, <1>1, <1>2, <2>3, CloneReads
  <2> DEFINE new == VvSet(t.data[k], v, id)
  <2>5. new \in Versions(V)
    BY Zenon, <1>1, <1>2, <2>3, SetVersion
  <2>6. WithRow(t.data, k, new) \in [K -> Versions(V)]
    BY Zenon, <1>2, <2>5 DEF WithRow
  <2>7. u = [t EXCEPT !.modified = m, !.data = WithRow(t.data, k, new)]
    BY Zenon, <1>1, <2>2, <2>4 DEF StoreRow, WithRow, Tables
  <2>8. MaskInsert(t.mask, k, v, id) = t.mask
    <3>1. t.mask.removed \ {k} = t.mask.removed
      BY Zenon, <2>1
    <3>2. CASE t.mask.kind = "some"
      <4>1. MaskInsert(t.mask, k, v, id) = [t.mask EXCEPT !.removed = t.mask.removed \ {k}]
        BY Zenon, <3>2 DEF MaskInsert
      <4>2. ASSUME NEW n, n = [t.mask EXCEPT !.removed = t.mask.removed] PROVE n = t.mask
        BY Zenon, <1>2, <4>2 DEF Masks
      <4> QED
        BY Zenon, <3>1, <4>1, <4>2
    <3>3. CASE t.mask.kind = "none"
      BY Zenon, <3>3 DEF MaskInsert
    <3> QED
      BY Zenon, <1>2, <1>5, <3>2, <3>3
  <2> HIDE DEF u, new, m
  <2>9. /\ u \in Tables(K, V) /\ u.data = WithRow(t.data, k, new) /\ u.modified = m
        /\ u.mask = t.mask
    BY Zenon, <1>1, <1>3, <2>6, <2>7 DEF Tables
  <2>10. Becomes(t, u, WithRow(ViewOf(t, K, id), k, v), K, V, c, id)
    BY Zenon, <1>5, <2>8, <2>9, DataRowBecomes DEF new, m
  <2> QED
    BY Zenon, <2>9, <2>10 DEF u
<1> QED
  BY Zenon, <1>4, <1>5

(* The row that remove hands to the indexes is the one that was seen: raw, *)
(* or for a key the transaction sees.                                      *)
LEMMA DroppedRowGets ==
  ASSUME NEW K, NEW V, NEW c, NEW id, Acting(V, c, id),
         NEW t, TableOK(t, K, V, c, id), NEW k \in K,
         id = c \/ GetFromTable(t, k, id) # NoVal
  PROVE  DroppedRow(t, k, id, c) = GetFromTable(t, k, id)
<1>1. CASE id = c
  <2>1. TableOK(t, K, V, c, c) /\ c \in Nat
    BY Zenon, <1>1 DEF Acting
  <2>2. t.mask.kind = "none" /\ t.mask.removed = {}
    BY Zenon, <2>1, RawUnmasked
  <2>3. t.mask.kind # "all" /\ t.mask.removed = {}
    BY Zenon, <2>2
  <2>4. GetFromTable(t, k, id) = VvGet(t.data[k], id)
    BY <2>3, Unmasked
  <2> QED
    BY Zenon, <1>1, <2>4 DEF DroppedRow
<1>2. CASE id # c /\ t.mask.kind = "all"
  <2>1. GetFromTable(t, k, id) = VvGet(t.mask.rows[k], id)
    BY <1>2, GetCleared
  <2>2. MaskRemoved(t.mask, k, id) = GetFromTable(t, k, id)
    BY Zenon, <1>2, <2>1 DEF MaskRemoved, VvTake
  <2> QED
    BY Zenon, <1>2, <2>2 DEF DroppedRow
<1>3. CASE id # c /\ t.mask.kind # "all"
  <2>1. GetFromTable(t, k, id) = VvGet(t.data[k], id)
    BY Zenon, <1>3, GetRemoved
  <2>2. MaskRemoved(t.mask, k, id) = NoVal
    BY Zenon, <1>3 DEF MaskRemoved
  <2> QED
    BY Zenon, <2>1, <2>2 DEF DroppedRow
<1> QED
  BY Zenon, <1>1, <1>2, <1>3

(* A later transaction sees what the last committed one left. *)
LEMMA GetSettled ==
  ASSUME NEW V, NEW vv \in Versions(V), Apart(vv), NEW c \in Nat, NEW id \in Nat, c <= id,
         UpTo(vv, c, c)
  PROVE  VvGet(vv, id) = VvGet(vv, c) /\ UpTo(vv, c, id)
<1>1. vv.a.id \in Nat /\ vv.b.id \in Nat /\ vv.a.id <= c /\ vv.b.id <= c
  BY DEF Versions, Slots, UpTo
<1>2. vv.a.id <= id /\ vv.b.id <= id
  BY <1>1
<1>3. UpTo(vv, c, id)
  BY <1>1 DEF UpTo
<1> QED
  BY Zenon, <1>1, <1>2, <1>3, GetReads

(* Outside a transaction the table is what is committed of it. *)
LEMMA RawView ==
  ASSUME NEW K, NEW V, NEW c, Acting(V, c, c), NEW t, TableOK(t, K, V, c, c)
  PROVE  ViewOf(t, K, c) = Committed(t, K, c)
<1>1. c \in Nat
  BY Zenon DEF Acting
<1>2. t.mask.kind # "all" /\ t.mask.removed = {}
  BY Zenon, <1>1, RawUnmasked
<1>3. \A k \in K : GetFromTable(t, k, c) = VvGet(t.data[k], c)
  BY <1>2, Unmasked
<1> QED
  BY Zenon, <1>3 DEF ViewOf, Committed

(* A transaction begins: it sees what is committed. *)
LEMMA TableBegins ==
  ASSUME NEW K, NEW V, NEW c, NEW id, Acting(V, c, id), c < id,
         NEW t, TableOK(t, K, V, c, c)
  PROVE  TableOK(t, K, V, c, id) /\ ViewOf(t, K, id) = Committed(t, K, c)
<1>1. /\ t \in Tables(K, V) /\ c \in Nat /\ id \in Nat /\ c <= id
      /\ DataOK(t.data, t.modified.keys, K, c, c)
  BY Zenon DEF TableOK, Acting
<1>2. /\ t.mask = NoMask(K) /\ t.mask.kind = "none" /\ t.mask.removed = {}
      /\ t.modified = NoMutations
  BY Zenon, <1>1, RawUnmasked
<1>3. \A k \in K : /\ t.data[k] \in Versions(V) /\ Apart(t.data[k])
                   /\ UpTo(t.data[k], c, c)
  BY ZenonT(40), <1>1, TableFields, DataRow
<1>4. \A k \in K : VvGet(t.data[k], id) = VvGet(t.data[k], c) /\ UpTo(t.data[k], c, id)
  BY Zenon, <1>1, <1>3, GetSettled
<1>5. DataOK(t.data, t.modified.keys, K, c, id)
  BY Zenon, <1>3, <1>4 DEF DataOK
<1>6. \A k \in K : t.mask.rows[k] = NoVersions
  BY <1>2 DEF NoMask, NoRows
<1>7. MaskOK(t.mask, t.data, K, V, c, id)
  BY Zenon, <1>2, <1>6 DEF MaskOK
<1>8. TableOK(t, K, V, c, id)
  BY Zenon, <1>1, <1>2, <1>5, <1>7 DEF TableOK
<1>9. t.mask.kind # "all"
  BY Zenon, <1>2
<1>10. \A k \in K : GetFromTable(t, k, id) = VvGet(t.data[k], id)
  BY <1>2, <1>8, <1>9, Unmasked
<1> QED
  BY Zenon, <1>4, <1>8, <1>10 DEF ViewOf, Committed

(* A table without mask and mutations is settled when its rows are. *)
Settled(t, K, data) ==
  [t EXCEPT !.modified = NoMutations, !.mask = NoMask(K), !.data = data]

(* Such a table is in order for raw operations. *)
LEMMA SettledTable ==
  ASSUME NEW K, NEW V, NEW c \in Nat, NEW t \in Tables(K, V), NEW data \in [K -> Versions(V)],
         \A k \in K : Apart(data[k]) /\ UpTo(data[k], c, c)
  PROVE  TableOK(Settled(t, K, data), K, V, c, c) /\ Settled(t, K, data).data = data
<1> DEFINE u == Settled(t, K, data)
<1>1. NoVersions \in Versions(V)
  BY Zenon DEF NoVersions, Versions, Slots, NoSlot
<1>2. NoRows(K) \in [K -> Versions(V)] /\ \A k \in K : NoRows(K)[k] = NoVersions
  BY Zenon, <1>1 DEF NoRows
<1> HIDE DEF NoRows
<1>3. /\ NoMask(K) \in Masks(K, V) /\ NoMask(K).kind = "none" /\ NoMask(K).removed = {}
      /\ NoMask(K).rows = NoRows(K)
  BY Zenon, <1>2 DEF NoMask, Masks
<1>4. NoMutations \in Mutations(K)
  BY Zenon DEF NoMutations, Mutations
<1> HIDE DEF NoMask, NoMutations
<1>5. u \in Tables(K, V) /\ u.data = data /\ u.mask = NoMask(K) /\ u.modified = NoMutations
  BY Zenon, <1>3, <1>4 DEF Tables, Settled
<1> HIDE DEF u
<1>6. DataOK(u.data, u.modified.keys, K, c, c)
  BY Zenon, <1>5 DEF DataOK
<1>7. MaskOK(u.mask, u.data, K, V, c, c)
  BY Zenon, <1>2, <1>3, <1>5 DEF MaskOK
<1> QED
  BY Zenon, <1>5, <1>6, <1>7 DEF TableOK, u

(* commit: what the transaction sees is what is committed. *)
LEMMA TableCommits ==
  ASSUME NEW K, NEW V, NEW c, NEW id, Acting(V, c, id), NEW t, TableOK(t, K, V, c, id)
  PROVE  /\ TableOK(TableCommit(t, id), K, V, id, id)
         /\ Committed(TableCommit(t, id), K, id) = ViewOf(t, K, id)
<1> DEFINE u == TableCommit(t, id)
           data == IF t.mask.kind = "all" THEN t.mask.rows
                   ELSE [k \in K |-> IF k \in t.mask.removed THEN NoVersions ELSE t.data[k]]
<1>1. /\ t \in Tables(K, V) /\ c \in Nat /\ id \in Nat \ {0} /\ id \in Nat /\ c <= id
      /\ DataOK(t.data, t.modified.keys, K, c, id)
      /\ MaskOK(t.mask, t.data, K, V, c, id)
  BY Zenon DEF TableOK, Acting
<1>2. /\ t.mask.rows \in [K -> Versions(V)] /\ DOMAIN t.data = K
      /\ \A k \in K : t.data[k] \in Versions(V) /\ t.mask.rows[k] \in Versions(V)
  BY Zenon, <1>1, TableFields
<1>3. NoVersions \in Versions(V) /\ Apart(NoVersions) /\ UpTo(NoVersions, id, id)
      /\ VvGet(NoVersions, id) = NoVal
  BY Zenon, <1>1, NoVersion
<1>4. u = Settled(t, K, data)
  BY Zenon, <1>1, <1>2 DEF TableCommit, Tables, Settled
<1> HIDE DEF u
<1>5. \A k \in K : data[k] = IF t.mask.kind = "all" THEN t.mask.rows[k]
                             ELSE IF k \in t.mask.removed THEN NoVersions ELSE t.data[k]
  BY Zenon
<1>6. data \in [K -> Versions(V)]
  BY Zenon, <1>2, <1>3
<1> HIDE DEF data
<1>7. \A k \in K : Apart(data[k]) /\ UpTo(data[k], id, id) /\ VvGet(data[k], id) = GetFromTable(t, k, id)
  <2> SUFFICES ASSUME NEW k \in K
               PROVE  /\ Apart(data[k]) /\ UpTo(data[k], id, id)
                      /\ VvGet(data[k], id) = GetFromTable(t, k, id)
    BY Zenon
  <2>1. CASE t.mask.kind = "all"
    <3>1. data[k] = t.mask.rows[k]
      BY Zenon, <1>5, <2>1
    <3>2. GetFromTable(t, k, id) = VvGet(t.mask.rows[k], id)
      BY <2>1, GetCleared
    <3>3. CASE t.mask.rows[k] = NoVersions
      BY Zenon, <1>3, <3>1, <3>2, <3>3
    <3>4. ASSUME NEW v \in V, t.mask.rows[k] = VvNew(v, id) PROVE Apart(data[k]) /\ UpTo(data[k], id, id)
      BY ZenonT(40), <1>1, <3>1, <3>4, NewVersion
    <3> QED
      BY Zenon, <1>1, <3>1, <3>2, <3>3, <3>4 DEF MaskOK
  <2>2. CASE t.mask.kind # "all" /\ k \in t.mask.removed
    <3>1. data[k] = NoVersions
      BY Zenon, <1>5, <2>2
    <3>2. GetFromTable(t, k, id) = NoVal
      BY Zenon, <2>2, GetRemoved
    <3> QED
      BY Zenon, <1>3, <3>1, <3>2
  <2>3. CASE t.mask.kind # "all" /\ k \notin t.mask.removed
    <3>1. data[k] = t.data[k]
      BY Zenon, <1>5, <2>3
    <3>2. GetFromTable(t, k, id) = VvGet(t.data[k], id)
      BY <2>3, GetRemoved
    <3>3. Apart(t.data[k]) /\ UpTo(t.data[k], c, id)
      BY Zenon, <1>1, DataRow
    <3>4. UpTo(t.data[k], id, id)
      BY <1>1, <3>3 DEF UpTo
    <3> QED
      BY Zenon, <3>1, <3>2, <3>3, <3>4
  <2> QED
    BY Zenon, <2>1, <2>2, <2>3
<1>8. TableOK(u, K, V, id, id) /\ u.data = data
  <2>1. \A k \in K : Apart(data[k]) /\ UpTo(data[k], id, id)
    BY Zenon, <1>7
  <2>2. TableOK(Settled(t, K, data), K, V, id, id) /\ Settled(t, K, data).data = data
    BY <1>1, <1>6, <2>1, SettledTable
  <2> QED
    BY Zenon, <1>4, <2>2
<1>9. Committed(u, K, id) = ViewOf(t, K, id)
  BY Zenon, <1>7, <1>8 DEF Committed, ViewOf
<1> QED
  BY Zenon, <1>8, <1>9 DEF u

(* Collecting the transaction: what was committed is left. *)
LEMMA TableCollects ==
  ASSUME NEW K, NEW V, NEW c, NEW id, Acting(V, c, id), c < id, NEW t, TableOK(t, K, V, c, id)
  PROVE  /\ TableOK(TableGc(t, id), K, V, c, c)
         /\ Committed(TableGc(t, id), K, c) = Committed(t, K, c)
<1> DEFINE u == TableGc(t, id)
           data == [k \in K |-> IF k \in t.modified.keys THEN VvGc(t.data[k], id) ELSE t.data[k]]
<1>1. /\ t \in Tables(K, V) /\ c \in Nat /\ id \in Nat
      /\ DataOK(t.data, t.modified.keys, K, c, id)
  BY Zenon DEF TableOK, Acting
<1>2. DOMAIN t.data = K /\ \A k \in K : t.data[k] \in Versions(V)
  BY Zenon, <1>1, TableFields
<1>3. u = Settled(t, K, data)
  BY Zenon, <1>1, <1>2 DEF TableGc, Tables, Settled
<1> HIDE DEF u
<1>4. \A k \in K : data[k] = IF k \in t.modified.keys THEN VvGc(t.data[k], id) ELSE t.data[k]
  BY Zenon
<1>5. data = [k \in K |-> data[k]]
  BY Zenon
<1> HIDE DEF data
<1>6. \A k \in K : /\ data[k] \in Versions(V) /\ Apart(data[k]) /\ UpTo(data[k], c, c)
                   /\ VvGet(data[k], c) = VvGet(t.data[k], c)
  <2> SUFFICES ASSUME NEW k \in K
               PROVE  /\ data[k] \in Versions(V) /\ Apart(data[k]) /\ UpTo(data[k], c, c)
                      /\ VvGet(data[k], c) = VvGet(t.data[k], c)
    BY Zenon
  <2>1. /\ Apart(t.data[k]) /\ UpTo(t.data[k], c, id)
        /\ k \notin t.modified.keys => UpTo(t.data[k], c, c)
    BY Zenon, <1>1, DataRow
  <2>2. CASE k \in t.modified.keys
    <3>1. data[k] = VvGc(t.data[k], id)
      BY Zenon, <1>4, <2>2
    <3> QED
      BY <1>1, <1>2, <2>1, <3>1, GcVersion
  <2>3. CASE k \notin t.modified.keys
    BY Zenon, <1>2, <1>4, <2>1, <2>3
  <2> QED
    BY Zenon, <2>2, <2>3
<1>7. data \in [K -> Versions(V)]
  BY Zenon, <1>5, <1>6
<1>8. TableOK(u, K, V, c, c) /\ u.data = data
  <2>1. \A k \in K : Apart(data[k]) /\ UpTo(data[k], c, c)
    BY Zenon, <1>6
  <2>2. TableOK(Settled(t, K, data), K, V, c, c) /\ Settled(t, K, data).data = data
    BY <1>1, <1>7, <2>1, SettledTable
  <2> QED
    BY Zenon, <1>3, <2>2
<1>9. Committed(u, K, c) = Committed(t, K, c)
  BY Zenon, <1>6, <1>8 DEF Committed
<1> QED
  BY Zenon, <1>8, <1>9 DEF u

-----------------------------------------------------------------------------
(* Folds over finite sets.  FoldSet takes the element Pick(s) of s last.   *)

Pick(s) == CHOOSE x \in s : TRUE

(* A set of natural numbers that is not empty has a least element. *)
LEMMA Least ==
  ASSUME NEW T, T \subseteq Nat, T # {}
  PROVE  \E x \in T : \A y \in T : x <= y
<1>1. PICK x \in T : \A y \in T : ~(<<y, x>> \in OpToRel(<, Nat))
  BY Zenon, NatLessThanWellFounded, WFMin
<1>2. \A y \in T : ~(y < x)
  BY Zenon, <1>1 DEF OpToRel
<1> QED
  BY <1>2

(* A set without its picked element is smaller. *)
LEMMA PickShrinks ==
  ASSUME NEW S, IsFiniteSet(S), NEW s \in SUBSET S, s # {}
  PROVE  /\ Pick(s) \in s /\ s \ {Pick(s)} \in SUBSET S
         /\ Cardinality(s) \in Nat /\ Cardinality(s \ {Pick(s)}) \in Nat
         /\ Cardinality(s \ {Pick(s)}) = Cardinality(s) - 1
<1>1. Pick(s) \in s
  BY Zenon DEF Pick
<1>2. IsFiniteSet(s)
  BY Zenon, FS_Subset
<1>3. /\ IsFiniteSet(s \ {Pick(s)})
      /\ Cardinality(s \ {Pick(s)}) = Cardinality(s) - 1
  BY Zenon, <1>1, <1>2, FS_RemoveElement
<1>4. Cardinality(s) \in Nat /\ Cardinality(s \ {Pick(s)}) \in Nat
  BY Zenon, <1>2, <1>3, FS_CardinalityType
<1> QED
  BY Zenon, <1>1, <1>3, <1>4

(* What holds of the empty fold, and of every fold when it holds of the    *)
(* fold of a set without the picked element, holds of the whole one.       *)
LEMMA FoldInduct ==
  ASSUME NEW S, IsFiniteSet(S), NEW it, NEW H, it[{}] \in H[{}],
         \A s \in (SUBSET S) \ {{}} :
            it[s \ {Pick(s)}] \in H[s \ {Pick(s)}] => it[s] \in H[s]
  PROVE  it[S] \in H[S]
<1> DEFINE B == {s \in SUBSET S : it[s] \notin H[s]}
           T == {Cardinality(s) : s \in B}
<1> SUFFICES ASSUME B # {} PROVE FALSE
  BY Zenon
<1>1. \A s \in SUBSET S : Cardinality(s) \in Nat
  BY Zenon, FS_Subset, FS_CardinalityType
<1>2. PICK n \in T : \A m \in T : n <= m
  <2>1. \A s \in B : Cardinality(s) \in Nat
    BY Zenon, <1>1
  <2> HIDE DEF B
  <2>2. T \subseteq Nat
    BY Zenon, <2>1
  <2>3. T # {}
    BY Zenon
  <2> HIDE DEF T
  <2> QED
    BY Zenon, <2>2, <2>3, Least
<1>3. PICK s \in B : n = Cardinality(s)
  BY Zenon
<1>4. s # {}
  BY Zenon
<1>5. /\ s \ {Pick(s)} \in SUBSET S /\ Cardinality(s) \in Nat
      /\ Cardinality(s \ {Pick(s)}) \in Nat
      /\ Cardinality(s \ {Pick(s)}) = Cardinality(s) - 1
  BY Zenon, <1>4, PickShrinks
<1>6. s \ {Pick(s)} \in B
  BY Zenon, <1>4, <1>5
<1> HIDE DEF B
<1>7. Cardinality(s \ {Pick(s)}) \in T
  BY Zenon, <1>6
<1> HIDE DEF T
<1>8. Cardinality(s) <= Cardinality(s \ {Pick(s)})
  BY Zenon, <1>2, <1>3, <1>7
<1> QED
  BY <1>5, <1>8

(* The function that a fold of g defines exists. *)
IsFold(S, G, b, g, it) ==
  /\ it \in [SUBSET S -> G]
  /\ \A s \in SUBSET S : it[s] = IF s = {} THEN b ELSE g[<<Pick(s), it[s \ {Pick(s)}]>>]

(* The same up to the sets of n elements. *)
FoldsUpTo(S, G, b, g, n, it) ==
  /\ it \in [{s \in SUBSET S : Cardinality(s) <= n} -> G]
  /\ \A s \in SUBSET S :
       Cardinality(s) <= n => it[s] = IF s = {} THEN b ELSE g[<<Pick(s), it[s \ {Pick(s)}]>>]

(* A fold over a finite set exists: by induction on its size. *)
LEMMA FoldExists ==
  ASSUME NEW S, IsFiniteSet(S), NEW G, NEW b \in G, NEW g \in [S \X G -> G]
  PROVE  \E it : IsFold(S, G, b, g, it)
<1> DEFINE T == {n \in Nat : ~ \E it : FoldsUpTo(S, G, b, g, n, it)}
<1>1. \A s \in SUBSET S : Cardinality(s) \in Nat /\ Cardinality(s) <= Cardinality(S)
  BY Zenon, FS_Subset, FS_CardinalityType
<1>2. T = {}
  <2> SUFFICES ASSUME T # {} PROVE FALSE
    OBVIOUS
  <2>1. PICK n \in T : \A m \in T : n <= m
    <3>1. T \subseteq Nat
      BY Zenon
    <3> HIDE DEF T
    <3> QED
      BY Zenon, <3>1, Least
  <2>2. n \in Nat
    BY Zenon
  <2>3. CASE n = 0
    <3> DEFINE it == [s \in {s \in SUBSET S : Cardinality(s) <= n} |-> b]
    <3>1. \A s \in SUBSET S : Cardinality(s) <= n => s = {}
      <4> SUFFICES ASSUME NEW s \in SUBSET S, Cardinality(s) <= n PROVE s = {}
        BY Zenon
      <4>1. Cardinality(s) = 0
        BY <1>1, <2>3
      <4>2. IsFiniteSet(s)
        BY Zenon, FS_Subset
      <4> QED
        BY Zenon, <4>1, <4>2, FS_EmptySet
    <3>2. FoldsUpTo(S, G, b, g, n, it)
      BY Zenon, <3>1 DEF FoldsUpTo
    <3> QED
      BY Zenon, <3>2
  <2>4. CASE n # 0
    <3>1. n - 1 \in Nat /\ ~(n <= n - 1)
      BY <2>2, <2>4
    <3>2. n - 1 \notin T
      BY Zenon, <2>1, <3>1
    <3>3. PICK ir : FoldsUpTo(S, G, b, g, n - 1, ir)
      BY Zenon, <3>1, <3>2
    <3> DEFINE it == [s \in {s \in SUBSET S : Cardinality(s) <= n} |->
                        IF s = {} THEN b ELSE g[<<Pick(s), ir[s \ {Pick(s)}]>>]]
    <3>4. ASSUME NEW s \in SUBSET S, Cardinality(s) <= n
          PROVE  /\ it[s] = IF s = {} THEN b ELSE g[<<Pick(s), ir[s \ {Pick(s)}]>>]
                 /\ s # {} => /\ Pick(s) \in S /\ s \ {Pick(s)} \in SUBSET S
                              /\ Cardinality(s \ {Pick(s)}) <= n - 1
                              /\ Cardinality(s \ {Pick(s)}) <= n
                              /\ ir[s \ {Pick(s)}] \in G
                 /\ it[s] \in G
      <4>1. it[s] = IF s = {} THEN b ELSE g[<<Pick(s), ir[s \ {Pick(s)}]>>]
        BY Zenon, <3>4
      <4>2. ASSUME s # {}
            PROVE  /\ Pick(s) \in S /\ s \ {Pick(s)} \in SUBSET S
                   /\ Cardinality(s \ {Pick(s)}) <= n - 1
                   /\ Cardinality(s \ {Pick(s)}) <= n
                   /\ ir[s \ {Pick(s)}] \in G
        <5>1. /\ Pick(s) \in s /\ s \ {Pick(s)} \in SUBSET S
              /\ Cardinality(s) \in Nat /\ Cardinality(s \ {Pick(s)}) \in Nat
              /\ Cardinality(s \ {Pick(s)}) = Cardinality(s) - 1
          BY Zenon, <4>2, PickShrinks
        <5>2. Cardinality(s \ {Pick(s)}) <= n - 1 /\ Cardinality(s \ {Pick(s)}) <= n
          BY <2>2, <3>4, <5>1
        <5>3. ir[s \ {Pick(s)}] \in G
          BY Zenon, <3>3, <5>1, <5>2 DEF FoldsUpTo
        <5> QED
          BY Zenon, <5>1, <5>2, <5>3
      <4>3. it[s] \in G
        BY Zenon, <4>1, <4>2
      <4> QED
        BY Zenon, <4>1, <4>2, <4>3
    <3>5. it = [s \in {s \in SUBSET S : Cardinality(s) <= n} |-> it[s]]
      BY Zenon
    <3> HIDE DEF it
    <3>6. \A s \in SUBSET S : Cardinality(s) <= n - 1 => it[s] = ir[s]
      <4> SUFFICES ASSUME NEW s \in SUBSET S, Cardinality(s) <= n - 1 PROVE it[s] = ir[s]
        BY Zenon
      <4>1. Cardinality(s) <= n
        BY <1>1, <2>2
      <4>2. ir[s] = IF s = {} THEN b ELSE g[<<Pick(s), ir[s \ {Pick(s)}]>>]
        BY Zenon, <3>3 DEF FoldsUpTo
      <4> QED
        BY Zenon, <3>4, <4>1, <4>2
    <3>7. \A s \in SUBSET S :
            Cardinality(s) <= n => it[s] = IF s = {} THEN b ELSE g[<<Pick(s), it[s \ {Pick(s)}]>>]
      BY Zenon, <3>4, <3>6
    <3>8. it \in [{s \in SUBSET S : Cardinality(s) <= n} -> G]
      BY Zenon, <3>4, <3>5
    <3> QED
      BY Zenon, <3>7, <3>8 DEF FoldsUpTo
  <2> QED
    BY Zenon, <2>3, <2>4
<1>3. Cardinality(S) \in Nat
  BY Zenon, FS_CardinalityType
<1>4. PICK it : FoldsUpTo(S, G, b, g, Cardinality(S), it)
  BY Zenon, <1>2, <1>3
<1>5. {s \in SUBSET S : Cardinality(s) <= Cardinality(S)} = SUBSET S
  BY Zenon, <1>1
<1> HIDE DEF T
<1> QED
  BY Zenon, <1>1, <1>4, <1>5 DEF FoldsUpTo, IsFold

-----------------------------------------------------------------------------
(* The index of a table: on_insert and on_remove.                          *)

(* The index with the keys of s pointing to k, and with those of s gone. *)
Pointing(view, s, k) == [f \in Fields |-> IF f \in s THEN k ELSE view[f]]

(* One more key points to k. *)
LEMMA PointingMore ==
  ASSUME NEW R, NEW view \in [Fields -> R], NEW s \in SUBSET Fields, NEW x \in s, NEW k
  PROVE  WithRow(Pointing(view, s \ {x}, k), x, k) = Pointing(view, s, k)
<1>1. ASSUME NEW n, n = [Pointing(view, s \ {x}, k) EXCEPT ![x] = k]
      PROVE  n = Pointing(view, s, k)
  BY Zenon, <1>1 DEF Pointing
<1> QED
  BY Zenon, <1>1 DEF WithRow

(* What a transaction sees of a table. *)
LEMMA ViewType ==
  ASSUME NEW K, NEW V, NEW c, NEW id, Acting(V, c, id), NEW t, TableOK(t, K, V, c, id)
  PROVE  /\ ViewOf(t, K, id) \in [K -> V \cup {NoVal}]
         /\ \A k \in K : ViewOf(t, K, id)[k] = GetFromTable(t, k, id)
<1>1. \A k \in K : GetFromTable(t, k, id) \in V \cup {NoVal}
  BY Zenon, TableGet
<1> QED
  BY Zenon, <1>1 DEF ViewOf

(* A fold that sets the index key it picks to w sets all of them to w. *)
LEMMA IndexFold ==
  ASSUME NEW c, NEW id, Acting(Keys, c, id), NEW idx, TableOK(idx, Fields, Keys, c, id),
         NEW S \in SUBSET Fields, IsFiniteSet(S), NEW w, NEW iter, iter[{}] = idx,
         \A s \in (SUBSET S) \ {{}} :
           TableOK(iter[s \ {Pick(s)}], Fields, Keys, c, id) =>
             Becomes(iter[s \ {Pick(s)}], iter[s],
                     WithRow(ViewOf(iter[s \ {Pick(s)}], Fields, id), Pick(s), w),
                     Fields, Keys, c, id)
  PROVE  Becomes(idx, iter[S], Pointing(ViewOf(idx, Fields, id), S, w), Fields, Keys, c, id)
<1> DEFINE view == ViewOf(idx, Fields, id)
           H == [s \in SUBSET S |-> {t \in {iter[s]} :
                   Becomes(idx, t, Pointing(view, s, w), Fields, Keys, c, id)}]
<1>1. view \in [Fields -> Keys \cup {NoVal}]
  BY Zenon, ViewType
<1>2. iter[{}] \in H[{}]
  <2>1. Pointing(view, {}, w) = view
    BY Zenon, <1>1 DEF Pointing
  <2>2. Becomes(idx, idx, Pointing(view, {}, w), Fields, Keys, c, id)
    BY Zenon, <2>1 DEF Becomes
  <2> QED
    BY Zenon, <2>2
<1>3. ASSUME NEW s \in (SUBSET S) \ {{}}, iter[s \ {Pick(s)}] \in H[s \ {Pick(s)}]
      PROVE  iter[s] \in H[s]
  <2> DEFINE x == Pick(s)
             t == iter[s \ {x}]
  <2>1. x \in s /\ s \in SUBSET Fields /\ s \in SUBSET S /\ s \ {x} \in SUBSET S
    BY Zenon DEF Pick
  <2>2. Becomes(idx, t, Pointing(view, s \ {x}, w), Fields, Keys, c, id)
    BY Zenon, <1>3, <2>1
  <2>3. TableOK(t, Fields, Keys, c, id) /\ ViewOf(t, Fields, id) = Pointing(view, s \ {x}, w)
    BY Zenon, <2>2 DEF Becomes
  <2>4. Becomes(t, iter[s], WithRow(ViewOf(t, Fields, id), x, w), Fields, Keys, c, id)
    BY Zenon, <2>3
  <2> HIDE DEF x, t, view
  <2>5. WithRow(Pointing(view, s \ {x}, w), x, w) = Pointing(view, s, w)
    BY Zenon, <1>1, <2>1, PointingMore
  <2>6. Becomes(idx, iter[s], Pointing(view, s, w), Fields, Keys, c, id)
    BY Zenon, <2>2, <2>3, <2>4, <2>5 DEF Becomes
  <2> QED
    BY Zenon, <2>1, <2>6
<1>4. iter[S] \in H[S]
  <2> HIDE DEF H
  <2> QED
    BY Zenon, <1>2, <1>3, FoldInduct
<1> QED
  BY Zenon, <1>4

(* on_insert points every index key of the row to its key. *)
LEMMA OnInsertBecomes ==
  ASSUME IsFiniteSet(Fields), NEW c, NEW id, Acting(Keys, c, id),
         NEW idx, TableOK(idx, Fields, Keys, c, id),
         NEW k \in Keys, NEW v, FieldsOf[v] \in SUBSET Fields
  PROVE  Becomes(idx, OnInsert(idx, k, v, id, c),
                 Pointing(ViewOf(idx, Fields, id), FieldsOf[v], k), Fields, Keys, c, id)
<1> DEFINE S == FieldsOf[v]
           G == {t \in Tables(Fields, Keys) : TableOK(t, Fields, Keys, c, id)}
           g == [x \in S \X G |-> PutRow(x[2], x[1], k, id, c)]
           Eq(h) == h = [s \in SUBSET S |->
                           IF s = {} THEN idx ELSE PutRow(h[s \ {Pick(s)}], Pick(s), k, id, c)]
           iter == CHOOSE h : Eq(h)
<1>1. IsFiniteSet(S)
  BY Zenon, FS_Subset
<1>2. idx \in G
  BY Zenon DEF TableOK
<1>3. \A x \in S : \A t : TableOK(t, Fields, Keys, c, id) =>
        Becomes(t, PutRow(t, x, k, id, c), WithRow(ViewOf(t, Fields, id), x, k),
                Fields, Keys, c, id)
  BY Zenon, PutRowBecomes
<1>4. \A x \in S : \A t \in G : PutRow(t, x, k, id, c) \in G
  BY Zenon, <1>3 DEF TableOK, Becomes
<1> HIDE DEF G
<1>5. g \in [S \X G -> G] /\ \A x \in S : \A t \in G : g[<<x, t>>] = PutRow(t, x, k, id, c)
  <2>1. \A x \in S : \A t \in G : g[<<x, t>>] = PutRow(t, x, k, id, c)
    OBVIOUS
  <2>2. \A x \in S \X G : PutRow(x[2], x[1], k, id, c) \in G
    BY Zenon, <1>4
  <2> QED
    BY Zenon, <2>1, <2>2
<1> HIDE DEF g
<1>6. PICK it : IsFold(S, G, idx, g, it)
  BY Zenon, <1>1, <1>2, <1>5, FoldExists
<1>7. \A s \in SUBSET S :
        it[s] = IF s = {} THEN idx ELSE PutRow(it[s \ {Pick(s)}], Pick(s), k, id, c)
  <2> SUFFICES ASSUME NEW s \in SUBSET S, s # {}
               PROVE  it[s] = PutRow(it[s \ {Pick(s)}], Pick(s), k, id, c)
    BY Zenon, <1>6 DEF IsFold
  <2>1. Pick(s) \in S /\ s \ {Pick(s)} \in SUBSET S
    BY Zenon DEF Pick
  <2>2. it[s \ {Pick(s)}] \in G
    BY Zenon, <1>6, <2>1 DEF IsFold
  <2> QED
    BY Zenon, <1>5, <1>6, <2>1, <2>2 DEF IsFold
<1>8. Eq(it)
  <2>1. it = [s \in SUBSET S |-> it[s]]
    BY Zenon, <1>6 DEF IsFold
  <2> QED
    BY Zenon, <1>7, <2>1
<1>9. Eq(iter)
  BY Zenon, <1>8
<1>10. OnInsert(idx, k, v, id, c) = iter[S]
  BY Zenon DEF OnInsert, FoldSet, MapThenFoldSet, Pick
<1> HIDE DEF iter
<1>11. \A s \in SUBSET S :
         iter[s] = IF s = {} THEN idx ELSE PutRow(iter[s \ {Pick(s)}], Pick(s), k, id, c)
  BY Zenon, <1>9
<1>12. ASSUME NEW s \in (SUBSET S) \ {{}}, TableOK(iter[s \ {Pick(s)}], Fields, Keys, c, id)
       PROVE  Becomes(iter[s \ {Pick(s)}], iter[s],
                      WithRow(ViewOf(iter[s \ {Pick(s)}], Fields, id), Pick(s), k),
                      Fields, Keys, c, id)
  <2>1. Pick(s) \in S
    BY Zenon DEF Pick
  <2>2. iter[s] = PutRow(iter[s \ {Pick(s)}], Pick(s), k, id, c)
    BY Zenon, <1>11
  <2> QED
    BY Zenon, <1>3, <1>12, <2>1, <2>2
<1>13. iter[{}] = idx
  BY Zenon, <1>11
<1>14. Becomes(idx, iter[S], Pointing(ViewOf(idx, Fields, id), S, k), Fields, Keys, c, id)
  BY Zenon, <1>1, <1>12, <1>13, IndexFold
<1> QED
  BY Zenon, <1>10, <1>14

(* on_remove takes the index keys of the row away. *)
LEMMA OnRemoveBecomes ==
  ASSUME IsFiniteSet(Fields), NEW c, NEW id, Acting(Keys, c, id),
         NEW idx, TableOK(idx, Fields, Keys, c, id),
         NEW v, FieldsOf[v] \in SUBSET Fields
  PROVE  Becomes(idx, OnRemove(idx, v, id, c),
                 Pointing(ViewOf(idx, Fields, id), FieldsOf[v], NoVal), Fields, Keys, c, id)
<1> DEFINE S == FieldsOf[v]
           G == {t \in Tables(Fields, Keys) : TableOK(t, Fields, Keys, c, id)}
           g == [x \in S \X G |-> DropRow(x[2], x[1], id, c)]
           Eq(h) == h = [s \in SUBSET S |->
                           IF s = {} THEN idx ELSE DropRow(h[s \ {Pick(s)}], Pick(s), id, c)]
           iter == CHOOSE h : Eq(h)
<1>1. IsFiniteSet(S)
  BY Zenon, FS_Subset
<1>2. idx \in G
  BY Zenon DEF TableOK
<1>3. \A x \in S : \A t : TableOK(t, Fields, Keys, c, id) =>
        Becomes(t, DropRow(t, x, id, c), WithRow(ViewOf(t, Fields, id), x, NoVal),
                Fields, Keys, c, id)
  BY Zenon, DropRowBecomes
<1>4. \A x \in S : \A t \in G : DropRow(t, x, id, c) \in G
  BY Zenon, <1>3 DEF TableOK, Becomes
<1> HIDE DEF G
<1>5. g \in [S \X G -> G] /\ \A x \in S : \A t \in G : g[<<x, t>>] = DropRow(t, x, id, c)
  <2>1. \A x \in S : \A t \in G : g[<<x, t>>] = DropRow(t, x, id, c)
    OBVIOUS
  <2>2. \A x \in S \X G : DropRow(x[2], x[1], id, c) \in G
    BY Zenon, <1>4
  <2> QED
    BY Zenon, <2>1, <2>2
<1> HIDE DEF g
<1>6. PICK it : IsFold(S, G, idx, g, it)
  BY Zenon, <1>1, <1>2, <1>5, FoldExists
<1>7. \A s \in SUBSET S :
        it[s] = IF s = {} THEN idx ELSE DropRow(it[s \ {Pick(s)}], Pick(s), id, c)
  <2> SUFFICES ASSUME NEW s \in SUBSET S, s # {}
               PROVE  it[s] = DropRow(it[s \ {Pick(s)}], Pick(s), id, c)
    BY Zenon, <1>6 DEF IsFold
  <2>1. Pick(s) \in S /\ s \ {Pick(s)} \in SUBSET S
    BY Zenon DEF Pick
  <2>2. it[s \ {Pick(s)}] \in G
    BY Zenon, <1>6, <2>1 DEF IsFold
  <2> QED
    BY Zenon, <1>5, <1>6, <2>1, <2>2 DEF IsFold
<1>8. Eq(it)
  <2>1. it = [s \in SUBSET S |-> it[s]]
    BY Zenon, <1>6 DEF IsFold
  <2> QED
    BY Zenon, <1>7, <2>1
<1>9. Eq(iter)
  BY Zenon, <1>8
<1>10. OnRemove(idx, v, id, c) = iter[S]
  BY Zenon DEF OnRemove, FoldSet, MapThenFoldSet, Pick
<1> HIDE DEF iter
<1>11. \A s \in SUBSET S :
         iter[s] = IF s = {} THEN idx ELSE DropRow(iter[s \ {Pick(s)}], Pick(s), id, c)
  BY Zenon, <1>9
<1>12. ASSUME NEW s \in (SUBSET S) \ {{}}, TableOK(iter[s \ {Pick(s)}], Fields, Keys, c, id)
       PROVE  Becomes(iter[s \ {Pick(s)}], iter[s],
                      WithRow(ViewOf(iter[s \ {Pick(s)}], Fields, id), Pick(s), NoVal),
                      Fields, Keys, c, id)
  <2>1. Pick(s) \in S
    BY Zenon DEF Pick
  <2>2. iter[s] = DropRow(iter[s \ {Pick(s)}], Pick(s), id, c)
    BY Zenon, <1>11
  <2> QED
    BY Zenon, <1>3, <1>12, <2>1, <2>2
<1>13. iter[{}] = idx
  BY Zenon, <1>11
<1>14. Becomes(idx, iter[S], Pointing(ViewOf(idx, Fields, id), S, NoVal), Fields, Keys, c, id)
  BY Zenon, <1>1, <1>12, <1>13, IndexFold
<1> QED
  BY Zenon, <1>10, <1>14

-----------------------------------------------------------------------------
(* A table and its index, as a transaction sees them: bv gives the row of  *)
(* a key and iv the key of an index key.                                   *)

(* The index is the inverse of the rows. *)
IndexExact(bv, iv) ==
  /\ \A k \in Keys : bv[k] # NoVal => \A f \in FieldsOf[bv[k]] : iv[f] = k
  /\ \A f \in Fields : iv[f] # NoVal => bv[iv[f]] # NoVal /\ f \in FieldsOf[bv[iv[f]]]

(* No other row has an index key of v. *)
Unique(bv, k, v) ==
  \A j \in Keys \ {k} : bv[j] # NoVal => FieldsOf[bv[j]] \cap FieldsOf[v] = {}

(* The index without the row of k. *)
Unindexed(bv, iv, k) == IF bv[k] = NoVal THEN iv ELSE Pointing(iv, FieldsOf[bv[k]], NoVal)

(* The index keys of the row of k, and only those, are gone. *)
LEMMA UnindexedAt ==
  ASSUME NEW V, NEW bv \in [Keys -> V \cup {NoVal}], NEW iv \in [Fields -> Keys \cup {NoVal}],
         IndexExact(bv, iv), NEW k \in Keys, NEW f \in Fields
  PROVE  /\ iv[f] = k => Unindexed(bv, iv, k)[f] = NoVal
         /\ iv[f] # k => Unindexed(bv, iv, k)[f] = iv[f]
<1>1. CASE bv[k] = NoVal
  <2>1. Unindexed(bv, iv, k) = iv
    BY Zenon, <1>1 DEF Unindexed
  <2>2. k \in Keys /\ (iv[f] = k => iv[f] = NoVal)
    BY Zenon, <1>1 DEF IndexExact
  <2> QED
    BY Zenon, <2>1, <2>2
<1>2. CASE bv[k] # NoVal
  <2>1. Unindexed(bv, iv, k) = Pointing(iv, FieldsOf[bv[k]], NoVal)
    BY Zenon, <1>2 DEF Unindexed
  <2>2. f \in FieldsOf[bv[k]] => iv[f] = k
    BY Zenon, <1>2 DEF IndexExact
  <2>3. iv[f] = k /\ iv[f] # NoVal => f \in FieldsOf[bv[k]]
    BY Zenon DEF IndexExact
  <2>4. /\ f \in FieldsOf[bv[k]] => Unindexed(bv, iv, k)[f] = NoVal
        /\ f \notin FieldsOf[bv[k]] => Unindexed(bv, iv, k)[f] = iv[f]
    BY Zenon, <2>1 DEF Pointing
  <2> QED
    BY Zenon, <2>2, <2>3, <2>4
<1> QED
  BY Zenon, <1>1, <1>2

(* Inserting a row with its index keys, after those of the old row left. *)
LEMMA ExactInsert ==
  ASSUME NEW V, NEW bv \in [Keys -> V \cup {NoVal}], NEW iv \in [Fields -> Keys \cup {NoVal}],
         NoVal \notin V, \A w \in V : FieldsOf[w] \in SUBSET Fields,
         IndexExact(bv, iv), NEW k \in Keys, NEW v \in V, Unique(bv, k, v)
  PROVE  IndexExact(WithRow(bv, k, v), Pointing(Unindexed(bv, iv, k), FieldsOf[v], k))
<1> DEFINE nb == WithRow(bv, k, v)
           mid == Unindexed(bv, iv, k)
           ni == Pointing(mid, FieldsOf[v], k)
<1>1. nb[k] = v /\ \A j \in Keys : j # k => nb[j] = bv[j]
  BY Zenon DEF WithRow
<1>2. \A f \in Fields : (f \in FieldsOf[v] => ni[f] = k) /\ (f \notin FieldsOf[v] => ni[f] = mid[f])
  BY Zenon DEF Pointing
<1>3. \A f \in Fields : (iv[f] = k => mid[f] = NoVal) /\ (iv[f] # k => mid[f] = iv[f])
  BY UnindexedAt
<1> HIDE DEF nb, mid, ni
<1>4. ASSUME NEW j \in Keys, nb[j] # NoVal, NEW f \in FieldsOf[nb[j]] PROVE ni[f] = j
  <2>1. CASE j = k
    BY Zenon, <1>1, <1>2, <2>1
  <2>2. CASE j # k
    <3>1. bv[j] # NoVal /\ f \in FieldsOf[bv[j]] /\ bv[j] \in V
      BY Zenon, <1>1, <1>4, <2>2
    <3>2. f \in Fields /\ iv[f] = j /\ f \notin FieldsOf[v]
      BY Zenon, <2>2, <3>1 DEF IndexExact, Unique
    <3> QED
      BY Zenon, <1>2, <1>3, <2>2, <3>2
  <2> QED
    BY Zenon, <2>1, <2>2
<1>5. ASSUME NEW f \in Fields, ni[f] # NoVal PROVE nb[ni[f]] # NoVal /\ f \in FieldsOf[nb[ni[f]]]
  <2>1. CASE f \in FieldsOf[v]
    BY Zenon, <1>1, <1>2, <2>1
  <2>2. CASE f \notin FieldsOf[v]
    <3>1. ni[f] = mid[f] /\ mid[f] # NoVal
      BY Zenon, <1>2, <1>5, <2>2
    <3>2. iv[f] # k /\ ni[f] = iv[f]
      BY Zenon, <1>3, <3>1
    <3>3. iv[f] # NoVal
      BY Zenon, <1>5, <3>2
    <3>4. iv[f] \in Keys /\ bv[iv[f]] # NoVal /\ f \in FieldsOf[bv[iv[f]]]
      BY <3>3 DEF IndexExact
    <3> QED
      BY Zenon, <1>1, <3>2, <3>4
  <2> QED
    BY Zenon, <2>1, <2>2
<1> QED
  BY Zenon, <1>4, <1>5 DEF IndexExact, nb, mid, ni

(* Removing a row with its index keys. *)
LEMMA ExactRemove ==
  ASSUME NEW V, NEW bv \in [Keys -> V \cup {NoVal}], NEW iv \in [Fields -> Keys \cup {NoVal}],
         \A w \in V : FieldsOf[w] \in SUBSET Fields,
         IndexExact(bv, iv), NEW k \in Keys
  PROVE  IndexExact(WithRow(bv, k, NoVal), Unindexed(bv, iv, k))
<1> DEFINE nb == WithRow(bv, k, NoVal)
           ni == Unindexed(bv, iv, k)
<1>1. nb[k] = NoVal /\ \A j \in Keys : j # k => nb[j] = bv[j]
  BY Zenon DEF WithRow
<1>2. \A f \in Fields : (iv[f] = k => ni[f] = NoVal) /\ (iv[f] # k => ni[f] = iv[f])
  BY Zenon, UnindexedAt
<1> HIDE DEF nb, ni
<1>3. ASSUME NEW j \in Keys, nb[j] # NoVal, NEW f \in FieldsOf[nb[j]] PROVE ni[f] = j
  <2>1. j # k /\ nb[j] = bv[j]
    BY Zenon, <1>1, <1>3
  <2>2. bv[j] # NoVal /\ f \in FieldsOf[bv[j]] /\ bv[j] \in V
    BY Zenon, <1>3, <2>1
  <2>3. f \in Fields /\ iv[f] = j
    BY Zenon, <2>2 DEF IndexExact
  <2> QED
    BY Zenon, <1>2, <2>1, <2>3
<1>4. ASSUME NEW f \in Fields, ni[f] # NoVal PROVE nb[ni[f]] # NoVal /\ f \in FieldsOf[nb[ni[f]]]
  <2>1. iv[f] # k /\ ni[f] = iv[f]
    BY Zenon, <1>2, <1>4
  <2>2. iv[f] \in Keys /\ bv[iv[f]] # NoVal /\ f \in FieldsOf[bv[iv[f]]]
    BY ZenonT(40), <1>4, <2>1 DEF IndexExact
  <2> QED
    BY Zenon, <1>1, <2>1, <2>2
<1> QED
  BY Zenon, <1>3, <1>4 DEF IndexExact, nb, ni

(* Nothing is left of either. *)
LEMMA ExactClear == IndexExact([k \in Keys |-> NoVal], [f \in Fields |-> NoVal])
BY Zenon DEF IndexExact

-----------------------------------------------------------------------------
(* The operations on a table with its index.                               *)

(* The rows that may be stored have index keys, and the ids are those of a *)
(* transaction or of a raw operation.                                      *)
Setting(V, c, id) ==
  /\ Acting(V, c, id) /\ Acting(Keys, c, id)
  /\ IsFiniteSet(Keys) /\ IsFiniteSet(Fields)
  /\ \A v \in V : FieldsOf[v] \in SUBSET Fields

PairOK(tb, V, c, id) ==
  /\ tb \in [base : Tables(Keys, V), idx : Tables(Fields, Keys)]
  /\ TableOK(tb.base, Keys, V, c, id)
  /\ TableOK(tb.idx, Fields, Keys, c, id)
  /\ IndexExact(ViewOf(tb.base, Keys, id), ViewOf(tb.idx, Fields, id))

(* tb became ub: the rows are those of view, and the index is theirs. *)
PairBecomes(tb, ub, view, V, c, id) ==
  /\ PairOK(ub, V, c, id)
  /\ ViewOf(ub.base, Keys, id) = view
  /\ c < id => /\ Committed(ub.base, Keys, c) = Committed(tb.base, Keys, c)
               /\ Committed(ub.idx, Fields, c) = Committed(tb.idx, Fields, c)

(* Both tables changed, and the index is still exact. *)
LEMMA PairParts ==
  ASSUME NEW V, NEW c, NEW id, NEW tb, NEW base, NEW idx, NEW bview, NEW iview,
         Becomes(tb.base, base, bview, Keys, V, c, id),
         Becomes(tb.idx, idx, iview, Fields, Keys, c, id),
         IndexExact(bview, iview)
  PROVE  PairBecomes(tb, [base |-> base, idx |-> idx], bview, V, c, id)
<1> DEFINE ub == [base |-> base, idx |-> idx]
<1>1. ub.base = base /\ ub.idx = idx
  OBVIOUS
<1>2. base \in Tables(Keys, V) /\ idx \in Tables(Fields, Keys)
  BY Zenon DEF Becomes, TableOK
<1>3. ub \in [base : Tables(Keys, V), idx : Tables(Fields, Keys)]
  BY Zenon, <1>2
<1> HIDE DEF ub
<1> QED
  BY Zenon, <1>1, <1>3 DEF Becomes, PairBecomes, PairOK, ub

(* What a pair of tables shows. *)
LEMMA PairViews ==
  ASSUME NEW V, NEW c, NEW id, Setting(V, c, id), NEW tb, PairOK(tb, V, c, id)
  PROVE  /\ ViewOf(tb.base, Keys, id) \in [Keys -> V \cup {NoVal}]
         /\ ViewOf(tb.idx, Fields, id) \in [Fields -> Keys \cup {NoVal}]
         /\ \A k \in Keys : /\ GetFromTable(tb.base, k, id) = ViewOf(tb.base, Keys, id)[k]
                            /\ ViewOf(tb.base, Keys, id)[k] \in V \cup {NoVal}
         /\ \A f \in Fields : /\ GetFromTable(tb.idx, f, id) = ViewOf(tb.idx, Fields, id)[f]
                              /\ ViewOf(tb.idx, Fields, id)[f] \in Keys \cup {NoVal}
         /\ \A v \in V : FieldsOf[v] \in SUBSET Fields /\ v # NoVal
<1>1. /\ Acting(V, c, id) /\ Acting(Keys, c, id)
      /\ TableOK(tb.base, Keys, V, c, id) /\ TableOK(tb.idx, Fields, Keys, c, id)
  BY Zenon DEF Setting, PairOK
<1>2. ViewOf(tb.base, Keys, id) \in [Keys -> V \cup {NoVal}]
  BY Zenon, <1>1, ViewType
<1>3. ViewOf(tb.idx, Fields, id) \in [Fields -> Keys \cup {NoVal}]
  BY Zenon, <1>1, ViewType
<1>4. /\ \A k \in Keys : GetFromTable(tb.base, k, id) = ViewOf(tb.base, Keys, id)[k]
      /\ \A f \in Fields : GetFromTable(tb.idx, f, id) = ViewOf(tb.idx, Fields, id)[f]
  BY Zenon DEF ViewOf
<1>5. \A v \in V : FieldsOf[v] \in SUBSET Fields /\ v # NoVal
  BY Zenon, <1>1 DEF Setting, Acting
<1> QED
  BY Zenon, <1>2, <1>3, <1>4, <1>5

(* The index keys of the row of k are taken away. *)
LEMMA UnindexedBecomes ==
  ASSUME NEW V, NEW c, NEW id, Setting(V, c, id), NEW tb, PairOK(tb, V, c, id), NEW k \in Keys,
         NEW old, old = ViewOf(tb.base, Keys, id)[k]
  PROVE  Becomes(tb.idx, IF old = NoVal THEN tb.idx ELSE OnRemove(tb.idx, old, id, c),
                 Unindexed(ViewOf(tb.base, Keys, id), ViewOf(tb.idx, Fields, id), k),
                 Fields, Keys, c, id)
<1>1. /\ Acting(Keys, c, id) /\ IsFiniteSet(Fields) /\ TableOK(tb.idx, Fields, Keys, c, id)
  BY Zenon DEF Setting, PairOK
<1>2. CASE old = NoVal
  BY Zenon, <1>1, <1>2 DEF Becomes, Unindexed
<1>3. CASE old # NoVal
  <2>1. old \in V /\ FieldsOf[old] \in SUBSET Fields
    BY <1>3, PairViews
  <2>2. Becomes(tb.idx, OnRemove(tb.idx, old, id, c),
                Pointing(ViewOf(tb.idx, Fields, id), FieldsOf[old], NoVal), Fields, Keys, c, id)
    BY Zenon, <1>1, <2>1, OnRemoveBecomes
  <2> QED
    BY Zenon, <1>3, <2>2 DEF Unindexed
<1> QED
  BY Zenon, <1>2, <1>3

(* A row is indexed in place of the old one. *)
LEMMA ReindexedBecomes ==
  ASSUME NEW V, NEW c, NEW id, Setting(V, c, id), NEW tb, PairOK(tb, V, c, id), NEW k \in Keys,
         NEW old, old = ViewOf(tb.base, Keys, id)[k], NEW v \in V,
         NEW mid, mid = IF old = NoVal THEN tb.idx ELSE OnRemove(tb.idx, old, id, c)
  PROVE  Becomes(tb.idx, OnInsert(mid, k, v, id, c),
                 Pointing(Unindexed(ViewOf(tb.base, Keys, id), ViewOf(tb.idx, Fields, id), k),
                          FieldsOf[v], k),
                 Fields, Keys, c, id)
<1> DEFINE un == Unindexed(ViewOf(tb.base, Keys, id), ViewOf(tb.idx, Fields, id), k)
<1>1. Acting(Keys, c, id) /\ IsFiniteSet(Fields) /\ FieldsOf[v] \in SUBSET Fields
  BY Zenon DEF Setting
<1>2. Becomes(tb.idx, mid, un, Fields, Keys, c, id)
  BY Zenon, UnindexedBecomes
<1> HIDE DEF un
<1>3. TableOK(mid, Fields, Keys, c, id) /\ ViewOf(mid, Fields, id) = un
  BY Zenon, <1>2 DEF Becomes
<1>4. Becomes(mid, OnInsert(mid, k, v, id, c), Pointing(ViewOf(mid, Fields, id), FieldsOf[v], k),
              Fields, Keys, c, id)
  BY Zenon, <1>1, <1>3, OnInsertBecomes
<1> QED
  BY Zenon, <1>2, <1>3, <1>4 DEF Becomes, un

(* insert *)
LEMMA InsertBecomes ==
  ASSUME NEW V, NEW c, NEW id, Setting(V, c, id), NEW tb, PairOK(tb, V, c, id),
         NEW k \in Keys, NEW v \in V, Unique(ViewOf(tb.base, Keys, id), k, v)
  PROVE  PairBecomes(tb, TableInsert(tb, k, v, id, c), WithRow(ViewOf(tb.base, Keys, id), k, v),
                     V, c, id)
<1> DEFINE bv == ViewOf(tb.base, Keys, id)
           iv == ViewOf(tb.idx, Fields, id)
           old == GetFromTable(tb.base, k, id)
           mid == IF old = NoVal THEN tb.idx ELSE OnRemove(tb.idx, old, id, c)
           base == PutRow(tb.base, k, v, id, c)
           idx == OnInsert(mid, k, v, id, c)
<1>1. TableInsert(tb, k, v, id, c) = [base |-> base, idx |-> idx]
  BY Zenon DEF TableInsert
<1>2. /\ Acting(V, c, id) /\ TableOK(tb.base, Keys, V, c, id) /\ IndexExact(bv, iv)
      /\ NoVal \notin V
  BY Zenon DEF Setting, PairOK, Acting
<1>3. /\ old = bv[k] /\ bv \in [Keys -> V \cup {NoVal}] /\ iv \in [Fields -> Keys \cup {NoVal}]
      /\ \A w \in V : FieldsOf[w] \in SUBSET Fields
  BY PairViews
<1>4. Becomes(tb.base, base, WithRow(bv, k, v), Keys, V, c, id)
  BY Zenon, <1>2, PutRowBecomes
<1>5. Becomes(tb.idx, idx, Pointing(Unindexed(bv, iv, k), FieldsOf[v], k), Fields, Keys, c, id)
  BY Zenon, <1>3, ReindexedBecomes
<1>6. IndexExact(WithRow(bv, k, v), Pointing(Unindexed(bv, iv, k), FieldsOf[v], k))
  <2> HIDE DEF iv
  <2> QED
    BY ZenonT(40), <1>2, <1>3, ExactInsert
<1> HIDE DEF bv, iv, base, idx
<1>7. PairBecomes(tb, [base |-> base, idx |-> idx], WithRow(bv, k, v), V, c, id)
  BY <1>4, <1>5, <1>6, PairParts
<1> QED
  BY Zenon, <1>1, <1>7 DEF bv

(* remove, raw or of a row that the transaction sees *)
LEMMA RemoveBecomes ==
  ASSUME NEW V, NEW c, NEW id, Setting(V, c, id), NEW tb, PairOK(tb, V, c, id),
         NEW k \in Keys, id = c \/ ViewOf(tb.base, Keys, id)[k] # NoVal
  PROVE  PairBecomes(tb, TableRemove(tb, k, id, c), WithRow(ViewOf(tb.base, Keys, id), k, NoVal),
                     V, c, id)
<1> DEFINE bv == ViewOf(tb.base, Keys, id)
           iv == ViewOf(tb.idx, Fields, id)
           old == DroppedRow(tb.base, k, id, c)
           base == DropRow(tb.base, k, id, c)
           idx == IF old = NoVal THEN tb.idx ELSE OnRemove(tb.idx, old, id, c)
<1>1. TableRemove(tb, k, id, c) = [base |-> base, idx |-> idx]
  BY Zenon DEF TableRemove
<1>2. Acting(V, c, id) /\ TableOK(tb.base, Keys, V, c, id) /\ IndexExact(bv, iv)
  BY Zenon DEF Setting, PairOK
<1>3. /\ GetFromTable(tb.base, k, id) = bv[k]
      /\ bv \in [Keys -> V \cup {NoVal}] /\ iv \in [Fields -> Keys \cup {NoVal}]
      /\ \A w \in V : FieldsOf[w] \in SUBSET Fields
  BY PairViews
<1>4. old = bv[k]
  <2>1. id = c \/ GetFromTable(tb.base, k, id) # NoVal
    BY Zenon, <1>3
  <2>2. old = GetFromTable(tb.base, k, id)
    BY <1>2, <2>1, DroppedRowGets
  <2> QED
    BY Zenon, <1>3, <2>2
<1>5. Becomes(tb.base, base, WithRow(bv, k, NoVal), Keys, V, c, id)
  BY Zenon, <1>2, DropRowBecomes
<1>6. Becomes(tb.idx, idx, Unindexed(bv, iv, k), Fields, Keys, c, id)
  BY Zenon, <1>4, UnindexedBecomes
<1>7. IndexExact(WithRow(bv, k, NoVal), Unindexed(bv, iv, k))
  <2> HIDE DEF iv, bv
  <2> QED
    BY Zenon, <1>2, <1>3, ExactRemove
<1> HIDE DEF bv, iv, base, idx
<1>8. PairBecomes(tb, [base |-> base, idx |-> idx], WithRow(bv, k, NoVal), V, c, id)
  BY Zenon, <1>5, <1>6, <1>7, PairParts
<1> QED
  BY Zenon, <1>1, <1>8 DEF bv

(* clear *)
LEMMA ClearBecomes ==
  ASSUME NEW V, NEW c, NEW id, Setting(V, c, id), NEW tb, PairOK(tb, V, c, id)
  PROVE  PairBecomes(tb, TableClear(tb, id, c), [k \in Keys |-> NoVal], V, c, id)
<1> DEFINE base == ClearRows(tb.base, id, c)
           idx == ClearRows(tb.idx, id, c)
<1>1. /\ Acting(V, c, id) /\ TableOK(tb.base, Keys, V, c, id)
      /\ Acting(Keys, c, id) /\ TableOK(tb.idx, Fields, Keys, c, id)
  BY Zenon DEF Setting, PairOK
<1>2. Becomes(tb.base, base, [k \in Keys |-> NoVal], Keys, V, c, id)
  BY Zenon, <1>1, ClearRowsBecomes
<1>3. Becomes(tb.idx, idx, [k \in Fields |-> NoVal], Fields, Keys, c, id)
  BY Zenon, <1>1, ClearRowsBecomes
<1>4. PairBecomes(tb, [base |-> base, idx |-> idx], [k \in Keys |-> NoVal], V, c, id)
  <2> HIDE DEF base, idx
  <2> QED
    BY Zenon, <1>2, <1>3, ExactClear, PairParts
<1> QED
  BY Zenon, <1>4 DEF TableClear

(* with_mut: the row of k, if there is one, is replaced by what the        *)
(* closure makes of it.                                                    *)
Updated(bv, k, f) == IF bv[k] = NoVal THEN bv ELSE WithRow(bv, k, f[bv[k]])

(* with_mut keeps the index the inverse of the rows. *)
LEMMA WithMutBecomes ==
  ASSUME NEW V, NEW c, NEW id, Setting(V, c, id), NEW tb, PairOK(tb, V, c, id),
         NEW k \in Keys, NEW f, NEW bv, bv = ViewOf(tb.base, Keys, id),
         bv[k] # NoVal => f[bv[k]] \in V /\ Unique(bv, k, f[bv[k]])
  PROVE  /\ PairBecomes(tb, TableWithMut(tb, k, f, id, c), Updated(bv, k, f), V, c, id)
         /\ TableWithMut(tb, k, f, id, c).base.mask.kind = tb.base.mask.kind
<1> DEFINE iv == ViewOf(tb.idx, Fields, id)
           old == MutableRow(tb.base, k, id)
<1>1. /\ Acting(V, c, id) /\ TableOK(tb.base, Keys, V, c, id) /\ IndexExact(bv, iv)
      /\ NoVal \notin V
  BY Zenon DEF Setting, PairOK, Acting
<1>2. /\ GetFromTable(tb.base, k, id) = bv[k]
      /\ bv \in [Keys -> V \cup {NoVal}] /\ iv \in [Fields -> Keys \cup {NoVal}]
      /\ \A w \in V : FieldsOf[w] \in SUBSET Fields
  BY SMTT(60), PairViews
<1>3. old = bv[k]
  BY <1>1, <1>2, MutableRowGets
<1> HIDE DEF old
<1>4. CASE bv[k] = NoVal
  <2>1. TableWithMut(tb, k, f, id, c) = tb
    BY Zenon, <1>3, <1>4 DEF TableWithMut, old
  <2> QED
    BY Zenon, <1>4, <2>1 DEF PairBecomes, Updated
<1>5. CASE bv[k] # NoVal
  <2> DEFINE v == f[bv[k]]
             mid == OnRemove(tb.idx, bv[k], id, c)
             base == StoreRow(tb.base, k, v, id, c)
             idx == OnInsert(mid, k, v, id, c)
  <2>1. TableWithMut(tb, k, f, id, c) = [base |-> base, idx |-> idx]
    BY Zenon, <1>3, <1>5 DEF TableWithMut, old
  <2>2. v \in V /\ Unique(bv, k, v)
    BY Zenon, <1>5
  <2> HIDE DEF v
  <2>3. GetFromTable(tb.base, k, id) # NoVal
    BY ZenonT(40), <1>2, <1>5
  <2>4. /\ Becomes(tb.base, base, WithRow(bv, k, v), Keys, V, c, id)
        /\ base.mask.kind = tb.base.mask.kind
    BY <1>1, <2>2, <2>3, StoreRowBecomes
  <2>5. Becomes(tb.idx, idx, Pointing(Unindexed(bv, iv, k), FieldsOf[v], k), Fields, Keys, c, id)
    <3>1. mid = IF bv[k] = NoVal THEN tb.idx ELSE OnRemove(tb.idx, bv[k], id, c)
      BY Zenon, <1>5
    <3> HIDE DEF mid
    <3> QED
      BY Zenon, <2>2, <3>1, ReindexedBecomes
  <2> HIDE DEF base, idx, iv
  <2>6. IndexExact(WithRow(bv, k, v), Pointing(Unindexed(bv, iv, k), FieldsOf[v], k))
    BY ZenonT(40), <1>1, <1>2, <2>2, ExactInsert
  <2>7. PairBecomes(tb, [base |-> base, idx |-> idx], WithRow(bv, k, v), V, c, id)
    BY ZenonT(40), <2>4, <2>5, <2>6, PairParts
  <2>8. [base |-> base, idx |-> idx].base = base
    OBVIOUS
  <2>9. Updated(bv, k, f) = WithRow(bv, k, v)
    BY Zenon, <1>5 DEF Updated, v
  <2> QED
    BY Zenon, <2>1, <2>4, <2>7, <2>8, <2>9
<1> QED
  BY Zenon, <1>4, <1>5

-----------------------------------------------------------------------------
(* The iterators and for_each_mut.                                         *)

(* An iterator yields the rows that get returns. *)
Present(view) == [k \in {j \in DOMAIN view : view[j] # NoVal} |-> view[k]]

(* TableIterator, whatever the mask hides or replaces *)
LEMMA IterShows ==
  ASSUME NEW K, NEW V, NEW c, NEW id, Acting(V, c, id), NEW t, TableOK(t, K, V, c, id)
  PROVE  TableIter(t, id) = Present(ViewOf(t, K, id))
<1> DEFINE rows == IF t.mask.kind = "all" THEN t.mask.rows ELSE t.data
           seen == {k \in DOMAIN rows : VvGet(rows[k], id) # NoVal} \ t.mask.removed
           view == ViewOf(t, K, id)
<1>1. /\ DOMAIN rows = K /\ DOMAIN t.data = K /\ DOMAIN t.mask.rows = K
      /\ MaskOK(t.mask, t.data, K, V, c, id)
  <2>1. t \in Tables(K, V) /\ MaskOK(t.mask, t.data, K, V, c, id)
    BY Zenon DEF TableOK
  <2> QED
    BY Zenon, <2>1, TableFields
<1>2. DOMAIN view = K /\ \A k \in K : view[k] = GetFromTable(t, k, id)
  BY Zenon DEF ViewOf
<1>3. ASSUME NEW k \in K
      PROVE  /\ k \in t.mask.removed => view[k] = NoVal
             /\ k \notin t.mask.removed => view[k] = VvGet(rows[k], id)
  <2>1. CASE t.mask.kind = "all"
    <3>1. t.mask.removed = {}
      BY <1>1, <2>1 DEF MaskOK
    <3>2. GetFromTable(t, k, id) = VvGet(t.mask.rows[k], id)
      BY <2>1, GetCleared
    <3>3. k \notin t.mask.removed
      BY Zenon, <3>1
    <3> QED
      BY ZenonT(40), <1>2, <2>1, <3>2, <3>3
  <2>2. CASE t.mask.kind # "all"
    <3>1. /\ k \in t.mask.removed => GetFromTable(t, k, id) = NoVal
          /\ k \notin t.mask.removed => GetFromTable(t, k, id) = VvGet(t.data[k], id)
      BY <2>2, GetRemoved
    <3> QED
      BY ZenonT(40), <1>2, <2>2, <3>1
  <2> QED
    BY Zenon, <2>1, <2>2
<1> HIDE DEF view
<1>4. TableIter(t, id) = [k \in seen |-> VvGet(rows[k], id)]
  BY Zenon DEF TableIter
<1> HIDE DEF rows
<1>5. seen = {j \in DOMAIN view : view[j] # NoVal}
  BY Zenon, <1>1, <1>2, <1>3
<1>6. \A k \in seen : VvGet(rows[k], id) = view[k]
  BY Zenon, <1>1, <1>3
<1> HIDE DEF seen
<1>7. [k \in seen |-> VvGet(rows[k], id)] = [k \in seen |-> view[k]]
  BY Zenon, <1>6
<1> QED
  BY Zenon, <1>4, <1>5, <1>7 DEF Present, view

(* The closures of for_each_mut. *)
KeepsFields(V, f) ==
  f \in [V -> V] /\ \A v \in V : f[f[v]] = f[v] /\ FieldsOf[f[v]] = FieldsOf[v]

UpdatedAll(bv, S, f) == [k \in Keys |-> IF k \in S /\ bv[k] # NoVal THEN f[bv[k]] ELSE bv[k]]

(* They leave the index keys of the rows apart. *)
LEMMA KeepsUnique ==
  ASSUME NEW V, NEW c, NEW id, Setting(V, c, id), NEW tb, PairOK(tb, V, c, id),
         NEW f, KeepsFields(V, f), NEW k \in Keys, NEW bv, bv = ViewOf(tb.base, Keys, id),
         bv[k] # NoVal
  PROVE  f[bv[k]] \in V /\ Unique(bv, k, f[bv[k]])
<1> DEFINE iv == ViewOf(tb.idx, Fields, id)
<1>1. \A j \in Keys : bv[j] \in V \cup {NoVal}
  BY Zenon, PairViews
<1>2. bv[k] \in V
  BY Zenon, <1>1
<1>3. f[bv[k]] \in V /\ FieldsOf[f[bv[k]]] = FieldsOf[bv[k]]
  BY Zenon, <1>2 DEF KeepsFields
<1>4. \A j \in Keys : bv[j] # NoVal => \A x \in FieldsOf[bv[j]] : iv[x] = j
  BY Zenon DEF PairOK, IndexExact
<1> HIDE DEF iv
<1>5. \A j \in Keys \ {k} : bv[j] # NoVal => FieldsOf[bv[j]] \cap FieldsOf[bv[k]] = {}
  BY ZenonT(40), <1>4
<1> QED
  BY Zenon, <1>3, <1>5 DEF Unique

(* One more row is updated; updating it again changes nothing. *)
LEMMA UpdatedMore ==
  ASSUME NEW V, NoVal \notin V, NEW bv \in [Keys -> V \cup {NoVal}], NEW S,
         NEW x \in Keys, NEW f, KeepsFields(V, f)
  PROVE  /\ Updated(UpdatedAll(bv, S, f), x, f) = UpdatedAll(bv, S \cup {x}, f)
         /\ UpdatedAll(bv, {}, f) = bv
<1> DEFINE all == UpdatedAll(bv, S, f)
           new == UpdatedAll(bv, S \cup {x}, f)
<1>1. \A k \in Keys : /\ all[k] = IF k \in S /\ bv[k] # NoVal THEN f[bv[k]] ELSE bv[k]
                      /\ new[k] = IF k \in S \cup {x} /\ bv[k] # NoVal THEN f[bv[k]] ELSE bv[k]
  BY Zenon DEF UpdatedAll
<1>2. \A v \in V : f[v] \in V /\ f[v] # NoVal /\ f[f[v]] = f[v]
  BY Zenon DEF KeepsFields
<1>3. all = [k \in Keys |-> all[k]] /\ new = [k \in Keys |-> new[k]]
  BY Zenon DEF UpdatedAll
<1> HIDE DEF all, new
<1>4. bv[x] \in V \cup {NoVal} /\ \A k \in Keys : k # x => new[k] = all[k]
  BY Zenon, <1>1
<1>5. ASSUME bv[x] = NoVal PROVE Updated(all, x, f) = new
  <2>1. all[x] = NoVal /\ new[x] = NoVal
    BY Zenon, <1>1, <1>5
  <2>2. \A k \in Keys : new[k] = all[k]
    BY Zenon, <1>4, <2>1
  <2>3. new = all
    BY Zenon, <1>3, <2>2
  <2>4. Updated(all, x, f) = all
    BY Zenon, <2>1 DEF Updated
  <2> QED
    BY Zenon, <2>3, <2>4
<1>6. ASSUME bv[x] # NoVal PROVE Updated(all, x, f) = new
  <2>1. bv[x] \in V
    BY Zenon, <1>4, <1>6
  <2>2. all[x] # NoVal /\ f[all[x]] = f[bv[x]] /\ new[x] = f[bv[x]]
    <3>1. CASE x \in S
      BY Zenon, <1>1, <1>2, <1>6, <2>1, <3>1
    <3>2. CASE x \notin S
      BY ZenonT(40), <1>1, <1>2, <1>6, <2>1, <3>2
    <3> QED
      BY Zenon, <3>1, <3>2
  <2>3. Updated(all, x, f) = [all EXCEPT ![x] = f[bv[x]]]
    BY Zenon, <2>2 DEF Updated, WithRow
  <2>4. ASSUME NEW n, n = [all EXCEPT ![x] = f[bv[x]]] PROVE n = new
    <3>1. \A k \in Keys : n[k] = new[k]
      BY <1>3, <1>4, <2>2, <2>4
    <3>2. n = [k \in Keys |-> n[k]]
      BY Zenon, <1>3, <2>4
    <3> QED
      BY Zenon, <1>3, <3>1, <3>2
  <2> QED
    BY Zenon, <2>3, <2>4
<1>7. UpdatedAll(bv, {}, f) = bv
  BY Zenon DEF UpdatedAll
<1>8. Updated(all, x, f) = new
  BY Zenon, <1>5, <1>6
<1> QED
  BY Zenon, <1>7, <1>8 DEF all, new

(* The pairs that for_each_mut passes through *)
Updatables(V, c, id) ==
  {t \in [base : Tables(Keys, V), idx : Tables(Fields, Keys)] :
     PairOK(t, V, c, id) /\ t.base.mask.kind # "some"}

(* One call of with_mut, from such a pair *)
LEMMA VisitBecomes ==
  ASSUME NEW V, NEW c, NEW id, Setting(V, c, id), NEW tb \in Updatables(V, c, id),
         NEW f, KeepsFields(V, f), NEW k \in Keys
  PROVE  /\ TableWithMut(tb, k, f, id, c) \in Updatables(V, c, id)
         /\ PairBecomes(tb, TableWithMut(tb, k, f, id, c),
                        Updated(ViewOf(tb.base, Keys, id), k, f), V, c, id)
<1> DEFINE bv == ViewOf(tb.base, Keys, id)
           ub == TableWithMut(tb, k, f, id, c)
<1>1. PairOK(tb, V, c, id) /\ tb.base.mask.kind # "some"
  BY Zenon DEF Updatables
<1>2. bv[k] # NoVal => f[bv[k]] \in V /\ Unique(bv, k, f[bv[k]])
  BY ZenonT(40), <1>1, KeepsUnique
<1>3. PairBecomes(tb, ub, Updated(bv, k, f), V, c, id) /\ ub.base.mask.kind = tb.base.mask.kind
  BY <1>1, <1>2, WithMutBecomes
<1> HIDE DEF ub, bv
<1>4. PairOK(ub, V, c, id)
  BY Zenon, <1>3 DEF PairBecomes
<1>5. ub \in [base : Tables(Keys, V), idx : Tables(Fields, Keys)]
  BY Zenon, <1>4 DEF PairOK
<1>6. ub \in Updatables(V, c, id)
  BY Zenon, <1>1, <1>3, <1>4, <1>5 DEF Updatables
<1> QED
  BY Zenon, <1>3, <1>6 DEF ub, bv

(* The elements of a finite set S give rows to visit. *)
Tour(S, at) == IsFiniteSet(S) /\ at \in [S -> Keys]
Visited(S, at) == {at[x] : x \in S}

(* iter folds with_mut over S, at the row at[x] for x. *)
Visits(S, at, tb, f, V, c, id, iter) ==
  /\ iter[{}] = tb
  /\ \A s \in (SUBSET S) \ {{}} :
       iter[s \ {Pick(s)}] \in Updatables(V, c, id) =>
         iter[s] = TableWithMut(iter[s \ {Pick(s)}], at[Pick(s)], f, id, c)

(* A fold of with_mut over S updates the rows at[x] of its elements. *)
LEMMA VisitFold ==
  ASSUME NEW V, NEW c, NEW id, Setting(V, c, id), NEW tb \in Updatables(V, c, id),
         NEW f, KeepsFields(V, f), NEW S, NEW at, Tour(S, at),
         NEW iter, Visits(S, at, tb, f, V, c, id, iter), NEW bv, bv = ViewOf(tb.base, Keys, id)
  PROVE  PairBecomes(tb, iter[S], UpdatedAll(bv, Visited(S, at), f), V, c, id)
<1> DEFINE H == [s \in SUBSET S |-> {t \in {iter[s]} :
                   /\ t \in Updatables(V, c, id)
                   /\ PairBecomes(tb, t, UpdatedAll(bv, {at[x] : x \in s}, f), V, c, id)}]
<1>1. PairOK(tb, V, c, id) /\ NoVal \notin V
  BY Zenon DEF Updatables, Setting, Acting
<1> IsFiniteSet(S) /\ at \in [S -> Keys]
  BY Zenon DEF Tour
<1>2. bv \in [Keys -> V \cup {NoVal}]
  BY Zenon, <1>1, PairViews
<1>3. iter[{}] \in H[{}]
  <2>1. {at[x] : x \in {}} = {}
    BY Zenon
  <2>2. UpdatedAll(bv, {}, f) = bv
    BY Zenon, <1>2 DEF UpdatedAll
  <2>3. PairBecomes(tb, tb, UpdatedAll(bv, {at[x] : x \in {}}, f), V, c, id)
    BY Zenon, <1>1, <2>1, <2>2 DEF PairBecomes
  <2> QED
    BY Zenon, <2>3 DEF Visits
<1>4. ASSUME NEW s \in (SUBSET S) \ {{}}, iter[s \ {Pick(s)}] \in H[s \ {Pick(s)}]
      PROVE  iter[s] \in H[s]
  <2> DEFINE x == Pick(s)
             t == iter[s \ {x}]
             R == {at[y] : y \in s \ {x}}
  <2>1. x \in s /\ x \in S /\ s \in SUBSET S /\ s \ {x} \in SUBSET S
    BY Zenon DEF Pick
  <2>2. t \in Updatables(V, c, id) /\ PairBecomes(tb, t, UpdatedAll(bv, R, f), V, c, id)
    BY Zenon, <1>4, <2>1
  <2>3. iter[s] = TableWithMut(t, at[x], f, id, c)
    BY Zenon, <2>2 DEF Visits
  <2>4. R \cup {at[x]} = {at[y] : y \in s}
    BY Zenon, <2>1
  <2>5. at[x] \in Keys
    BY Zenon, <2>1
  <2> HIDE DEF x, t, R
  <2>6. /\ iter[s] \in Updatables(V, c, id)
        /\ PairBecomes(t, iter[s], Updated(ViewOf(t.base, Keys, id), at[x], f), V, c, id)
    <3> HIDE DEF H
    <3>1. /\ TableWithMut(t, at[x], f, id, c) \in Updatables(V, c, id)
          /\ PairBecomes(t, TableWithMut(t, at[x], f, id, c),
                         Updated(ViewOf(t.base, Keys, id), at[x], f), V, c, id)
      BY <2>2, <2>5, VisitBecomes
    <3> QED
      BY Zenon, <2>3, <3>1
  <2>7. ViewOf(t.base, Keys, id) = UpdatedAll(bv, R, f)
    BY Zenon, <2>2 DEF PairBecomes
  <2>8. Updated(UpdatedAll(bv, R, f), at[x], f) = UpdatedAll(bv, R \cup {at[x]}, f)
    BY SMTT(60), <1>1, <1>2, <2>5, UpdatedMore
  <2>9. PairBecomes(t, iter[s], UpdatedAll(bv, {at[y] : y \in s}, f), V, c, id)
    BY ZenonT(40), <2>4, <2>6, <2>7, <2>8
  <2>10. PairBecomes(tb, iter[s], UpdatedAll(bv, {at[y] : y \in s}, f), V, c, id)
    BY Zenon, <2>2, <2>9 DEF PairBecomes
  <2> QED
    BY Zenon, <2>1, <2>6, <2>10
<1>5. iter[S] \in H[S]
  <2> HIDE DEF H
  <2> QED
    BY Zenon, <1>3, <1>4, FoldInduct
<1> QED
  BY Zenon, <1>5 DEF Visited

(* The function of such a fold exists. *)
LEMMA VisitExists ==
  ASSUME NEW V, NEW c, NEW id, Setting(V, c, id), NEW tb \in Updatables(V, c, id),
         NEW f, KeepsFields(V, f), NEW S, NEW at, Tour(S, at)
  PROVE  \E it \in [SUBSET S -> Updatables(V, c, id)] : Visits(S, at, tb, f, V, c, id, it)
<1> DEFINE G == Updatables(V, c, id)
           g == [x \in S \X G |-> TableWithMut(x[2], at[x[1]], f, id, c)]
<1> IsFiniteSet(S) /\ at \in [S -> Keys]
  BY Zenon DEF Tour
<1>1. \A x \in S : \A t \in G : TableWithMut(t, at[x], f, id, c) \in G
  BY Zenon, VisitBecomes
<1> HIDE DEF G
<1>2. g \in [S \X G -> G] /\ \A x \in S : \A t \in G : g[<<x, t>>] = TableWithMut(t, at[x], f, id, c)
  <2>1. \A x \in S : \A t \in G : g[<<x, t>>] = TableWithMut(t, at[x], f, id, c)
    OBVIOUS
  <2>2. \A x \in S \X G : TableWithMut(x[2], at[x[1]], f, id, c) \in G
    BY Zenon, <1>1
  <2> QED
    BY Zenon, <2>1, <2>2
<1> HIDE DEF g
<1>3. tb \in G
  BY Zenon DEF G
<1>4. PICK it : IsFold(S, G, tb, g, it)
  BY Zenon, <1>2, <1>3, FoldExists
<1>5. ASSUME NEW s \in SUBSET S, s # {}
      PROVE  it[s] = TableWithMut(it[s \ {Pick(s)}], at[Pick(s)], f, id, c)
  <2>1. Pick(s) \in S /\ s \ {Pick(s)} \in SUBSET S
    BY Zenon, <1>5 DEF Pick
  <2>2. it[s \ {Pick(s)}] \in G
    BY Zenon, <1>4, <2>1 DEF IsFold
  <2> QED
    BY ZenonT(40), <1>2, <1>4, <1>5, <2>1, <2>2 DEF IsFold
<1>6. it \in [SUBSET S -> G] /\ it[{}] = tb
  BY Zenon, <1>4 DEF IsFold
<1> QED
  BY Zenon, <1>5, <1>6 DEF G, Visits

(* for_each_mut updates every row. *)
LEMMA ForEachMutBecomes ==
  ASSUME NEW V, NEW c, NEW id, Setting(V, c, id), NEW tb \in Updatables(V, c, id),
         NEW f, KeepsFields(V, f)
  PROVE  PairBecomes(tb, TableForEachMut(tb, f, id, c),
                     UpdatedAll(ViewOf(tb.base, Keys, id), Keys, f), V, c, id)
<1> DEFINE visit(acc, k) ==
             IF acc.base.mask.kind = "some" /\ k \in acc.base.mask.removed
             THEN [acc EXCEPT !.base.data[k] = InternalClone(@, id)]
             ELSE TableWithMut(acc, k, f, id, c)
           Eq(h) == h = [s \in SUBSET Keys |->
                           IF s = {} THEN tb ELSE visit(h[s \ {Pick(s)}], Pick(s))]
           iter == CHOOSE h : Eq(h)
           at == [k \in Keys |-> k]
           G == Updatables(V, c, id)
<1>1. TableForEachMut(tb, f, id, c) = iter[Keys]
  BY Zenon DEF TableForEachMut, FoldSet, MapThenFoldSet, Pick
<1>2. \A k : \A t \in G : visit(t, k) = TableWithMut(t, k, f, id, c)
  BY Zenon DEF Updatables
<1> HIDE DEF visit
<1>3. at \in [Keys -> Keys] /\ (\A k \in Keys : at[k] = k) /\ {at[k] : k \in Keys} = Keys
  BY Zenon
<1>4. Tour(Keys, at) /\ Visited(Keys, at) = Keys
  BY Zenon, <1>3 DEF Setting, Tour, Visited
<1> HIDE DEF at
<1>5. PICK it \in [SUBSET Keys -> G] : Visits(Keys, at, tb, f, V, c, id, it)
  BY Zenon, <1>4, VisitExists
<1> HIDE DEF G
<1>6. \A s \in (SUBSET Keys) \ {{}} : Pick(s) \in Keys /\ s \ {Pick(s)} \in SUBSET Keys
  BY Zenon DEF Pick
<1>7. Eq(it)
  <2>1. ASSUME NEW s \in SUBSET Keys
        PROVE  it[s] = IF s = {} THEN tb ELSE visit(it[s \ {Pick(s)}], Pick(s))
    <3>1. CASE s # {}
      <4>1. Pick(s) \in Keys /\ s \ {Pick(s)} \in SUBSET Keys
        BY Zenon, <1>6, <3>1
      <4>2. it[s \ {Pick(s)}] \in G
        BY Zenon, <4>1
      <4>3. it[s] = TableWithMut(it[s \ {Pick(s)}], at[Pick(s)], f, id, c)
        BY Zenon, <1>5, <3>1, <4>2 DEF Visits, G
      <4>4. at[Pick(s)] = Pick(s)
        BY Zenon, <1>3, <4>1
      <4>5. visit(it[s \ {Pick(s)}], Pick(s)) = it[s]
        BY Zenon, <1>2, <4>2, <4>3, <4>4
      <4> QED
        BY Zenon, <3>1, <4>5
    <3> QED
      BY Zenon, <1>5, <3>1 DEF Visits
  <2>2. it = [s \in SUBSET Keys |-> it[s]]
    BY Zenon
  <2> QED
    BY Zenon, <2>1, <2>2
<1>8. Eq(iter)
  BY Zenon, <1>7
<1> HIDE DEF iter
<1>9. \A s \in SUBSET Keys :
        iter[s] = IF s = {} THEN tb ELSE visit(iter[s \ {Pick(s)}], Pick(s))
  BY Zenon, <1>8
<1>10. ASSUME NEW s \in (SUBSET Keys) \ {{}}, iter[s \ {Pick(s)}] \in Updatables(V, c, id)
       PROVE  iter[s] = TableWithMut(iter[s \ {Pick(s)}], at[Pick(s)], f, id, c)
  <2>1. iter[s] = visit(iter[s \ {Pick(s)}], Pick(s))
    BY Zenon, <1>9
  <2>2. at[Pick(s)] = Pick(s)
    BY Zenon, <1>3, <1>6
  <2> QED
    BY Zenon, <1>2, <1>10, <2>1, <2>2 DEF G
<1>11. Visits(Keys, at, tb, f, V, c, id, iter)
  BY Zenon, <1>9, <1>10 DEF Visits
<1> HIDE DEF Eq
<1>12. PairBecomes(tb, iter[Keys], UpdatedAll(ViewOf(tb.base, Keys, id), Visited(Keys, at), f),
                   V, c, id)
  BY Zenon, <1>4, <1>11, VisitFold
<1> QED
  BY Zenon, <1>1, <1>4, <1>12

(* Through the index only the rows that have an index key are visited. *)
OnIndexed(V, f) == [v \in V |-> IF FieldsOf[v] = {} THEN v ELSE f[v]]

(* A row is visited once for every index key, and an update repeated       *)
(* changes nothing.                                                        *)
LEMMA IndexedForEachMutBecomes ==
  ASSUME NEW V, NEW c, NEW id, Setting(V, c, id), NEW tb \in Updatables(V, c, id),
         NEW f, KeepsFields(V, f)
  PROVE  PairBecomes(tb, IndexedForEachMut(tb, f, id, c),
                     UpdatedAll(ViewOf(tb.base, Keys, id), Keys, OnIndexed(V, f)), V, c, id)
<1> DEFINE bv == ViewOf(tb.base, Keys, id)
           iv == ViewOf(tb.idx, Fields, id)
           at == TableIter(tb.idx, id)
           S == DOMAIN at
           G == Updatables(V, c, id)
           Eq(h) == h = [s \in SUBSET S |-> IF s = {} THEN tb
                           ELSE TableWithMut(h[s \ {Pick(s)}], at[Pick(s)], f, id, c)]
           iter == CHOOSE h : Eq(h)
<1>1. IndexedForEachMut(tb, f, id, c) = iter[S]
  BY Zenon DEF IndexedForEachMut, FoldSet, MapThenFoldSet, Pick
<1>2. /\ PairOK(tb, V, c, id) /\ IndexExact(bv, iv) /\ Acting(Keys, c, id)
      /\ TableOK(tb.idx, Fields, Keys, c, id) /\ IsFiniteSet(Fields)
  BY Zenon DEF Updatables, PairOK, Setting
<1>3. iv \in [Fields -> Keys \cup {NoVal}] /\ bv \in [Keys -> V \cup {NoVal}]
  BY Zenon, <1>2, PairViews
<1>4. at = Present(iv)
  BY Zenon, <1>2, IterShows
<1> HIDE DEF at, iv, bv
<1>5. S = {x \in Fields : iv[x] # NoVal} /\ \A x \in S : at[x] = iv[x]
  BY Zenon, <1>3, <1>4 DEF Present
<1>6. at = [x \in S |-> iv[x]]
  BY Zenon, <1>4 DEF Present
<1> HIDE DEF S
<1>7. at \in [S -> Keys]
  BY Zenon, <1>3, <1>5, <1>6
<1>8. Tour(S, at)
  <2>1. S \subseteq Fields
    BY Zenon, <1>5
  <2>2. IsFiniteSet(S)
    BY Zenon, <1>2, <2>1, FS_Subset
  <2> QED
    BY Zenon, <1>7, <2>2 DEF Tour
<1>9. PICK it \in [SUBSET S -> G] : Visits(S, at, tb, f, V, c, id, it)
  BY Zenon, <1>8, VisitExists
<1>10. Eq(it)
  <2>1. ASSUME NEW s \in (SUBSET S) \ {{}}
        PROVE  it[s] = TableWithMut(it[s \ {Pick(s)}], at[Pick(s)], f, id, c)
    <3>1. s \ {Pick(s)} \in SUBSET S
      BY Zenon
    <3>2. it[s \ {Pick(s)}] \in Updatables(V, c, id)
      BY Zenon, <3>1 DEF G
    <3> QED
      BY Zenon, <1>9, <3>2 DEF Visits
  <2>2. it[{}] = tb
    BY Zenon, <1>9 DEF Visits
  <2>3. it = [s \in SUBSET S |-> it[s]]
    BY Zenon
  <2>4. \A s \in SUBSET S : it[s] = IF s = {} THEN tb
                   ELSE TableWithMut(it[s \ {Pick(s)}], at[Pick(s)], f, id, c)
    BY Zenon, <2>1, <2>2
  <2> QED
    BY Zenon, <2>3, <2>4
<1>11. Eq(iter)
  BY Zenon, <1>10
<1> HIDE DEF iter, G
<1>12. Visits(S, at, tb, f, V, c, id, iter)
  BY Zenon, <1>11 DEF Visits
<1>13. PairBecomes(tb, iter[S], UpdatedAll(bv, {at[x] : x \in S}, f), V, c, id)
  <2>1. bv = ViewOf(tb.base, Keys, id)
    BY Zenon DEF bv
  <2>2. PairBecomes(tb, iter[S], UpdatedAll(bv, Visited(S, at), f), V, c, id)
    BY Zenon, <1>8, <1>12, <2>1, VisitFold
  <2> QED
    BY Zenon, <2>2 DEF Visited
<1>14. UpdatedAll(bv, {at[x] : x \in S}, f) = UpdatedAll(bv, Keys, OnIndexed(V, f))
  <2>1. ASSUME NEW k \in Keys, bv[k] # NoVal
        PROVE  /\ bv[k] \in V
               /\ k \in {at[x] : x \in S} <=> FieldsOf[bv[k]] # {}
    <3>1. bv[k] \in V
      BY Zenon, <1>3, <2>1
    <3>2. ASSUME FieldsOf[bv[k]] # {} PROVE k \in {at[x] : x \in S}
      <4>1. PICK x \in Fields : x \in FieldsOf[bv[k]]
        BY Zenon, <3>1, <3>2 DEF Setting
      <4>2. iv[x] = k
        BY ZenonT(40), <1>2, <2>1, <4>1 DEF IndexExact
      <4>3. k # NoVal
        BY Zenon, <1>2 DEF Acting
      <4> QED
        BY Zenon, <1>5, <4>2, <4>3
    <3>3. ASSUME NEW x \in S, k = at[x] PROVE FieldsOf[bv[k]] # {}
      <4>1. x \in Fields /\ iv[x] # NoVal /\ iv[x] = k
        BY Zenon, <1>5, <3>3
      <4>2. x \in FieldsOf[bv[iv[x]]]
        BY Zenon, <1>2, <4>1 DEF IndexExact
      <4> QED
        BY Zenon, <4>1, <4>2
    <3> QED
      BY Zenon, <3>1, <3>2, <3>3
  <2> DEFINE R == {at[x] : x \in S}
  <2>2. \A k \in Keys : (IF k \in R /\ bv[k] # NoVal THEN f[bv[k]] ELSE bv[k])
                        = IF k \in Keys /\ bv[k] # NoVal THEN OnIndexed(V, f)[bv[k]] ELSE bv[k]
    <3> HIDE DEF R
    <3>1. ASSUME NEW k \in Keys, bv[k] # NoVal
          PROVE  OnIndexed(V, f)[bv[k]] = IF k \in R THEN f[bv[k]] ELSE bv[k]
      BY Zenon, <2>1, <3>1 DEF OnIndexed, R
    <3> QED
      BY Zenon, <3>1
  <2> QED
    BY Zenon, <2>2 DEF UpdatedAll
<1> QED
  BY Zenon, <1>1, <1>13, <1>14 DEF bv

(* Pairs that become pairs in two steps. *)
LEMMA PairTwice ==
  ASSUME NEW tb, NEW ub, NEW wb, NEW view, NEW new, NEW V, NEW c, NEW id,
         PairBecomes(tb, ub, view, V, c, id), PairBecomes(ub, wb, new, V, c, id)
  PROVE  PairBecomes(tb, wb, new, V, c, id)
BY Zenon DEF PairBecomes

(* with_mut through the index updates the row that the index names. *)
LEMMA IndexedWithMutBecomes ==
  ASSUME NEW V, NEW c, NEW id, Setting(V, c, id), NEW tb, PairOK(tb, V, c, id),
         NEW field \in Fields, NEW f, NEW bv, bv = ViewOf(tb.base, Keys, id),
         NEW k, k = GetFromTable(tb.idx, field, id),
         k # NoVal /\ bv[k] # NoVal => f[bv[k]] \in V /\ Unique(bv, k, f[bv[k]])
  PROVE  PairBecomes(tb, IndexedWithMut(tb, field, f, id, c),
                     IF k = NoVal THEN bv ELSE Updated(bv, k, f), V, c, id)
<1>1. k \in Keys \cup {NoVal}
  BY PairViews
<1>2. CASE k = NoVal
  <2>1. IndexedWithMut(tb, field, f, id, c) = tb
    BY Zenon, <1>2 DEF IndexedWithMut
  <2> QED
    BY Zenon, <1>2, <2>1 DEF PairBecomes
<1>3. CASE k # NoVal
  <2>1. IndexedWithMut(tb, field, f, id, c) = TableWithMut(tb, k, f, id, c) /\ k \in Keys
    BY ZenonT(40), <1>1, <1>3 DEF IndexedWithMut
  <2>2. PairBecomes(tb, TableWithMut(tb, k, f, id, c), Updated(bv, k, f), V, c, id)
    BY <1>3, <2>1, WithMutBecomes
  <2> QED
    BY Zenon, <1>3, <2>1, <2>2
<1> QED
  BY ZenonT(40), <1>2, <1>3

(* remove through the index removes the row that the index names; that the *)
(* index key goes too is what on_remove already did.                       *)
LEMMA IndexedRemoveBecomes ==
  ASSUME NEW V, NEW c, NEW id, Setting(V, c, id), NEW tb, PairOK(tb, V, c, id),
         NEW field \in Fields, NEW bv, bv = ViewOf(tb.base, Keys, id),
         NEW k, k = GetFromTable(tb.idx, field, id)
  PROVE  PairBecomes(tb, IndexedRemove(tb, field, id, c),
                     IF k = NoVal THEN bv ELSE WithRow(bv, k, NoVal), V, c, id)
<1> DEFINE iv == ViewOf(tb.idx, Fields, id)
<1>1. /\ k \in Keys \cup {NoVal} /\ bv \in [Keys -> V \cup {NoVal}] /\ k = iv[field]
      /\ iv \in [Fields -> Keys \cup {NoVal}]
  BY PairViews
<1>2. CASE k = NoVal
  <2>1. IndexedRemove(tb, field, id, c) = tb
    BY Zenon, <1>2 DEF IndexedRemove
  <2> QED
    BY Zenon, <1>2, <2>1 DEF PairBecomes
<1>3. CASE k # NoVal
  <2> DEFINE rest == TableRemove(tb, k, id, c)
             rv == ViewOf(rest.idx, Fields, id)
             idx == DropRow(rest.idx, field, id, c)
             ub == [rest EXCEPT !.idx = idx]
             new == WithRow(bv, k, NoVal)
  <2>1. IndexedRemove(tb, field, id, c) = ub
    BY Zenon, <1>3 DEF IndexedRemove
  <2>2. k \in Keys /\ IndexExact(bv, iv)
    BY Zenon, <1>1, <1>3 DEF PairOK
  <2>3. GetFromTable(tb.base, k, id) # NoVal /\ bv[k] # NoVal
    <3>1. bv[k] # NoVal
      BY ZenonT(40), <1>1, <1>3, <2>2 DEF IndexExact
    <3>2. GetFromTable(tb.base, k, id) = bv[k]
      BY Zenon, <2>2 DEF ViewOf
    <3> QED
      BY Zenon, <3>1, <3>2
  <2>4. PairBecomes(tb, rest, new, V, c, id)
    BY Zenon, <2>2, <2>3, RemoveBecomes
  <2> HIDE DEF rest
  <2>5. /\ PairOK(rest, V, c, id) /\ ViewOf(rest.base, Keys, id) = new
        /\ IndexExact(new, rv) /\ TableOK(rest.idx, Fields, Keys, c, id)
        /\ TableOK(rest.base, Keys, V, c, id)
        /\ rest \in [base : Tables(Keys, V), idx : Tables(Fields, Keys)]
    BY ZenonT(40), <2>4 DEF PairBecomes, PairOK
  <2>6. rv \in [Fields -> Keys \cup {NoVal}]
    BY <2>5, PairViews
  <2>7. \A j \in Keys : new[j] = IF j = k THEN NoVal ELSE bv[j]
    BY Zenon, <1>1, <2>2 DEF WithRow
  <2> HIDE DEF rv, new, iv
  <2>8. rv[field] = NoVal
    <3> SUFFICES ASSUME rv[field] # NoVal PROVE FALSE
      OBVIOUS
    <3> DEFINE j == rv[field]
    <3>1. j \in Keys /\ new[j] # NoVal /\ field \in FieldsOf[new[j]]
      <4> HIDE DEF ub, idx
      <4>1. j \in Keys
        BY Zenon, <2>6
      <4>2. new[rv[field]] # NoVal /\ field \in FieldsOf[new[rv[field]]]
        BY Zenon, <2>5 DEF IndexExact
      <4> QED
        BY Zenon, <4>1, <4>2
    <3> HIDE DEF j
    <3>2. j # k /\ new[j] = bv[j]
      BY Zenon, <2>7, <3>1
    <3>3. iv[field] = j
      BY Zenon, <2>2, <3>1, <3>2 DEF IndexExact
    <3> QED
      BY Zenon, <1>1, <3>2, <3>3
  <2>9. WithRow(rv, field, NoVal) = rv
    <3> SUFFICES ASSUME NEW n, n = [rv EXCEPT ![field] = NoVal] PROVE n = rv
      BY Zenon DEF WithRow
    <3>1. n \in [Fields -> Keys \cup {NoVal}] /\ \A x \in Fields : n[x] = rv[x]
      BY Zenon, <2>6, <2>8
    <3> QED
      BY Zenon, <2>6, <3>1
  <2>10. Acting(Keys, c, id)
    BY ZenonT(40) DEF Setting
  <2>11. Becomes(rest.idx, idx, WithRow(rv, field, NoVal), Fields, Keys, c, id)
    BY ZenonT(40), <2>5, <2>10, DropRowBecomes DEF rv
  <2> HIDE DEF idx
  <2>12. Becomes(rest.idx, idx, rv, Fields, Keys, c, id)
    BY Zenon, <2>9, <2>11
  <2>13. Becomes(rest.base, rest.base, new, Keys, V, c, id)
    BY ZenonT(40), <2>5 DEF Becomes
  <2>14. PairBecomes(rest, [base |-> rest.base, idx |-> idx], new, V, c, id)
    BY ZenonT(40), <2>5, <2>12, <2>13, PairParts
  <2>15. ASSUME NEW n, n = ub PROVE n = [base |-> rest.base, idx |-> idx]
    BY <2>5, <2>15
  <2>16. PairBecomes(tb, ub, new, V, c, id)
    BY Zenon, <2>4, <2>14, <2>15, PairTwice
  <2> QED
    BY Zenon, <1>3, <2>1, <2>16 DEF new
<1> QED
  BY ZenonT(40), <1>2, <1>3

-----------------------------------------------------------------------------
(* What reads find. *)

(* len and is_empty count the rows that get returns. *)
LEMMA TableCounts ==
  ASSUME NEW K, IsFiniteSet(K), NEW V, NEW c, NEW id, Acting(V, c, id),
         NEW t, TableOK(t, K, V, c, id), NEW shown, shown = {k \in K : GetFromTable(t, k, id) # NoVal}
  PROVE  TableLen(t, id) = Cardinality(shown) /\ (TableIsEmpty(t, id) <=> shown = {})
<1> DEFINE data == DataKeys(t, id)
           removed == t.mask.removed
           kind == t.mask.kind
<1>1. /\ t \in Tables(K, V) /\ MaskOK(t.mask, t.data, K, V, c, id) /\ id \in Nat \ {0} /\ c \in Nat
      /\ NoVal \notin V
  BY Zenon DEF TableOK, Acting
<1>2. /\ DOMAIN t.data = K /\ kind \in {"none", "all", "some"} /\ removed \in SUBSET K
      /\ t.mask.rows \in [K -> Versions(V)]
  BY ZenonT(40), <1>1, TableFields
<1>3. data = {k \in K : VvGet(t.data[k], id) # NoVal}
  BY Zenon, <1>2 DEF DataKeys
<1>4. removed \in SUBSET data /\ (kind # "some" => removed = {})
  BY ZenonT(40), <1>1, <1>2, <1>3 DEF MaskOK
<1>5. \A k \in K : GetFromTable(t, k, id) =
                     IF kind = "all" THEN VvGet(t.mask.rows[k], id)
                     ELSE IF k \in removed THEN NoVal ELSE VvGet(t.data[k], id)
  BY SMTT(60), TableGet
<1>6. IsFiniteSet(data) /\ IsFiniteSet(removed) /\ IsFiniteSet(shown)
  <2>1. data \in SUBSET K /\ shown \in SUBSET K
    BY Zenon, <1>3
  <2>2. IsFiniteSet(data) /\ IsFiniteSet(shown)
    BY <2>1, FS_Subset
  <2> QED
    BY Zenon, <1>2, <2>2, FS_Subset
<1>7. Cardinality(shown) \in Nat /\ (Cardinality(shown) = 0 <=> shown = {})
  BY Zenon, <1>6, FS_CardinalityType, FS_EmptySet
<1>8. CASE kind = "all"
  <2>1. ASSUME NEW k \in K
        PROVE  t.mask.rows[k] # NoVersions <=> GetFromTable(t, k, id) # NoVal
    <3>1. GetFromTable(t, k, id) = VvGet(t.mask.rows[k], id)
      BY ZenonT(40), <1>5, <1>8
    <3>2. CASE t.mask.rows[k] = NoVersions
      BY ZenonT(40), <1>1, <3>1, <3>2, NoVersion
    <3>3. ASSUME NEW v \in V, t.mask.rows[k] = VvNew(v, id)
          PROVE  t.mask.rows[k] # NoVersions /\ GetFromTable(t, k, id) # NoVal
      <4>1. VvNew(v, id) # NoVersions /\ VvGet(VvNew(v, id), id) = v
        <5>1. id \in Nat /\ id <= id
          BY SMTT(60), <1>1
        <5> QED
          BY ZenonT(40), <1>1, <5>1, NewVersion
      <4> QED
        BY ZenonT(40), <1>1, <3>1, <3>3, <4>1
    <3> QED
      BY ZenonT(40), <1>1, <3>2, <3>3 DEF MaskOK
  <2>2. shown = {k \in K : t.mask.rows[k] # NoVersions}
    BY ZenonT(40), <2>1
  <2>3. TableLen(t, id) = Cardinality({k \in DOMAIN t.data : t.mask.rows[k] # NoVersions})
    BY ZenonT(40), <1>8 DEF TableLen
  <2>4. TableIsEmpty(t, id) <=> \A k \in DOMAIN t.data : t.mask.rows[k] = NoVersions
    BY ZenonT(40), <1>8 DEF TableIsEmpty
  <2> QED
    BY ZenonT(40), <1>2, <2>2, <2>3, <2>4
<1>9. CASE kind # "all"
  <2>1. shown = data \ removed
    BY ZenonT(40), <1>3, <1>5, <1>9
  <2>2. Cardinality(shown) = Cardinality(data) - Cardinality(removed)
    <3>1. Cardinality(shown) = Cardinality(data) - Cardinality(data \cap removed)
      BY ZenonT(40), <1>6, <2>1, FS_Difference
    <3>2. data \cap removed = removed
      BY Zenon, <1>4
    <3> QED
      BY ZenonT(40), <3>1, <3>2
  <2>3. kind = "none" => Cardinality(shown) = Cardinality(data)
    <3> HAVE kind = "none"
    <3>1. removed = {}
      BY ZenonT(40), <1>4
    <3>2. shown = data
      BY ZenonT(40), <2>1, <3>1
    <3> QED
      BY Zenon, <3>2
  <2> HIDE DEF data, removed
  <2>4. TableLen(t, id) = Cardinality(shown)
    <3>1. CASE kind = "none"
      BY ZenonT(40), <2>3, <3>1 DEF TableLen, data
    <3>2. CASE kind = "some"
      BY ZenonT(40), <2>2, <3>2 DEF TableLen, data, removed
    <3> QED
      BY ZenonT(40), <1>2, <1>9, <3>1, <3>2
  <2>5. TableIsEmpty(t, id) <=> shown = {}
    <3>1. CASE kind = "some" /\ t.data = NoRows(K)
      <4>1. TableIsEmpty(t, id)
        BY ZenonT(40), <1>2, <3>1 DEF TableIsEmpty
      <4>2. \A k \in K : VvGet(t.data[k], id) = NoVal
        <5>1. \A k \in K : t.data[k] = NoVersions
          BY ZenonT(40), <3>1 DEF NoRows
        <5>2. VvGet(NoVersions, id) = NoVal
          BY ZenonT(40), <1>1, NoVersion
        <5> QED
          BY ZenonT(40), <5>1, <5>2
      <4>3. data = {}
        BY ZenonT(40), <1>3, <4>2
      <4> QED
        BY ZenonT(40), <2>1, <4>1, <4>3
    <3>2. CASE ~ (kind = "some" /\ t.data = NoRows(K))
      <4>1. TableIsEmpty(t, id) <=> Cardinality(data) - Cardinality(removed) = 0
        BY ZenonT(40), <1>2, <1>9, <3>2 DEF TableIsEmpty, data, removed
      <4> QED
        BY ZenonT(40), <1>7, <2>2, <4>1
    <3> QED
      BY ZenonT(40), <3>1, <3>2
  <2> QED
    BY ZenonT(40), <2>4, <2>5
<1> QED
  BY ZenonT(40), <1>8, <1>9

(* The index, read by itself, is the inverse of the rows. *)
LEMMA IndexInverse ==
  ASSUME NEW V, NEW c, NEW id, Setting(V, c, id), NEW tb, PairOK(tb, V, c, id),
         NEW bv, bv = ViewOf(tb.base, Keys, id), NEW iv, iv = ViewOf(tb.idx, Fields, id)
  PROVE  /\ \A f \in Fields : iv[f] # NoVal => iv[f] \in Keys
         /\ \A k \in Keys : bv[k] # NoVal => bv[k] \in V /\ FieldsOf[bv[k]] \subseteq Fields
         /\ \A f \in Fields, k \in Keys :
               bv[k] # NoVal /\ f \in FieldsOf[bv[k]] <=> iv[f] = k
<1>1. /\ TableOK(tb.base, Keys, V, c, id) /\ TableOK(tb.idx, Fields, Keys, c, id)
      /\ IndexExact(bv, iv) /\ Acting(V, c, id) /\ Acting(Keys, c, id) /\ NoVal \notin Keys
      /\ \A v \in V : FieldsOf[v] \in SUBSET Fields
  BY Zenon DEF PairOK, Setting, Acting
<1>2. \A f \in Fields : iv[f] \in Keys \cup {NoVal}
  <2>1. \A f \in Fields : GetFromTable(tb.idx, f, id) \in Keys \cup {NoVal}
    BY ZenonT(40), <1>1, TableGet
  <2> QED
    BY ZenonT(40), <2>1 DEF ViewOf
<1>3. \A k \in Keys : bv[k] \in V \cup {NoVal}
  <2>1. \A k \in Keys : GetFromTable(tb.base, k, id) \in V \cup {NoVal}
    BY ZenonT(40), <1>1, TableGet
  <2> QED
    BY ZenonT(40), <2>1 DEF ViewOf
<1> QED
  BY ZenonT(40), <1>1, <1>2, <1>3 DEF IndexExact

-----------------------------------------------------------------------------
(* The storage.                                                            *)

Singles(V) ==
  [Singletons -> [owner : Owners \cup {NoOwner}, vv : Versions(V \cup {Tombstone})]]
Stores(V) ==
  [sin : Singles(V), tables : [base : Tables(Keys, V), idx : Tables(Fields, Keys)],
   committed : Nat \ {0}, pending : Nat, touched : SUBSET Singletons, next : Nat]

(* The singletons hold versions up to c, and of id where that is recorded. *)
SinglesOK(sin, touched, c, id) ==
  \A k \in Singletons : /\ Apart(sin[k].vv) /\ UpTo(sin[k].vv, c, id)
                        /\ k \notin touched => UpTo(sin[k].vv, c, c)

TxnsOK(s) ==
  s.committed < s.next /\ s.pending < s.next /\ (s.pending # 0 => s.committed < s.pending)

(* The tables are in order for the acting transaction, and would be for    *)
(* the committed one after a roll-back.                                    *)
StoreOK(s, V) ==
  /\ s \in Stores(V) /\ TxnsOK(s)
  /\ PairOK(s.tables, V, s.committed, StorageTxn(s))
  /\ IndexExact(Committed(s.tables.base, Keys, s.committed),
                Committed(s.tables.idx, Fields, s.committed))
  /\ SinglesOK(s.sin, s.touched, s.committed, StorageTxn(s))

(* The values of a program *)
ValuesOK(V) ==
  /\ V \subseteq Vals /\ NoVal \notin V /\ Tombstone \notin V /\ NoVal # Tombstone
  /\ NoVal \notin Keys /\ IsFiniteSet(Keys) /\ IsFiniteSet(Fields)
  /\ \A v \in V : FieldsOf[v] \in SUBSET Fields
  /\ Keys \cap Singletons = {}

(* The values of every workload are in order. *)
LEMMA ValuesFit ==
  ASSUME NEW w \in Workloads
  PROVE  ValuesOK(w.vals)
<1>1. w.vals \subseteq Vals
  BY Zenon, StoreAssumption
<1>2. \A v \in Vals : FieldsOf[v] \in SUBSET Fields
  BY Zenon, StoreAssumption
<1> QED
  BY Zenon, <1>1, <1>2, StoreAssumption DEF ValuesOK

(* The fields of a storage. *)
LEMMA StoreFields ==
  ASSUME NEW V, NEW s \in Stores(V)
  PROVE  /\ s.sin \in Singles(V) /\ s.committed \in Nat \ {0} /\ s.pending \in Nat
         /\ s.tables \in [base : Tables(Keys, V), idx : Tables(Fields, Keys)]
         /\ s.touched \in SUBSET Singletons /\ s.next \in Nat
         /\ StorageTxn(s) \in Nat \ {0}
         /\ \A k \in Singletons : s.sin[k].vv \in Versions(V \cup {Tombstone})
<1>1. /\ s.sin \in Singles(V) /\ s.committed \in Nat \ {0} /\ s.pending \in Nat
      /\ s.tables \in [base : Tables(Keys, V), idx : Tables(Fields, Keys)]
      /\ s.touched \in SUBSET Singletons /\ s.next \in Nat
  BY Zenon DEF Stores
<1>2. StorageTxn(s) \in Nat \ {0}
  BY Zenon, <1>1 DEF StorageTxn
<1>3. \A k \in Singletons : s.sin[k].vv \in Versions(V \cup {Tombstone})
  BY Zenon, <1>1 DEF Singles
<1> QED
  BY Zenon, <1>1, <1>2, <1>3

(* The ids of a storage are those of an acting transaction. *)
LEMMA StoreActs ==
  ASSUME NEW V, ValuesOK(V), NEW s \in Stores(V), TxnsOK(s)
  PROVE  /\ Setting(V, s.committed, StorageTxn(s)) /\ Acting(V \cup {Tombstone}, s.committed, StorageTxn(s))
         /\ Setting(V, s.committed, s.committed)
         /\ s.pending = 0 => StorageTxn(s) = s.committed
         /\ s.pending # 0 => StorageTxn(s) = s.pending /\ s.committed < StorageTxn(s)
<1> DEFINE c == s.committed
           id == StorageTxn(s)
<1>1. c \in Nat \ {0} /\ s.pending \in Nat /\ id \in Nat \ {0}
  BY Zenon, StoreFields
<1>2. /\ s.pending = 0 => id = c
      /\ s.pending # 0 => id = s.pending /\ c < id
  BY Zenon DEF StorageTxn, TxnsOK
<1> HIDE DEF c, id
<1>3. c <= id /\ c <= c
  BY <1>1, <1>2
<1>4. Acting(V, c, id) /\ Acting(Keys, c, id) /\ Acting(V \cup {Tombstone}, c, id)
      /\ Acting(V, c, c) /\ Acting(Keys, c, c)
  BY Zenon, <1>1, <1>3 DEF Acting, ValuesOK
<1> QED
  BY Zenon, <1>2, <1>4 DEF Setting, ValuesOK, c, id

(* What id, with the rows bv, reads of a storage; what the acting          *)
(* transaction reads, and what is committed.                               *)
Shows(s, bv, id) ==
  [c \in Keys \cup Singletons |-> IF c \in Singletons THEN GetSingleton(s, c, id) ELSE bv[c]]
Seen(s) == Shows(s, ViewOf(s.tables.base, Keys, StorageTxn(s)), StorageTxn(s))
Kept(s) == Shows(s, Committed(s.tables.base, Keys, s.committed), s.committed)

SameTxn(s, n) == n.committed = s.committed /\ n.pending = s.pending /\ n.next = s.next

(* s became n: the acting transaction reads content, and a transaction     *)
(* leaves what is committed alone.                                         *)
StoreBecomes(s, n, content, V) ==
  /\ StoreOK(n, V) /\ SameTxn(s, n)
  /\ Seen(n) = content
  /\ s.pending # 0 => Kept(n) = Kept(s)

(* Outside a transaction what is read is what is committed. *)
LEMMA RawSeen ==
  ASSUME NEW V, ValuesOK(V), NEW s, StoreOK(s, V), s.pending = 0
  PROVE  Seen(s) = Kept(s)
<1>1. s \in Stores(V) /\ TxnsOK(s) /\ PairOK(s.tables, V, s.committed, StorageTxn(s))
  BY Zenon DEF StoreOK
<1>2. StorageTxn(s) = s.committed /\ Setting(V, s.committed, s.committed)
  BY Zenon, <1>1, StoreActs
<1>3. ViewOf(s.tables.base, Keys, s.committed) = Committed(s.tables.base, Keys, s.committed)
  <2>1. TableOK(s.tables.base, Keys, V, s.committed, s.committed) /\ Acting(V, s.committed, s.committed)
    BY Zenon, <1>1, <1>2 DEF PairOK, Setting
  <2> QED
    BY Zenon, <2>1, RawView
<1> QED
  BY Zenon, <1>2, <1>3 DEF Seen, Kept

(* The singletons are the same. *)
LEMMA ShowsSame ==
  ASSUME NEW s, NEW n, n.sin = s.sin, NEW bv, NEW id
  PROVE  Shows(n, bv, id) = Shows(s, bv, id)
<1>1. \A k \in Singletons : GetSingleton(n, k, id) = GetSingleton(s, k, id)
  BY Zenon DEF GetSingleton
<1> QED
  BY Zenon, <1>1 DEF Shows

(* An operation on the tables. *)
LEMMA TablesStep ==
  ASSUME NEW V, ValuesOK(V), NEW s, StoreOK(s, V), NEW tb, NEW view,
         PairBecomes(s.tables, tb, view, V, s.committed, StorageTxn(s)),
         NEW n \in Stores(V), n.tables = tb, n.sin = s.sin, n.touched = s.touched, SameTxn(s, n)
  PROVE  StoreBecomes(s, n, Shows(s, view, StorageTxn(s)), V)
<1> DEFINE c == s.committed
           id == StorageTxn(s)
<1>1. /\ s \in Stores(V) /\ TxnsOK(s) /\ SinglesOK(s.sin, s.touched, c, id)
      /\ PairOK(tb, V, c, id) /\ ViewOf(tb.base, Keys, id) = view
  BY Zenon DEF StoreOK, PairBecomes
<1>3. StorageTxn(n) = id /\ n.committed = c /\ TxnsOK(n)
  BY Zenon, <1>1 DEF StorageTxn, SameTxn, TxnsOK
<1>4. /\ Setting(V, c, id) /\ Acting(V, c, c) /\ Acting(Keys, c, c)
      /\ s.pending = 0 => id = c
      /\ s.pending # 0 => c < id
  BY Zenon, <1>1, StoreActs DEF Setting
<1> HIDE DEF c, id
<1>5. IndexExact(Committed(tb.base, Keys, c), Committed(tb.idx, Fields, c))
  <2>1. CASE s.pending = 0
    <3>1. PairOK(tb, V, c, c)
      BY Zenon, <1>1, <1>4, <2>1
    <3>2. /\ TableOK(tb.base, Keys, V, c, c) /\ TableOK(tb.idx, Fields, Keys, c, c)
          /\ IndexExact(ViewOf(tb.base, Keys, c), ViewOf(tb.idx, Fields, c))
      BY Zenon, <3>1 DEF PairOK
    <3>3. /\ ViewOf(tb.base, Keys, c) = Committed(tb.base, Keys, c)
          /\ ViewOf(tb.idx, Fields, c) = Committed(tb.idx, Fields, c)
      BY <1>4, <3>2, RawView
    <3> QED
      BY Zenon, <3>2, <3>3
  <2>2. CASE s.pending # 0
    BY Zenon, <1>4, <2>2 DEF PairBecomes, StoreOK, c, id
  <2> QED
    BY Zenon, <2>1, <2>2
<1>6. StoreOK(n, V)
  BY Zenon, <1>1, <1>3, <1>5 DEF StoreOK
<1>8. Seen(n) = Shows(s, view, id)
  <2>1. Shows(n, view, id) = Shows(s, view, id)
    BY ShowsSame
  <2>2. Seen(n) = Shows(n, view, id)
    BY Zenon, <1>1, <1>3 DEF Seen
  <2> QED
    BY Zenon, <2>1, <2>2
<1>9. s.pending # 0 => Kept(n) = Kept(s)
  <2> HAVE s.pending # 0
  <2>1. Committed(tb.base, Keys, c) = Committed(s.tables.base, Keys, c)
    BY Zenon, <1>4 DEF PairBecomes, c, id
  <2> DEFINE kept == Committed(s.tables.base, Keys, c)
  <2>2. Shows(n, kept, c) = Shows(s, kept, c)
    BY ShowsSame
  <2>3. Kept(n) = Shows(n, kept, c) /\ Kept(s) = Shows(s, kept, c)
    BY Zenon, <1>3, <2>1 DEF Kept, c
  <2> QED
    BY Zenon, <2>2, <2>3
<1> QED
  BY Zenon, <1>6, <1>8, <1>9 DEF StoreBecomes, id
(* A singleton has a new content. *)
LEMMA SingleStep ==
  ASSUME NEW V, ValuesOK(V), NEW s, StoreOK(s, V), NEW key \in Singletons,
         NEW vv \in Versions(V \cup {Tombstone}), Apart(vv),
         UpTo(vv, s.committed, StorageTxn(s)),
         s.committed < StorageTxn(s) => VvGet(vv, s.committed) = VvGet(s.sin[key].vv, s.committed),
         NEW w, w = (IF VvGet(vv, StorageTxn(s)) = Tombstone THEN NoVal ELSE VvGet(vv, StorageTxn(s))),
         NEW n \in Stores(V), n.tables = s.tables, SameTxn(s, n), n.touched = Touch(s, key),
         n.sin[key].vv = vv, \A k \in Singletons \ {key} : n.sin[k] = s.sin[k]
  PROVE  StoreBecomes(s, n, WithRow(Seen(s), key, w), V)
<1> DEFINE c == s.committed
           id == StorageTxn(s)
<1>1. /\ s \in Stores(V) /\ TxnsOK(s) /\ SinglesOK(s.sin, s.touched, c, id)
      /\ PairOK(s.tables, V, c, id)
      /\ IndexExact(Committed(s.tables.base, Keys, c), Committed(s.tables.idx, Fields, c))
  BY Zenon DEF StoreOK
<1>2. StorageTxn(n) = id /\ n.committed = c /\ TxnsOK(n) /\ n.pending = s.pending
  BY Zenon, <1>1 DEF StorageTxn, SameTxn, TxnsOK
<1>3. /\ s.pending = 0 => id = c
      /\ s.pending # 0 => c < id
      /\ id \in Nat /\ c \in Nat
  BY Zenon, <1>1, StoreActs DEF Setting, Acting
<1> HIDE DEF c, id
<1>4. /\ s.touched \subseteq n.touched
      /\ s.pending # 0 => key \in n.touched
  <2>1. s.pending # 0 => c # id
    BY <1>3
  <2> QED
    BY Zenon, <2>1 DEF Touch, c, id
<1>5. SinglesOK(n.sin, n.touched, c, id)
  <2> SUFFICES ASSUME NEW k \in Singletons
               PROVE  /\ Apart(n.sin[k].vv) /\ UpTo(n.sin[k].vv, c, id)
                      /\ k \notin n.touched => UpTo(n.sin[k].vv, c, c)
    BY Zenon DEF SinglesOK
  <2>1. CASE k = key
    BY Zenon, <1>3, <1>4, <2>1 DEF c, id
  <2>2. CASE k # key
    BY Zenon, <1>1, <1>4, <2>2 DEF SinglesOK
  <2> QED
    BY Zenon, <2>1, <2>2
<1>6. StoreOK(n, V)
  BY Zenon, <1>1, <1>2, <1>5 DEF StoreOK
<1>7. \A k \in Singletons \ {key} : \A i : GetSingleton(n, k, i) = GetSingleton(s, k, i)
  BY Zenon DEF GetSingleton
<1>8. GetSingleton(n, key, id) = w
  BY Zenon DEF GetSingleton, id
<1>9. ASSUME s.pending # 0 PROVE GetSingleton(n, key, c) = GetSingleton(s, key, c)
  <2>1. VvGet(vv, c) = VvGet(s.sin[key].vv, c)
    BY Zenon, <1>3, <1>9 DEF c, id
  <2> QED
    BY Zenon, <2>1 DEF GetSingleton
<1>10. Seen(n) = WithRow(Seen(s), key, w)
  <2> DEFINE bv == ViewOf(s.tables.base, Keys, id)
             new == Shows(n, bv, id)
             old == Shows(s, bv, id)
  <2>1. Seen(n) = new /\ Seen(s) = old
    BY Zenon, <1>2 DEF Seen, id
  <2>2. /\ \A k \in Keys \cup Singletons : k # key => new[k] = old[k]
        /\ new[key] = w
    BY Zenon, <1>7, <1>8 DEF Shows
  <2>3. DOMAIN new = Keys \cup Singletons /\ DOMAIN old = Keys \cup Singletons
        /\ new = [k \in Keys \cup Singletons |-> new[k]]
    BY Zenon DEF Shows
  <2> HIDE DEF new, old, bv
  <2>4. ASSUME NEW x, x = WithRow(old, key, w) PROVE new = x
    <3>1. DOMAIN x = DOMAIN old /\ \A k \in DOMAIN old : x[k] = IF k = key THEN w ELSE old[k]
      BY Zenon, <2>4 DEF WithRow
    <3>2. x = [k \in Keys \cup Singletons |-> x[k]]
      BY Zenon, <2>3, <2>4 DEF WithRow
    <3>3. \A k \in Keys \cup Singletons : new[k] = x[k]
      BY Zenon, <2>2, <2>3, <3>1
    <3> QED
      BY Zenon, <2>3, <3>2, <3>3
  <2> QED
    BY Zenon, <2>1, <2>4
<1>11. s.pending # 0 => Kept(n) = Kept(s)
  <2> HAVE s.pending # 0
  <2>1. \A k \in Singletons : GetSingleton(n, k, c) = GetSingleton(s, k, c)
    BY Zenon, <1>7, <1>9
  <2> QED
    BY Zenon, <1>2, <2>1 DEF Kept, Shows, c
<1> QED
  BY Zenon, <1>6, <1>10, <1>11 DEF StoreBecomes

(* A table gets an owner. *)
LEMMA OwnerBecomes ==
  ASSUME NEW V, NEW c, NEW id, NEW tb, PairOK(tb, V, c, id), NEW o \in Owners \cup {NoOwner},
         NEW ub, ub = [tb EXCEPT !.base.owner = o]
  PROVE  PairBecomes(tb, ub, ViewOf(tb.base, Keys, id), V, c, id)
<1>1. /\ tb \in [base : Tables(Keys, V), idx : Tables(Fields, Keys)]
      /\ TableOK(tb.base, Keys, V, c, id) /\ TableOK(tb.idx, Fields, Keys, c, id)
      /\ IndexExact(ViewOf(tb.base, Keys, id), ViewOf(tb.idx, Fields, id))
  BY Zenon DEF PairOK
<1>2. /\ ub \in [base : Tables(Keys, V), idx : Tables(Fields, Keys)]
      /\ ub.idx = tb.idx /\ ub.base.data = tb.base.data /\ ub.base.mask = tb.base.mask
      /\ ub.base.modified = tb.base.modified
  BY Zenon, <1>1 DEF Tables
<1>3. ub.base \in Tables(Keys, V)
  BY Zenon, <1>2
<1> SUFFICES ASSUME NEW b, b = ub.base PROVE PairBecomes(tb, ub, ViewOf(tb.base, Keys, id), V, c, id)
  BY Zenon
<1>4. TableOK(b, Keys, V, c, id)
  BY Zenon, <1>1, <1>2, <1>3 DEF TableOK
<1>5. \A k \in Keys : GetFromTable(b, k, id) = GetFromTable(tb.base, k, id)
  BY Zenon, <1>2 DEF GetFromTable
<1>6. ViewOf(b, Keys, id) = ViewOf(tb.base, Keys, id)
  BY Zenon, <1>5 DEF ViewOf
<1>7. Committed(b, Keys, c) = Committed(tb.base, Keys, c)
  <2>1. b.data = tb.base.data
    BY Zenon, <1>2
  <2> QED
    BY <2>1 DEF Committed
<1> QED
  BY Zenon, <1>1, <1>2, <1>4, <1>6, <1>7 DEF PairBecomes, PairOK

(* An operation on the tables, which may give them their owner. *)
LEMMA WithTables ==
  ASSUME NEW V, ValuesOK(V), NEW s, StoreOK(s, V), NEW tb, NEW view, NEW o \in Owners,
         PairBecomes(s.tables, tb, view, V, s.committed, StorageTxn(s))
  PROVE  /\ StoreBecomes(s, [s EXCEPT !.tables = tb], Shows(s, view, StorageTxn(s)), V)
         /\ StoreBecomes(s, OwnTable([s EXCEPT !.tables = tb], o), Shows(s, view, StorageTxn(s)), V)
<1> DEFINE c == s.committed
           id == StorageTxn(s)
<1>1. /\ s \in Stores(V) /\ PairOK(tb, V, c, id) /\ ViewOf(tb.base, Keys, id) = view
      /\ tb \in [base : Tables(Keys, V), idx : Tables(Fields, Keys)]
  BY Zenon DEF StoreOK, PairBecomes, PairOK
<1>2. ASSUME NEW n, n = [s EXCEPT !.tables = tb]
      PROVE  StoreBecomes(s, n, Shows(s, view, id), V)
  <2>1. /\ n \in Stores(V) /\ n.tables = tb /\ n.sin = s.sin /\ n.touched = s.touched
        /\ SameTxn(s, n)
    BY <1>1, <1>2 DEF Stores, SameTxn
  <2> QED
    BY Zenon, <2>1, TablesStep
<1>3. ASSUME NEW n, n = OwnTable([s EXCEPT !.tables = tb], o)
      PROVE  StoreBecomes(s, n, Shows(s, view, id), V)
  <2> DEFINE cur == tb.base.owner
             own == IF cur = NoOwner THEN o ELSE cur
             ub == [tb EXCEPT !.base.owner = own]
  <2>1. own \in Owners \cup {NoOwner} /\ tb.base \in Tables(Keys, V)
    BY Zenon, <1>1 DEF Tables
  <2>2. PairBecomes(tb, ub, ViewOf(tb.base, Keys, id), V, c, id)
    <3> HIDE DEF own
    <3> QED
      BY Zenon, <1>1, <2>1, OwnerBecomes
  <2>3. PairBecomes(s.tables, ub, view, V, c, id)
    <3> HIDE DEF ub, c, id
    <3> QED
      BY Zenon, <1>1, <2>2 DEF PairBecomes, c, id
  <2>4. ub \in [base : Tables(Keys, V), idx : Tables(Fields, Keys)]
    BY Zenon, <2>2 DEF PairBecomes, PairOK
  <2>5. ASSUME NEW m, m = [s EXCEPT !.tables = tb]
        PROVE  /\ m \in Stores(V) /\ m.tables = tb /\ m.sin = s.sin /\ m.touched = s.touched
               /\ m.committed = s.committed /\ m.pending = s.pending /\ m.next = s.next
               /\ n = [m EXCEPT !.tables.base.owner = own]
    BY <1>1, <1>3, <2>5 DEF Stores, OwnTable
  <2>6. /\ n \in Stores(V) /\ n.tables = ub /\ n.sin = s.sin /\ n.touched = s.touched
        /\ SameTxn(s, n)
    <3> SUFFICES ASSUME NEW m, m = [s EXCEPT !.tables = tb]
                 PROVE  /\ n \in Stores(V) /\ n.tables = ub /\ n.sin = s.sin
                        /\ n.touched = s.touched /\ SameTxn(s, n)
      BY Zenon
    <3>1. /\ m \in Stores(V) /\ m.tables = tb /\ m.sin = s.sin /\ m.touched = s.touched
          /\ m.committed = s.committed /\ m.pending = s.pending /\ m.next = s.next
          /\ n = [m EXCEPT !.tables.base.owner = own]
      BY Zenon, <2>5
    <3> HIDE DEF own, ub
    <3>2. [m.tables EXCEPT !.base.owner = own] = ub
      BY Zenon, <3>1 DEF ub
    <3>3. n = [m EXCEPT !.tables = ub]
      BY Zenon, <3>1, <3>2 DEF Stores
    <3> QED
      BY Zenon, <2>4, <3>1, <3>3 DEF Stores, SameTxn
  <2> HIDE DEF ub
  <2> QED
    BY <2>3, <2>6, TablesStep
<1> QED
  BY Zenon, <1>2, <1>3

-----------------------------------------------------------------------------
(* Every operation is one of the changes of the serial store.              *)

Contents(V) == [Keys \cup Singletons -> V \cup {NoVal}]

(* What a transaction reads are values of the program. *)
LEMMA SeenType ==
  ASSUME NEW V, ValuesOK(V), NEW s, StoreOK(s, V)
  PROVE  /\ Seen(s) \in Contents(V)
         /\ ViewOf(s.tables.base, Keys, StorageTxn(s)) \in [Keys -> V \cup {NoVal}]
<1> DEFINE id == StorageTxn(s)
           bv == ViewOf(s.tables.base, Keys, id)
<1>1. s \in Stores(V) /\ TxnsOK(s) /\ PairOK(s.tables, V, s.committed, id)
  BY Zenon DEF StoreOK
<1>2. Setting(V, s.committed, id)
  BY Zenon, <1>1, StoreActs
<1>3. bv \in [Keys -> V \cup {NoVal}]
  BY <1>1, <1>2, PairViews
<1>4. \A k \in Singletons : s.sin[k].vv \in Versions(V \cup {Tombstone}) /\ id \in Nat
  BY Zenon, <1>1, StoreFields
<1> HIDE DEF bv, id
<1>5. \A k \in Singletons : VvGet(s.sin[k].vv, id) \in (V \cup {Tombstone}) \cup {NoVal}
  BY Zenon, <1>4, GetType
<1>6. \A k \in Singletons : GetSingleton(s, k, id) \in V \cup {NoVal}
  BY Zenon, <1>5 DEF GetSingleton
<1>7. Shows(s, bv, id) \in Contents(V)
  BY Zenon, <1>3, <1>6 DEF Shows, Contents
<1> QED
  BY Zenon, <1>3, <1>7 DEF Seen, bv, id

(* A cell is written. *)
LEMMA CellChanges ==
  ASSUME NEW V, ValuesOK(V), NEW content \in Contents(V), NEW k \in Keys \cup Singletons,
         NEW v \in V \cup {NoVal}
  PROVE  WithRow(content, k, v) \in Serial!Changes(content)
<1>1. v \in Vals \cup {NoVal}
  BY Zenon DEF ValuesOK
<1>2. ASSUME NEW new, new = [content EXCEPT ![k] = v] PROVE new \in Serial!Changes(content)
  <2> DEFINE E(c, w) == [content EXCEPT ![c] = w]
  <2>1. \E c \in Keys \cup Singletons, w \in Vals \cup {NoVal} : new = E(c, w)
    BY Zenon, <1>1, <1>2
  <2> HIDE DEF E
  <2>2. new \in {E(c, w) : c \in Keys \cup Singletons, w \in Vals \cup {NoVal}}
    BY <2>1
  <2>3. new \in {[content EXCEPT ![c] = w] : c \in Keys \cup Singletons, w \in Vals \cup {NoVal}}
    BY <2>2 DEF E
  <2> QED
    BY <2>3 DEF Serial!Changes
<1> QED
  BY Zenon, <1>2 DEF WithRow

(* The table is cleared. *)
LEMMA ClearChanges ==
  ASSUME NEW V, ValuesOK(V), NEW s, NEW bv, NEW id
  PROVE  Shows(s, [k \in Keys |-> NoVal], id) \in Serial!Changes(Shows(s, bv, id))
<1> DEFINE old == Shows(s, bv, id)
           new == Shows(s, [k \in Keys |-> NoVal], id)
<1>1. \A k \in Keys \cup Singletons : new[k] = IF k \in Keys THEN NoVal ELSE old[k]
  BY Zenon DEF Shows, ValuesOK
<1>2. new = [k \in Keys \cup Singletons |-> new[k]]
  BY Zenon DEF Shows
<1> HIDE DEF old, new
<1>3. new = [k \in Keys \cup Singletons |-> IF k \in Keys THEN NoVal ELSE old[k]]
  BY Zenon, <1>1, <1>2
<1>4. new \in Serial!Changes(old)
  BY <1>3 DEF Serial!Changes
<1> QED
  BY Zenon, <1>4 DEF old, new

(* The rows are rewritten. *)
LEMMA RewriteChanges ==
  ASSUME NEW V, ValuesOK(V), NEW s, NEW bv \in [Keys -> V \cup {NoVal}], NEW id,
         NEW f \in [V -> V]
  PROVE  Shows(s, UpdatedAll(bv, Keys, f), id) \in Serial!Changes(Shows(s, bv, id))
<1> DEFINE old == Shows(s, bv, id)
           all == UpdatedAll(bv, Keys, f)
           new == Shows(s, all, id)
           g == [v \in Vals |-> IF v \in V THEN f[v] ELSE v]
<1>1. g \in [Vals -> Vals] /\ \A v \in V : g[v] = f[v]
  BY Zenon DEF ValuesOK
<1> HIDE DEF g
<1>2. \A k \in Keys : all[k] = IF bv[k] # NoVal THEN f[bv[k]] ELSE bv[k]
  BY Zenon DEF UpdatedAll
<1> HIDE DEF all
<1>3. /\ \A k \in Keys : new[k] = all[k] /\ old[k] = bv[k] /\ bv[k] \in V \cup {NoVal}
      /\ \A k \in (Keys \cup Singletons) \ Keys : new[k] = old[k]
  BY Zenon DEF Shows, ValuesOK
<1>4. new = [k \in Keys \cup Singletons |-> new[k]]
  BY Zenon DEF Shows
<1> HIDE DEF old, new
<1>5. \A k \in Keys : old[k] # NoVal => new[k] = g[old[k]]
  BY ZenonT(40), <1>1, <1>2, <1>3
<1>6. \A k \in Keys : old[k] = NoVal => new[k] = old[k]
  BY Zenon, <1>2, <1>3
<1>7. \A k \in Keys \cup Singletons :
        new[k] = IF k \in Keys /\ old[k] # NoVal THEN g[old[k]] ELSE old[k]
  BY Zenon, <1>3, <1>5, <1>6
<1>8. new = [k \in Keys \cup Singletons |->
               IF k \in Keys /\ old[k] # NoVal THEN g[old[k]] ELSE old[k]]
  BY Zenon, <1>4, <1>7
<1>9. new \in {[k \in Keys \cup Singletons |->
                 IF k \in Keys /\ old[k] # NoVal THEN h[old[k]] ELSE old[k]] :
                 h \in [Vals -> Vals]}
  BY Zenon, <1>1, <1>8
<1>10. new \in Serial!Changes(old)
  BY <1>9 DEF Serial!Changes
<1> QED
  BY Zenon, <1>10 DEF old, new, all

(* One row is written, and none is. *)
LEMMA RowChanges ==
  ASSUME NEW V, ValuesOK(V), NEW s, NEW bv \in [Keys -> V \cup {NoVal}], NEW id,
         Shows(s, bv, id) \in Contents(V)
  PROVE  /\ \A k \in Keys : \A v \in V \cup {NoVal} :
              Shows(s, WithRow(bv, k, v), id) \in Serial!Changes(Shows(s, bv, id))
         /\ Shows(s, bv, id) \in Serial!Changes(Shows(s, bv, id))
<1> DEFINE old == Shows(s, bv, id)
<1>1. ASSUME NEW k \in Keys, NEW v \in V \cup {NoVal}
      PROVE  Shows(s, WithRow(bv, k, v), id) \in Serial!Changes(old)
  <2> DEFINE new == Shows(s, WithRow(bv, k, v), id)
  <2>1. \A x \in Keys : WithRow(bv, k, v)[x] = IF x = k THEN v ELSE bv[x]
    BY Zenon DEF WithRow
  <2>2. \A x \in Keys \cup Singletons : new[x] = IF x = k THEN v ELSE old[x]
    BY Zenon, <2>1 DEF Shows, ValuesOK
  <2>3. new = [x \in Keys \cup Singletons |-> new[x]] /\ DOMAIN old = Keys \cup Singletons
    BY Zenon DEF Shows
  <2>4. WithRow(old, k, v) \in Serial!Changes(old)
    BY Zenon, CellChanges
  <2> HIDE DEF new, old
  <2>5. new = WithRow(old, k, v)
    BY Zenon, <2>2, <2>3 DEF WithRow
  <2> QED
    BY Zenon, <2>4, <2>5 DEF new, old
<1>2. old \in Serial!Changes(old)
  <2> DEFINE f == [v \in V |-> v]
  <2>1. f \in [V -> V] /\ \A v \in V : f[v] = v
    BY Zenon
  <2> HIDE DEF f
  <2>2. UpdatedAll(bv, Keys, f) = bv
    BY Zenon, <2>1 DEF UpdatedAll
  <2>3. Shows(s, UpdatedAll(bv, Keys, f), id) \in Serial!Changes(Shows(s, bv, id))
    BY Zenon, <2>1, RewriteChanges
  <2> QED
    BY Zenon, <2>2, <2>3
<1> QED
  BY Zenon, <1>1, <1>2

(* s changed to n as the serial store may, and what is committed stayed in *)
(* a transaction.                                                          *)
StoreChanges(s, n, V) ==
  /\ StoreOK(n, V) /\ SameTxn(s, n)
  /\ Seen(n) \in Serial!Changes(Seen(s))
  /\ s.pending # 0 => Kept(n) = Kept(s)

Entries(V) == [owner : Owners \cup {NoOwner}, vv : Versions(V \cup {Tombstone})]

(* What a singleton's new entry has to satisfy *)
EntryOK(s, key, cell, V) ==
  /\ cell \in Entries(V) /\ Apart(cell.vv) /\ UpTo(cell.vv, s.committed, StorageTxn(s))
  /\ s.committed < StorageTxn(s) =>
       VvGet(cell.vv, s.committed) = VvGet(s.sin[key].vv, s.committed)

(* An operation on a singleton is a change of one cell. *)
LEMMA EntryChanges ==
  ASSUME NEW V, ValuesOK(V), NEW s, StoreOK(s, V), NEW key \in Singletons,
         NEW cell, EntryOK(s, key, cell, V),
         NEW n, n = [s EXCEPT !.touched = Touch(s, key), !.sin[key] = cell]
  PROVE  StoreChanges(s, n, V)
<1> DEFINE got == VvGet(cell.vv, StorageTxn(s))
           w == IF got = Tombstone THEN NoVal ELSE got
<1>1. /\ s \in Stores(V) /\ Apart(cell.vv) /\ UpTo(cell.vv, s.committed, StorageTxn(s))
      /\ s.committed < StorageTxn(s) =>
           VvGet(cell.vv, s.committed) = VvGet(s.sin[key].vv, s.committed)
      /\ cell \in Entries(V)
  BY Zenon DEF StoreOK, EntryOK
<1>2. cell.vv \in Versions(V \cup {Tombstone}) /\ StorageTxn(s) \in Nat
  <2>1. cell.vv \in Versions(V \cup {Tombstone})
    BY Zenon, <1>1 DEF Entries
  <2> QED
    BY Zenon, <1>1, <2>1, StoreFields
<1>3. w \in V \cup {NoVal}
  <2>1. got \in (V \cup {Tombstone}) \cup {NoVal}
    BY Zenon, <1>2, GetType
  <2> QED
    BY Zenon, <2>1
<1>4. /\ n \in Stores(V) /\ n.tables = s.tables /\ SameTxn(s, n) /\ n.touched = Touch(s, key)
      /\ n.sin[key] = cell /\ \A k \in Singletons \ {key} : n.sin[k] = s.sin[k]
  <2>1. Touch(s, key) \in SUBSET Singletons
    BY Zenon, <1>1, StoreFields DEF Touch
  <2>2. s.sin \in Singles(V)
    BY Zenon, <1>1, StoreFields
  <2> QED
    BY Zenon, <1>1, <2>1, <2>2 DEF Stores, Singles, SameTxn, Entries
<1>5. n.sin[key].vv = cell.vv
  BY Zenon, <1>4
<1> HIDE DEF w
<1>6. StoreBecomes(s, n, WithRow(Seen(s), key, w), V)
  BY Zenon, <1>1, <1>2, <1>4, <1>5, SingleStep DEF w
<1>7. WithRow(Seen(s), key, w) \in Serial!Changes(Seen(s))
  <2>1. Seen(s) \in Contents(V)
    BY Zenon, SeenType
  <2> QED
    BY Zenon, <1>3, <2>1, CellChanges
<1> QED
  BY Zenon, <1>6, <1>7 DEF StoreBecomes, StoreChanges

(* insert and remove of a singleton *)
LEMMA SingletonOpChanges ==
  ASSUME NEW V, ValuesOK(V), NEW s, StoreOK(s, V), NEW key \in Singletons, NEW o \in Owners
  PROVE  /\ \A v \in V : StoreChanges(s, InsertSingleton(s, key, o, v), V)
         /\ StoreChanges(s, RemoveSingleton(s, key), V)
<1> DEFINE c == s.committed
           id == StorageTxn(s)
           old == s.sin[key]
<1>1. s \in Stores(V) /\ TxnsOK(s) /\ SinglesOK(s.sin, s.touched, c, id)
  BY Zenon DEF StoreOK
<1>2. /\ s.sin \in Singles(V) /\ c \in Nat \ {0} /\ id \in Nat \ {0}
      /\ old.vv \in Versions(V \cup {Tombstone})
  BY Zenon, <1>1, StoreFields
<1>3. old \in Entries(V) /\ Apart(old.vv) /\ UpTo(old.vv, c, id)
  BY Zenon, <1>1, <1>2 DEF Singles, Entries, SinglesOK
<1>4. c <= id /\ c \in Nat /\ id \in Nat
  BY Zenon, <1>1, <1>2, StoreActs DEF Acting
<1>5. old = NoSingleton => VvGet(old.vv, c) = NoVal
  <2>1. NoSingleton.vv = NoVersions
    BY Zenon DEF NoSingleton
  <2>2. VvGet(NoVersions, c) = NoVal
    BY Zenon, <1>4, NoVersion
  <2> QED
    BY Zenon, <2>1, <2>2
<1> HIDE DEF c, id, old
<1>6. ASSUME NEW v \in V \cup {Tombstone}, NEW cell, cell = [old EXCEPT !.vv = VvSet(@, v, id)]
      PROVE  EntryOK(s, key, cell, V)
  <2> DEFINE new == VvSet(old.vv, v, id)
  <2>1. /\ new \in Versions(V \cup {Tombstone}) /\ Apart(new) /\ UpTo(new, c, id)
        /\ c < id => VvGet(new, c) = VvGet(old.vv, c)
    BY SMTT(60), <1>2, <1>3, <1>4, SetVersion
  <2> HIDE DEF new
  <2>2. cell = [old EXCEPT !.vv = new]
    BY Zenon, <1>6 DEF new
  <2>3. cell \in Entries(V) /\ cell.vv = new
    BY Zenon, <1>3, <2>1, <2>2 DEF Entries
  <2> QED
    BY Zenon, <2>1, <2>3 DEF EntryOK, c, id, old
<1>7. ASSUME NEW v \in V, old = NoSingleton, NEW cell, cell = [owner |-> o, vv |-> VvNew(v, id)]
      PROVE  EntryOK(s, key, cell, V)
  <2>1. /\ VvNew(v, id) \in Versions(V \cup {Tombstone}) /\ Apart(VvNew(v, id))
        /\ UpTo(VvNew(v, id), c, id)
        /\ VvGet(VvNew(v, id), c) = IF id <= c THEN v ELSE NoVal
    BY ZenonT(40), <1>2, <1>4, NewVersion
  <2>2. cell \in Entries(V) /\ cell.vv = VvNew(v, id)
    BY Zenon, <1>7, <2>1 DEF Entries
  <2>3. c < id => VvGet(VvNew(v, id), c) = VvGet(old.vv, c)
    BY SMTT(60), <1>4, <1>5, <1>7, <2>1
  <2> QED
    BY Zenon, <2>1, <2>2, <2>3 DEF EntryOK, c, id, old
<1>8. ASSUME NEW v \in V PROVE StoreChanges(s, InsertSingleton(s, key, o, v), V)
  <2> DEFINE cell == IF old = NoSingleton THEN [owner |-> o, vv |-> VvNew(v, id)]
                     ELSE [old EXCEPT !.vv = VvSet(@, v, id)]
  <2>1. EntryOK(s, key, cell, V)
    BY Zenon, <1>6, <1>7
  <2>2. ASSUME NEW n, n = InsertSingleton(s, key, o, v)
        PROVE  n = [s EXCEPT !.touched = Touch(s, key), !.sin[key] = cell]
    BY <1>1, <1>2, <2>2 DEF InsertSingleton, Stores, Singles, old, id
  <2> HIDE DEF cell
  <2> QED
    BY Zenon, <2>1, <2>2, EntryChanges
<1>9. StoreChanges(s, RemoveSingleton(s, key), V)
  <2> DEFINE cell == IF old = NoSingleton THEN old
                     ELSE [old EXCEPT !.vv = VvSet(@, Tombstone, id)]
  <2>1. EntryOK(s, key, old, V)
    BY Zenon, <1>3 DEF EntryOK, c, id, old
  <2>2. EntryOK(s, key, cell, V)
    BY Zenon, <1>6, <2>1
  <2>3. ASSUME NEW n, n = RemoveSingleton(s, key)
        PROVE  n = [s EXCEPT !.touched = Touch(s, key), !.sin[key] = cell]
    BY ZenonT(40), <1>1, <1>2, <2>3 DEF RemoveSingleton, Stores, Singles, old, id
  <2> HIDE DEF cell
  <2> QED
    BY Zenon, <2>2, <2>3, EntryChanges
<1> QED
  BY Zenon, <1>8, <1>9

(* tb is a change of the tables that the serial store allows. *)
Alters(s, tb, V) ==
  \E view : /\ PairBecomes(s.tables, tb, view, V, s.committed, StorageTxn(s))
            /\ Shows(s, view, StorageTxn(s)) \in Serial!Changes(Seen(s))

(* An operation on the tables that alters them so is a change. *)
LEMMA TableOpChanges ==
  ASSUME NEW V, ValuesOK(V), NEW s, StoreOK(s, V), NEW o \in Owners, NEW tb, Alters(s, tb, V)
  PROVE  /\ StoreChanges(s, [s EXCEPT !.tables = tb], V)
         /\ StoreChanges(s, OwnTable([s EXCEPT !.tables = tb], o), V)
<1>1. PICK view : /\ PairBecomes(s.tables, tb, view, V, s.committed, StorageTxn(s))
                  /\ Shows(s, view, StorageTxn(s)) \in Serial!Changes(Seen(s))
  BY Zenon DEF Alters
<1> DEFINE n == [s EXCEPT !.tables = tb]
           m == OwnTable(n, o)
<1>2. /\ StoreBecomes(s, n, Shows(s, view, StorageTxn(s)), V)
      /\ StoreBecomes(s, m, Shows(s, view, StorageTxn(s)), V)
  BY <1>1, WithTables
<1> HIDE DEF n, m
<1>3. StoreChanges(s, n, V) /\ StoreChanges(s, m, V)
  BY Zenon, <1>1, <1>2 DEF StoreBecomes, StoreChanges
<1> QED
  BY Zenon, <1>3 DEF n, m

(* The operations on the tables *)
LEMMA TableOpsAlter ==
  ASSUME NEW V, ValuesOK(V), NEW s, StoreOK(s, V),
         NEW c, c = s.committed, NEW id, id = StorageTxn(s)
  PROVE  /\ Alters(s, s.tables, V)
         /\ Alters(s, TableClear(s.tables, id, c), V)
         /\ \A k \in Keys, v \in V :
              UniqueAt(s, k, v) => /\ Alters(s, TableInsert(s.tables, k, v, id, c), V)
                                   /\ Alters(s, TableWithMut(s.tables, k, Constantly(v), id, c), V)
         /\ \A k \in Keys :
              s.pending = 0 \/ View(s)[k] # NoVal => Alters(s, TableRemove(s.tables, k, id, c), V)
<1> DEFINE bv == ViewOf(s.tables.base, Keys, id)
<1>1. /\ s \in Stores(V) /\ TxnsOK(s) /\ PairOK(s.tables, V, c, id)
  BY Zenon DEF StoreOK
<1>2. Setting(V, c, id) /\ (s.pending = 0 => id = c)
  BY Zenon, <1>1, StoreActs
<1>3. bv \in [Keys -> V \cup {NoVal}] /\ Seen(s) \in Contents(V)
  BY Zenon, SeenType
<1>4. Seen(s) = Shows(s, bv, id) /\ View(s) = bv
  BY Zenon DEF Seen, View, ViewOf
<1> HIDE DEF bv
<1>5. /\ \A k \in Keys : \A v \in V \cup {NoVal} :
           Shows(s, WithRow(bv, k, v), id) \in Serial!Changes(Seen(s))
      /\ Shows(s, bv, id) \in Serial!Changes(Seen(s))
  BY Zenon, <1>3, <1>4, RowChanges
<1>6. Alters(s, s.tables, V)
  <2>1. PairBecomes(s.tables, s.tables, bv, V, c, id)
    BY Zenon, <1>1 DEF PairBecomes, bv
  <2> QED
    BY Zenon, <1>5, <2>1 DEF Alters
<1>7. Alters(s, TableClear(s.tables, id, c), V)
  <2>1. PairBecomes(s.tables, TableClear(s.tables, id, c), [k \in Keys |-> NoVal], V, c, id)
    BY Zenon, <1>1, <1>2, ClearBecomes
  <2>2. Shows(s, [k \in Keys |-> NoVal], id) \in Serial!Changes(Seen(s))
    BY Zenon, <1>4, ClearChanges
  <2> QED
    BY Zenon, <2>1, <2>2 DEF Alters
<1>8. ASSUME NEW k \in Keys, NEW v \in V, UniqueAt(s, k, v)
      PROVE  /\ Alters(s, TableInsert(s.tables, k, v, id, c), V)
             /\ Alters(s, TableWithMut(s.tables, k, Constantly(v), id, c), V)
  <2> DEFINE f == Constantly(v)
  <2>1. Unique(bv, k, v)
    BY Zenon, <1>4, <1>8 DEF UniqueAt, Unique
  <2>2. bv[k] # NoVal => f[bv[k]] = v
    BY Zenon, <1>3 DEF Constantly, ValuesOK
  <2> HIDE DEF f
  <2>3. PairBecomes(s.tables, TableInsert(s.tables, k, v, id, c), WithRow(bv, k, v), V, c, id)
    BY ZenonT(40), <1>1, <1>2, <2>1, InsertBecomes DEF bv
  <2>4. PairBecomes(s.tables, TableWithMut(s.tables, k, f, id, c), Updated(bv, k, f), V, c, id)
    <3>1. bv[k] # NoVal => f[bv[k]] \in V /\ Unique(bv, k, f[bv[k]])
      BY Zenon, <2>1, <2>2
    <3>2. bv = ViewOf(s.tables.base, Keys, id)
      BY Zenon DEF bv
    <3> QED
      BY ZenonT(40), <1>1, <1>2, <3>1, <3>2, WithMutBecomes
  <2>5. Updated(bv, k, f) = bv \/ Updated(bv, k, f) = WithRow(bv, k, v)
    BY Zenon, <2>2 DEF Updated
  <2>6. Alters(s, TableInsert(s.tables, k, v, id, c), V)
    BY Zenon, <1>5, <2>3 DEF Alters
  <2>7. Alters(s, TableWithMut(s.tables, k, f, id, c), V)
    BY Zenon, <1>5, <2>4, <2>5 DEF Alters
  <2> QED
    BY Zenon, <2>6, <2>7 DEF f
<1>9. ASSUME NEW k \in Keys, s.pending = 0 \/ View(s)[k] # NoVal
      PROVE  Alters(s, TableRemove(s.tables, k, id, c), V)
  <2>1. id = c \/ ViewOf(s.tables.base, Keys, id)[k] # NoVal
    BY ZenonT(40), <1>2, <1>4, <1>9 DEF bv
  <2>2. PairBecomes(s.tables, TableRemove(s.tables, k, id, c), WithRow(bv, k, NoVal), V, c, id)
    BY ZenonT(40), <1>1, <1>2, <2>1, RemoveBecomes DEF bv
  <2> QED
    BY Zenon, <1>5, <2>2 DEF Alters
<1> QED
  BY ZenonT(40), <1>6, <1>7, <1>8, <1>9

(* The operations through the index *)
LEMMA IndexedOpsAlter ==
  ASSUME NEW V, ValuesOK(V), NEW s, StoreOK(s, V), NEW field \in Fields,
         NEW c, c = s.committed, NEW id, id = StorageTxn(s),
         NEW k, k = GetFromTable(s.tables.idx, field, id)
  PROVE  /\ \A v \in V : UniqueAt(s, k, v) =>
              Alters(s, IndexedWithMut(s.tables, field, Constantly(v), id, c), V)
         /\ Alters(s, IndexedRemove(s.tables, field, id, c), V)
<1> DEFINE bv == ViewOf(s.tables.base, Keys, id)
<1>1. /\ s \in Stores(V) /\ TxnsOK(s) /\ PairOK(s.tables, V, c, id)
  BY Zenon DEF StoreOK
<1>2. Setting(V, c, id)
  BY Zenon, <1>1, StoreActs
<1>3. bv \in [Keys -> V \cup {NoVal}] /\ Seen(s) \in Contents(V)
  BY Zenon, SeenType
<1>4. Seen(s) = Shows(s, bv, id) /\ View(s) = bv
  BY Zenon DEF Seen, View, ViewOf
<1>5. bv = ViewOf(s.tables.base, Keys, id)
  OBVIOUS
<1> HIDE DEF bv
<1>6. /\ \A x \in Keys : \A v \in V \cup {NoVal} :
           Shows(s, WithRow(bv, x, v), id) \in Serial!Changes(Seen(s))
      /\ Shows(s, bv, id) \in Serial!Changes(Seen(s))
  BY Zenon, <1>3, <1>4, RowChanges
<1>7. k \in Keys \cup {NoVal}
  BY SMTT(60), <1>1, <1>2, PairViews
<1>8. ASSUME NEW v \in V, UniqueAt(s, k, v)
      PROVE  Alters(s, IndexedWithMut(s.tables, field, Constantly(v), id, c), V)
  <2> DEFINE f == Constantly(v)
             new == IF k = NoVal THEN bv ELSE Updated(bv, k, f)
  <2>1. k # NoVal => Unique(bv, k, v)
    BY ZenonT(40), <1>4, <1>8 DEF UniqueAt, Unique
  <2>2. k # NoVal /\ bv[k] # NoVal => f[bv[k]] = v
    BY Zenon, <1>3, <1>7 DEF Constantly, ValuesOK
  <2> HIDE DEF f
  <2>3. k # NoVal /\ bv[k] # NoVal => f[bv[k]] \in V /\ Unique(bv, k, f[bv[k]])
    BY ZenonT(40), <2>1, <2>2
  <2>4. PairBecomes(s.tables, IndexedWithMut(s.tables, field, f, id, c), new, V, c, id)
    BY ZenonT(40), <1>1, <1>2, <1>5, <2>3, IndexedWithMutBecomes
  <2>5. new = bv \/ (k \in Keys /\ new = WithRow(bv, k, v))
    BY Zenon, <1>7, <2>2 DEF Updated
  <2> HIDE DEF new
  <2>6. Shows(s, new, id) \in Serial!Changes(Seen(s))
    BY Zenon, <1>6, <2>5
  <2> QED
    BY ZenonT(40), <2>4, <2>6 DEF Alters, f
<1>9. Alters(s, IndexedRemove(s.tables, field, id, c), V)
  <2> DEFINE new == IF k = NoVal THEN bv ELSE WithRow(bv, k, NoVal)
  <2>1. PairBecomes(s.tables, IndexedRemove(s.tables, field, id, c), new, V, c, id)
    BY ZenonT(40), <1>1, <1>2, <1>5, IndexedRemoveBecomes
  <2>2. new = bv \/ (k \in Keys /\ new = WithRow(bv, k, NoVal))
    BY Zenon, <1>7
  <2> HIDE DEF new
  <2>3. Shows(s, new, id) \in Serial!Changes(Seen(s))
    BY ZenonT(40), <1>6, <2>2
  <2> QED
    BY ZenonT(40), <2>1, <2>3 DEF Alters
<1> QED
  BY Zenon, <1>8, <1>9

(* for_each_mut, not after a remove in the same transaction *)
LEMMA UpdatesAlter ==
  ASSUME NEW V, ValuesOK(V), NEW s, StoreOK(s, V), NEW f, KeepsFields(V, f),
         s.tables.base.mask.kind # "some", NEW c, c = s.committed, NEW id, id = StorageTxn(s)
  PROVE  /\ Alters(s, TableForEachMut(s.tables, f, id, c), V)
         /\ Alters(s, IndexedForEachMut(s.tables, f, id, c), V)
<1> DEFINE bv == ViewOf(s.tables.base, Keys, id)
           g == OnIndexed(V, f)
<1>1. /\ s \in Stores(V) /\ TxnsOK(s) /\ PairOK(s.tables, V, c, id)
  BY Zenon DEF StoreOK
<1>2. Setting(V, c, id)
  BY Zenon, <1>1, StoreActs
<1>3. bv \in [Keys -> V \cup {NoVal}]
  BY Zenon, SeenType
<1>4. Seen(s) = Shows(s, bv, id)
  BY Zenon DEF Seen
<1>5. f \in [V -> V] /\ g \in [V -> V]
  BY Zenon DEF KeepsFields, OnIndexed
<1> HIDE DEF g
<1>6. s.tables \in Updatables(V, c, id)
  BY Zenon, <1>1 DEF Updatables, PairOK
<1>7. /\ PairBecomes(s.tables, TableForEachMut(s.tables, f, id, c), UpdatedAll(bv, Keys, f), V, c, id)
      /\ PairBecomes(s.tables, IndexedForEachMut(s.tables, f, id, c), UpdatedAll(bv, Keys, g), V, c, id)
  BY ZenonT(40), <1>2, <1>6, ForEachMutBecomes, IndexedForEachMutBecomes DEF g
<1> HIDE DEF bv
<1>8. /\ Shows(s, UpdatedAll(bv, Keys, f), id) \in Serial!Changes(Seen(s))
      /\ Shows(s, UpdatedAll(bv, Keys, g), id) \in Serial!Changes(Seen(s))
  BY ZenonT(40), <1>3, <1>4, <1>5, RewriteChanges
<1> QED
  BY Zenon, <1>7, <1>8 DEF Alters

(* The operations of operations.rs *)
LEMMA SingletonOpsChange ==
  ASSUME NEW V, V = load.vals, ValuesOK(V), NEW s, StoreOK(s, V), NEW o \in Owners,
         NEW n \in SingletonOpsMut(s, o)
  PROVE  StoreChanges(s, n, V)
<1>1. PICK key \in Singletons :
        n = RemoveSingleton(s, key) \/ \E v \in V : n = InsertSingleton(s, key, o, v)
  BY Zenon DEF SingletonOpsMut
<1>2. /\ \A v \in V : StoreChanges(s, InsertSingleton(s, key, o, v), V)
      /\ StoreChanges(s, RemoveSingleton(s, key), V)
  BY Zenon, SingletonOpChanges
<1> QED
  BY Zenon, <1>1, <1>2

(* init, clear and insert *)
LEMMA BaseOpsChange ==
  ASSUME NEW V, V = load.vals, ValuesOK(V), NEW s, StoreOK(s, V), NEW o \in Owners,
         NEW n \in BaseOpsMut(s, o)
  PROVE  StoreChanges(s, n, V)
<1> DEFINE id == StorageTxn(s)
           c == s.committed
           owned(tb) == OwnTable([s EXCEPT !.tables = tb], o)
           new(kv) == TableInsert(s.tables, kv[1], kv[2], id, c)
<1>1. \/ n = OwnTable(s, o)
      \/ n = owned(TableClear(s.tables, id, c))
      \/ \E kv \in {x \in Keys \X V : UniqueAt(s, x[1], x[2])} : n = owned(new(kv))
  BY Zenon DEF BaseOpsMut
<1>2. s \in Stores(V)
  BY Zenon DEF StoreOK
<1>3. ASSUME NEW m, m = [s EXCEPT !.tables = s.tables] PROVE m = s
  BY <1>2, <1>3 DEF Stores
<1>4. \A tb : Alters(s, tb, V) => StoreChanges(s, owned(tb), V)
  BY Zenon, TableOpChanges
<1>5. owned(s.tables) = OwnTable(s, o)
  BY Zenon, <1>3
<1> HIDE DEF owned
<1>6. /\ Alters(s, s.tables, V)
      /\ Alters(s, TableClear(s.tables, id, c), V)
      /\ \A k \in Keys, v \in V : UniqueAt(s, k, v) => Alters(s, TableInsert(s.tables, k, v, id, c), V)
  BY Zenon, TableOpsAlter
<1>7. CASE n = OwnTable(s, o)
  BY ZenonT(40), <1>4, <1>5, <1>6, <1>7
<1>8. CASE n = owned(TableClear(s.tables, id, c))
  BY ZenonT(40), <1>4, <1>6, <1>8
<1>9. ASSUME NEW kv \in {x \in Keys \X V : UniqueAt(s, x[1], x[2])}, n = owned(new(kv))
      PROVE  StoreChanges(s, n, V)
  <2>1. kv[1] \in Keys /\ kv[2] \in V /\ UniqueAt(s, kv[1], kv[2])
    BY Zenon, <1>9
  <2>2. Alters(s, new(kv), V)
    BY Zenon, <1>6, <2>1
  <2> QED
    BY ZenonT(40), <1>4, <1>9, <2>2
<1> QED
  BY ZenonT(40), <1>1, <1>7, <1>8, <1>9

(* The closures of for_each_mut keep the index keys. *)
LEMMA UpdatesKeep ==
  ASSUME NEW V, V = load.vals, NEW s, ~ MaskedUpdates, NEW f \in {x \in RowUpdates : Updatable(s)}
  PROVE  KeepsFields(V, f) /\ s.tables.base.mask.kind # "some"
BY Zenon DEF RowUpdates, KeepsFields, Updatable

(* The operations through the table *)
LEMMA TabularOpsChange ==
  ASSUME NEW V, V = load.vals, ValuesOK(V), NEW s, StoreOK(s, V), NEW o \in Owners,
         ~ StaleRemoves, ~ MaskedUpdates, NEW n \in TabularOpsMut(s, o)
  PROVE  StoreChanges(s, n, V)
<1> DEFINE id == StorageTxn(s)
           c == s.committed
           with(tb) == [s EXCEPT !.tables = tb]
           set(kv) == TableWithMut(s.tables, kv[1], Constantly(kv[2]), id, c)
<1>1. \/ n \in BaseOpsMut(s, o)
      \/ \E kv \in {x \in Keys \X V : UniqueAt(s, x[1], x[2])} : n = with(set(kv))
      \/ \E k \in {x \in Keys : Removable(s, x)} : n = with(TableRemove(s.tables, k, id, c))
      \/ \E f \in {x \in RowUpdates : Updatable(s)} : n = with(TableForEachMut(s.tables, f, id, c))
  BY Zenon DEF TabularOpsMut
<1>2. \A tb : Alters(s, tb, V) => StoreChanges(s, with(tb), V)
  BY Zenon, TableOpChanges
<1> HIDE DEF with
<1>3. /\ \A k \in Keys, v \in V : UniqueAt(s, k, v) =>
           Alters(s, TableWithMut(s.tables, k, Constantly(v), id, c), V)
      /\ \A k \in Keys : s.pending = 0 \/ View(s)[k] # NoVal =>
           Alters(s, TableRemove(s.tables, k, id, c), V)
  BY Zenon, TableOpsAlter
<1>4. CASE n \in BaseOpsMut(s, o)
  BY ZenonT(40), <1>4, BaseOpsChange
<1>5. ASSUME NEW kv \in {x \in Keys \X V : UniqueAt(s, x[1], x[2])}, n = with(set(kv))
      PROVE  StoreChanges(s, n, V)
  <2>1. kv[1] \in Keys /\ kv[2] \in V /\ UniqueAt(s, kv[1], kv[2])
    BY Zenon, <1>5
  <2>2. Alters(s, set(kv), V)
    BY ZenonT(40), <1>3, <2>1
  <2> QED
    BY ZenonT(40), <1>2, <1>5, <2>2
<1>6. ASSUME NEW k \in {x \in Keys : Removable(s, x)}, n = with(TableRemove(s.tables, k, id, c))
      PROVE  StoreChanges(s, n, V)
  BY ZenonT(40), <1>2, <1>3, <1>6 DEF Removable
<1>7. ASSUME NEW f \in {x \in RowUpdates : Updatable(s)},
             n = with(TableForEachMut(s.tables, f, id, c))
      PROVE  StoreChanges(s, n, V)
  <2>1. Alters(s, TableForEachMut(s.tables, f, id, c), V)
    <3>1. KeepsFields(V, f) /\ s.tables.base.mask.kind # "some"
      BY Zenon, UpdatesKeep
    <3> QED
      BY <3>1, UpdatesAlter
  <2> QED
    BY ZenonT(40), <1>2, <1>7, <2>1
<1> QED
  BY ZenonT(40), <1>1, <1>4, <1>5, <1>6, <1>7

(* The operations through the index *)
LEMMA IndexedOpsChange ==
  ASSUME NEW V, V = load.vals, ValuesOK(V), NEW s, StoreOK(s, V), NEW o \in Owners,
         ~ MaskedUpdates, NEW n \in IndexedOpsMut(s, o)
  PROVE  StoreChanges(s, n, V)
<1> DEFINE id == StorageTxn(s)
           c == s.committed
           with(tb) == [s EXCEPT !.tables = tb]
           row(f) == GetFromTable(s.tables.idx, f, id)
           set(fv) == IndexedWithMut(s.tables, fv[1], Constantly(fv[2]), id, c)
<1>1. \/ n \in BaseOpsMut(s, o)
      \/ \E fv \in {x \in Fields \X V : UniqueAt(s, row(x[1]), x[2])} : n = with(set(fv))
      \/ \E f \in Fields : n = with(IndexedRemove(s.tables, f, id, c))
      \/ \E f \in {x \in RowUpdates : Updatable(s)} : n = with(IndexedForEachMut(s.tables, f, id, c))
  BY Zenon DEF IndexedOpsMut
<1>2. \A tb : Alters(s, tb, V) => StoreChanges(s, with(tb), V)
  BY Zenon, TableOpChanges
<1> HIDE DEF with
<1>3. ASSUME NEW f \in Fields
      PROVE  /\ \A v \in V : UniqueAt(s, row(f), v) =>
                  Alters(s, IndexedWithMut(s.tables, f, Constantly(v), id, c), V)
             /\ Alters(s, IndexedRemove(s.tables, f, id, c), V)
  BY Zenon, IndexedOpsAlter
<1> HIDE DEF row
<1>4. CASE n \in BaseOpsMut(s, o)
  BY Zenon, <1>4, BaseOpsChange
<1>5. ASSUME NEW fv \in {x \in Fields \X V : UniqueAt(s, row(x[1]), x[2])}, n = with(set(fv))
      PROVE  StoreChanges(s, n, V)
  <2>1. fv[1] \in Fields /\ fv[2] \in V /\ UniqueAt(s, row(fv[1]), fv[2])
    BY Zenon, <1>5
  <2>2. Alters(s, set(fv), V)
    BY Zenon, <1>3, <2>1
  <2> QED
    BY ZenonT(40), <1>2, <1>5, <2>2
<1>6. ASSUME NEW f \in Fields, n = with(IndexedRemove(s.tables, f, id, c))
      PROVE  StoreChanges(s, n, V)
  BY ZenonT(40), <1>2, <1>3, <1>6
<1>7. ASSUME NEW f \in {x \in RowUpdates : Updatable(s)},
             n = with(IndexedForEachMut(s.tables, f, id, c))
      PROVE  StoreChanges(s, n, V)
  <2>1. Alters(s, IndexedForEachMut(s.tables, f, id, c), V)
    <3>1. KeepsFields(V, f) /\ s.tables.base.mask.kind # "some"
      BY Zenon, UpdatesKeep
    <3> QED
      BY <3>1, UpdatesAlter
  <2> QED
    BY ZenonT(40), <1>2, <1>7, <2>1
<1> QED
  BY ZenonT(40), <1>1, <1>4, <1>5, <1>6, <1>7
=============================================================================
