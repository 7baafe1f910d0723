------------------------ MODULE RuntimeHandlerProofs ------------------------
(***************************************************************************)
(* The invariant RInv of Runtime, and that the handlers of the actors keep *)
(* it; RuntimeProofs has control, the bus and the theorems.                *)
(*                                                                         *)
(* The argument is about queues.  A table of an actor is changed by the    *)
(* messages of one kind in its mailbox; what the table will be after all   *)
(* of them (After) is what the last one says.  Moving a message on, from   *)
(* the bus to a mailbox or by a handler that makes another message of it,  *)
(* does not change what the table will be in the end, and only control     *)
(* changes that.                                                           *)
(***************************************************************************)
EXTENDS Runtime, WellFoundedInduction, TLAPS

-----------------------------------------------------------------------------
(* Queues *)

IsSeq(s) == s \in Seq(Range(s))

LEMMA SeqIsFunction ==
  ASSUME NEW S, NEW s \in Seq(S)
  PROVE  Len(s) \in Nat /\ s \in [1 .. Len(s) -> S]
  OBVIOUS

LEMMA FunctionIsSeq ==
  ASSUME NEW n \in Nat, NEW S, NEW s \in [1 .. n -> S]
  PROVE  IsSeq(s)
<1>1. s \in [1 .. n -> Range(s)]
  BY DEF Range
<1>2. s \in Seq(Range(s))
  BY <1>1
<1> QED
  BY <1>2 DEF IsSeq

LEMMA NoMessages == IsSeq(<< >>) /\ DOMAIN << >> = {}
  BY DEF IsSeq, Range

LEMMA SeqFacts ==
  ASSUME NEW s, IsSeq(s)
  PROVE  Len(s) \in Nat /\ DOMAIN s = 1 .. Len(s) /\ (s # << >> <=> Len(s) # 0)
  BY DEF IsSeq

LEMMA AppendSeq ==
  ASSUME NEW s, NEW m, IsSeq(s)
  PROVE  /\ IsSeq(Append(s, m)) /\ Append(s, m) # << >>
         /\ DOMAIN Append(s, m) = 1 .. Len(s) + 1
         /\ \A i \in DOMAIN s : Append(s, m)[i] = s[i]
         /\ Append(s, m)[Len(s) + 1] = m
<1> DEFINE S == Range(s) \cup {m}
           t == Append(s, m)
<1>1. s \in Seq(S)
  BY DEF IsSeq
<1>2. m \in S
  OBVIOUS
<1>3. /\ t \in Seq(S) /\ Len(t) = Len(s) + 1
      /\ \A i \in 1 .. Len(s) : t[i] = s[i]
      /\ t[Len(s) + 1] = m
  BY <1>1, <1>2
<1>4. Len(s) \in Nat /\ Len(s) + 1 \in Nat /\ DOMAIN s = 1 .. Len(s)
  BY <1>1
<1> HIDE DEF t
<1>5. t \in [1 .. Len(s) + 1 -> S]
  BY <1>3, SeqIsFunction
<1>6. IsSeq(t)
  BY <1>4, <1>5, FunctionIsSeq
<1>7. t # << >> /\ DOMAIN t = 1 .. Len(s) + 1
  BY <1>3, <1>4, <1>5
<1> QED
  BY <1>3, <1>4, <1>6, <1>7 DEF t

LEMMA TailSeq ==
  ASSUME NEW s, IsSeq(s), s # << >>
  PROVE  /\ IsSeq(Tail(s)) /\ Head(s) = s[1] /\ 1 \in DOMAIN s
         /\ Len(s) \in Nat \ {0}
         /\ DOMAIN Tail(s) = 1 .. Len(s) - 1
         /\ \A i \in DOMAIN Tail(s) : Tail(s)[i] = s[i + 1] /\ i + 1 \in DOMAIN s
<1> DEFINE S == Range(s)
           t == Tail(s)
<1>1. s \in Seq(S) /\ Len(s) \in Nat /\ DOMAIN s = 1 .. Len(s)
  BY DEF IsSeq
<1>2. Len(s) # 0
  BY <1>1
<1>3. /\ t \in Seq(S) /\ Len(t) = Len(s) - 1
      /\ \A i \in 1 .. Len(s) - 1 : t[i] = s[i + 1]
      /\ Head(s) = s[1]
  BY <1>1, <1>2
<1>4. Len(s) - 1 \in Nat
  BY <1>1, <1>2
<1> HIDE DEF t
<1>5. t \in [1 .. Len(s) - 1 -> S]
  BY <1>3, SeqIsFunction
<1>6. IsSeq(t)
  BY <1>4, <1>5, FunctionIsSeq
<1>7. DOMAIN t = 1 .. Len(s) - 1
  BY <1>5
<1> QED
  BY <1>1, <1>2, <1>3, <1>6, <1>7 DEF t

(* A queue after a message joined it, element by element. *)
Joins(m, s, t) ==
    /\ \A i \in DOMAIN s : i \in DOMAIN t /\ t[i] = s[i]
    /\ \A i \in DOMAIN t : i \notin DOMAIN s => t[i] = m /\ \A j \in DOMAIN s : j < i
    /\ \E i \in DOMAIN t : i \notin DOMAIN s
    /\ DOMAIN t \subseteq Nat

LEMMA Joined ==
  ASSUME NEW s, NEW m, NEW t, IsSeq(s), t = Append(s, m)
  PROVE  Joins(m, s, t)
<1>1. /\ DOMAIN t = 1 .. Len(s) + 1
      /\ \A i \in DOMAIN s : t[i] = s[i]
      /\ t[Len(s) + 1] = m
      /\ DOMAIN s = 1 .. Len(s) /\ Len(s) \in Nat
  <2>1. /\ DOMAIN Append(s, m) = 1 .. Len(s) + 1
        /\ \A i \in DOMAIN s : Append(s, m)[i] = s[i]
        /\ Append(s, m)[Len(s) + 1] = m
    BY ZenonT(60), AppendSeq
  <2>2. DOMAIN s = 1 .. Len(s) /\ Len(s) \in Nat
    BY Zenon, SeqFacts
  <2> QED
    BY Zenon, <2>1, <2>2
<1>2. \A i \in DOMAIN s : i \in DOMAIN t /\ t[i] = s[i]
  <2> SUFFICES ASSUME NEW i \in DOMAIN s PROVE i \in DOMAIN t
    BY <1>1
  <2> QED
    BY <1>1
<1>3. \A i \in DOMAIN t : i \notin DOMAIN s => i = Len(s) + 1
  BY <1>1
<1> QED
  BY <1>1, <1>2, <1>3 DEF Joins

(* A queue after its first message left it, element by element. *)
Leaves(s, t) ==
    /\ Head(s) = s[1] /\ 1 \in DOMAIN s /\ DOMAIN s \subseteq Nat \ {0} /\ DOMAIN t \subseteq Nat
    /\ \A i \in DOMAIN t : i + 1 \in DOMAIN s /\ t[i] = s[i + 1]
    /\ \A i \in DOMAIN s : i # 1 => i - 1 \in DOMAIN t /\ t[i - 1] = s[i]

LEMMA Left ==
  ASSUME NEW s, NEW t, IsSeq(s), s # << >>, t = Tail(s)
  PROVE  Leaves(s, t)
<1>1. /\ Head(s) = s[1] /\ 1 \in DOMAIN s
      /\ Len(s) \in Nat \ {0} /\ DOMAIN s = 1 .. Len(s)
      /\ DOMAIN t = 1 .. Len(s) - 1
      /\ \A i \in DOMAIN t : t[i] = s[i + 1] /\ i + 1 \in DOMAIN s
  BY Zenon, TailSeq, SeqFacts
<1>2. \A i \in DOMAIN s : i # 1 => i - 1 \in DOMAIN t /\ i - 1 + 1 = i
  BY <1>1
<1> QED
  BY <1>1, <1>2 DEF Leaves

LEMMA GreatestElement ==
  ASSUME NEW n \in Nat, NEW T, T \subseteq 1 .. n, T # {}
  PROVE  \E x \in T : \A y \in T : y <= x
<1> DEFINE U == {n - x : x \in T}
<1>1. U \subseteq Nat /\ U # {}
  <2>1. \A x \in T : n - x \in Nat
    OBVIOUS
  <2>2. U \subseteq Nat
    BY Zenon, <2>1
  <2>3. U # {}
    BY Zenon
  <2> QED
    BY Zenon, <2>2, <2>3
<1>2. PICK u \in U : \A v \in U : ~(<<v, u>> \in OpToRel(<, Nat))
  BY Zenon, <1>1, NatLessThanWellFounded, WFMin
<1>3. \A v \in U : ~(v < u)
  BY Zenon, <1>1, <1>2 DEF OpToRel
<1>4. PICK x \in T : u = n - x
  BY Zenon, <1>2
<1>5. ASSUME NEW y \in T PROVE y <= x
  <2>1. n - y \in U
    BY Zenon
  <2>2. ~(n - y < n - x)
    BY Zenon, <1>3, <1>4, <2>1
  <2> QED
    BY <2>2
<1> QED
  BY <1>5

-----------------------------------------------------------------------------
(***************************************************************************)
(* The messages that matter to one table, by kind, and what the table      *)
(* becomes when such a message is handled.                                 *)
(***************************************************************************)
KeysOf(db) == [p \in DOMAIN db |-> db[p].key]
HomesOf(db) == [p \in Homed(db) |-> db[p].region]

Carries(m, k) ==
    CASE k = "peers" -> m.topic = "update" /\ m.body.peers # None
      [] k \in {"node routes", "node ips"} -> m.topic = "update" /\ m.body.node # None
      [] k = "filter" -> m.topic = "update" /\ m.body.pf # None
      [] k \in {"state", "keys", "sources", "routes"} -> m.topic = "peer_state"
      [] k = "home" -> m.topic = "latency" /\ m.body # << >>
      [] k \in {"out", "under"} -> m.topic = "peer_routes"
      [] OTHER -> m.topic = k

ValueOf(m, k) ==
    CASE k \in {"peers", "state"} -> m.body.peers
      [] k = "node routes" -> m.body.node.routes
      [] k = "node ips" -> m.body.node.ips
      [] k = "filter" -> m.body.pf
      [] k = "keys" -> KeysOf(m.body.peers)
      [] k = "sources" -> RoutesOf(m.body.peers, DOMAIN m.body.peers)
      [] k = "routes" -> RoutesOf(m.body.peers, Homed(m.body.peers))
      [] k = "home" -> m.body[1]
      [] k = "out" -> m.body.out
      [] k = "under" -> m.body.under
      [] OTHER -> m.body

Free(s, k) == \A i \in DOMAIN s : ~ Carries(s[i], k)

IsLast(s, k, i) ==
    /\ i \in DOMAIN s /\ Carries(s[i], k)
    /\ \A j \in DOMAIN s : j > i => ~ Carries(s[j], k)

(* The table after all of s is handled, if it is d before. *)
After(s, k, d) ==
    IF Free(s, k) THEN d ELSE ValueOf(s[CHOOSE i \in DOMAIN s : IsLast(s, k, i)], k)

(* The table once one message is handled. *)
Upon(m, k, d) == IF Carries(m, k) THEN ValueOf(m, k) ELSE d

LEMMA LastExists ==
  ASSUME NEW s, IsSeq(s), NEW k, ~ Free(s, k)
  PROVE  \E i : IsLast(s, k, i)
<1> DEFINE T == {i \in DOMAIN s : Carries(s[i], k)}
<1>1. Len(s) \in Nat /\ T \subseteq 1 .. Len(s) /\ T # {}
  BY SeqFacts DEF Free
<1>2. PICK x \in T : \A y \in T : y <= x
  BY Zenon, <1>1, GreatestElement
<1>3. \A j \in DOMAIN s : j > x => ~ Carries(s[j], k)
  BY <1>1, <1>2, SeqFacts
<1> QED
  BY Zenon, <1>2, <1>3 DEF IsLast

LEMMA AfterLast ==
  ASSUME NEW s, IsSeq(s), NEW k, NEW d, NEW i, IsLast(s, k, i)
  PROVE  After(s, k, d) = ValueOf(s[i], k)
<1>1. ~ Free(s, k) /\ i \in DOMAIN s
  BY Zenon DEF IsLast, Free
<1>2. \A j \in DOMAIN s : IsLast(s, k, j) => j = i
  BY SeqFacts DEF IsLast
<1>3. (CHOOSE j \in DOMAIN s : IsLast(s, k, j)) = i
  BY Zenon, <1>1, <1>2
<1> QED
  BY Zenon, <1>1, <1>3 DEF After

LEMMA AfterFree ==
  ASSUME NEW s, NEW k, NEW d, Free(s, k)
  PROVE  After(s, k, d) = d
  BY Zenon DEF After

LEMMA AfterEmpty ==
  ASSUME NEW k, NEW d
  PROVE  After(<< >>, k, d) = d
<1>1. Free(<< >>, k)
  BY Zenon, NoMessages DEF Free
<1> QED
  BY Zenon, <1>1, AfterFree

LEMMA AfterAppend ==
  ASSUME NEW s, IsSeq(s), NEW m, NEW k, NEW d
  PROVE  After(Append(s, m), k, d) = Upon(m, k, After(s, k, d))
<1> DEFINE t == Append(s, m)
           n == Len(s) + 1
<1>1. /\ IsSeq(t) /\ DOMAIN t = 1 .. n /\ t[n] = m
      /\ \A i \in DOMAIN s : t[i] = s[i]
      /\ Len(s) \in Nat /\ DOMAIN s = 1 .. Len(s)
  BY Zenon, AppendSeq, SeqFacts
<1> HIDE DEF t
<1>2. CASE Carries(m, k)
  <2>1. IsLast(t, k, n)
    BY <1>1, <1>2 DEF IsLast
  <2> QED
    BY Zenon, <1>1, <1>2, <2>1, AfterLast DEF Upon, t
<1>3. CASE ~ Carries(m, k) /\ Free(s, k)
  <2>1. Free(t, k)
    BY <1>1, <1>3 DEF Free
  <2> QED
    BY Zenon, <1>3, <2>1, AfterFree DEF Upon, t
<1>4. CASE ~ Carries(m, k) /\ ~ Free(s, k)
  <2>1. PICK i : IsLast(s, k, i)
    BY Zenon, <1>4, LastExists
  <2>2. IsLast(t, k, i) /\ t[i] = s[i]
    BY <1>1, <1>4, <2>1 DEF IsLast
  <2>3. After(t, k, d) = ValueOf(t[i], k) /\ After(s, k, d) = ValueOf(s[i], k)
    BY Zenon, <1>1, <2>1, <2>2, AfterLast
  <2> QED
    BY Zenon, <1>4, <2>2, <2>3 DEF Upon, t
<1> QED
  BY Zenon, <1>2, <1>3, <1>4

LEMMA AfterTail ==
  ASSUME NEW s, IsSeq(s), s # << >>, NEW k, NEW d
  PROVE  After(Tail(s), k, Upon(Head(s), k, d)) = After(s, k, d)
<1> DEFINE t == Tail(s)
           e == Upon(Head(s), k, d)
<1>1. /\ IsSeq(t) /\ DOMAIN t = 1 .. Len(s) - 1 /\ Head(s) = s[1] /\ 1 \in DOMAIN s
      /\ \A i \in DOMAIN t : t[i] = s[i + 1]
      /\ Len(s) \in Nat \ {0} /\ DOMAIN s = 1 .. Len(s)
  BY TailSeq, SeqFacts
<1> HIDE DEF t, e
<1>2. CASE Free(t, k)
  <2>1. \A i \in DOMAIN s : i # 1 => ~ Carries(s[i], k)
    <3> SUFFICES ASSUME NEW i \in DOMAIN s, i # 1 PROVE ~ Carries(s[i], k)
      OBVIOUS
    <3>1. i - 1 \in DOMAIN t /\ t[i - 1] = s[i]
      BY <1>1
    <3> QED
      BY <1>2, <3>1 DEF Free
  <2>2. After(t, k, e) = e
    BY Zenon, <1>2, AfterFree
  <2>3. CASE Carries(s[1], k)
    <3>1. IsLast(s, k, 1)
      BY <1>1, <2>1, <2>3 DEF IsLast
    <3>2. After(s, k, d) = ValueOf(s[1], k)
      BY Zenon, <3>1, AfterLast
    <3>3. e = ValueOf(s[1], k)
      BY <1>1, <2>3 DEF Upon, e
    <3> QED
      BY Zenon, <2>2, <3>2, <3>3 DEF t, e
  <2>4. CASE ~ Carries(s[1], k)
    <3>1. Free(s, k)
      BY Zenon, <2>1, <2>4 DEF Free
    <3> QED
      BY Zenon, <1>1, <2>2, <2>4, <3>1, AfterFree DEF Upon, t, e
  <2> QED
    BY Zenon, <2>3, <2>4
<1>3. CASE ~ Free(t, k)
  <2>1. PICK i : IsLast(t, k, i)
    BY Zenon, <1>1, <1>3, LastExists
  <2>2. IsLast(s, k, i + 1) /\ t[i] = s[i + 1]
    <3>1. i \in DOMAIN t /\ i + 1 \in DOMAIN s /\ t[i] = s[i + 1] /\ Carries(t[i], k)
      BY <1>1, <2>1 DEF IsLast
    <3>2. ASSUME NEW j \in DOMAIN s, j > i + 1 PROVE ~ Carries(s[j], k)
      <4>1. j - 1 \in DOMAIN t /\ j - 1 > i /\ t[j - 1] = s[j]
        BY <1>1, <3>1, <3>2
      <4> QED
        BY <2>1, <4>1 DEF IsLast
    <3> QED
      BY Zenon, <3>1, <3>2 DEF IsLast
  <2>3. After(t, k, e) = ValueOf(t[i], k) /\ After(s, k, d) = ValueOf(s[i + 1], k)
    BY Zenon, <1>1, <2>1, <2>2, AfterLast
  <2> QED
    BY Zenon, <2>2, <2>3 DEF t, e
<1> QED
  BY Zenon, <1>2, <1>3

LEMMA AfterAny ==
  ASSUME NEW s, NEW k, NEW d, NEW e, ~ Free(s, k)
  PROVE  After(s, k, d) = After(s, k, e)
<1> DEFINE v == ValueOf(s[CHOOSE i \in DOMAIN s : IsLast(s, k, i)], k)
<1>1. After(s, k, d) = v
  BY Zenon DEF After
<1>2. After(s, k, e) = v
  BY Zenon DEF After
<1> QED
  BY Zenon, <1>1, <1>2

-----------------------------------------------------------------------------
(* Control's last word on a field *)

LastIn(s, field) ==
    LET have == {i \in DOMAIN s : s[i][field] # None}
    IN IF have = {} THEN None ELSE s[CHOOSE i \in have : \A j \in have : j <= i][field]

LEMMA LastInIs ==
  ASSUME NEW s, IsSeq(s), NEW f, NEW i \in DOMAIN s, s[i][f] # None,
         \A j \in DOMAIN s : s[j][f] # None => j <= i
  PROVE  LastIn(s, f) = s[i][f]
<1> DEFINE have == {j \in DOMAIN s : s[j][f] # None}
<1>1. i \in have /\ \A j \in have : j <= i
  OBVIOUS
<1>2. \A j \in have : (\A l \in have : l <= j) => j = i
  BY <1>1, SeqFacts
<1>3. (CHOOSE j \in have : \A l \in have : l <= j) = i
  BY Zenon, <1>1, <1>2
<1>4. have # {}
  BY <1>1
<1> HIDE DEF have
<1> QED
  BY <1>3, <1>4 DEF LastIn, have

LEMMA LastInNone ==
  ASSUME NEW s, NEW f, \A j \in DOMAIN s : s[j][f] = None
  PROVE  LastIn(s, f) = None
<1>1. {i \in DOMAIN s : s[i][f] # None} = {}
  OBVIOUS
<1> QED
  BY <1>1 DEF LastIn

LEMMA LastInAppend ==
  ASSUME NEW s, IsSeq(s), NEW u, NEW f
  PROVE  LastIn(Append(s, u), f) = IF u[f] # None THEN u[f] ELSE LastIn(s, f)
<1> DEFINE t == Append(s, u)
           n == Len(s) + 1
<1>1. /\ IsSeq(t) /\ DOMAIN t = 1 .. n /\ t[n] = u
      /\ \A i \in DOMAIN s : t[i] = s[i]
      /\ Len(s) \in Nat /\ DOMAIN s = 1 .. Len(s)
  BY Zenon, AppendSeq, SeqFacts
<1> HIDE DEF t
<1>2. CASE u[f] # None
  <2>1. n \in DOMAIN t /\ t[n][f] # None /\ \A j \in DOMAIN t : t[j][f] # None => j <= n
    BY <1>1, <1>2
  <2>2. LastIn(t, f) = t[n][f]
    BY Zenon, <1>1, <2>1, LastInIs
  <2> QED
    BY <1>1, <1>2, <2>2 DEF t
<1>3. CASE u[f] = None /\ \A j \in DOMAIN s : s[j][f] = None
  <2>1. \A j \in DOMAIN t : t[j][f] = None
    BY <1>1, <1>3
  <2>2. LastIn(t, f) = None /\ LastIn(s, f) = None
    BY Zenon, <1>3, <2>1, LastInNone
  <2> QED
    BY <1>3, <2>2 DEF t
<1>4. CASE u[f] = None /\ \E j \in DOMAIN s : s[j][f] # None
  <2> DEFINE T == {j \in DOMAIN s : s[j][f] # None}
  <2>1. T \subseteq 1 .. Len(s) /\ T # {}
    BY <1>1, <1>4
  <2>2. PICK i \in T : \A j \in T : j <= i
    BY Zenon, <1>1, <2>1, GreatestElement
  <2>3. i \in DOMAIN s /\ s[i][f] # None /\ \A j \in DOMAIN s : s[j][f] # None => j <= i
    BY <2>2
  <2>4. LastIn(s, f) = s[i][f]
    BY Zenon, <2>3, LastInIs
  <2>5. i \in DOMAIN t /\ t[i][f] # None /\ \A j \in DOMAIN t : t[j][f] # None => j <= i
    BY <1>1, <1>4, <2>3
  <2>6. LastIn(t, f) = t[i][f]
    BY Zenon, <1>1, <2>5, LastInIs
  <2> QED
    BY <1>1, <1>4, <2>3, <2>4, <2>6 DEF t
<1> QED
  BY Zenon, <1>2, <1>3, <1>4

-----------------------------------------------------------------------------
(* Peer states follow one another: each deletes from the tunnel what the   *)
(* one before, or the tunnel, has and it has not.                          *)

IsState(m) == m.topic = "peer_state"

Replaces(m, before) ==
    /\ m.body.upserts = DOMAIN m.body.peers
    /\ m.body.deletions \cap m.body.upserts = {}
    /\ before \ m.body.upserts \subseteq m.body.deletions

Linked(s, before) ==
    \A i \in DOMAIN s : IsState(s[i]) =>
        /\ (\A j \in DOMAIN s : j < i => ~ IsState(s[j])) => Replaces(s[i], before)
        /\ \A j \in DOMAIN s :
              /\ j < i /\ IsState(s[j])
              /\ \A l \in DOMAIN s : j < l /\ l < i => ~ IsState(s[l])
              => Replaces(s[i], DOMAIN s[j].body.peers)

LEMMA LinkedAppend ==
  ASSUME NEW s, IsSeq(s), NEW d, NEW m, Linked(s, DOMAIN d),
         IsState(m) => Replaces(m, DOMAIN After(s, "keys", d))
  PROVE  Linked(Append(s, m), DOMAIN d)
<1> DEFINE t == Append(s, m)
           n == Len(s) + 1
<1>1. /\ IsSeq(t) /\ DOMAIN t = 1 .. n /\ t[n] = m
      /\ \A i \in DOMAIN s : t[i] = s[i]
      /\ Len(s) \in Nat /\ DOMAIN s = 1 .. Len(s)
  BY Zenon, AppendSeq, SeqFacts
<1> HIDE DEF t
<1>2. \A x : Carries(x, "keys") <=> IsState(x)
  BY DEF Carries, IsState
<1>3. ASSUME NEW i \in DOMAIN t, IsState(t[i]), \A j \in DOMAIN t : j < i => ~ IsState(t[j])
      PROVE  Replaces(t[i], DOMAIN d)
  <2>1. CASE i \in DOMAIN s
    <3>1. t[i] = s[i] /\ \A j \in DOMAIN s : j < i => ~ IsState(s[j])
      BY <1>1, <1>3, <2>1
    <3> QED
      BY Zenon, <1>3, <2>1, <3>1 DEF Linked
  <2>2. CASE i \notin DOMAIN s
    <3>1. i = n /\ \A j \in DOMAIN s : ~ IsState(s[j])
      BY <1>1, <1>3, <2>2
    <3>2. After(s, "keys", d) = d
      BY Zenon, <1>2, <3>1, AfterFree DEF Free
    <3> QED
      BY <1>1, <1>3, <3>1, <3>2
  <2> QED
    BY Zenon, <2>1, <2>2
<1>4. ASSUME NEW i \in DOMAIN t, IsState(t[i]), NEW j \in DOMAIN t, j < i, IsState(t[j]),
             \A l \in DOMAIN t : j < l /\ l < i => ~ IsState(t[l])
      PROVE  Replaces(t[i], DOMAIN t[j].body.peers)
  <2>1. j \in DOMAIN s /\ t[j] = s[j]
    BY <1>1, <1>4
  <2>2. CASE i \in DOMAIN s
    <3>1. t[i] = s[i] /\ \A l \in DOMAIN s : j < l /\ l < i => ~ IsState(s[l])
      BY <1>1, <1>4, <2>2
    <3>2. IsState(s[i]) /\ IsState(s[j])
      BY <1>4, <2>1, <3>1
    <3>3. Replaces(s[i], DOMAIN s[j].body.peers)
      BY Zenon, <1>4, <2>1, <2>2, <3>1, <3>2 DEF Linked
    <3> QED
      BY <2>1, <3>1, <3>3
  <2>3. CASE i \notin DOMAIN s
    <3>1. i = n /\ \A l \in DOMAIN s : l > j => ~ IsState(s[l])
      BY <1>1, <1>4, <2>3
    <3>2. IsState(s[j])
      BY <1>4, <2>1
    <3>3. IsLast(s, "keys", j)
      BY Zenon, <1>2, <2>1, <3>1, <3>2 DEF IsLast
    <3>4. After(s, "keys", d) = ValueOf(s[j], "keys")
      BY Zenon, <3>3, AfterLast
    <3>5. DOMAIN ValueOf(s[j], "keys") = DOMAIN s[j].body.peers
      BY DEF ValueOf, KeysOf
    <3> QED
      BY <1>1, <1>4, <2>1, <3>1, <3>4, <3>5
  <2> QED
    BY Zenon, <2>2, <2>3
<1>5. Linked(t, DOMAIN d)
  BY Zenon, <1>3, <1>4 DEF Linked
<1> QED
  BY Zenon, <1>5 DEF t

LEMMA LinkedTail ==
  ASSUME NEW s, IsSeq(s), s # << >>, NEW before, Linked(s, before)
  PROVE  /\ IsState(Head(s)) => Replaces(Head(s), before)
         /\ Linked(Tail(s), IF IsState(Head(s)) THEN DOMAIN Head(s).body.peers ELSE before)
<1> DEFINE t == Tail(s)
           b == IF IsState(Head(s)) THEN DOMAIN Head(s).body.peers ELSE before
<1>1. /\ IsSeq(t) /\ DOMAIN t = 1 .. Len(s) - 1 /\ Head(s) = s[1] /\ 1 \in DOMAIN s
      /\ \A i \in DOMAIN t : t[i] = s[i + 1] /\ i + 1 \in DOMAIN s
      /\ Len(s) \in Nat \ {0} /\ DOMAIN s = 1 .. Len(s)
  BY TailSeq, SeqFacts
<1> HIDE DEF t, b
<1>2. IsState(s[1]) => Replaces(s[1], before)
  <2>1. \A j \in DOMAIN s : j < 1 => ~ IsState(s[j])
    BY <1>1
  <2> QED
    BY Zenon, <1>1, <2>1 DEF Linked
<1>3. \A l \in DOMAIN s : l = 1 \/ (l - 1 \in DOMAIN t /\ t[l - 1] = s[l])
  BY <1>1
<1>4. ASSUME NEW i \in DOMAIN t, IsState(t[i]), \A j \in DOMAIN t : j < i => ~ IsState(t[j])
      PROVE  Replaces(t[i], b)
  <2>1. t[i] = s[i + 1] /\ i + 1 \in DOMAIN s /\ i \in Nat \ {0}
    BY <1>1
  <2>2. \A l \in DOMAIN s : 1 < l /\ l < i + 1 => ~ IsState(s[l])
    BY <1>1, <1>3, <1>4, <2>1
  <2>3. IsState(s[i + 1])
    BY <1>4, <2>1
  <2>4. CASE IsState(s[1])
    <3>1. 1 < i + 1
      BY <2>1
    <3>2. Replaces(s[i + 1], DOMAIN s[1].body.peers)
      BY Zenon, <1>1, <2>1, <2>2, <2>3, <2>4, <3>1 DEF Linked
    <3> QED
      BY <1>1, <2>1, <2>4, <3>2 DEF b
  <2>5. CASE ~ IsState(s[1])
    <3>1. \A l \in DOMAIN s : l < i + 1 => ~ IsState(s[l])
      BY <1>1, <2>2, <2>5
    <3>2. Replaces(s[i + 1], before)
      BY Zenon, <2>1, <2>3, <3>1 DEF Linked
    <3> QED
      BY <1>1, <2>1, <2>5, <3>2 DEF b
  <2> QED
    BY Zenon, <2>4, <2>5
<1>5. ASSUME NEW i \in DOMAIN t, IsState(t[i]), NEW j \in DOMAIN t, j < i, IsState(t[j]),
             \A l \in DOMAIN t : j < l /\ l < i => ~ IsState(t[l])
      PROVE  Replaces(t[i], DOMAIN t[j].body.peers)
  <2>1. /\ t[i] = s[i + 1] /\ i + 1 \in DOMAIN s /\ i \in Nat
        /\ t[j] = s[j + 1] /\ j + 1 \in DOMAIN s /\ j \in Nat /\ j + 1 < i + 1
    BY <1>1, <1>5
  <2>2. \A l \in DOMAIN s : j + 1 < l /\ l < i + 1 => ~ IsState(s[l])
    BY SMTT(60), <1>1, <1>3, <1>5, <2>1
  <2>3. IsState(s[i + 1]) /\ IsState(s[j + 1])
    BY <1>5, <2>1
  <2>4. Replaces(s[i + 1], DOMAIN s[j + 1].body.peers)
    BY Zenon, <2>1, <2>2, <2>3 DEF Linked
  <2> QED
    BY <2>1, <2>4
<1>6. Linked(t, b)
  BY Zenon, <1>4, <1>5 DEF Linked
<1> QED
  BY Zenon, <1>1, <1>2, <1>6 DEF t, b

-----------------------------------------------------------------------------
(* The invariant *)

Mail(a, k, d) == After(mbox[a], k, d)
OnBus(k, d) == After(bus, k, d)

Progress == [asked : MapPeers \cup {None}, done : SUBSET MapPeers,
             under : UNION {[ps -> Nat] : ps \in SUBSET MapPeers}]

Shape ==
    /\ DOMAIN mbox = Actors /\ DOMAIN busy = Actors
    /\ \A a \in Actors : IsSeq(mbox[a])
    /\ IsSeq(bus) /\ IsSeq(sent)
    /\ script \in Scripts /\ \A i \in DOMAIN sent : i \in DOMAIN script /\ sent[i] = script[i]
    /\ DOMAIN control = {"node", "home"}
    /\ DOMAIN derps = {"regions", "awake", "home", "db"}
    /\ DOMAIN dp = {"out", "under", "in", "src", "filter", "tunnel"}
    /\ nextTransport \in Nat
    /\ derps.regions \in [DOMAIN derps.regions -> Nat]
    /\ busy["routes"] \in Progress \cup {None}

(* Until the dataplane has stopped, only control may have. *)
Stopping == "dataplane" \notin stopped => stopped \subseteq {"control"}

Transports == \A r \in DOMAIN derps.regions : derps.regions[r] < nextTransport

(* The last peer state the bus has delivered. *)
Delivered == Mail("multiderp", "state", derps.db)

LastNode(field, d) == IF LastIn(sent, "node") = None THEN d ELSE LastIn(sent, "node")[field]
LastPeers == IF LastIn(sent, "peers") = None THEN Nothing ELSE LastIn(sent, "peers")

FilterFollows ==
    OnBus("filter", Mail("filter", "filter",
          OnBus("pf", Mail("dataplane", "pf", dp.filter)))) = LastIn(sent, "pf")
SelfFollows ==
    OnBus("node routes", Mail("routes", "node routes",
          OnBus("self_routes", Mail("dataplane", "self_routes", dp.in)))) = LastNode("routes", {})
IpsFollow == OnBus("node ips", Mail("netstack", "node ips", ips)) = LastNode("ips", None)
PeersFollow == OnBus("peers", Mail("tracker", "peers", peers)) = LastPeers
StateFollows == OnBus("state", Delivered) = peers
TunnelFollows == Mail("dataplane", "keys", dp.tunnel) = KeysOf(Delivered)
SourcesFollow ==
    Mail("source", "sources", OnBus("src_filter", Mail("dataplane", "src_filter", dp.src)))
        = RoutesOf(Delivered, DOMAIN Delivered)
RoutesFollow ==
    /\ Mail("routes", "routes", OnBus("out", Mail("dataplane", "out", dp.out)))
           = RoutesOf(Delivered, Homed(Delivered))
    /\ Mail("routes", "state", Delivered) = Delivered

StatesLinked == Linked(mbox["dataplane"], DOMAIN dp.tunnel) /\ Linked(bus, DOMAIN Delivered)

HomesAgree ==
    "control" \notin stopped =>
        Mail("multiderp", "home", derps.home) = Mail("control", "home", control.home)

(* The updaters are sent nothing else. *)
Expected(a, m) ==
    CASE a = "tracker" -> Carries(m, "peers")
      [] a = "filter" -> Carries(m, "filter")
      [] a = "netstack" -> Carries(m, "node ips")
      [] a = "routes" -> IsState(m) \/ Carries(m, "node routes")
      [] a = "latency" -> m.topic = "update" /\ m.body.derp # None
      [] OTHER -> TRUE

Topics == \A a \in Actors : \A i \in DOMAIN mbox[a] : Expected(a, mbox[a][i])

(* A region control has named is one of Multiderp's, or in a map that it   *)
(* will handle before it hears of the region otherwise.                    *)
Maps(m, r) == m.topic = "update" /\ m.body.derp # None /\ r \in m.body.derp

KnownSoon(r) ==
    r \in DOMAIN derps.regions \/ \E i \in DOMAIN mbox["multiderp"] : Maps(mbox["multiderp"][i], r)

HomesIn(m) == {m.body.peers[p].region : p \in Homed(m.body.peers)}

RegionsIn(m) ==
    CASE m.topic = "latency" -> IF m.body = << >> THEN {} ELSE {m.body[1]}
      [] m.topic = "region" -> {m.body}
      [] m.topic = "peer_state" -> HomesIn(m)
      [] OTHER -> {}

MultiderpKnows ==
    \A i \in DOMAIN mbox["multiderp"] : \A r \in RegionsIn(mbox["multiderp"][i]) :
        \/ r \in DOMAIN derps.regions
        \/ \E j \in DOMAIN mbox["multiderp"] : j < i /\ Maps(mbox["multiderp"][j], r)

MessagesKnown ==
    /\ \A i \in DOMAIN mbox["latency"] : \A r \in mbox["latency"][i].body.derp : KnownSoon(r)
    /\ \A i \in DOMAIN mbox["tracker"] : \A r \in HomesIn(mbox["tracker"][i]) : KnownSoon(r)
    /\ \A i \in DOMAIN mbox["routes"] : \A r \in RegionsIn(mbox["routes"][i]) : KnownSoon(r)
    /\ \A i \in DOMAIN bus : \A r \in RegionsIn(bus[i]) : KnownSoon(r)

UpdatesKnown ==
    /\ \A i \in DOMAIN bus : Carries(bus[i], "peers") => \A r \in HomesIn(bus[i]) :
          KnownSoon(r) \/ \E j \in DOMAIN bus : j <= i /\ Maps(bus[j], r)
    /\ \A i \in DOMAIN sent : sent[i].derp # None => \A r \in sent[i].derp :
          KnownSoon(r) \/ \E j \in DOMAIN bus : Maps(bus[j], r)

HomeKnown ==
    /\ derps.awake \subseteq {derps.home} /\ derps.awake \subseteq DOMAIN derps.regions
    /\ derps.home \in DOMAIN derps.regions \cup {None}

(* The underlay routes made of a peer state, and those made so far. *)
UnderFor(under, homes) ==
    /\ \A p \in DOMAIN homes : homes[p] \in DOMAIN derps.regions
    /\ under = [p \in DOMAIN homes |-> derps.regions[homes[p]]]

UnderlayFollows ==
    Free(mbox["routes"], "state") =>
        UnderFor(OnBus("under", Mail("dataplane", "under", dp.under)), HomesOf(Delivered))

AskedRegion ==
    IF Asking.asked = None THEN {} ELSE {Got("routes").peers[Asking.asked].region}

AskingRight ==
    /\ busy["routes"] # None => AtPeerState
    /\ AtPeerState =>
         /\ Asking.done \subseteq Homed(Got("routes").peers)
         /\ Asking.asked \in Homed(Got("routes").peers) \cup {None}
         /\ UnderFor(Asking.under, [p \in Asking.done |-> Got("routes").peers[p].region])
    /\ \A i \in DOMAIN mbox["multiderp"] : mbox["multiderp"][i].topic = "region" =>
         /\ AtPeerState /\ mbox["multiderp"][i].body \in AskedRegion
         /\ \A j \in DOMAIN mbox["multiderp"] : mbox["multiderp"][j].topic = "region" => j = i

Follows ==
    /\ FilterFollows /\ SelfFollows /\ IpsFollow /\ PeersFollow
    /\ StateFollows /\ TunnelFollows /\ SourcesFollow /\ RoutesFollow

Known == MultiderpKnows /\ MessagesKnown /\ UpdatesKnown /\ HomeKnown

Underlay == UnderlayFollows /\ AskingRight

(* The region Multiderp waits for a transport for has none. *)
Ensuring == busy["multiderp"] # None => busy["multiderp"] \notin DOMAIN derps.regions

(* What holds in a shutdown too, and what holds while the dataplane runs. *)
Basic ==
    /\ Shape /\ Stopping /\ Transports /\ TransportsDistinct
    /\ control.node = LastIn(sent, "node")

Rest == Follows /\ StatesLinked /\ HomesAgree /\ Topics /\ Known /\ Underlay

RInv == Basic /\ Ensuring /\ ("dataplane" \notin stopped => Rest)

-----------------------------------------------------------------------------
(* What a step does to the queues *)

Kinds == {"peers", "node routes", "node ips", "filter", "state", "keys", "sources", "routes",
          "home", "out", "under", "pf", "self_routes", "src_filter"}

LEMMA KindsOfTopic ==
  ASSUME NEW m
  PROVE  /\ m.topic = "update" =>
              \A k \in Kinds \ {"peers", "node routes", "node ips", "filter"} : ~ Carries(m, k)
         /\ m.topic = "peer_state" =>
              \A k \in Kinds \ {"state", "keys", "sources", "routes"} : ~ Carries(m, k)
         /\ m.topic = "latency" => \A k \in Kinds \ {"home"} : ~ Carries(m, k)
         /\ m.topic = "peer_routes" => \A k \in Kinds \ {"out", "under"} : ~ Carries(m, k)
         /\ m.topic = "self_routes" => \A k \in Kinds \ {"self_routes"} : ~ Carries(m, k)
         /\ m.topic = "src_filter" => \A k \in Kinds \ {"src_filter"} : ~ Carries(m, k)
         /\ m.topic = "pf" => \A k \in Kinds \ {"pf"} : ~ Carries(m, k)
         /\ m.topic \in {"region", "new_transport"} => \A k \in Kinds : ~ Carries(m, k)
  BY DEF Kinds, Carries

LEMMA TakenMail ==
  ASSUME Shape, NEW a \in Actors, mbox[a] # << >>, Took(a)
  PROVE  /\ DOMAIN mbox' = Actors /\ \A b \in Actors : IsSeq(mbox'[b])
         /\ mbox'[a] = Tail(mbox[a]) /\ IsSeq(mbox[a])
         /\ \A b \in Actors \ {a} : mbox'[b] = mbox[b]
         /\ \A k, d : After(mbox'[a], k, Upon(Head(mbox[a]), k, d)) = After(mbox[a], k, d)
         /\ \A k : ~ Carries(Head(mbox[a]), k) =>
              \A d : After(mbox'[a], k, d) = After(mbox[a], k, d)
<1>1. DOMAIN mbox = Actors /\ \A b \in Actors : IsSeq(mbox[b])
  BY Zenon DEF Shape
<1>2. /\ DOMAIN mbox' = Actors /\ mbox'[a] = Tail(mbox[a])
      /\ \A b \in Actors \ {a} : mbox'[b] = mbox[b]
  BY <1>1 DEF Took
<1>3. IsSeq(Tail(mbox[a]))
  BY Zenon, <1>1, TailSeq
<1>4. \A b \in Actors : IsSeq(mbox'[b])
  BY <1>1, <1>2, <1>3
<1>5. \A k, d : After(Tail(mbox[a]), k, Upon(Head(mbox[a]), k, d)) = After(mbox[a], k, d)
  BY Zenon, <1>1, AfterTail
<1>6. ASSUME NEW k, ~ Carries(Head(mbox[a]), k), NEW d
      PROVE  After(Tail(mbox[a]), k, d) = After(mbox[a], k, d)
  <2>1. Upon(Head(mbox[a]), k, d) = d
    BY Zenon, <1>6 DEF Upon
  <2> QED
    BY <1>5, <2>1
<1> QED
  BY <1>1, <1>2, <1>4, <1>5, <1>6

LEMMA PostedMail ==
  ASSUME Shape, NEW a \in Actors, NEW m, mbox' = [mbox EXCEPT ![a] = Append(mbox[a], m)]
  PROVE  /\ DOMAIN mbox' = Actors /\ \A b \in Actors : IsSeq(mbox'[b])
         /\ mbox'[a] = Append(mbox[a], m) /\ IsSeq(mbox[a])
         /\ \A b \in Actors \ {a} : mbox'[b] = mbox[b]
         /\ \A k : ~ Carries(m, k) => \A d : After(mbox'[a], k, d) = After(mbox[a], k, d)
<1>1. DOMAIN mbox = Actors /\ \A b \in Actors : IsSeq(mbox[b])
  BY Zenon DEF Shape
<1>2. /\ DOMAIN mbox' = Actors /\ mbox'[a] = Append(mbox[a], m)
      /\ \A b \in Actors \ {a} : mbox'[b] = mbox[b]
  BY <1>1
<1>3. IsSeq(Append(mbox[a], m))
  BY Zenon, <1>1, AppendSeq
<1>4. \A b \in Actors : IsSeq(mbox'[b])
  BY <1>1, <1>2, <1>3
<1>5. ASSUME NEW k, ~ Carries(m, k), NEW d
      PROVE  After(Append(mbox[a], m), k, d) = After(mbox[a], k, d)
  <2>1. Upon(m, k, After(mbox[a], k, d)) = After(mbox[a], k, d)
    BY Zenon, <1>5 DEF Upon
  <2>2. After(Append(mbox[a], m), k, d) = Upon(m, k, After(mbox[a], k, d))
    BY <1>1, AfterAppend
  <2> QED
    BY <2>1, <2>2
<1> QED
  BY <1>1, <1>2, <1>4, <1>5

LEMMA PublishedBus ==
  ASSUME IsSeq(bus), NEW m, Publish(m)
  PROVE  /\ IsSeq(bus') /\ bus' = Append(bus, m)
         /\ \A k : ~ Carries(m, k) => \A d : After(bus', k, d) = After(bus, k, d)
         /\ \A k : Carries(m, k) => \A d : After(bus', k, d) = ValueOf(m, k)
<1>1. bus' = Append(bus, m)
  BY Zenon DEF Publish
<1>2. IsSeq(Append(bus, m))
  BY Zenon, AppendSeq
<1>3. ASSUME NEW k, ~ Carries(m, k), NEW d
      PROVE  After(Append(bus, m), k, d) = After(bus, k, d)
  <2>1. Upon(m, k, After(bus, k, d)) = After(bus, k, d)
    BY Zenon, <1>3 DEF Upon
  <2>2. After(Append(bus, m), k, d) = Upon(m, k, After(bus, k, d))
    BY AfterAppend
  <2> QED
    BY <2>1, <2>2
<1>4. ASSUME NEW k, Carries(m, k), NEW d
      PROVE  After(Append(bus, m), k, d) = ValueOf(m, k)
  <2>1. Upon(m, k, After(bus, k, d)) = ValueOf(m, k)
    BY Zenon, <1>4 DEF Upon
  <2>2. After(Append(bus, m), k, d) = Upon(m, k, After(bus, k, d))
    BY AfterAppend
  <2> QED
    BY <2>1, <2>2
<1> QED
  BY <1>1, <1>2, <1>3, <1>4

(* A handler that takes a message of one topic. *)
LEMMA TakesFacts ==
  ASSUME NEW a, NEW t, Takes(a, t)
  PROVE  mbox[a] # << >> /\ Head(mbox[a]).topic = t
  BY Zenon DEF Takes

-----------------------------------------------------------------------------
(* What a step leaves as it is *)

SameMail(a, ks) == \A k \in ks : \A d : After(mbox'[a], k, d) = After(mbox[a], k, d)
SameBus(ks) == \A k \in ks : \A d : After(bus', k, d) = After(bus, k, d)

LEMMA MailKept ==
  ASSUME NEW a, mbox'[a] = mbox[a]
  PROVE  SameMail(a, Kinds)
  BY DEF SameMail

LEMMA BusKept ==
  ASSUME bus' = bus
  PROVE  SameBus(Kinds)
  BY DEF SameBus

(* Messages leave a queue, or join it and are as expected. *)
TakenOrKept(s, t) == t = s \/ (s # << >> /\ t = Tail(s))

LEMMA TopicsKept ==
  ASSUME Shape, Topics, \A a \in Actors : TakenOrKept(mbox[a], mbox'[a])
                          \/ \E m : Expected(a, m) /\ mbox'[a] = Append(mbox[a], m)
  PROVE  Topics'
<1> SUFFICES ASSUME NEW a \in Actors, NEW i \in DOMAIN mbox'[a]
             PROVE  Expected(a, mbox'[a][i])
  BY Zenon DEF Topics
<1>1. IsSeq(mbox[a]) /\ \A j \in DOMAIN mbox[a] : Expected(a, mbox[a][j])
  BY Zenon DEF Shape, Topics
<1>2. CASE mbox'[a] = mbox[a]
  BY <1>1, <1>2
<1>3. CASE mbox[a] # << >> /\ mbox'[a] = Tail(mbox[a])
  <2>1. Leaves(mbox[a], mbox'[a])
    BY Zenon, <1>1, <1>3, Left
  <2> QED
    BY Zenon, <1>1, <2>1 DEF Leaves
<1>4. ASSUME NEW m, Expected(a, m), mbox'[a] = Append(mbox[a], m)
      PROVE  Expected(a, mbox'[a][i])
  <2>1. Joins(m, mbox[a], mbox'[a])
    BY Zenon, <1>1, <1>4, Joined
  <2> QED
    BY Zenon, <1>1, <1>4, <2>1 DEF Joins
<1> QED
  BY <1>2, <1>3, <1>4 DEF TakenOrKept

(* What Multiderp will know it goes on to know, so what was known of the   *)
(* messages still is, also when one is published that names no new region. *)
LEMMA RegionsKept ==
  ASSUME Shape, MessagesKnown, UpdatesKnown, sent' = sent,
         \A r : KnownSoon(r) => KnownSoon(r)',
         \A a \in {"latency", "tracker", "routes"} : TakenOrKept(mbox[a], mbox'[a]),
         bus' = bus \/ \E m : /\ bus' = Append(bus, m) /\ m.topic # "update"
                              /\ \A r \in RegionsIn(m) : KnownSoon(r)
  PROVE  MessagesKnown' /\ UpdatesKnown'
<1> DEFINE Old(s, t) == \A i \in DOMAIN t : \E j \in DOMAIN s : t[i] = s[j]
<1>1. \A a \in {"latency", "tracker", "routes"} : Old(mbox[a], mbox'[a])
  <2> SUFFICES ASSUME NEW a \in {"latency", "tracker", "routes"} PROVE Old(mbox[a], mbox'[a])
    BY Zenon
  <2>1. IsSeq(mbox[a])
    BY DEF Shape, Actors
  <2>2. CASE mbox'[a] = mbox[a]
    BY Zenon, <2>2
  <2>3. CASE mbox[a] # << >> /\ mbox'[a] = Tail(mbox[a])
    <3>1. Leaves(mbox[a], mbox'[a])
      BY Zenon, <2>1, <2>3, Left
    <3> QED
      BY Zenon, <3>1 DEF Leaves
  <2> QED
    BY Zenon, <2>2, <2>3 DEF TakenOrKept
<1>2. IsSeq(bus)
  BY Zenon DEF Shape
<1>3. /\ \A i \in DOMAIN bus : i \in DOMAIN bus' /\ bus'[i] = bus[i]
      /\ \A i \in DOMAIN bus' : i \in DOMAIN bus \/
            (bus'[i].topic # "update" /\ \A r \in RegionsIn(bus'[i]) : KnownSoon(r))
  <2>1. CASE bus' = bus
    BY Zenon, <2>1
  <2>2. ASSUME NEW m, bus' = Append(bus, m), m.topic # "update",
               \A r \in RegionsIn(m) : KnownSoon(r)
        PROVE  <1>3
    <3>1. Joins(m, bus, bus')
      BY Zenon, <1>2, <2>2, Joined
    <3> QED
      BY Zenon, <2>2, <3>1 DEF Joins
  <2> QED
    BY Zenon, <2>1, <2>2
<1>4. MessagesKnown'
  <2>1. \A i \in DOMAIN mbox'["latency"] : \A r \in mbox'["latency"][i].body.derp : KnownSoon(r)'
    BY <1>1 DEF MessagesKnown
  <2>2. \A i \in DOMAIN mbox'["tracker"] : \A r \in HomesIn(mbox'["tracker"][i]) : KnownSoon(r)'
    BY <1>1 DEF MessagesKnown
  <2>3. \A i \in DOMAIN mbox'["routes"] : \A r \in RegionsIn(mbox'["routes"][i]) : KnownSoon(r)'
    BY <1>1 DEF MessagesKnown
  <2>4. \A i \in DOMAIN bus' : \A r \in RegionsIn(bus'[i]) : KnownSoon(r)'
    BY <1>3 DEF MessagesKnown
  <2> QED
    BY Zenon, <2>1, <2>2, <2>3, <2>4 DEF MessagesKnown
<1>5. UpdatesKnown'
  <2>1. ASSUME NEW i \in DOMAIN bus', Carries(bus'[i], "peers"), NEW r \in HomesIn(bus'[i])
        PROVE  KnownSoon(r)' \/ \E j \in DOMAIN bus' : j <= i /\ Maps(bus'[j], r)
    <3>1. bus'[i].topic = "update"
      BY <2>1 DEF Carries
    <3>2. i \in DOMAIN bus /\ bus'[i] = bus[i]
      BY <1>3, <3>1
    <3>3. KnownSoon(r) \/ \E j \in DOMAIN bus : j <= i /\ Maps(bus[j], r)
      BY <2>1, <3>2 DEF UpdatesKnown
    <3> QED
      BY <1>3, <3>3
  <2>2. ASSUME NEW i \in DOMAIN sent, sent[i].derp # None, NEW r \in sent[i].derp
        PROVE  KnownSoon(r)' \/ \E j \in DOMAIN bus' : Maps(bus'[j], r)
    <3>1. KnownSoon(r) \/ \E j \in DOMAIN bus : Maps(bus[j], r)
      BY <2>2 DEF UpdatesKnown
    <3> QED
      BY <1>3, <3>1
  <2> QED
    BY <2>1, <2>2 DEF UpdatesKnown
<1> QED
  BY Zenon, <1>4, <1>5

Extends(f, g) == \A r \in DOMAIN f : r \in DOMAIN g /\ g[r] = f[r]

LEMMA UnderlayKept ==
  ASSUME UnderlayFollows, Extends(derps.regions, derps'.regions), Delivered' = Delivered,
         Free(mbox'["routes"], "state") => Free(mbox["routes"], "state"),
         OnBus("under", Mail("dataplane", "under", dp.under))'
             = OnBus("under", Mail("dataplane", "under", dp.under))
  PROVE  UnderlayFollows'
<1> SUFFICES ASSUME Free(mbox'["routes"], "state")
             PROVE  UnderFor(OnBus("under", Mail("dataplane", "under", dp.under)), HomesOf(Delivered))'
  BY Zenon DEF UnderlayFollows
<1> DEFINE u == OnBus("under", Mail("dataplane", "under", dp.under))
           h == HomesOf(Delivered)
<1>1. UnderFor(u, h)
  BY Zenon DEF UnderlayFollows
<1>2. h' = h
  BY Zenon
<1>3. u' = u
  BY Zenon
<1> HIDE DEF u, h
<1>4. /\ \A p \in DOMAIN h : /\ h[p] \in DOMAIN derps'.regions
                             /\ derps'.regions[h[p]] = derps.regions[h[p]]
      /\ u = [p \in DOMAIN h |-> derps.regions[h[p]]]
  BY Zenon, <1>1 DEF UnderFor, Extends
<1>5. u = [p \in DOMAIN h |-> derps'.regions[h[p]]]
  BY <1>4
<1>6. UnderFor(u, h)'
  BY <1>2, <1>3, <1>4, <1>5 DEF UnderFor
<1> QED
  BY <1>6 DEF u, h

(* One lemma for each path from control to a table: it is the same when    *)
(* the queues on the path and its end are.                                 *)
LEMMA FilterKept ==
  ASSUME FilterFollows, sent' = sent, SameBus({"filter", "pf"}), SameMail("filter", {"filter"}),
         SameMail("dataplane", {"pf"}), dp'.filter = dp.filter
  PROVE  FilterFollows'
  BY DEF FilterFollows, SameBus, SameMail, OnBus, Mail

LEMMA SelfKept ==
  ASSUME SelfFollows, sent' = sent, SameBus({"node routes", "self_routes"}),
         SameMail("routes", {"node routes"}), SameMail("dataplane", {"self_routes"}),
         dp'.in = dp.in
  PROVE  SelfFollows'
<1>1. LastNode("routes", {})' = LastNode("routes", {})
  BY Zenon DEF LastNode
<1>2. /\ \A d : After(bus', "node routes", d) = After(bus, "node routes", d)
      /\ \A d : After(bus', "self_routes", d) = After(bus, "self_routes", d)
      /\ \A d : After(mbox'["routes"], "node routes", d) = After(mbox["routes"], "node routes", d)
      /\ \A d : After(mbox'["dataplane"], "self_routes", d)
                  = After(mbox["dataplane"], "self_routes", d)
  BY DEF SameBus, SameMail
<1>3. Mail("dataplane", "self_routes", dp.in)' = Mail("dataplane", "self_routes", dp.in)
  BY Zenon, <1>2 DEF Mail
<1> DEFINE in == Mail("dataplane", "self_routes", dp.in)
           onBus == OnBus("self_routes", in)
           posted == Mail("routes", "node routes", onBus)
<1>4. onBus' = onBus
  BY Zenon, <1>2, <1>3 DEF OnBus
<1>5. posted' = posted
  <2> HIDE DEF onBus
  <2> QED
    BY Zenon, <1>2, <1>4 DEF Mail
<1>6. OnBus("node routes", posted)' = OnBus("node routes", posted)
  <2> HIDE DEF posted
  <2> QED
    BY Zenon, <1>2, <1>5 DEF OnBus
<1> QED
  BY <1>1, <1>6 DEF SelfFollows

LEMMA IpsKept ==
  ASSUME IpsFollow, sent' = sent, SameBus({"node ips"}), SameMail("netstack", {"node ips"}),
         ips' = ips
  PROVE  IpsFollow'
  BY DEF IpsFollow, SameBus, SameMail, OnBus, Mail, LastNode

LEMMA PeersKept ==
  ASSUME PeersFollow, sent' = sent, SameBus({"peers"}), SameMail("tracker", {"peers"}),
         peers' = peers
  PROVE  PeersFollow'
  BY DEF PeersFollow, SameBus, SameMail, OnBus, Mail, LastPeers

LEMMA StateKept ==
  ASSUME StateFollows, Delivered' = Delivered, SameBus({"state"}), peers' = peers
  PROVE  StateFollows'
  BY DEF StateFollows, SameBus, OnBus

LEMMA TunnelKept ==
  ASSUME TunnelFollows, Delivered' = Delivered, SameMail("dataplane", {"keys"}),
         dp'.tunnel = dp.tunnel
  PROVE  TunnelFollows'
  BY DEF TunnelFollows, SameMail, Mail

LEMMA SourcesKept ==
  ASSUME SourcesFollow, Delivered' = Delivered, SameMail("source", {"sources"}),
         SameBus({"src_filter"}), SameMail("dataplane", {"src_filter"}), dp'.src = dp.src
  PROVE  SourcesFollow'
  BY DEF SourcesFollow, SameBus, SameMail, OnBus, Mail

LEMMA RoutesKept ==
  ASSUME RoutesFollow, Delivered' = Delivered, SameMail("routes", {"routes", "state"}),
         SameBus({"out"}), SameMail("dataplane", {"out"}), dp'.out = dp.out
  PROVE  RoutesFollow'
  BY DEF RoutesFollow, SameBus, SameMail, OnBus, Mail

LEMMA DeliveredKept ==
  ASSUME SameMail("multiderp", {"state"}), derps'.db = derps.db
  PROVE  Delivered' = Delivered
  BY DEF Delivered, SameMail, Mail

LEMMA HomesKept ==
  ASSUME HomesAgree, "control" \notin stopped' => "control" \notin stopped,
         SameMail("multiderp", {"home"}), SameMail("control", {"home"}),
         derps'.home = derps.home, control'.home = control.home
  PROVE  HomesAgree'
  BY DEF HomesAgree, SameMail, Mail

(* Nothing changes but perhaps what is known of the home region. *)
AllSame ==
    /\ \A a \in Actors \ {"multiderp"} : SameMail(a, Kinds \ {"home"})
    /\ SameBus(Kinds \ {"home"}) /\ sent' = sent
    /\ dp' = dp /\ ips' = ips /\ peers' = peers /\ Delivered' = Delivered

LEMMA FewerKinds ==
  ASSUME NEW ks, NEW js, js \subseteq ks
  PROVE  /\ SameBus(ks) => SameBus(js)
         /\ \A a : SameMail(a, ks) => SameMail(a, js)
  BY Zenon DEF SameBus, SameMail

LEMMA FollowsKept ==
  ASSUME Follows, AllSame
  PROVE  Follows'
<1>1. \A js \in SUBSET (Kinds \ {"home"}) :
          SameBus(js) /\ \A a \in Actors \ {"multiderp"} : SameMail(a, js)
  BY Zenon, FewerKinds DEF AllSame
<1>2. Delivered' = Delivered
  BY Zenon DEF AllSame
<1>3. FilterFollows' /\ SelfFollows'
  BY <1>1, FilterKept, SelfKept DEF AllSame, Follows, Actors, Kinds
<1>4. IpsFollow' /\ PeersFollow'
  BY <1>1, IpsKept, PeersKept DEF AllSame, Follows, Actors, Kinds
<1>5. StateFollows' /\ TunnelFollows'
  BY <1>1, <1>2, StateKept, TunnelKept DEF AllSame, Follows, Actors, Kinds
<1>6. SourcesFollow' /\ RoutesFollow'
  BY <1>1, <1>2, SourcesKept, RoutesKept DEF AllSame, Follows, Actors, Kinds
<1> QED
  BY Zenon, <1>3, <1>4, <1>5, <1>6 DEF Follows

-----------------------------------------------------------------------------
(* The part of the invariant that a shutdown leaves alone *)

(* What Shape says of each variable. *)
MailShape == DOMAIN mbox = Actors /\ \A a \in Actors : IsSeq(mbox[a])
SentShape == /\ IsSeq(sent) /\ script \in Scripts
             /\ \A i \in DOMAIN sent : i \in DOMAIN script /\ sent[i] = script[i]
BusyShape == DOMAIN busy = Actors /\ busy["routes"] \in Progress \cup {None}
DerpsShape == /\ DOMAIN derps = {"regions", "awake", "home", "db"} /\ nextTransport \in Nat
              /\ derps.regions \in [DOMAIN derps.regions -> Nat]
ControlShape == DOMAIN control = {"node", "home"}
DpShape == DOMAIN dp = {"out", "under", "in", "src", "filter", "tunnel"}

LEMMA ShapeIs ==
  Shape <=> /\ MailShape /\ IsSeq(bus) /\ SentShape /\ BusyShape /\ DerpsShape
            /\ ControlShape /\ DpShape
  BY Zenon DEF Shape, MailShape, SentShape, BusyShape, DerpsShape, ControlShape, DpShape

LEMMA ShapeNext ==
  /\ MailShape' /\ IsSeq(bus') /\ SentShape' /\ BusyShape' /\ DerpsShape'
  /\ ControlShape' /\ DpShape'
  => Shape'
  BY Zenon DEF Shape, MailShape, SentShape, BusyShape, DerpsShape, ControlShape, DpShape

LEMMA TakenShape ==
  ASSUME Shape, NEW a \in Actors, mbox[a] # << >>, Took(a)
  PROVE  MailShape'
  BY Zenon, TakenMail DEF MailShape

LEMMA PublishedShape ==
  ASSUME IsSeq(bus), NEW m, Publish(m)
  PROVE  IsSeq(bus')
  BY Zenon, PublishedBus

LEMMA SameShape ==
  /\ UNCHANGED <<script, sent>> /\ SentShape => SentShape'
  /\ UNCHANGED busy /\ BusyShape => BusyShape'
  /\ UNCHANGED <<derps, nextTransport>> /\ DerpsShape => DerpsShape'
  /\ UNCHANGED control /\ ControlShape => ControlShape'
  /\ UNCHANGED dp /\ DpShape => DpShape'
  /\ UNCHANGED mbox /\ MailShape => MailShape'
  BY Zenon DEF MailShape, SentShape, BusyShape, DerpsShape, ControlShape, DpShape, Progress,
     Actors, MapPeers, Sendable

LEMMA SameTransports ==
  ASSUME Transports, TransportsDistinct, derps'.regions = derps.regions,
         nextTransport' = nextTransport
  PROVE  Transports' /\ TransportsDistinct'
  BY Zenon DEF Transports, TransportsDistinct, IsInjective

LEMMA SameNode ==
  ASSUME control.node = LastIn(sent, "node"), sent' = sent, control'.node = control.node
  PROVE  (control.node = LastIn(sent, "node"))'
  BY Zenon DEF LastIn

LEMMA SameStopping ==
  ASSUME Stopping, stopped' = stopped
  PROVE  Stopping'
  BY Zenon DEF Stopping

LEMMA BasicFrame ==
  ASSUME Basic, MailShape', IsSeq(bus'), BusyShape', ControlShape', DpShape', DerpsShape',
         derps'.regions = derps.regions, nextTransport' = nextTransport,
         control'.node = control.node, UNCHANGED <<script, sent, stopped>>
  PROVE  Basic'
<1>1. SentShape'
  BY Zenon, ShapeIs, SameShape DEF Basic
<1>2. Shape'
  BY Zenon, <1>1, ShapeNext
<1>3. Stopping' /\ Transports' /\ TransportsDistinct'
  BY Zenon, SameStopping, SameTransports DEF Basic
<1>4. (control.node = LastIn(sent, "node"))'
  BY Zenon, SameNode DEF Basic
<1> QED
  BY Zenon, <1>2, <1>3, <1>4 DEF Basic

(* The handlers that take a message, and may publish one. *)
LEMMA BasicHandled ==
  ASSUME Basic, NEW a \in Actors, mbox[a] # << >>, Took(a), bus' = bus \/ \E m : Publish(m),
         UNCHANGED <<script, sent, busy, nextTransport, stopped>>,
         ControlShape', control'.node = control.node, DpShape', DerpsShape',
         derps'.regions = derps.regions
  PROVE  Basic'
<1>1. MailShape'
  BY Zenon, TakenShape DEF Basic
<1>2. IsSeq(bus) /\ BusyShape
  BY Zenon, ShapeIs DEF Basic
<1>3. IsSeq(bus')
  BY Zenon, <1>2, PublishedShape
<1>4. BusyShape'
  BY Zenon, <1>2, SameShape
<1> QED
  BY Zenon, <1>1, <1>3, <1>4, BasicFrame

LEMMA BasicOfControl ==
  ASSUME Basic, ControlUpdate \/ ControlLatency
  PROVE  Basic'
<1>1. /\ MailShape /\ IsSeq(bus) /\ SentShape /\ BusyShape /\ DerpsShape /\ ControlShape
      /\ DpShape
  BY Zenon, ShapeIs DEF Basic
<1>2. CASE ControlUpdate
  <2> DEFINE u == script[Len(sent) + 1]
  <2> HIDE DEF u
  <2>1. /\ Len(sent) < Len(script) /\ sent' = Append(sent, u) /\ Publish(Message("update", u))
        /\ control' = IF u.node = None THEN control ELSE [control EXCEPT !.node = u.node]
        /\ UNCHANGED <<script, mbox, busy, peers, derps, dp, ips, nextTransport, shutdown,
                       stopped>>
    BY Zenon, <1>2 DEF ControlUpdate, u
  <2>2. IsSeq(bus')
    BY Zenon, <1>1, <2>1, PublishedShape
  <2>3. ControlShape' /\ control'.node = IF u.node # None THEN u.node ELSE control.node
    BY <1>1, <2>1 DEF ControlShape
  <2>4. /\ IsSeq(sent') /\ DOMAIN sent' = 1 .. Len(sent) + 1 /\ sent'[Len(sent) + 1] = u
        /\ \A i \in DOMAIN sent : sent'[i] = sent[i]
        /\ DOMAIN sent = 1 .. Len(sent) /\ Len(sent) \in Nat
    <3>1. IsSeq(sent)
      BY Zenon, <1>1 DEF SentShape
    <3>2. DOMAIN sent = 1 .. Len(sent) /\ Len(sent) \in Nat
      BY Zenon, <3>1, SeqFacts
    <3>3. /\ IsSeq(Append(sent, u)) /\ DOMAIN Append(sent, u) = 1 .. Len(sent) + 1
          /\ \A i \in DOMAIN sent : Append(sent, u)[i] = sent[i]
          /\ Append(sent, u)[Len(sent) + 1] = u
      BY <3>1, AppendSeq
    <3>4. sent' = Append(sent, u)
      BY Zenon, <2>1
    <3> QED
      BY Zenon, <3>2, <3>3, <3>4
  <2>5. Len(script) \in Nat /\ DOMAIN script = 1 .. Len(script)
    <3>1. script \in Seq(Sendable)
      BY Zenon, <1>1, ScriptsAssumption DEF SentShape
    <3> QED
      BY <3>1
  <2>6. SentShape'
    <3>1. Len(sent) + 1 \in DOMAIN script /\ u = script[Len(sent) + 1]
      BY <2>1, <2>4, <2>5 DEF u
    <3>2. \A i \in DOMAIN sent' : i \in DOMAIN sent \/ i = Len(sent) + 1
      BY <2>4
    <3>3. \A i \in DOMAIN sent' : i \in DOMAIN script' /\ sent'[i] = script'[i]
      BY <1>1, <2>1, <2>4, <3>1, <3>2 DEF SentShape
    <3> QED
      BY Zenon, <1>1, <2>1, <2>4, <3>3 DEF SentShape
  <2>7. LastIn(sent', "node") = IF u["node"] # None THEN u["node"] ELSE LastIn(sent, "node")
    BY Zenon, <1>1, <2>1, LastInAppend DEF SentShape
  <2>8. (control.node = LastIn(sent, "node"))'
    <3>1. LastIn(sent, "node")' = LastIn(sent', "node")
      BY Zenon DEF LastIn
    <3> QED
      BY <2>3, <2>7, <3>1 DEF Basic
  <2>9. BusyShape' /\ DerpsShape' /\ DpShape' /\ MailShape'
    BY Zenon, <1>1, <2>1, SameShape
  <2>10. Shape'
    BY Zenon, <2>2, <2>3, <2>6, <2>9, ShapeNext
  <2>11. Stopping' /\ Transports' /\ TransportsDistinct'
    BY Zenon, <2>1, SameStopping, SameTransports DEF Basic
  <2> QED
    BY Zenon, <2>8, <2>10, <2>11 DEF Basic
<1>3. CASE ControlLatency
  <2>1. ControlShape' /\ control'.node = control.node
    BY <1>1, <1>3 DEF ControlLatency, ControlShape
  <2>2. DerpsShape' /\ DpShape'
    BY Zenon, <1>1, <1>3, SameShape DEF ControlLatency
  <2>3. "control" \in Actors
    BY DEF Actors
  <2> QED
    BY Zenon, <1>3, <2>1, <2>2, <2>3, BasicHandled DEF ControlLatency, Takes
<1> QED
  BY Zenon, <1>2, <1>3

LEMMA BasicOfUpdaters ==
  ASSUME Basic, \/ TrackerUpdate \/ SourceFilterUpdate \/ FilterUpdate \/ NetstackUpdate
                \/ Measure \/ RoutesSelf
  PROVE  Basic'
<1>1. DerpsShape /\ DpShape /\ ControlShape
  BY Zenon, ShapeIs DEF Basic
<1> DEFINE Same == UNCHANGED <<script, sent, busy, nextTransport, stopped, control, derps, dp>>
<1>2. ASSUME Same
      PROVE DerpsShape' /\ DpShape' /\ ControlShape'
  BY Zenon, <1>1, <1>2, SameShape
<1>3. ASSUME NEW a \in Actors, NEW t, Takes(a, t), Took(a), Same, bus' = bus \/ \E m : Publish(m)
      PROVE  Basic'
  BY Zenon, <1>2, <1>3, BasicHandled DEF Takes
<1>4. {"tracker", "source", "filter", "netstack", "latency", "routes"} \subseteq Actors
  BY DEF Actors
<1>5. \E a \in Actors : \E t : Takes(a, t) /\ Took(a)
  BY Zenon, <1>4 DEF TrackerUpdate, SourceFilterUpdate, FilterUpdate, NetstackUpdate, Measure,
     RoutesSelf
<1>6. Same
  BY Zenon DEF TrackerUpdate, SourceFilterUpdate, FilterUpdate, NetstackUpdate, Measure,
     RoutesSelf
<1>7. bus' = bus \/ \E m : Publish(m)
  BY Zenon DEF TrackerUpdate, SourceFilterUpdate, FilterUpdate, NetstackUpdate, Measure,
     RoutesSelf
<1> QED
  BY Zenon, <1>3, <1>5, <1>6, <1>7

LEMMA BasicOfDelivery ==
  ASSUME Basic, Deliver
  PROVE  Basic'
<1>1. /\ MailShape /\ IsSeq(bus) /\ SentShape /\ BusyShape /\ DerpsShape /\ ControlShape
      /\ DpShape
  BY Zenon, ShapeIs DEF Basic
<1>2. IsSeq(bus')
  BY Zenon, <1>1, TailSeq DEF Deliver
<1>3. ASSUME NEW a \in Actors
      PROVE  IsSeq(mbox'[a])
  <2>1. mbox'[a] = mbox[a] \/ mbox'[a] = Append(mbox[a], Head(bus))
    BY DEF Deliver
  <2>2. IsSeq(Append(mbox[a], Head(bus))) /\ IsSeq(mbox[a])
    BY Zenon, <1>1, AppendSeq DEF MailShape
  <2> QED
    BY Zenon, <2>1, <2>2
<1>4. MailShape'
  BY Zenon, <1>3 DEF MailShape, Deliver
<1>5. BusyShape' /\ ControlShape' /\ DpShape' /\ DerpsShape'
  BY Zenon, <1>1, SameShape DEF Deliver
<1> QED
  BY Zenon, <1>2, <1>4, <1>5, BasicFrame DEF Deliver

LEMMA BasicOfMultiderp ==
  ASSUME Basic, \/ MultiderpUpdate \/ MultiderpPeers \/ MultiderpLatency
                \/ \E r \in MapRegions : EnsureRegion(r)
  PROVE  Basic'
<1>1. /\ MailShape /\ IsSeq(bus) /\ SentShape /\ BusyShape /\ DerpsShape /\ ControlShape
      /\ DpShape
  BY Zenon, ShapeIs DEF Basic
<1>2. "multiderp" \in Actors /\ "dataplane" \in Actors /\ "routes" # "multiderp"
  BY DEF Actors
<1>3. ASSUME NEW r, EnsureRegion(r)
      PROVE  Basic'
  <2>1. MailShape'
    <3>1. mbox' = [mbox EXCEPT !["dataplane"] =
                       Append(mbox["dataplane"], Message("new_transport", r))]
      BY Zenon, <1>3 DEF EnsureRegion
    <3> QED
      BY Zenon, <1>2, <3>1, PostedMail DEF Basic, MailShape
  <2>2. BusyShape'
    <3>1. DOMAIN busy' = DOMAIN busy /\ busy'["routes"] = busy["routes"]
      BY <1>2, <1>3 DEF EnsureRegion
    <3> QED
      BY Zenon, <1>1, <3>1 DEF BusyShape, Progress, Actors, MapPeers, Sendable
  <2>3. ControlShape' /\ DpShape' /\ DerpsShape'
    BY Zenon, <1>1, <1>3, SameShape DEF EnsureRegion
  <2>4. IsSeq(bus')
    BY Zenon, <1>1, <1>3 DEF EnsureRegion
  <2> QED
    BY Zenon, <1>3, <2>1, <2>2, <2>3, <2>4, BasicFrame DEF EnsureRegion
<1>4. ASSUME \/ MultiderpUpdate \/ MultiderpPeers \/ MultiderpLatency
      PROVE  Basic'
  <2>1. mbox["multiderp"] # << >> /\ Took("multiderp")
    BY Zenon, <1>4 DEF MultiderpUpdate, MultiderpPeers, MultiderpLatency, Takes
  <2>2. /\ bus' = bus /\ UNCHANGED <<script, sent, busy, nextTransport, stopped>>
        /\ UNCHANGED <<control, dp>>
    BY Zenon, <1>4 DEF MultiderpUpdate, MultiderpPeers, MultiderpLatency
  <2>3. ControlShape' /\ DpShape'
    BY Zenon, <1>1, <2>2, SameShape
  <2>4. DOMAIN derps' = {"regions", "awake", "home", "db"} /\ derps'.regions = derps.regions
    <3>1. DOMAIN derps = {"regions", "awake", "home", "db"}
      BY Zenon, <1>1 DEF DerpsShape
    <3>2. CASE MultiderpUpdate
      BY <3>1, <3>2 DEF MultiderpUpdate
    <3>3. CASE MultiderpPeers
      BY <3>1, <3>3 DEF MultiderpPeers
    <3>4. CASE MultiderpLatency
      BY <3>1, <3>4 DEF MultiderpLatency, HomeMoves
    <3> QED
      BY Zenon, <1>4, <3>2, <3>3, <3>4
  <2>5. DerpsShape'
    BY Zenon, <1>1, <2>2, <2>4 DEF DerpsShape
  <2> QED
    BY Zenon, <1>2, <2>1, <2>2, <2>3, <2>4, <2>5, BasicHandled
<1> QED
  BY Zenon, <1>3, <1>4

LEMMA WithRegionIs ==
  ASSUME DerpsShape, Transports, TransportsDistinct, NEW r, NEW f, f = WithRegion(r)
  PROVE  /\ DOMAIN f = DOMAIN derps.regions \cup {r}
         /\ f \in [DOMAIN f -> Nat] /\ \A x \in DOMAIN f : f[x] < nextTransport + 1
         /\ IsInjective(f)
         /\ r \notin DOMAIN derps.regions => Extends(derps.regions, f)
<1>1. /\ DOMAIN f = DOMAIN derps.regions \cup {r} /\ f[r] = nextTransport
      /\ \A x \in DOMAIN derps.regions : x # r => f[x] = derps.regions[x]
      /\ f = [x \in DOMAIN f |-> f[x]]
  BY DEF WithRegion
<1>2. /\ nextTransport \in Nat
      /\ \A x \in DOMAIN derps.regions : derps.regions[x] \in Nat /\ derps.regions[x] < nextTransport
  BY Zenon DEF DerpsShape, Transports
<1>3. \A x, y \in DOMAIN derps.regions : derps.regions[x] = derps.regions[y] => x = y
  BY Zenon DEF TransportsDistinct, IsInjective
<1>4. \A x \in DOMAIN f : f[x] \in Nat /\ f[x] < nextTransport + 1
  BY <1>1, <1>2
<1>5. f \in [DOMAIN f -> Nat]
  BY <1>1, <1>4
<1>6. \A x, y \in DOMAIN f : f[x] = f[y] => x = y
  BY <1>1, <1>2, <1>3
<1>7. r \notin DOMAIN derps.regions => Extends(derps.regions, f)
  BY <1>1 DEF Extends
<1> QED
  BY Zenon, <1>1, <1>4, <1>5, <1>6, <1>7 DEF IsInjective

LEMMA BasicOfTransport ==
  ASSUME Basic, TransportAnswer
  PROVE  Basic'
<1> DEFINE r == busy["multiderp"]
<1>1. /\ MailShape /\ IsSeq(bus) /\ SentShape /\ BusyShape /\ DerpsShape /\ ControlShape
      /\ DpShape
  BY Zenon, ShapeIs DEF Basic
<1>2. "multiderp" \in Actors /\ "dataplane" \in Actors /\ "routes" # "multiderp"
  BY DEF Actors
<1>3. MailShape'
  BY Zenon, <1>2, TakenShape DEF Basic, TransportAnswer, Takes
<1>4. BusyShape'
  <2>1. DOMAIN busy' = DOMAIN busy /\ busy'["routes"] = busy["routes"]
    BY <1>2 DEF TransportAnswer
  <2> QED
    BY Zenon, <1>1, <2>1 DEF BusyShape, Progress, Actors, MapPeers, Sendable
<1>5. /\ DOMAIN derps' = {"regions", "awake", "home", "db"} /\ derps'.regions = WithRegion(r)
      /\ nextTransport' = nextTransport + 1
  BY <1>1 DEF TransportAnswer, FreshTransport, DerpsShape
<1> DEFINE f == derps'.regions
<1>6. /\ f \in [DOMAIN f -> Nat] /\ \A x \in DOMAIN f : f[x] < nextTransport + 1
      /\ IsInjective(f)
  <2>1. f = WithRegion(r)
    BY Zenon, <1>5
  <2> HIDE DEF f, r
  <2> QED
    BY Zenon, <1>1, <2>1, WithRegionIs DEF Basic
<1>7. DerpsShape' /\ Transports' /\ TransportsDistinct'
  <2>1. nextTransport' \in Nat
    BY <1>1, <1>5 DEF DerpsShape
  <2> QED
    BY Zenon, <1>5, <1>6, <2>1 DEF DerpsShape, Transports, TransportsDistinct, IsInjective
<1>8. SentShape' /\ ControlShape' /\ DpShape' /\ IsSeq(bus')
  BY Zenon, <1>1, SameShape DEF TransportAnswer
<1>9. Shape'
  BY Zenon, <1>3, <1>4, <1>7, <1>8, ShapeNext
<1>10. Stopping' /\ (control.node = LastIn(sent, "node"))'
  BY Zenon, SameStopping, SameNode DEF TransportAnswer, Basic
<1> QED
  BY Zenon, <1>7, <1>9, <1>10 DEF Basic

(* The progress of the peer state handler. *)
LEMMA AskingShape ==
  ASSUME BusyShape
  PROVE  /\ Asking \in Progress
         /\ busy["routes"] = None => /\ Asking.asked = None /\ Asking.done = {}
                                     /\ Asking.under = Nothing
<1>1. CASE busy["routes"] = None
  <2>1. Asking = [asked |-> None, done |-> {}, under |-> Nothing]
    BY Zenon, <1>1 DEF Asking
  <2>2. Nothing \in [{} -> Nat]
    BY DEF Nothing
  <2>3. Nothing \in UNION {[ps -> Nat] : ps \in SUBSET MapPeers}
    BY <2>2
  <2> QED
    BY <2>1, <2>3 DEF Progress
<1>2. CASE busy["routes"] # None
  BY Zenon, <1>2 DEF Asking, BusyShape
<1> QED
  BY Zenon, <1>1, <1>2

LEMMA WithTransportIs ==
  ASSUME DerpsShape, NEW p \in MapPeers, NEW r,
         NEW u \in UNION {[ps -> Nat] : ps \in SUBSET MapPeers}, NEW v, v = WithTransport(u, p, r)
  PROVE  v \in UNION {[ps -> Nat] : ps \in SUBSET MapPeers}
<1>1. PICK ps \in SUBSET MapPeers : u \in [ps -> Nat]
  OBVIOUS
<1>2. CASE r \notin DOMAIN derps.regions
  BY Zenon, <1>2 DEF WithTransport
<1>3. CASE r \in DOMAIN derps.regions
  <2>1. derps.regions[r] \in Nat
    BY Zenon, <1>3 DEF DerpsShape
  <2>2. v = [x \in DOMAIN u \cup {p} |-> IF x = p THEN derps.regions[r] ELSE u[x]]
    BY Zenon, <1>3 DEF WithTransport
  <2>3. v \in [ps \cup {p} -> Nat] /\ ps \cup {p} \in SUBSET MapPeers
    BY <1>1, <2>1, <2>2
  <2> QED
    BY <2>3
<1> QED
  BY Zenon, <1>2, <1>3

LEMMA BasicOfRoutes ==
  ASSUME Basic, (\E p \in MapPeers : RoutesAsk(p)) \/ RoutesAnswer \/ RoutesDone
  PROVE  Basic'
<1>1. /\ MailShape /\ IsSeq(bus) /\ SentShape /\ BusyShape /\ DerpsShape /\ ControlShape
      /\ DpShape
  BY Zenon, ShapeIs DEF Basic
<1>2. "multiderp" \in Actors /\ "routes" \in Actors
  BY DEF Actors
<1>3. ASSUME MailShape', IsSeq(bus'), NEW b \in Progress \cup {None},
             busy' = [busy EXCEPT !["routes"] = b],
             UNCHANGED <<script, sent, control, derps, dp, nextTransport, stopped>>
      PROVE  Basic'
  <2>1. DOMAIN busy' = Actors /\ busy'["routes"] = b
    BY <1>1, <1>2, <1>3 DEF BusyShape
  <2>2. BusyShape'
    BY Zenon, <2>1 DEF BusyShape, Progress, Actors, MapPeers, Sendable
  <2>3. ControlShape' /\ DpShape' /\ DerpsShape'
    BY Zenon, <1>1, <1>3, SameShape
  <2> QED
    BY Zenon, <1>3, <2>2, <2>3, BasicFrame
<1>4. Asking \in Progress
  BY Zenon, <1>1, AskingShape
<1>5. ASSUME NEW p \in MapPeers, RoutesAsk(p)
      PROVE  Basic'
  <2>1. mbox' = [mbox EXCEPT !["multiderp"] =
             Append(mbox["multiderp"], Message("region", Got("routes").peers[p].region))]
    BY Zenon, <1>5 DEF RoutesAsk
  <2>2. MailShape'
    BY Zenon, <1>2, <2>1, PostedMail DEF Basic, MailShape
  <2>3. [Asking EXCEPT !.asked = p] \in Progress
    BY <1>4 DEF Progress
  <2> QED
    BY Zenon, <1>1, <1>3, <1>5, <2>2, <2>3 DEF RoutesAsk
<1>6. CASE RoutesAnswer
  <2> DEFINE p == Asking.asked
  <2>1. p \in MapPeers /\ p # None
    BY <1>4, <1>6 DEF RoutesAnswer, Progress
  <2>2. MailShape'
    BY Zenon, <1>1, <1>2, <1>6, TakenShape, SameShape DEF Basic, RoutesAnswer, Takes
  <2>3. \E u : Answered(p, u) /\ (u = Asking.under \/ \E r : u = WithTransport(Asking.under, p, r))
    BY Zenon, <1>6 DEF RoutesAnswer
  <2>4. PICK u : Answered(p, u) /\ (u = Asking.under \/ \E r : u = WithTransport(Asking.under, p, r))
    BY Zenon, <2>3
  <2>5. /\ Asking.under \in UNION {[ps -> Nat] : ps \in SUBSET MapPeers}
        /\ Asking.done \in SUBSET MapPeers
    BY <1>4 DEF Progress
  <2>6. u \in UNION {[ps -> Nat] : ps \in SUBSET MapPeers}
    <3> HIDE DEF p
    <3> QED
      BY Zenon, <1>1, <2>1, <2>4, <2>5, WithTransportIs
  <2> DEFINE b == [asked |-> None, done |-> Asking.done \cup {p}, under |-> u]
  <2>7. b \in Progress
    BY <2>1, <2>5, <2>6 DEF Progress
  <2>8. busy' = [busy EXCEPT !["routes"] = b]
    BY Zenon, <2>4 DEF Answered
  <2>9. UNCHANGED <<script, sent, bus, control, derps, dp, nextTransport, stopped>>
    BY Zenon, <1>6 DEF RoutesAnswer
  <2> HIDE DEF b
  <2> QED
    BY Zenon, <1>1, <1>3, <2>2, <2>7, <2>8, <2>9
<1>7. CASE RoutesDone
  <2>1. MailShape'
    BY Zenon, <1>2, <1>7, TakenShape DEF Basic, RoutesDone, AtPeerState
  <2>2. IsSeq(bus')
    BY Zenon, <1>1, <1>7, PublishedShape DEF RoutesDone
  <2> QED
    BY Zenon, <1>3, <1>7, <2>1, <2>2 DEF RoutesDone
<1> QED
  BY Zenon, <1>5, <1>6, <1>7

LEMMA BasicOfDataplane ==
  ASSUME Basic, DataplaneUpdate
  PROVE  Basic'
<1>1. DpShape /\ ControlShape /\ DerpsShape
  BY Zenon, ShapeIs DEF Basic
<1>2. DpShape'
  BY <1>1 DEF DataplaneUpdate, DpShape
<1>3. ControlShape' /\ DerpsShape'
  BY Zenon, <1>1, SameShape DEF DataplaneUpdate
<1>4. "dataplane" \in Actors
  BY DEF Actors
<1> QED
  BY Zenon, <1>2, <1>3, <1>4, BasicHandled DEF DataplaneUpdate, Takes

LEMMA BasicOfShutdown ==
  ASSUME Basic, TransportRefused \/ BeginShutdown \/ \E a \in Actors \cup {"bus"} : Stop(a)
  PROVE  Basic'
<1>1. /\ MailShape /\ IsSeq(bus) /\ SentShape /\ BusyShape /\ DerpsShape /\ ControlShape
      /\ DpShape
  BY Zenon, ShapeIs DEF Basic
<1>2. "multiderp" \in Actors /\ "routes" # "multiderp"
  BY DEF Actors
<1>3. Stopping'
  <2>1. CASE TransportRefused
    BY <2>1 DEF Stopping, TransportRefused
  <2>2. CASE BeginShutdown
    BY Zenon, <2>2, SameStopping DEF Basic, BeginShutdown
  <2>3. ASSUME NEW a \in Actors \cup {"bus"}, Stop(a)
        PROVE  Stopping'
    BY <2>3 DEF Stop, Stopping, Basic, Actors
  <2> QED
    BY Zenon, <2>1, <2>2, <2>3
<1>4. UNCHANGED <<script, sent, bus, control, derps, dp, nextTransport>>
  BY Zenon DEF TransportRefused, BeginShutdown, Stop
<1>5. MailShape'
  BY Zenon, <1>1, <1>2, TakenShape, SameShape DEF Basic, TransportRefused, BeginShutdown, Stop
<1>6. BusyShape'
  <2>1. busy' = busy \/ busy' = [busy EXCEPT !["multiderp"] = None]
    BY Zenon DEF TransportRefused, BeginShutdown, Stop
  <2>2. DOMAIN busy' = DOMAIN busy /\ busy'["routes"] = busy["routes"]
    <3>1. DOMAIN busy = Actors /\ "routes" \in Actors
      BY Zenon, <1>1 DEF BusyShape, Actors
    <3> QED
      BY <1>2, <2>1, <3>1
  <2> QED
    BY Zenon, <1>1, <2>2 DEF BusyShape, Progress, Actors, MapPeers, Sendable
<1>7. SentShape' /\ ControlShape' /\ DpShape' /\ DerpsShape' /\ IsSeq(bus')
  BY Zenon, <1>1, <1>4, SameShape
<1>8. Shape'
  BY Zenon, <1>5, <1>6, <1>7, ShapeNext
<1>9. Transports' /\ TransportsDistinct' /\ (control.node = LastIn(sent, "node"))'
  BY Zenon, <1>4, SameTransports, SameNode DEF Basic
<1> QED
  BY Zenon, <1>3, <1>8, <1>9 DEF Basic

LEMMA BasicStep ==
  ASSUME Basic, RuntimeNext
  PROVE  Basic'
  BY Zenon, BasicOfControl, BasicOfUpdaters, BasicOfDelivery, BasicOfMultiderp,
     BasicOfTransport, BasicOfRoutes, BasicOfDataplane, BasicOfShutdown DEF RuntimeNext, Handlers

-----------------------------------------------------------------------------
(* While the dataplane runs, so does everything but control. *)

LEMMA Running ==
  ASSUME Basic, RuntimeNext, "dataplane" \notin stopped'
  PROVE  /\ "dataplane" \notin stopped /\ stopped \subseteq {"control"}
         /\ stopped' \subseteq {"control"} /\ stopped \subseteq stopped'
<1>1. stopped \subseteq stopped'
  BY DEF RuntimeNext, Handlers, ControlUpdate, BeginShutdown, Deliver, ControlLatency,
     TrackerUpdate, SourceFilterUpdate, FilterUpdate, NetstackUpdate, Measure, MultiderpUpdate,
     EnsureRegion, TransportAnswer, TransportRefused, MultiderpPeers, MultiderpLatency, RoutesSelf,
     RoutesDone, RoutesAnswer, RoutesAsk, DataplaneUpdate, Stop
<1>2. Stopping /\ Stopping'
  BY Zenon, BasicStep DEF Basic
<1> QED
  BY <1>1, <1>2 DEF Stopping

(* What Multiderp will know when its mailbox is left alone, when it takes  *)
(* a message, and when it is sent one.                                     *)
LEMMA MdKept ==
  ASSUME MultiderpKnows, Extends(derps.regions, derps'.regions),
         mbox'["multiderp"] = mbox["multiderp"]
  PROVE  MultiderpKnows' /\ \A r : KnownSoon(r) => KnownSoon(r)'
<1>1. \A r \in DOMAIN derps.regions : r \in DOMAIN derps'.regions
  BY Zenon DEF Extends
<1> QED
  BY <1>1 DEF MultiderpKnows, KnownSoon

LEMMA MdTook ==
  ASSUME Shape, MultiderpKnows, derps'.regions = derps.regions, mbox["multiderp"] # << >>,
         mbox'["multiderp"] = Tail(mbox["multiderp"]),
         \A r : Maps(Head(mbox["multiderp"]), r) => r \in DOMAIN derps.regions
  PROVE  MultiderpKnows' /\ \A r : KnownSoon(r) => KnownSoon(r)'
<1> DEFINE s == mbox["multiderp"]
           t == mbox'["multiderp"]
<1>1. IsSeq(s)
  BY DEF Shape, Actors
<1>2. Leaves(s, t)
  BY Zenon, <1>1, Left
<1>3. ASSUME NEW r, KnownSoon(r)
      PROVE  KnownSoon(r)'
  <2>1. CASE r \in DOMAIN derps.regions
    BY Zenon, <2>1 DEF KnownSoon
  <2>2. ASSUME NEW i \in DOMAIN s, Maps(s[i], r), r \notin DOMAIN derps.regions
        PROVE  KnownSoon(r)'
    <3>1. i # 1
      BY <1>2, <2>2 DEF Leaves
    <3>2. i - 1 \in DOMAIN t /\ t[i - 1] = s[i]
      BY Zenon, <1>2, <2>2, <3>1 DEF Leaves
    <3> QED
      BY Zenon, <2>2, <3>2 DEF KnownSoon
  <2> QED
    BY Zenon, <1>3, <2>1, <2>2 DEF KnownSoon
<1>4. ASSUME NEW i \in DOMAIN t, NEW r \in RegionsIn(t[i]), r \notin DOMAIN derps.regions
      PROVE  \E j \in DOMAIN t : j < i /\ Maps(t[j], r)
  <2>1. i + 1 \in DOMAIN s /\ t[i] = s[i + 1] /\ i \in Nat
    BY Zenon, <1>2 DEF Leaves
  <2>2. PICK j \in DOMAIN s : j < i + 1 /\ Maps(s[j], r)
    BY Zenon, <1>4, <2>1 DEF MultiderpKnows
  <2>3. j # 1
    BY <1>2, <1>4, <2>2 DEF Leaves
  <2>4. j - 1 \in DOMAIN t /\ t[j - 1] = s[j] /\ j \in Nat
    BY <1>2, <2>2, <2>3 DEF Leaves
  <2>5. j - 1 < i
    BY <2>1, <2>2, <2>4
  <2> QED
    BY Zenon, <2>2, <2>4, <2>5
<1> QED
  BY Zenon, <1>3, <1>4 DEF MultiderpKnows

LEMMA MdPosted ==
  ASSUME Shape, MultiderpKnows, derps'.regions = derps.regions, NEW m,
         mbox'["multiderp"] = Append(mbox["multiderp"], m),
         \A r \in RegionsIn(m) : KnownSoon(r)
  PROVE  /\ MultiderpKnows' /\ \A r : KnownSoon(r) => KnownSoon(r)'
         /\ \A r : Maps(m, r) => KnownSoon(r)'
<1> DEFINE s == mbox["multiderp"]
           t == mbox'["multiderp"]
<1>1. IsSeq(s)
  BY DEF Shape, Actors
<1>2. Joins(m, s, t)
  BY Zenon, <1>1, Joined
<1>3. \A r : KnownSoon(r) => KnownSoon(r)'
  BY Zenon, <1>2 DEF KnownSoon, Joins
<1>4. \A r : Maps(m, r) => KnownSoon(r)'
  BY Zenon, <1>2 DEF KnownSoon, Joins
<1>5. ASSUME NEW i \in DOMAIN t, NEW r \in RegionsIn(t[i]), r \notin DOMAIN derps.regions
      PROVE  \E j \in DOMAIN t : j < i /\ Maps(t[j], r)
  <2>1. CASE i \in DOMAIN s
    <3>1. t[i] = s[i]
      BY Zenon, <1>2, <2>1 DEF Joins
    <3>2. PICK j \in DOMAIN s : j < i /\ Maps(s[j], r)
      BY Zenon, <1>5, <2>1, <3>1 DEF MultiderpKnows
    <3> QED
      BY Zenon, <1>2, <3>2 DEF Joins
  <2>2. CASE i \notin DOMAIN s
    <3>1. t[i] = m /\ \A j \in DOMAIN s : j < i
      BY Zenon, <1>2, <2>2 DEF Joins
    <3>2. PICK j \in DOMAIN s : Maps(s[j], r)
      BY Zenon, <1>5, <3>1 DEF KnownSoon
    <3> QED
      BY Zenon, <1>2, <3>1, <3>2 DEF Joins
  <2> QED
    BY Zenon, <2>1, <2>2
<1> QED
  BY Zenon, <1>3, <1>4, <1>5 DEF MultiderpKnows

(* Between two peer states the route updater has asked for nothing. *)
LEMMA AskingIdle ==
  ASSUME busy'["routes"] = None,
         \A i \in DOMAIN mbox'["multiderp"] : mbox'["multiderp"][i].topic # "region"
  PROVE  AskingRight'
<1>1. Asking' = [asked |-> None, done |-> {}, under |-> Nothing]
  BY Zenon DEF Asking
<1>2. Asking'.asked = None /\ Asking'.done = {} /\ Asking'.under = Nothing
  BY <1>1
<1>3. UnderFor(Asking.under, [p \in Asking.done |-> Got("routes").peers[p].region])'
  BY <1>2 DEF UnderFor, Nothing
<1> QED
  BY <1>2, <1>3 DEF AskingRight

LEMMA AskingKept ==
  ASSUME Shape, AskingRight, "routes" \notin stopped, "routes" \notin stopped',
         busy'["routes"] = busy["routes"], Extends(derps.regions, derps'.regions),
         mbox["routes"] # << >> =>
             mbox'["routes"] # << >> /\ Head(mbox'["routes"]) = Head(mbox["routes"]),
         \/ TakenOrKept(mbox["multiderp"], mbox'["multiderp"])
         \/ \E m : /\ m.topic # "region"
                   /\ mbox'["multiderp"] = Append(mbox["multiderp"], m)
  PROVE  AskingRight'
<1> DEFINE s == mbox["multiderp"]
           t == mbox'["multiderp"]
           Region(x) == x.topic = "region"
           Unique(x) == \A i \in DOMAIN x : Region(x[i]) =>
                            \A j \in DOMAIN x : Region(x[j]) => j = i
<1>1. /\ \A i \in DOMAIN t : Region(t[i]) => \E j \in DOMAIN s : t[i] = s[j]
      /\ Unique(s) => Unique(t)
  <2>1. IsSeq(s)
    BY DEF Shape, Actors
  <2>2. CASE t = s
    BY Zenon, <2>2
  <2>3. CASE s # << >> /\ t = Tail(s)
    <3>1. Leaves(s, t)
      BY Zenon, <2>1, <2>3, Left
    <3>2. \A i \in DOMAIN t : i + 1 \in DOMAIN s /\ t[i] = s[i + 1] /\ i \in Nat
      BY Zenon, <3>1 DEF Leaves
    <3>3. ASSUME Unique(s) PROVE Unique(t)
      BY <3>2, <3>3
    <3> QED
      BY Zenon, <3>2, <3>3
  <2>4. ASSUME NEW m, ~ Region(m), t = Append(s, m)
        PROVE  <1>1
    <3>1. Joins(m, s, t)
      BY Zenon, <2>1, <2>4, Joined
    <3>2. \A i \in DOMAIN t : Region(t[i]) => i \in DOMAIN s /\ t[i] = s[i]
      BY Zenon, <2>4, <3>1 DEF Joins
    <3> QED
      BY Zenon, <3>2
  <2> QED
    BY Zenon, <2>2, <2>3, <2>4 DEF TakenOrKept
<1>2. Unique(s)
  BY Zenon DEF AskingRight
<1>3. CASE mbox["routes"] = << >>
  <2>1. ~ AtPeerState
    BY Zenon, <1>3 DEF AtPeerState
  <2>2. busy["routes"] = None /\ \A i \in DOMAIN s : ~ Region(s[i])
    BY Zenon, <2>1 DEF AskingRight
  <2>3. \A i \in DOMAIN t : ~ Region(t[i])
    BY Zenon, <1>1, <2>2
  <2> QED
    BY Zenon, <2>2, <2>3, AskingIdle
<1>4. CASE mbox["routes"] # << >>
  <2>1. /\ AtPeerState' = AtPeerState /\ Asking' = Asking /\ Got("routes")' = Got("routes")
        /\ AskedRegion' = AskedRegion
    BY <1>4 DEF AtPeerState, Asking, Got, AskedRegion
  <2>2. ASSUME AtPeerState
        PROVE  UnderFor(Asking.under, [p \in Asking.done |-> Got("routes").peers[p].region])'
    <3> DEFINE u == Asking.under
               h == [p \in Asking.done |-> Got("routes").peers[p].region]
    <3>1. UnderFor(u, h)
      BY Zenon, <2>2 DEF AskingRight
    <3>2. u' = u /\ h' = h
      BY Zenon, <2>1
    <3> HIDE DEF u, h
    <3>3. /\ \A p \in DOMAIN h : /\ h[p] \in DOMAIN derps'.regions
                                 /\ derps'.regions[h[p]] = derps.regions[h[p]]
          /\ u = [p \in DOMAIN h |-> derps.regions[h[p]]]
      BY Zenon, <3>1 DEF UnderFor, Extends
    <3>4. u = [p \in DOMAIN h |-> derps'.regions[h[p]]]
      BY <3>3
    <3>5. UnderFor(u, h)'
      BY <3>2, <3>3, <3>4 DEF UnderFor
    <3> QED
      BY <3>5 DEF u, h
  <2>3. \A i \in DOMAIN t : Region(t[i]) =>
          /\ AtPeerState' /\ t[i].body \in AskedRegion'
          /\ \A j \in DOMAIN t : Region(t[j]) => j = i
    <3>1. \A i \in DOMAIN s : Region(s[i]) => AtPeerState /\ s[i].body \in AskedRegion
      BY Zenon DEF AskingRight
    <3> QED
      BY Zenon, <1>1, <1>2, <2>1, <3>1
  <2>4. AtPeerState' => /\ Asking'.done \subseteq Homed(Got("routes")'.peers)
                        /\ Asking'.asked \in Homed(Got("routes")'.peers) \cup {None}
    BY Zenon, <2>1 DEF AskingRight
  <2>5. busy'["routes"] # None => AtPeerState'
    BY Zenon, <2>1 DEF AskingRight
  <2>6. Homed(Got("routes").peers)' = Homed(Got("routes")'.peers)
    BY Zenon DEF Homed
  <2> QED
    BY <2>1, <2>2, <2>3, <2>4, <2>5, <2>6 DEF AskingRight
<1> QED
  BY Zenon, <1>3, <1>4

LEMMA ExtendsSelf ==
  ASSUME derps'.regions = derps.regions
  PROVE  Extends(derps.regions, derps'.regions)
  BY Zenon DEF Extends

LEMMA HomeKnownKept ==
  ASSUME HomeKnown, Extends(derps.regions, derps'.regions), derps'.home = derps.home,
         derps'.awake = derps.awake
  PROVE  HomeKnown'
  BY DEF HomeKnown, Extends

(* A step of another actor. *)
LEMMA OthersStep ==
  ASSUME Shape, Known, Underlay, "routes" \notin stopped, "routes" \notin stopped',
         busy'["routes"] = busy["routes"], mbox'["routes"] = mbox["routes"],
         mbox'["multiderp"] = mbox["multiderp"], Extends(derps.regions, derps'.regions),
         derps'.db = derps.db, derps'.home = derps.home, derps'.awake = derps.awake,
         OnBus("under", Mail("dataplane", "under", dp.under))'
             = OnBus("under", Mail("dataplane", "under", dp.under))
  PROVE  /\ Underlay' /\ MultiderpKnows' /\ HomeKnown'
         /\ \A r : KnownSoon(r) => KnownSoon(r)'
<1>1. Delivered' = Delivered
  BY Zenon DEF Delivered, Mail
<1>2. UnderlayFollows'
  BY Zenon, <1>1, UnderlayKept DEF Underlay
<1>3. AskingRight'
  BY Zenon, AskingKept DEF Underlay, TakenOrKept
<1>4. MultiderpKnows' /\ \A r : KnownSoon(r) => KnownSoon(r)'
  BY Zenon, MdKept DEF Known
<1>5. HomeKnown'
  BY Zenon, HomeKnownKept DEF Known
<1> QED
  BY Zenon, <1>2, <1>3, <1>4, <1>5 DEF Underlay

(* The peer states under way when none is published. *)
LEMMA LinksKept ==
  ASSUME Shape, StatesLinked, mbox'["dataplane"] = mbox["dataplane"], dp'.tunnel = dp.tunnel,
         Delivered' = Delivered,
         bus' = bus \/ \E m : bus' = Append(bus, m) /\ ~ IsState(m)
  PROVE  StatesLinked'
<1>1. IsSeq(bus) /\ Linked(bus, DOMAIN Delivered) /\ Linked(mbox["dataplane"], DOMAIN dp.tunnel)
  BY Zenon DEF Shape, StatesLinked
<1>2. ASSUME NEW m, ~ IsState(m)
      PROVE  Linked(Append(bus, m), DOMAIN Delivered)
  BY Zenon, <1>1, <1>2, LinkedAppend
<1>3. Linked(bus', DOMAIN Delivered')
  BY Zenon, <1>1, <1>2
<1>4. Linked(mbox'["dataplane"], DOMAIN dp'.tunnel)
  BY Zenon, <1>1
<1> QED
  BY Zenon, <1>3, <1>4 DEF StatesLinked

Updaters == {"control", "tracker", "source", "filter", "latency", "netstack"}

(* A handler that neither Multiderp, the route updater nor the dataplane   *)
(* runs.                                                                   *)
LEMMA UpdaterStep ==
  ASSUME Shape, Rest, NEW a \in Updaters, mbox[a] # << >>, Took(a),
         "routes" \notin stopped, UNCHANGED <<sent, derps, dp, busy, stopped>>,
         bus' = bus \/ \E m : /\ Publish(m) /\ ~ Carries(m, "under") /\ m.topic # "update"
                              /\ \A r \in RegionsIn(m) : KnownSoon(r)
  PROVE  /\ \A b \in Actors \ {a} : mbox'[b] = mbox[b] /\ SameMail(b, Kinds)
         /\ Topics' /\ Known' /\ Underlay' /\ Delivered' = Delivered
<1>1. a \in Actors /\ Updaters \subseteq Actors /\ {"routes", "multiderp", "dataplane"} \subseteq Actors \ {a}
  BY DEF Updaters, Actors
<1>2. /\ mbox'[a] = Tail(mbox[a]) /\ \A b \in Actors \ {a} : mbox'[b] = mbox[b]
  BY Zenon, <1>1, TakenMail
<1>3. \A b \in Actors \ {a} : SameMail(b, Kinds)
  BY Zenon, <1>2, MailKept
<1>4. \A b \in Actors : TakenOrKept(mbox[b], mbox'[b])
  BY Zenon, <1>2 DEF TakenOrKept
<1>5. Topics'
  BY Zenon, <1>4, TopicsKept DEF Rest
<1>6. IsSeq(bus)
  BY Zenon DEF Shape
<1>7. \A d : After(bus', "under", d) = After(bus, "under", d)
  BY Zenon, <1>6, PublishedBus
<1>8. mbox'["routes"] = mbox["routes"] /\ mbox'["multiderp"] = mbox["multiderp"]
      /\ mbox'["dataplane"] = mbox["dataplane"]
  BY <1>1, <1>2
<1>9. OnBus("under", Mail("dataplane", "under", dp.under))'
          = OnBus("under", Mail("dataplane", "under", dp.under))
  BY Zenon, <1>7, <1>8 DEF OnBus, Mail
<1>10. /\ Underlay' /\ MultiderpKnows' /\ HomeKnown'
       /\ \A r : KnownSoon(r) => KnownSoon(r)'
  BY Zenon, <1>8, <1>9, OthersStep, ExtendsSelf DEF Rest
<1>11. MessagesKnown' /\ UpdatesKnown'
  <2>1. bus' = bus \/ \E m : /\ bus' = Append(bus, m) /\ m.topic # "update"
                             /\ \A r \in RegionsIn(m) : KnownSoon(r)
    BY Zenon DEF Publish
  <2>2. \A b \in {"latency", "tracker", "routes"} : TakenOrKept(mbox[b], mbox'[b])
    BY <1>4 DEF Actors
  <2> QED
    BY Zenon, <1>10, <2>1, <2>2, RegionsKept DEF Rest, Known
<1>12. Delivered' = Delivered
  BY Zenon, <1>8 DEF Delivered, Mail
<1> QED
  BY Zenon, <1>2, <1>3, <1>5, <1>10, <1>11, <1>12 DEF Known

LEMMA RestOfControlLatency ==
  ASSUME Basic, Rest, ControlLatency, stopped \subseteq {"control"}
  PROVE  Rest'
<1> DEFINE m == Head(mbox["control"])
<1>1. Shape /\ ControlShape
  BY Zenon, ShapeIs DEF Basic
<1>2. "control" \in Updaters /\ "control" \in Actors /\ "routes" \notin stopped
      /\ {"multiderp", "dataplane"} \subseteq Actors \ {"control"}
  BY DEF Updaters, Actors
<1>3. /\ mbox["control"] # << >> /\ Took("control") /\ m.topic = "latency" /\ bus' = bus
      /\ UNCHANGED <<sent, peers, ips, derps, dp, busy, stopped>>
  BY Zenon DEF ControlLatency, Takes
<1>4. /\ \A b \in Actors \ {"control"} : mbox'[b] = mbox[b] /\ SameMail(b, Kinds)
      /\ Topics' /\ Known' /\ Underlay' /\ Delivered' = Delivered
  BY Zenon, <1>1, <1>2, <1>3, UpdaterStep
<1>5. /\ \A k : ~ Carries(m, k) => \A d : After(mbox'["control"], k, d) = After(mbox["control"], k, d)
      /\ \A k, d : After(mbox'["control"], k, Upon(m, k, d)) = After(mbox["control"], k, d)
  BY Zenon, <1>1, <1>2, <1>3, TakenMail
<1>6. \A k \in Kinds \ {"home"} : ~ Carries(m, k)
  BY Zenon, <1>3, KindsOfTopic
<1>7. AllSame
  <2>1. SameMail("control", Kinds \ {"home"})
    BY Zenon, <1>5, <1>6 DEF SameMail
  <2>2. SameBus(Kinds \ {"home"})
    BY Zenon, <1>3 DEF SameBus
  <2>3. \A b \in Actors \ {"control"} : SameMail(b, Kinds \ {"home"})
    BY Zenon, <1>4 DEF SameMail
  <2> QED
    BY Zenon, <1>3, <1>4, <2>1, <2>2, <2>3 DEF AllSame
<1>8. Follows'
  BY Zenon, <1>7, FollowsKept DEF Rest
<1>9. StatesLinked'
  BY Zenon, <1>1, <1>2, <1>3, <1>4, LinksKept DEF Rest
<1>10. HomesAgree'
  <2>1. control'.home = Upon(m, "home", control.home)
    BY <1>1, <1>3 DEF ControlLatency, ControlShape, Upon, Carries, ValueOf, Got
  <2>2. Mail("control", "home", control.home)' = Mail("control", "home", control.home)
    BY Zenon, <1>5, <2>1 DEF Mail
  <2>3. Mail("multiderp", "home", derps.home)' = Mail("multiderp", "home", derps.home)
    BY Zenon, <1>2, <1>3, <1>4 DEF Mail
  <2> QED
    BY Zenon, <1>3, <2>2, <2>3 DEF HomesAgree, Rest
<1> QED
  BY Zenon, <1>4, <1>8, <1>9, <1>10 DEF Rest

(* The paths that the handler of an updater is not on. *)
LEMMA OtherPaths ==
  ASSUME Follows, NEW a \in Updaters, \A b \in Actors \ {a} : SameMail(b, Kinds),
         sent' = sent, dp' = dp, Delivered' = Delivered
  PROVE  /\ a # "filter" /\ SameBus({"filter", "pf"}) => FilterFollows'
         /\ SameBus({"node routes", "self_routes"}) => SelfFollows'
         /\ a # "netstack" /\ SameBus({"node ips"}) /\ ips' = ips => IpsFollow'
         /\ a # "tracker" /\ SameBus({"peers"}) /\ peers' = peers => PeersFollow'
         /\ SameBus({"state"}) /\ peers' = peers => StateFollows'
         /\ TunnelFollows'
         /\ a # "source" /\ SameBus({"src_filter"}) => SourcesFollow'
         /\ SameBus({"out"}) => RoutesFollow'
<1>1. \A b \in Actors \ {a} : \A js \in SUBSET Kinds : SameMail(b, js)
  BY Zenon, FewerKinds
<1>2. \A js \in SUBSET Kinds : SameMail("dataplane", js) /\ SameMail("routes", js)
  BY <1>1 DEF Updaters, Actors
<1>3. \A b \in {"filter", "netstack", "tracker", "source"} :
          a # b => \A js \in SUBSET Kinds : SameMail(b, js)
  BY <1>1 DEF Actors
<1>4. /\ a # "filter" => SameMail("filter", {"filter"})
      /\ a # "netstack" => SameMail("netstack", {"node ips"})
      /\ a # "tracker" => SameMail("tracker", {"peers"})
      /\ a # "source" => SameMail("source", {"sources"})
      /\ SameMail("routes", {"routes", "state"}) /\ SameMail("routes", {"node routes"})
      /\ SameMail("dataplane", {"pf"}) /\ SameMail("dataplane", {"self_routes"})
      /\ SameMail("dataplane", {"keys"}) /\ SameMail("dataplane", {"src_filter"})
      /\ SameMail("dataplane", {"out"})
  BY <1>2, <1>3 DEF Kinds
<1>5. a # "filter" /\ SameBus({"filter", "pf"}) => FilterFollows'
  BY Zenon, <1>4, FilterKept DEF Follows
<1>6. SameBus({"node routes", "self_routes"}) => SelfFollows'
  BY Zenon, <1>4, SelfKept DEF Follows
<1>7. a # "netstack" /\ SameBus({"node ips"}) /\ ips' = ips => IpsFollow'
  BY Zenon, <1>4, IpsKept DEF Follows
<1>8. a # "tracker" /\ SameBus({"peers"}) /\ peers' = peers => PeersFollow'
  BY Zenon, <1>4, PeersKept DEF Follows
<1>9. SameBus({"state"}) /\ peers' = peers => StateFollows'
  BY Zenon, StateKept DEF Follows
<1>10. TunnelFollows'
  BY Zenon, <1>4, TunnelKept DEF Follows
<1>11. a # "source" /\ SameBus({"src_filter"}) => SourcesFollow'
  BY Zenon, <1>4, SourcesKept DEF Follows
<1>12. SameBus({"out"}) => RoutesFollow'
  BY Zenon, <1>4, RoutesKept DEF Follows
<1> QED
  BY Zenon, <1>5, <1>6, <1>7, <1>8, <1>9, <1>10, <1>11, <1>12

(* The home region is not known differently for what an updater does. *)
LEMMA UpdaterHomes ==
  ASSUME Rest, NEW a \in Updaters \ {"control"},
         \A b \in Actors \ {a} : SameMail(b, Kinds), UNCHANGED <<derps, control, stopped>>
  PROVE  HomesAgree'
<1>1. SameMail("multiderp", {"home"}) /\ SameMail("control", {"home"})
  <2>1. {"multiderp", "control"} \subseteq Actors \ {a} /\ {"home"} \subseteq Kinds
    BY DEF Updaters, Actors, Kinds
  <2>2. SameMail("multiderp", Kinds) /\ SameMail("control", Kinds)
    BY <2>1
  <2> QED
    BY Zenon, <2>1, <2>2, FewerKinds
<1> QED
  BY Zenon, <1>1, HomesKept DEF Rest

LEMMA RestOfNetstack ==
  ASSUME Basic, Rest, NetstackUpdate, stopped \subseteq {"control"}
  PROVE  Rest'
<1> DEFINE m == Head(mbox["netstack"])
<1>1. Shape
  BY Zenon DEF Basic
<1>2. "netstack" \in Updaters \ {"control"} /\ "netstack" \in Actors /\ "routes" \notin stopped
      /\ "dataplane" \in Actors \ {"netstack"}
  BY DEF Updaters, Actors
<1>3. /\ mbox["netstack"] # << >> /\ Took("netstack") /\ bus' = bus
      /\ UNCHANGED <<sent, peers, derps, dp, busy, stopped, control>> /\ ips' = m.body.node.ips
  BY Zenon DEF NetstackUpdate, Takes, Got
<1>4. /\ \A b \in Actors \ {"netstack"} : mbox'[b] = mbox[b] /\ SameMail(b, Kinds)
      /\ Topics' /\ Known' /\ Underlay' /\ Delivered' = Delivered
  BY Zenon, <1>1, <1>2, <1>3, UpdaterStep
<1>5. \A k, d : After(mbox'["netstack"], k, Upon(m, k, d)) = After(mbox["netstack"], k, d)
  BY Zenon, <1>1, <1>2, <1>3, TakenMail
<1>6. Carries(m, "node ips")
  <2>1. m = mbox["netstack"][1] /\ 1 \in DOMAIN mbox["netstack"]
    BY Zenon, <1>1, <1>2, <1>3, TailSeq DEF Shape
  <2>2. Expected("netstack", m)
    BY Zenon, <1>2, <2>1 DEF Rest, Topics
  <2> QED
    BY <2>2 DEF Expected
<1>7. IpsFollow'
  <2>1. ips' = Upon(m, "node ips", ips)
    <3>1. ValueOf(m, "node ips") = m.body.node.ips
      BY DEF ValueOf
    <3> QED
      BY <1>3, <1>6, <3>1 DEF Upon
  <2>2. Mail("netstack", "node ips", ips)' = Mail("netstack", "node ips", ips)
    BY Zenon, <1>5, <2>1 DEF Mail
  <2>3. LastNode("ips", None)' = LastNode("ips", None)
    BY Zenon, <1>3 DEF LastNode
  <2> QED
    BY Zenon, <1>3, <2>2, <2>3 DEF IpsFollow, OnBus, Rest, Follows
<1>8. Follows'
  <2>1. \A ks : SameBus(ks)
    BY Zenon, <1>3 DEF SameBus
  <2>2. "netstack" # "filter" /\ "netstack" # "tracker" /\ "netstack" # "source"
    OBVIOUS
  <2> QED
    BY Zenon, <1>2, <1>3, <1>4, <1>7, <2>1, <2>2, OtherPaths DEF Rest, Follows
<1>9. StatesLinked'
  BY Zenon, <1>1, <1>2, <1>3, <1>4, LinksKept DEF Rest
<1>10. HomesAgree'
  BY Zenon, <1>2, <1>3, <1>4, UpdaterHomes
<1> QED
  BY Zenon, <1>4, <1>8, <1>9, <1>10 DEF Rest

LEMMA RestOfFilter ==
  ASSUME Basic, Rest, FilterUpdate, stopped \subseteq {"control"}
  PROVE  Rest'
<1> DEFINE m == Head(mbox["filter"])
           p == Message("pf", m.body.pf)
<1>1. Shape /\ IsSeq(bus)
  BY Zenon DEF Basic, Shape
<1>2. "filter" \in Updaters \ {"control"} /\ "filter" \in Actors /\ "routes" \notin stopped
      /\ "dataplane" \in Actors \ {"filter"}
  BY DEF Updaters, Actors
<1>3. /\ mbox["filter"] # << >> /\ Took("filter") /\ Publish(p)
      /\ UNCHANGED <<sent, peers, derps, dp, busy, stopped, control, ips>>
  BY Zenon DEF FilterUpdate, Takes, Got
<1>4. /\ p.topic = "pf" /\ p.body = m.body.pf /\ RegionsIn(p) = {} /\ ~ IsState(p)
      /\ Carries(p, "pf") /\ ValueOf(p, "pf") = m.body.pf
  BY DEF Message, RegionsIn, IsState, Carries, ValueOf
<1>5. \A k \in Kinds \ {"pf"} : ~ Carries(p, k)
  BY Zenon, <1>4, KindsOfTopic
<1> HIDE DEF p
<1>6. /\ \A b \in Actors \ {"filter"} : mbox'[b] = mbox[b] /\ SameMail(b, Kinds)
      /\ Topics' /\ Known' /\ Underlay' /\ Delivered' = Delivered
  <2>1. "under" \in Kinds \ {"pf"} /\ "pf" # "update"
    BY DEF Kinds
  <2> QED
    BY Zenon, <1>1, <1>2, <1>3, <1>4, <1>5, <2>1, UpdaterStep
<1>7. \A k, d : After(mbox'["filter"], k, Upon(m, k, d)) = After(mbox["filter"], k, d)
  BY Zenon, <1>1, <1>2, <1>3, TakenMail
<1>8. /\ \A k \in Kinds \ {"pf"} : \A d : After(bus', k, d) = After(bus, k, d)
      /\ \A d : After(bus', "pf", d) = m.body.pf
      /\ bus' = Append(bus, p)
  BY Zenon, <1>1, <1>3, <1>4, <1>5, PublishedBus
<1>9. FilterFollows'
  <2>1. m = mbox["filter"][1] /\ 1 \in DOMAIN mbox["filter"]
    BY Zenon, <1>1, <1>2, <1>3, TailSeq DEF Shape
  <2>2. Expected("filter", m)
    BY Zenon, <1>2, <2>1 DEF Rest, Topics
  <2>3. Carries(m, "filter")
    BY <2>2 DEF Expected
  <2>4. \A d : Upon(m, "filter", d) = m.body.pf
    BY <2>3 DEF Upon, ValueOf
  <2> DEFINE x == OnBus("pf", Mail("dataplane", "pf", dp.filter))
             y == Mail("filter", "filter", x)
  <2>5. x' = m.body.pf
    BY Zenon, <1>8 DEF OnBus
  <2>6. y' = y
    <3>1. After(mbox'["filter"], "filter", m.body.pf) = After(mbox["filter"], "filter", x)
      BY Zenon, <1>7, <2>4
    <3> HIDE DEF x
    <3> QED
      BY Zenon, <2>5, <3>1 DEF Mail
  <2>7. OnBus("filter", y)' = OnBus("filter", y)
    <3>1. "filter" \in Kinds \ {"pf"}
      BY DEF Kinds
    <3> HIDE DEF y
    <3> QED
      BY Zenon, <1>8, <2>6, <3>1 DEF OnBus
  <2>8. OnBus("filter", y) = LastIn(sent, "pf")
    BY Zenon DEF Rest, Follows, FilterFollows
  <2>9. LastIn(sent, "pf")' = LastIn(sent, "pf")
    BY Zenon, <1>3
  <2> QED
    BY <2>7, <2>8, <2>9 DEF FilterFollows
<1>10. Follows'
  <2>1. \A ks \in SUBSET (Kinds \ {"pf"}) : SameBus(ks)
    BY Zenon, <1>8 DEF SameBus
  <2>2. /\ "filter" # "netstack" /\ "filter" # "tracker" /\ "filter" # "source"
        /\ {"node routes", "self_routes"} \in SUBSET (Kinds \ {"pf"})
        /\ {"node ips"} \in SUBSET (Kinds \ {"pf"}) /\ {"peers"} \in SUBSET (Kinds \ {"pf"})
        /\ {"state"} \in SUBSET (Kinds \ {"pf"}) /\ {"src_filter"} \in SUBSET (Kinds \ {"pf"})
        /\ {"out"} \in SUBSET (Kinds \ {"pf"})
    BY DEF Kinds
  <2> QED
    BY Zenon, <1>2, <1>3, <1>6, <1>9, <2>1, <2>2, OtherPaths DEF Rest, Follows
<1>11. StatesLinked'
  BY Zenon, <1>1, <1>2, <1>3, <1>4, <1>6, <1>8, LinksKept DEF Rest
<1>12. HomesAgree'
  BY Zenon, <1>2, <1>3, <1>6, UpdaterHomes
<1> QED
  BY Zenon, <1>6, <1>10, <1>11, <1>12 DEF Rest

LEMMA RestOfSource ==
  ASSUME Basic, Rest, SourceFilterUpdate, stopped \subseteq {"control"}
  PROVE  Rest'
<1> DEFINE m == Head(mbox["source"])
           new == RoutesOf(m.body.peers, DOMAIN m.body.peers)
           p == Message("src_filter", new)
<1>1. Shape /\ IsSeq(bus)
  BY Zenon DEF Basic, Shape
<1>2. "source" \in Updaters \ {"control"} /\ "source" \in Actors /\ "routes" \notin stopped
      /\ "dataplane" \in Actors \ {"source"}
  BY DEF Updaters, Actors
<1>3. /\ mbox["source"] # << >> /\ Took("source") /\ Publish(p) /\ m.topic = "peer_state"
      /\ UNCHANGED <<sent, peers, derps, dp, busy, stopped, control, ips>>
  BY Zenon DEF SourceFilterUpdate, Takes, Got
<1>4. /\ p.topic = "src_filter" /\ RegionsIn(p) = {} /\ ~ IsState(p)
      /\ Carries(p, "src_filter") /\ ValueOf(p, "src_filter") = new
  BY DEF Message, RegionsIn, IsState, Carries, ValueOf
<1>5. \A k \in Kinds \ {"src_filter"} : ~ Carries(p, k)
  BY Zenon, <1>4, KindsOfTopic
<1> HIDE DEF p, new
<1>6. /\ \A b \in Actors \ {"source"} : mbox'[b] = mbox[b] /\ SameMail(b, Kinds)
      /\ Topics' /\ Known' /\ Underlay' /\ Delivered' = Delivered
  <2>1. "under" \in Kinds \ {"src_filter"} /\ "src_filter" # "update"
    BY DEF Kinds
  <2> QED
    BY Zenon, <1>1, <1>2, <1>3, <1>4, <1>5, <2>1, UpdaterStep
<1>7. \A k, d : After(mbox'["source"], k, Upon(m, k, d)) = After(mbox["source"], k, d)
  BY Zenon, <1>1, <1>2, <1>3, TakenMail
<1>8. /\ \A k \in Kinds \ {"src_filter"} : \A d : After(bus', k, d) = After(bus, k, d)
      /\ \A d : After(bus', "src_filter", d) = new
      /\ bus' = Append(bus, p)
  BY Zenon, <1>1, <1>3, <1>4, <1>5, PublishedBus
<1>9. SourcesFollow'
  <2>1. Carries(m, "sources") /\ ValueOf(m, "sources") = new
    BY <1>3 DEF Carries, ValueOf, new
  <2>2. \A d : Upon(m, "sources", d) = new
    BY Zenon, <2>1 DEF Upon
  <2> DEFINE x == OnBus("src_filter", Mail("dataplane", "src_filter", dp.src))
  <2>3. x' = new
    BY Zenon, <1>8 DEF OnBus
  <2>4. Mail("source", "sources", x)' = Mail("source", "sources", x)
    <3>1. After(mbox'["source"], "sources", new) = After(mbox["source"], "sources", x)
      BY Zenon, <1>7, <2>2
    <3> HIDE DEF x
    <3> QED
      BY Zenon, <2>3, <3>1 DEF Mail
  <2>5. RoutesOf(Delivered, DOMAIN Delivered)' = RoutesOf(Delivered, DOMAIN Delivered)
    BY Zenon, <1>6
  <2> QED
    BY Zenon, <2>4, <2>5 DEF SourcesFollow, Rest, Follows
<1>10. Follows'
  <2>1. \A ks \in SUBSET (Kinds \ {"src_filter"}) : SameBus(ks)
    BY Zenon, <1>8 DEF SameBus
  <2> DEFINE Js == SUBSET (Kinds \ {"src_filter"})
  <2>2. /\ "source" # "netstack" /\ "source" # "tracker" /\ "source" # "filter"
        /\ {"node routes", "self_routes"} \in Js /\ {"node ips"} \in Js /\ {"peers"} \in Js
        /\ {"state"} \in Js /\ {"filter", "pf"} \in Js /\ {"out"} \in Js
    BY DEF Kinds
  <2> QED
    BY Zenon, <1>2, <1>3, <1>6, <1>9, <2>1, <2>2, OtherPaths DEF Rest, Follows
<1>11. StatesLinked'
  BY Zenon, <1>1, <1>2, <1>3, <1>4, <1>6, <1>8, LinksKept DEF Rest
<1>12. HomesAgree'
  BY Zenon, <1>2, <1>3, <1>6, UpdaterHomes
<1> QED
  BY Zenon, <1>6, <1>10, <1>11, <1>12 DEF Rest

LEMMA RestOfMeasure ==
  ASSUME Basic, Rest, Measure, stopped \subseteq {"control"}
  PROVE  Rest'
<1> DEFINE m == Head(mbox["latency"])
<1>1. Shape /\ IsSeq(bus)
  BY Zenon DEF Basic, Shape
<1>2. "latency" \in Updaters \ {"control"} /\ "latency" \in Actors /\ "routes" \notin stopped
      /\ "dataplane" \in Actors \ {"latency"}
  BY DEF Updaters, Actors
<1>3. /\ mbox["latency"] # << >> /\ Took("latency")
      /\ UNCHANGED <<sent, peers, derps, dp, busy, stopped, control, ips>>
  BY Zenon DEF Measure, Takes
<1>4. PICK best \in m.body.derp \cup {None} :
          Publish(Message("latency", IF best = None THEN << >> ELSE <<best>>))
  BY Zenon DEF Measure, Got
<1> DEFINE p == Message("latency", IF best = None THEN << >> ELSE <<best>>)
<1>5. \A r \in m.body.derp : KnownSoon(r)
  <2>1. m = mbox["latency"][1] /\ 1 \in DOMAIN mbox["latency"]
    BY Zenon, <1>1, <1>2, <1>3, TailSeq DEF Shape
  <2> QED
    BY Zenon, <2>1 DEF Rest, Known, MessagesKnown
<1>6. p.topic = "latency" /\ ~ IsState(p) /\ \A r \in RegionsIn(p) : KnownSoon(r)
  <2>1. p.topic = "latency" /\ p.body = IF best = None THEN << >> ELSE <<best>>
    BY DEF Message
  <2> HIDE DEF p
  <2>2. CASE best = None
    BY <2>1, <2>2 DEF RegionsIn, IsState
  <2>3. CASE best # None
    <3>1. p.body # << >> /\ p.body[1] = best
      BY <2>1, <2>3
    <3> QED
      BY <1>5, <2>1, <2>3, <3>1 DEF RegionsIn, IsState
  <2> QED
    BY Zenon, <2>2, <2>3
<1>7. \A k \in Kinds \ {"home"} : ~ Carries(p, k)
  BY Zenon, <1>6, KindsOfTopic
<1> HIDE DEF p
<1>8. Publish(p)
  BY Zenon, <1>4 DEF p
<1>9. /\ \A b \in Actors \ {"latency"} : mbox'[b] = mbox[b] /\ SameMail(b, Kinds)
      /\ Topics' /\ Known' /\ Underlay' /\ Delivered' = Delivered
  <2>1. "under" \in Kinds \ {"home"} /\ "latency" # "update"
    BY DEF Kinds
  <2> QED
    BY Zenon, <1>1, <1>2, <1>3, <1>6, <1>7, <1>8, <2>1, UpdaterStep
<1>10. /\ \A k \in Kinds \ {"home"} : \A d : After(bus', k, d) = After(bus, k, d)
       /\ bus' = Append(bus, p)
  BY Zenon, <1>1, <1>7, <1>8, PublishedBus
<1>11. Follows'
  <2> DEFINE Js == SUBSET (Kinds \ {"home"})
  <2>1. \A ks \in Js : SameBus(ks)
    BY Zenon, <1>10 DEF SameBus
  <2>2. /\ "latency" # "netstack" /\ "latency" # "tracker" /\ "latency" # "filter"
        /\ "latency" # "source"
        /\ {"node routes", "self_routes"} \in Js /\ {"node ips"} \in Js /\ {"peers"} \in Js
        /\ {"state"} \in Js /\ {"filter", "pf"} \in Js /\ {"out"} \in Js /\ {"src_filter"} \in Js
    BY DEF Kinds
  <2> QED
    BY Zenon, <1>2, <1>3, <1>9, <2>1, <2>2, OtherPaths DEF Rest, Follows
<1>12. StatesLinked'
  BY Zenon, <1>1, <1>2, <1>3, <1>6, <1>9, <1>10, LinksKept DEF Rest
<1>13. HomesAgree'
  BY Zenon, <1>2, <1>3, <1>9, UpdaterHomes
<1> QED
  BY Zenon, <1>9, <1>11, <1>12, <1>13 DEF Rest

LEMMA SameDomain ==
  ASSUME NEW s, IsSeq(s), NEW d
  PROVE  DOMAIN After(s, "keys", d) = DOMAIN After(s, "state", d)
<1>1. \A m : Carries(m, "keys") <=> Carries(m, "state")
  BY DEF Carries
<1>2. CASE Free(s, "state")
  <2>1. Free(s, "keys")
    BY Zenon, <1>1, <1>2 DEF Free
  <2>2. After(s, "keys", d) = d
    BY Zenon, <2>1, AfterFree
  <2>3. After(s, "state", d) = d
    BY Zenon, <1>2, AfterFree
  <2> QED
    BY Zenon, <2>2, <2>3
<1>3. CASE ~ Free(s, "state")
  <2>1. PICK i : IsLast(s, "state", i)
    BY Zenon, <1>3, LastExists
  <2>2. IsLast(s, "keys", i)
    BY Zenon, <1>1, <2>1 DEF IsLast
  <2>3. After(s, "keys", d) = ValueOf(s[i], "keys") /\ After(s, "state", d) = ValueOf(s[i], "state")
    BY <2>1, <2>2, AfterLast
  <2>4. DOMAIN ValueOf(s[i], "keys") = DOMAIN ValueOf(s[i], "state")
    BY DEF ValueOf, KeysOf
  <2> QED
    BY Zenon, <2>3, <2>4
<1> QED
  BY Zenon, <1>2, <1>3

LEMMA RestOfTracker ==
  ASSUME Basic, Rest, TrackerUpdate, stopped \subseteq {"control"}
  PROVE  Rest'
<1> DEFINE m == Head(mbox["tracker"])
           new == m.body.peers
           p == Message("peer_state", [upserts |-> DOMAIN new, peers |-> new,
                                       deletions |-> DOMAIN peers \ DOMAIN new])
<1>1. Shape /\ IsSeq(bus)
  BY Zenon DEF Basic, Shape
<1>2. "tracker" \in Updaters \ {"control"} /\ "tracker" \in Actors /\ "routes" \notin stopped
      /\ "dataplane" \in Actors \ {"tracker"}
  BY DEF Updaters, Actors
<1>3. /\ mbox["tracker"] # << >> /\ Took("tracker") /\ peers' = new /\ m.topic = "update"
      /\ UNCHANGED <<sent, derps, dp, busy, stopped, control, ips>>
  BY Zenon DEF TrackerUpdate, Takes, Got
<1>4. Publish(p)
  BY DEF TrackerUpdate, Got
<1>5. /\ Carries(m, "peers") /\ \A r \in HomesIn(m) : KnownSoon(r)
  <2>1. m = mbox["tracker"][1] /\ 1 \in DOMAIN mbox["tracker"]
    BY Zenon, <1>1, <1>2, <1>3, TailSeq DEF Shape
  <2>2. Expected("tracker", m)
    BY Zenon, <1>2, <2>1 DEF Rest, Topics
  <2>3. Carries(m, "peers")
    BY <2>2 DEF Expected
  <2> QED
    BY Zenon, <2>1, <2>3 DEF Rest, Known, MessagesKnown
<1>6. /\ p.topic = "peer_state" /\ IsState(p) /\ RegionsIn(p) = HomesIn(m)
      /\ Carries(p, "state") /\ ValueOf(p, "state") = new /\ Replaces(p, DOMAIN peers)
  <2>1. /\ p.topic = "peer_state" /\ p.body.upserts = DOMAIN new /\ p.body.peers = new
        /\ p.body.deletions = DOMAIN peers \ DOMAIN new
    BY DEF Message
  <2> HIDE DEF p
  <2>2. HomesIn(p) = HomesIn(m)
    BY <2>1 DEF HomesIn
  <2> QED
    BY <2>1, <2>2 DEF IsState, RegionsIn, Carries, ValueOf, Replaces
<1> HIDE DEF p
<1> DEFINE Js == Kinds \ {"state", "keys", "sources", "routes"}
<1>7. \A k \in Js : ~ Carries(p, k)
  BY Zenon, <1>6, KindsOfTopic
<1>8. /\ \A b \in Actors \ {"tracker"} : mbox'[b] = mbox[b] /\ SameMail(b, Kinds)
      /\ Topics' /\ Known' /\ Underlay' /\ Delivered' = Delivered
  <2>1. "under" \in Js /\ "peer_state" # "update"
    BY DEF Kinds
  <2> QED
    BY Zenon, <1>1, <1>2, <1>3, <1>4, <1>5, <1>6, <1>7, <2>1, UpdaterStep
<1>9. \A k, d : After(mbox'["tracker"], k, Upon(m, k, d)) = After(mbox["tracker"], k, d)
  BY Zenon, <1>1, <1>2, <1>3, TakenMail
<1>10. /\ \A k \in Js : \A d : After(bus', k, d) = After(bus, k, d)
       /\ \A d : After(bus', "state", d) = new
       /\ bus' = Append(bus, p)
  BY Zenon, <1>1, <1>4, <1>6, <1>7, PublishedBus
<1>11. PeersFollow'
  <2>1. peers' = Upon(m, "peers", peers)
    BY <1>3, <1>5 DEF Upon, ValueOf
  <2>2. Mail("tracker", "peers", peers)' = Mail("tracker", "peers", peers)
    BY Zenon, <1>9, <2>1 DEF Mail
  <2>3. LastPeers' = LastPeers
    BY Zenon, <1>3 DEF LastPeers
  <2>4. "peers" \in Js
    BY DEF Kinds
  <2> QED
    BY Zenon, <1>10, <2>2, <2>3, <2>4 DEF PeersFollow, OnBus, Rest, Follows
<1>12. StateFollows'
  BY Zenon, <1>3, <1>10 DEF StateFollows, OnBus
<1>13. Follows'
  <2>1. \A ks \in SUBSET Js : SameBus(ks)
    BY Zenon, <1>10 DEF SameBus
  <2>2. /\ "tracker" # "netstack" /\ "tracker" # "filter" /\ "tracker" # "source"
        /\ {"node routes", "self_routes"} \in SUBSET Js /\ {"node ips"} \in SUBSET Js
        /\ {"filter", "pf"} \in SUBSET Js /\ {"out"} \in SUBSET Js /\ {"src_filter"} \in SUBSET Js
    BY DEF Kinds
  <2> QED
    BY Zenon, <1>2, <1>3, <1>8, <1>11, <1>12, <2>1, <2>2, OtherPaths DEF Rest, Follows
<1>14. StatesLinked'
  <2>1. OnBus("state", Delivered) = peers
    BY Zenon DEF Rest, Follows, StateFollows
  <2>2. DOMAIN After(bus, "keys", Delivered) = DOMAIN peers
    <3>1. DOMAIN After(bus, "keys", Delivered) = DOMAIN After(bus, "state", Delivered)
      BY Zenon, <1>1, SameDomain
    <3> QED
      BY Zenon, <2>1, <3>1 DEF OnBus
  <2>3. Linked(bus, DOMAIN Delivered) /\ Linked(mbox["dataplane"], DOMAIN dp.tunnel)
    BY Zenon DEF Rest, StatesLinked
  <2>4. Linked(Append(bus, p), DOMAIN Delivered)
    BY Zenon, <1>1, <1>6, <2>2, <2>3, LinkedAppend
  <2> QED
    BY Zenon, <1>2, <1>3, <1>8, <1>10, <2>3, <2>4 DEF StatesLinked
<1>15. HomesAgree'
  BY Zenon, <1>2, <1>3, <1>8, UpdaterHomes
<1> QED
  BY Zenon, <1>8, <1>13, <1>14, <1>15 DEF Rest

-----------------------------------------------------------------------------
(* Multiderp *)

LEMMA EnsuringStep ==
  ASSUME Basic, Ensuring, RuntimeNext
  PROVE  Ensuring'
<1>1. BusyShape /\ DerpsShape /\ "multiderp" \in Actors /\ "routes" # "multiderp"
  BY Zenon, ShapeIs DEF Basic, Actors
<1>2. ASSUME NEW r, EnsureRegion(r)
      PROVE  Ensuring'
  BY <1>1, <1>2 DEF EnsureRegion, NewRegions, Ensuring, BusyShape
<1>3. CASE TransportAnswer \/ TransportRefused
  <2>1. busy' = [busy EXCEPT !["multiderp"] = None]
    BY Zenon, <1>3 DEF TransportAnswer, TransportRefused
  <2>2. busy'["multiderp"] = None
    BY <1>1, <2>1 DEF BusyShape
  <2> QED
    BY Zenon, <2>2 DEF Ensuring
<1>4. ASSUME busy'["multiderp"] = busy["multiderp"], derps'.regions = derps.regions
      PROVE  Ensuring'
  BY Zenon, <1>4 DEF Ensuring
<1>5. CASE MultiderpUpdate \/ MultiderpPeers \/ MultiderpLatency
  <2>1. busy' = busy
    BY Zenon, <1>5 DEF MultiderpUpdate, MultiderpPeers, MultiderpLatency
  <2>2. derps'.regions = derps.regions
    BY <1>1, <1>5 DEF MultiderpUpdate, MultiderpPeers, MultiderpLatency, HomeMoves, DerpsShape
  <2> QED
    BY Zenon, <1>4, <2>1, <2>2
<1>6. CASE (\E p \in MapPeers : RoutesAsk(p)) \/ RoutesAnswer \/ RoutesDone
  <2>1. derps' = derps
    BY Zenon, <1>6 DEF RoutesAsk, RoutesAnswer, RoutesDone
  <2>2. \E x : busy' = [busy EXCEPT !["routes"] = x]
    BY Zenon, <1>6 DEF RoutesAsk, RoutesAnswer, RoutesDone, Answered
  <2>3. busy'["multiderp"] = busy["multiderp"]
    BY <1>1, <2>2 DEF BusyShape
  <2> QED
    BY Zenon, <1>4, <2>1, <2>3
<1>7. CASE \/ ControlUpdate \/ BeginShutdown \/ Deliver \/ ControlLatency \/ TrackerUpdate
           \/ SourceFilterUpdate \/ FilterUpdate \/ NetstackUpdate \/ Measure \/ RoutesSelf
           \/ DataplaneUpdate \/ \E a \in Actors \cup {"bus"} : Stop(a)
  <2>1. busy' = busy /\ derps' = derps
    BY Zenon, <1>7 DEF ControlUpdate, BeginShutdown, Deliver, ControlLatency, TrackerUpdate,
       SourceFilterUpdate, FilterUpdate, NetstackUpdate, Measure, RoutesSelf, DataplaneUpdate, Stop
  <2> QED
    BY Zenon, <1>4, <2>1
<1> QED
  BY Zenon, <1>2, <1>3, <1>5, <1>6, <1>7 DEF RuntimeNext, Handlers

(* What a mailbox keeps when the message taken or sent bears on no table. *)
LEMMA SameDataplaneMail ==
  ASSUME Shape, Rest, mbox'["dataplane"] = mbox["dataplane"] \/
           \E m : /\ m.topic = "new_transport"
                  /\ \/ mbox'["dataplane"] = Append(mbox["dataplane"], m)
                     \/ mbox["dataplane"] # << >> /\ Head(mbox["dataplane"]) = m
                        /\ mbox'["dataplane"] = Tail(mbox["dataplane"])
  PROVE  SameMail("dataplane", Kinds) /\ Linked(mbox'["dataplane"], DOMAIN dp.tunnel)
<1> DEFINE s == mbox["dataplane"]
           t == mbox'["dataplane"]
<1>1. IsSeq(s)
  BY DEF Shape, Actors
<1>2. Linked(s, DOMAIN dp.tunnel)
  BY Zenon DEF Rest, StatesLinked
<1>3. CASE t = s
  BY Zenon, <1>2, <1>3 DEF SameMail
<1>4. ASSUME NEW m, m.topic = "new_transport", t = Append(s, m)
      PROVE  SameMail("dataplane", Kinds) /\ Linked(t, DOMAIN dp.tunnel)
  <2>1. ~ IsState(m) /\ \A k \in Kinds : ~ Carries(m, k)
    BY <1>4, KindsOfTopic DEF IsState
  <2>2. ASSUME NEW k \in Kinds, NEW d
        PROVE  After(t, k, d) = After(s, k, d)
    <3>1. After(Append(s, m), k, d) = Upon(m, k, After(s, k, d))
      BY <1>1, AfterAppend
    <3> QED
      BY Zenon, <1>4, <2>1, <3>1 DEF Upon
  <2>3. Linked(Append(s, m), DOMAIN dp.tunnel)
    BY Zenon, <1>1, <1>2, <2>1, LinkedAppend
  <2> QED
    BY Zenon, <1>4, <2>2, <2>3 DEF SameMail
<1>5. ASSUME s # << >>, Head(s).topic = "new_transport", t = Tail(s)
      PROVE  SameMail("dataplane", Kinds) /\ Linked(t, DOMAIN dp.tunnel)
  <2>1. ~ IsState(Head(s)) /\ \A k \in Kinds : ~ Carries(Head(s), k)
    BY <1>5, KindsOfTopic DEF IsState
  <2>2. ASSUME NEW k \in Kinds, NEW d
        PROVE  After(t, k, d) = After(s, k, d)
    <3>1. After(Tail(s), k, Upon(Head(s), k, d)) = After(s, k, d)
      BY <1>1, <1>5, AfterTail
    <3>2. Upon(Head(s), k, d) = d
      BY Zenon, <2>1 DEF Upon
    <3> QED
      BY Zenon, <1>5, <3>1, <3>2
  <2>3. Linked(Tail(s), IF IsState(Head(s)) THEN DOMAIN Head(s).body.peers ELSE DOMAIN dp.tunnel)
    BY Zenon, <1>1, <1>2, <1>5, LinkedTail
  <2> QED
    BY Zenon, <1>5, <2>1, <2>2, <2>3 DEF SameMail
<1> QED
  BY Zenon, <1>3, <1>4, <1>5

(* A transport is asked for, or given. *)
LEMMA TransportStep ==
  ASSUME Shape, Rest, "routes" \notin stopped, UNCHANGED <<sent, bus, control, peers, dp, ips, stopped>>,
         \A b \in Actors \ {"dataplane"} : mbox'[b] = mbox[b],
         busy'["routes"] = busy["routes"], Extends(derps.regions, derps'.regions),
         derps'.db = derps.db, derps'.home = derps.home, derps'.awake = derps.awake,
         \E m : /\ m.topic = "new_transport"
                /\ \/ mbox'["dataplane"] = Append(mbox["dataplane"], m)
                   \/ mbox["dataplane"] # << >> /\ Head(mbox["dataplane"]) = m
                      /\ mbox'["dataplane"] = Tail(mbox["dataplane"])
  PROVE  Rest'
<1>1. {"routes", "multiderp", "control", "latency", "tracker"} \subseteq Actors \ {"dataplane"}
      /\ "dataplane" \in Actors /\ {"home"} \subseteq Kinds /\ "under" \in Kinds
      /\ {"latency", "tracker", "routes"} \subseteq Actors \ {"dataplane"}
  BY DEF Actors, Kinds
<1>2. SameMail("dataplane", Kinds) /\ Linked(mbox'["dataplane"], DOMAIN dp.tunnel)
  BY Zenon, SameDataplaneMail
<1>3. \A b \in Actors : SameMail(b, Kinds)
  BY Zenon, <1>2, MailKept
<1>4. mbox'["routes"] = mbox["routes"] /\ mbox'["multiderp"] = mbox["multiderp"]
  BY <1>1
<1>5. Delivered' = Delivered
  BY Zenon, <1>4 DEF Delivered, Mail
<1>6. AllSame
  BY Zenon, <1>3, <1>5, BusKept, FewerKinds DEF AllSame, SameMail, SameBus
<1>7. Follows'
  BY Zenon, <1>6, FollowsKept DEF Rest
<1>8. StatesLinked'
  BY Zenon, <1>2, <1>5 DEF StatesLinked, Rest
<1>9. HomesAgree'
  <2>1. SameMail("multiderp", {"home"}) /\ SameMail("control", {"home"})
    BY <1>1, <1>3, FewerKinds
  <2> QED
    BY Zenon, <2>1, HomesKept DEF Rest
<1>10. Topics'
  <2>1. ASSUME NEW m PROVE Expected("dataplane", m)
    BY DEF Expected
  <2> QED
    BY Zenon, <1>1, <2>1, TopicsKept DEF Rest, TakenOrKept
<1>11. OnBus("under", Mail("dataplane", "under", dp.under))'
          = OnBus("under", Mail("dataplane", "under", dp.under))
  BY Zenon, <1>1, <1>2 DEF OnBus, Mail, SameMail
<1>12. /\ Underlay' /\ MultiderpKnows' /\ HomeKnown'
       /\ \A r : KnownSoon(r) => KnownSoon(r)'
  BY Zenon, <1>4, <1>11, OthersStep DEF Rest
<1>13. MessagesKnown' /\ UpdatesKnown'
  <2>1. \A b \in {"latency", "tracker", "routes"} : TakenOrKept(mbox[b], mbox'[b])
    BY <1>1 DEF TakenOrKept
  <2> QED
    BY Zenon, <1>12, <2>1, RegionsKept DEF Rest, Known
<1> QED
  BY Zenon, <1>7, <1>8, <1>9, <1>10, <1>12, <1>13 DEF Rest, Known

LEMMA RestOfTransport ==
  ASSUME Basic, Ensuring, Rest, stopped \subseteq {"control"},
         TransportAnswer \/ \E r \in MapRegions : EnsureRegion(r)
  PROVE  Rest'
<1>1. Shape /\ BusyShape /\ DerpsShape
  BY Zenon, ShapeIs DEF Basic
<1>2. "routes" \notin stopped /\ "dataplane" \in Actors /\ "routes" # "multiderp"
      /\ "multiderp" \in Actors
  BY DEF Actors
<1>3. ASSUME NEW r, EnsureRegion(r)
      PROVE  Rest'
  <2> DEFINE m == Message("new_transport", r)
  <2>1. mbox' = [mbox EXCEPT !["dataplane"] = Append(mbox["dataplane"], m)]
    BY Zenon, <1>3 DEF EnsureRegion
  <2>2. m.topic = "new_transport"
    BY DEF Message
  <2>3. UNCHANGED <<sent, bus, control, peers, derps, dp, ips, stopped>>
    BY Zenon, <1>3 DEF EnsureRegion
  <2>4. busy'["routes"] = busy["routes"]
    BY <1>1, <1>2, <1>3 DEF EnsureRegion, BusyShape
  <2> HIDE DEF m
  <2>5. /\ mbox'["dataplane"] = Append(mbox["dataplane"], m)
        /\ \A b \in Actors \ {"dataplane"} : mbox'[b] = mbox[b]
    BY Zenon, <1>1, <1>2, <2>1, PostedMail
  <2> QED
    BY Zenon, <1>1, <1>2, <2>2, <2>3, <2>4, <2>5, TransportStep, ExtendsSelf
<1>4. CASE TransportAnswer
  <2> DEFINE r == busy["multiderp"]
  <2>1. /\ mbox["dataplane"] # << >> /\ Took("dataplane")
        /\ Head(mbox["dataplane"]).topic = "new_transport"
        /\ UNCHANGED <<sent, bus, control, peers, dp, ips, stopped>>
    BY Zenon, <1>4 DEF TransportAnswer, Takes
  <2>2. busy'["routes"] = busy["routes"]
    BY <1>1, <1>2, <1>4 DEF TransportAnswer, BusyShape
  <2>3. /\ derps'.regions = WithRegion(r) /\ derps'.db = derps.db /\ derps'.home = derps.home
        /\ derps'.awake = derps.awake
    BY <1>1, <1>4 DEF TransportAnswer, DerpsShape
  <2>4. r \notin DOMAIN derps.regions
    BY Zenon, <1>4 DEF TransportAnswer, Ensuring
  <2>5. Extends(derps.regions, derps'.regions)
    <3> HIDE DEF r
    <3> QED
      BY Zenon, <1>1, <2>3, <2>4, WithRegionIs DEF Basic
  <2>6. /\ mbox'["dataplane"] = Tail(mbox["dataplane"])
        /\ \A b \in Actors \ {"dataplane"} : mbox'[b] = mbox[b]
    BY Zenon, <1>1, <1>2, <2>1, TakenMail
  <2> QED
    BY Zenon, <1>1, <1>2, <2>1, <2>2, <2>3, <2>5, <2>6, TransportStep
<1> QED
  BY Zenon, <1>3, <1>4

(* Multiderp handles a message that is not a question. *)
LEMMA MultiderpStep ==
  ASSUME Shape, Rest, "routes" \notin stopped, mbox["multiderp"] # << >>, Took("multiderp"),
         UNCHANGED <<sent, bus, busy, control, peers, dp, ips, stopped>>,
         derps'.regions = derps.regions, Delivered' = Delivered, HomeKnown', HomesAgree',
         \A r : Maps(Head(mbox["multiderp"]), r) => r \in DOMAIN derps.regions
  PROVE  Rest'
<1>1. {"routes", "dataplane", "latency", "tracker"} \subseteq Actors \ {"multiderp"}
      /\ "multiderp" \in Actors
  BY DEF Actors
<1>2. /\ mbox'["multiderp"] = Tail(mbox["multiderp"])
      /\ \A b \in Actors \ {"multiderp"} : mbox'[b] = mbox[b]
  BY Zenon, <1>1, TakenMail
<1>3. \A b \in Actors \ {"multiderp"} : SameMail(b, Kinds)
  BY Zenon, <1>2, MailKept
<1>4. AllSame
  BY Zenon, <1>3, BusKept, FewerKinds DEF AllSame, SameMail, SameBus
<1>5. Follows'
  BY Zenon, <1>4, FollowsKept DEF Rest
<1>6. mbox'["dataplane"] = mbox["dataplane"] /\ mbox'["routes"] = mbox["routes"]
  BY <1>1, <1>2
<1>7. StatesLinked'
  BY Zenon, <1>6 DEF StatesLinked, Rest
<1>8. \A b \in Actors : TakenOrKept(mbox[b], mbox'[b])
  BY Zenon, <1>2 DEF TakenOrKept
<1>9. Topics'
  BY Zenon, <1>8, TopicsKept DEF Rest
<1>10. MultiderpKnows' /\ \A r : KnownSoon(r) => KnownSoon(r)'
  BY Zenon, <1>2, MdTook DEF Rest, Known
<1>11. MessagesKnown' /\ UpdatesKnown'
  <2>1. \A b \in {"latency", "tracker", "routes"} : TakenOrKept(mbox[b], mbox'[b])
    BY <1>8 DEF Actors
  <2> QED
    BY Zenon, <1>10, <2>1, RegionsKept DEF Rest, Known
<1>12. Extends(derps.regions, derps'.regions)
  BY Zenon, ExtendsSelf
<1>13. UnderlayFollows'
  BY Zenon, <1>6, <1>12, UnderlayKept DEF Rest, Underlay, OnBus, Mail
<1>14. AskingRight'
  BY Zenon, <1>1, <1>6, <1>8, <1>12, AskingKept DEF Rest, Underlay
<1> QED
  BY Zenon, <1>5, <1>7, <1>9, <1>10, <1>11, <1>13, <1>14 DEF Rest, Known, Underlay

(* Multiderp has the regions that a message at the head of its mailbox     *)
(* names, unless it is a map.                                              *)
LEMMA HeadKnown ==
  ASSUME Shape, MultiderpKnows, mbox["multiderp"] # << >>
  PROVE  RegionsIn(Head(mbox["multiderp"])) \subseteq DOMAIN derps.regions
<1>1. IsSeq(mbox["multiderp"])
  BY DEF Shape, Actors
<1>2. Leaves(mbox["multiderp"], Tail(mbox["multiderp"]))
  BY Zenon, <1>1, Left
<1>3. /\ Head(mbox["multiderp"]) = mbox["multiderp"][1] /\ 1 \in DOMAIN mbox["multiderp"]
      /\ \A j \in DOMAIN mbox["multiderp"] : j \in Nat \ {0}
  BY Zenon, <1>2 DEF Leaves
<1>4. \A j \in DOMAIN mbox["multiderp"] : ~ (j < 1)
  BY <1>3
<1> QED
  BY Zenon, <1>3, <1>4 DEF MultiderpKnows

LEMMA RestOfMultiderp ==
  ASSUME Basic, Rest, stopped \subseteq {"control"},
         MultiderpUpdate \/ MultiderpPeers \/ MultiderpLatency
  PROVE  Rest'
<1> DEFINE m == Head(mbox["multiderp"])
<1>1. Shape /\ DerpsShape
  BY Zenon, ShapeIs DEF Basic
<1>2. "routes" \notin stopped /\ "multiderp" \in Actors /\ "control" \in Actors \ {"multiderp"}
      /\ "home" \in Kinds /\ "state" \in Kinds
  BY DEF Actors, Kinds
<1>3. /\ mbox["multiderp"] # << >> /\ Took("multiderp")
      /\ UNCHANGED <<sent, bus, busy, control, peers, dp, ips, stopped>>
  BY Zenon DEF MultiderpUpdate, MultiderpPeers, MultiderpLatency, Takes
<1>4. /\ \A k, d : After(mbox'["multiderp"], k, Upon(m, k, d)) = After(mbox["multiderp"], k, d)
      /\ \A b \in Actors \ {"multiderp"} : mbox'[b] = mbox[b]
  BY Zenon, <1>1, <1>2, <1>3, TakenMail
<1>5. HomeKnown
  BY Zenon DEF Rest, Known
<1>6. ASSUME derps'.db = Upon(m, "state", derps.db)
      PROVE  Delivered' = Delivered
  BY Zenon, <1>4, <1>6 DEF Delivered, Mail
<1>7. ASSUME derps'.home = Upon(m, "home", derps.home)
      PROVE  HomesAgree'
  <2>1. Mail("multiderp", "home", derps.home)' = Mail("multiderp", "home", derps.home)
    BY Zenon, <1>4, <1>7 DEF Mail
  <2>2. Mail("control", "home", control.home)' = Mail("control", "home", control.home)
    BY Zenon, <1>2, <1>3, <1>4 DEF Mail
  <2> QED
    BY Zenon, <1>3, <2>1, <2>2 DEF HomesAgree, Rest
<1>8. \A d : m.topic # "peer_state" => Upon(m, "state", d) = d
  BY DEF Upon, Carries
<1>9. \A d : m.topic # "latency" => Upon(m, "home", d) = d
  BY DEF Upon, Carries
<1>10. \A r : m.topic # "update" => ~ Maps(m, r)
  BY DEF Maps
<1>11. CASE MultiderpUpdate
  <2>1. m.topic = "update" /\ m.body.derp \subseteq DOMAIN derps.regions
    BY <1>11 DEF MultiderpUpdate, Takes, NewRegions, Got
  <2>2. /\ derps'.regions = derps.regions /\ derps'.db = derps.db /\ derps'.home = derps.home
        /\ derps'.awake = derps.awake \cup ({derps.home} \cap m.body.derp)
    BY <1>1, <1>11 DEF MultiderpUpdate, DerpsShape, Got
  <2>3. HomeKnown'
    BY <1>5, <2>1, <2>2 DEF HomeKnown
  <2>4. \A r : Maps(m, r) => r \in DOMAIN derps.regions
    BY <2>1 DEF Maps
  <2>5. Delivered' = Delivered /\ HomesAgree'
    BY <1>6, <1>7, <1>8, <1>9, <2>1, <2>2
  <2> QED
    BY Zenon, <1>1, <1>2, <1>3, <2>2, <2>3, <2>4, <2>5, MultiderpStep
<1>12. CASE MultiderpPeers
  <2>1. m.topic = "peer_state"
    BY Zenon, <1>12 DEF MultiderpPeers, Takes
  <2>2. /\ derps'.regions = derps.regions /\ derps'.db = m.body.peers
        /\ derps'.home = derps.home /\ derps'.awake = derps.awake
    BY <1>1, <1>12 DEF MultiderpPeers, DerpsShape, Got
  <2>3. HomeKnown'
    BY Zenon, <1>5, <2>2, HomeKnownKept, ExtendsSelf
  <2>4. derps'.db = Upon(m, "state", derps.db)
    BY <2>1, <2>2 DEF Upon, Carries, ValueOf
  <2>5. Delivered' = Delivered /\ HomesAgree'
    BY <1>6, <1>7, <1>9, <2>1, <2>2, <2>4
  <2>6. \A r : ~ Maps(m, r)
    BY <1>10, <2>1
  <2> QED
    BY Zenon, <1>1, <1>2, <1>3, <2>2, <2>3, <2>5, <2>6, MultiderpStep
<1>13. CASE MultiderpLatency
  <2> DEFINE best == m.body
  <2>1. m.topic = "latency"
    BY Zenon, <1>13 DEF MultiderpLatency, Takes
  <2>2. RegionsIn(m) \subseteq DOMAIN derps.regions
    BY Zenon, <1>1, <1>3, HeadKnown DEF Rest, Known
  <2>3. best # << >> => best[1] \in DOMAIN derps.regions
    BY <2>1, <2>2 DEF RegionsIn
  <2>4. /\ derps'.regions = derps.regions /\ derps'.db = derps.db
        /\ derps'.home = IF best = << >> THEN derps.home ELSE best[1]
        /\ derps'.awake = IF best = << >> \/ derps.home = best[1] THEN derps.awake
                          ELSE (derps.awake \ {derps.home}) \cup {best[1]}
    <3>1. ({best[1]} \cup ({derps.home} \ {None}) \subseteq DOMAIN derps.regions) \/ best = << >>
      BY <1>5, <2>3 DEF HomeKnown
    <3> QED
      BY <1>1, <1>13, <3>1 DEF MultiderpLatency, HomeMoves, DerpsShape, Got
  <2>5. HomeKnown'
    BY <1>5, <2>3, <2>4 DEF HomeKnown
  <2>6. derps'.home = Upon(m, "home", derps.home)
    BY <2>1, <2>4 DEF Upon, Carries, ValueOf
  <2>7. Delivered' = Delivered /\ HomesAgree'
    BY <1>6, <1>7, <1>8, <2>1, <2>4, <2>6
  <2>8. \A r : ~ Maps(m, r)
    BY <1>10, <2>1
  <2> QED
    BY Zenon, <1>1, <1>2, <1>3, <2>4, <2>5, <2>7, <2>8, MultiderpStep
<1> QED
  BY Zenon, <1>11, <1>12, <1>13

-----------------------------------------------------------------------------
(* RouteUpdater *)

(* The paths that the route updater is not on. *)
LEMMA RoutesPaths ==
  ASSUME Follows, \A b \in Actors \ {"routes"} : SameMail(b, Kinds),
         UNCHANGED <<sent, dp, peers, ips>>, Delivered' = Delivered,
         SameBus({"filter", "pf", "node ips", "peers", "state", "src_filter"})
  PROVE  /\ FilterFollows' /\ IpsFollow' /\ PeersFollow' /\ StateFollows' /\ TunnelFollows'
         /\ SourcesFollow'
<1>1. \A b \in {"filter", "netstack", "tracker", "source", "dataplane"}, js \in SUBSET Kinds :
          SameMail(b, js)
  BY FewerKinds DEF Actors
<1>2. /\ SameMail("filter", {"filter"}) /\ SameMail("netstack", {"node ips"})
      /\ SameMail("tracker", {"peers"}) /\ SameMail("source", {"sources"})
      /\ SameMail("dataplane", {"pf"}) /\ SameMail("dataplane", {"keys"})
      /\ SameMail("dataplane", {"src_filter"})
  BY <1>1 DEF Kinds
<1>3. /\ SameBus({"filter", "pf"}) /\ SameBus({"node ips"}) /\ SameBus({"peers"})
      /\ SameBus({"state"}) /\ SameBus({"src_filter"})
  BY FewerKinds
<1>4. FilterFollows' /\ IpsFollow'
  BY Zenon, <1>2, <1>3, FilterKept, IpsKept DEF Follows
<1>5. PeersFollow' /\ StateFollows'
  BY Zenon, <1>2, <1>3, PeersKept, StateKept DEF Follows
<1>6. TunnelFollows' /\ SourcesFollow'
  BY Zenon, <1>2, <1>3, TunnelKept, SourcesKept DEF Follows
<1> QED
  BY Zenon, <1>4, <1>5, <1>6

(* The route updater is done with a message and publishes a table. *)
LEMMA RoutesPublish ==
  ASSUME Shape, Rest, "routes" \notin stopped, mbox["routes"] # << >>, Took("routes"),
         UNCHANGED <<sent, control, peers, derps, dp, ips, stopped>>,
         NEW p, Publish(p), p.topic \in {"self_routes", "peer_routes"}
  PROVE  /\ \A b \in Actors \ {"routes"} : mbox'[b] = mbox[b] /\ SameMail(b, Kinds)
         /\ Delivered' = Delivered /\ Topics' /\ Known' /\ HomesAgree' /\ StatesLinked'
         /\ FilterFollows' /\ IpsFollow' /\ PeersFollow' /\ StateFollows' /\ TunnelFollows'
         /\ SourcesFollow'
<1>1. {"control", "dataplane", "multiderp"} \subseteq Actors \ {"routes"} /\ "routes" \in Actors
  BY DEF Actors
<1>2. /\ mbox'["routes"] = Tail(mbox["routes"])
      /\ \A b \in Actors \ {"routes"} : mbox'[b] = mbox[b]
  BY Zenon, <1>1, TakenMail
<1>3. \A b \in Actors \ {"routes"} : SameMail(b, Kinds)
  BY Zenon, <1>2, MailKept
<1>4. /\ mbox'["control"] = mbox["control"] /\ mbox'["multiderp"] = mbox["multiderp"]
      /\ mbox'["dataplane"] = mbox["dataplane"]
  BY <1>1, <1>2
<1>5. Delivered' = Delivered
  BY Zenon, <1>4 DEF Delivered, Mail
<1>6. \A b \in Actors : TakenOrKept(mbox[b], mbox'[b])
  BY Zenon, <1>2 DEF TakenOrKept
<1>7. Topics'
  BY Zenon, <1>6, TopicsKept DEF Rest
<1>8. Extends(derps.regions, derps'.regions)
  BY Zenon, ExtendsSelf
<1>9. MultiderpKnows' /\ HomeKnown' /\ \A r : KnownSoon(r) => KnownSoon(r)'
  BY Zenon, <1>4, <1>8, MdKept, HomeKnownKept DEF Rest, Known
<1>10. p.topic # "update" /\ RegionsIn(p) = {} /\ ~ IsState(p)
  BY DEF RegionsIn, IsState
<1>11. bus' = Append(bus, p) /\ IsSeq(bus)
  BY Zenon DEF Publish, Shape
<1>12. MessagesKnown' /\ UpdatesKnown'
  <2>1. \A b \in {"latency", "tracker", "routes"} : TakenOrKept(mbox[b], mbox'[b])
    BY <1>6 DEF Actors
  <2>2. \A r \in RegionsIn(p) : KnownSoon(r)
    BY <1>10
  <2> QED
    BY Zenon, <1>9, <1>10, <1>11, <2>1, <2>2, RegionsKept DEF Rest, Known
<1>13. HomesAgree'
  BY Zenon, <1>4 DEF HomesAgree, Rest, Mail
<1>14. StatesLinked'
  BY Zenon, <1>4, <1>5, <1>10, <1>11, LinksKept DEF Rest
<1>15. SameBus({"filter", "pf", "node ips", "peers", "state", "src_filter"})
  <2>1. \A k \in {"filter", "pf", "node ips", "peers", "state", "src_filter"} : ~ Carries(p, k)
    BY DEF Carries
  <2> QED
    BY Zenon, <1>11, <2>1, PublishedBus DEF SameBus
<1>16. /\ FilterFollows' /\ IpsFollow' /\ PeersFollow' /\ StateFollows' /\ TunnelFollows'
       /\ SourcesFollow'
  BY Zenon, <1>3, <1>5, <1>15, RoutesPaths DEF Rest
<1> QED
  BY Zenon, <1>2, <1>3, <1>5, <1>7, <1>9, <1>12, <1>13, <1>14, <1>16 DEF Known

LEMMA RestOfRoutesSelf ==
  ASSUME Basic, Rest, RoutesSelf, stopped \subseteq {"control"}
  PROVE  Rest'
<1> DEFINE m == Head(mbox["routes"])
           p == Message("self_routes", m.body.node.routes)
<1>1. Shape /\ IsSeq(bus) /\ "routes" \notin stopped /\ "routes" \in Actors
      /\ "multiderp" \in Actors \ {"routes"} /\ "dataplane" \in Actors \ {"routes"}
  BY Zenon DEF Basic, Shape, Actors
<1>2. /\ mbox["routes"] # << >> /\ Took("routes") /\ Publish(p) /\ m.topic = "update"
      /\ UNCHANGED <<sent, control, peers, derps, dp, ips, stopped, busy>>
  BY Zenon DEF RoutesSelf, Takes, Got
<1>3. /\ p.topic = "self_routes" /\ Carries(p, "self_routes")
      /\ ValueOf(p, "self_routes") = m.body.node.routes
      /\ ~ Carries(p, "node routes") /\ ~ Carries(p, "out") /\ ~ Carries(p, "under")
  BY DEF Message, Carries, ValueOf
<1> HIDE DEF p
<1>4. /\ \A b \in Actors \ {"routes"} : mbox'[b] = mbox[b] /\ SameMail(b, Kinds)
      /\ Delivered' = Delivered /\ Topics' /\ Known' /\ HomesAgree' /\ StatesLinked'
      /\ FilterFollows' /\ IpsFollow' /\ PeersFollow' /\ StateFollows' /\ TunnelFollows'
      /\ SourcesFollow'
  <2>1. p.topic \in {"self_routes", "peer_routes"}
    BY <1>3
  <2> QED
    BY Zenon, <1>1, <1>2, <2>1, RoutesPublish
<1>5. /\ \A k, d : After(mbox'["routes"], k, Upon(m, k, d)) = After(mbox["routes"], k, d)
      /\ \A k : ~ Carries(m, k) => \A d : After(mbox'["routes"], k, d) = After(mbox["routes"], k, d)
      /\ mbox'["routes"] = Tail(mbox["routes"]) /\ IsSeq(mbox["routes"])
  BY Zenon, <1>1, <1>2, TakenMail
<1>6. /\ \A d : After(bus', "self_routes", d) = m.body.node.routes
      /\ \A d : After(bus', "node routes", d) = After(bus, "node routes", d)
      /\ \A d : After(bus', "out", d) = After(bus, "out", d)
      /\ \A d : After(bus', "under", d) = After(bus, "under", d)
  BY Zenon, <1>1, <1>2, <1>3, PublishedBus
<1>7. Leaves(mbox["routes"], mbox'["routes"])
  BY Zenon, <1>2, <1>5, Left
<1>8. SelfFollows'
  <2>1. m = mbox["routes"][1] /\ 1 \in DOMAIN mbox["routes"]
    BY Zenon, <1>7 DEF Leaves
  <2>2. Expected("routes", m)
    BY Zenon, <1>1, <2>1 DEF Rest, Topics
  <2>3. Carries(m, "node routes")
    BY <1>2, <2>2 DEF Expected, IsState
  <2>4. \A d : Upon(m, "node routes", d) = m.body.node.routes
    BY <2>3 DEF Upon, ValueOf
  <2> DEFINE x == OnBus("self_routes", Mail("dataplane", "self_routes", dp.in))
             y == Mail("routes", "node routes", x)
  <2>5. x' = m.body.node.routes
    BY Zenon, <1>6 DEF OnBus
  <2>6. y' = y
    <3> HIDE DEF x
    <3>1. After(mbox'["routes"], "node routes", Upon(m, "node routes", x))
            = After(mbox["routes"], "node routes", x)
      BY Zenon, <1>5
    <3>2. Upon(m, "node routes", x) = m.body.node.routes
      BY Zenon, <2>4
    <3> QED
      BY Zenon, <2>5, <3>1, <3>2 DEF Mail
  <2>7. OnBus("node routes", y)' = OnBus("node routes", y)
    <3> HIDE DEF y
    <3> QED
      BY Zenon, <1>6, <2>6 DEF OnBus
  <2>8. OnBus("node routes", y) = LastNode("routes", {})
    BY Zenon DEF Rest, Follows, SelfFollows
  <2>9. LastNode("routes", {})' = LastNode("routes", {})
    BY Zenon, <1>2 DEF LastNode
  <2> QED
    BY <2>7, <2>8, <2>9 DEF SelfFollows
<1>9. ~ Carries(m, "routes") /\ ~ Carries(m, "state")
  BY <1>2 DEF Carries
<1>10. RoutesFollow'
  <2>1. SameMail("routes", {"routes", "state"}) /\ SameBus({"out"})
    BY <1>5, <1>6, <1>9 DEF SameMail, SameBus
  <2>2. SameMail("dataplane", {"out"})
    BY <1>1, <1>4 DEF SameMail
  <2> QED
    BY Zenon, <1>2, <1>4, <2>1, <2>2, RoutesKept DEF Rest, Follows
<1>11. UnderlayFollows'
  <2>1. ASSUME Free(mbox'["routes"], "state")
        PROVE  Free(mbox["routes"], "state")
    <3> SUFFICES ASSUME NEW i \in DOMAIN mbox["routes"] PROVE ~ Carries(mbox["routes"][i], "state")
      BY Zenon DEF Free
    <3>1. CASE i = 1
      BY Zenon, <1>7, <1>9, <3>1 DEF Leaves
    <3>2. CASE i # 1
      BY Zenon, <1>7, <2>1, <3>2 DEF Leaves, Free
    <3> QED
      BY Zenon, <3>1, <3>2
  <2>2. OnBus("under", Mail("dataplane", "under", dp.under))'
          = OnBus("under", Mail("dataplane", "under", dp.under))
    BY Zenon, <1>1, <1>2, <1>4, <1>6 DEF OnBus, Mail
  <2> QED
    BY Zenon, <1>2, <1>4, <2>1, <2>2, ExtendsSelf, UnderlayKept DEF Rest, Underlay
<1>12. AskingRight'
  <2>1. ~ AtPeerState
    BY <1>2 DEF AtPeerState
  <2>2. /\ busy["routes"] = None
        /\ \A i \in DOMAIN mbox["multiderp"] : mbox["multiderp"][i].topic # "region"
    BY Zenon, <2>1 DEF Rest, Underlay, AskingRight
  <2> QED
    BY Zenon, <1>1, <1>2, <1>4, <2>2, AskingIdle
<1> QED
  BY Zenon, <1>4, <1>8, <1>10, <1>11, <1>12 DEF Rest, Follows, Underlay

LEMMA NoProgress == None \notin Progress
  BY Zenon, NoneAssumption DEF Progress

(* The route updater and Multiderp exchange a question and its answer. *)
LEMMA QuestionStep ==
  ASSUME Shape, Rest, "routes" \notin stopped,
         UNCHANGED <<sent, bus, control, peers, derps, dp, ips, stopped>>,
         \A b \in Actors \ {"multiderp"} : mbox'[b] = mbox[b], NEW m, m.topic = "region",
         \/ /\ mbox'["multiderp"] = Append(mbox["multiderp"], m)
            /\ \A r \in RegionsIn(m) : KnownSoon(r)
         \/ /\ mbox["multiderp"] # << >> /\ Head(mbox["multiderp"]) = m
            /\ mbox'["multiderp"] = Tail(mbox["multiderp"])
  PROVE  Follows' /\ StatesLinked' /\ HomesAgree' /\ Topics' /\ Known' /\ UnderlayFollows'
<1> DEFINE s == mbox["multiderp"]
           t == mbox'["multiderp"]
<1>1. /\ {"routes", "dataplane", "control", "latency", "tracker"} \subseteq Actors \ {"multiderp"}
      /\ "multiderp" \in Actors /\ "home" \in Kinds /\ "state" \in Kinds
  BY DEF Actors, Kinds
<1>2. IsSeq(s)
  BY Zenon, <1>1 DEF Shape
<1>3. ASSUME NEW k \in Kinds, NEW d
      PROVE  After(t, k, d) = After(s, k, d)
  <2>1. ~ Carries(m, k)
    BY KindsOfTopic
  <2>2. \A e : Upon(m, k, e) = e
    BY Zenon, <2>1 DEF Upon
  <2>3. CASE t = Append(s, m)
    <3>1. After(Append(s, m), k, d) = Upon(m, k, After(s, k, d))
      BY <1>2, AfterAppend
    <3> QED
      BY Zenon, <2>2, <2>3, <3>1
  <2>4. CASE s # << >> /\ Head(s) = m /\ t = Tail(s)
    <3>1. After(Tail(s), k, Upon(Head(s), k, d)) = After(s, k, d)
      BY <1>2, <2>4, AfterTail
    <3> QED
      BY <2>2, <2>4, <3>1
  <2> QED
    BY Zenon, <2>3, <2>4
<1>4. Delivered' = Delivered
  BY Zenon, <1>1, <1>3 DEF Delivered, Mail
<1>5. AllSame
  BY Zenon, <1>4, MailKept, BusKept, FewerKinds DEF AllSame, SameMail, SameBus
<1>6. Follows'
  BY Zenon, <1>5, FollowsKept DEF Rest
<1>7. /\ mbox'["dataplane"] = mbox["dataplane"] /\ mbox'["routes"] = mbox["routes"]
      /\ mbox'["control"] = mbox["control"]
  BY <1>1
<1>8. StatesLinked'
  BY Zenon, <1>4, <1>7 DEF StatesLinked, Rest
<1>9. HomesAgree'
  BY Zenon, <1>1, <1>3, <1>7 DEF HomesAgree, Mail, Rest
<1>10. Topics'
  <2>1. Expected("multiderp", m)
    BY DEF Expected
  <2> QED
    BY Zenon, <1>1, <2>1, TopicsKept DEF Rest, TakenOrKept
<1>11. MultiderpKnows' /\ \A r : KnownSoon(r) => KnownSoon(r)'
  <2>1. \A r : ~ Maps(m, r)
    BY DEF Maps
  <2> QED
    BY Zenon, <2>1, MdTook, MdPosted DEF Rest, Known
<1>12. MessagesKnown' /\ UpdatesKnown'
  <2>1. \A b \in {"latency", "tracker", "routes"} : TakenOrKept(mbox[b], mbox'[b])
    BY <1>1 DEF TakenOrKept
  <2> QED
    BY Zenon, <1>11, <2>1, RegionsKept DEF Rest, Known
<1>13. HomeKnown'
  BY Zenon, HomeKnownKept, ExtendsSelf DEF Rest, Known
<1>14. UnderlayFollows'
  BY Zenon, <1>4, <1>7, UnderlayKept, ExtendsSelf DEF Rest, Underlay, OnBus, Mail
<1> QED
  BY Zenon, <1>6, <1>8, <1>9, <1>10, <1>11, <1>12, <1>13, <1>14 DEF Known

LEMMA RestOfRoutesAsk ==
  ASSUME Basic, Rest, stopped \subseteq {"control"}, NEW p \in MapPeers, RoutesAsk(p)
  PROVE  Rest'
<1> DEFINE db == Got("routes").peers
           m == Message("region", db[p].region)
           s == mbox["multiderp"]
           t == mbox'["multiderp"]
<1>1. Shape /\ BusyShape /\ "routes" \notin stopped /\ "multiderp" \in Actors
      /\ "routes" \in Actors \ {"multiderp"}
  BY Zenon, ShapeIs DEF Basic, Actors
<1>2. /\ AtPeerState /\ Asking.asked = None /\ p \in Homed(db)
      /\ busy' = [busy EXCEPT !["routes"] = [Asking EXCEPT !.asked = p]]
      /\ mbox' = [mbox EXCEPT !["multiderp"] = Append(mbox["multiderp"], m)]
      /\ UNCHANGED <<sent, bus, control, peers, derps, dp, ips, stopped>>
  BY Zenon DEF RoutesAsk
<1>3. m.topic = "region" /\ m.body = db[p].region /\ RegionsIn(m) = {db[p].region}
  <2>1. m.topic = "region" /\ m.body = db[p].region
    BY DEF Message
  <2> HIDE DEF m
  <2> QED
    BY <2>1 DEF RegionsIn
<1> HIDE DEF m
<1>4. /\ t = Append(s, m) /\ IsSeq(s)
      /\ \A b \in Actors \ {"multiderp"} : mbox'[b] = mbox[b]
  BY Zenon, <1>1, <1>2, PostedMail
<1>5. \A r \in RegionsIn(m) : KnownSoon(r)
  <2>1. mbox["routes"] # << >> /\ Head(mbox["routes"]).topic = "peer_state"
    BY Zenon, <1>2 DEF AtPeerState
  <2>2. IsSeq(mbox["routes"])
    BY Zenon, <1>1 DEF Shape
  <2>3. Head(mbox["routes"]) = mbox["routes"][1] /\ 1 \in DOMAIN mbox["routes"]
    BY Zenon, <2>1, <2>2, TailSeq
  <2>4. RegionsIn(Head(mbox["routes"])) = HomesIn(Head(mbox["routes"]))
    BY <2>1 DEF RegionsIn
  <2>5. db[p].region \in HomesIn(Head(mbox["routes"]))
    BY <1>2 DEF HomesIn, Got
  <2>6. KnownSoon(db[p].region)
    BY Zenon, <2>3, <2>4, <2>5 DEF Rest, Known, MessagesKnown
  <2> QED
    BY Zenon, <1>3, <2>6
<1>6. Follows' /\ StatesLinked' /\ HomesAgree' /\ Topics' /\ Known' /\ UnderlayFollows'
  BY Zenon, <1>1, <1>2, <1>3, <1>4, <1>5, QuestionStep
<1>7. Asking \in Progress
  BY Zenon, <1>1, AskingShape
<1>8. /\ Asking' = busy'["routes"] /\ busy'["routes"] # None
      /\ Asking'.asked = p /\ Asking'.done = Asking.done /\ Asking'.under = Asking.under
  <2> DEFINE b == [Asking EXCEPT !.asked = p]
  <2>1. /\ b \in Progress /\ b.asked = p /\ b.done = Asking.done /\ b.under = Asking.under
    BY <1>7 DEF Progress
  <2> HIDE DEF b
  <2>2. busy' = [busy EXCEPT !["routes"] = b]
    BY <1>2 DEF b
  <2>3. busy'["routes"] = b
    BY <1>1, <2>2 DEF BusyShape
  <2>4. b # None
    BY Zenon, <2>1, NoProgress
  <2>5. Asking' = b
    BY Zenon, <2>3, <2>4 DEF Asking
  <2> QED
    BY Zenon, <2>1, <2>3, <2>4, <2>5
<1>9. AtPeerState' /\ Got("routes")' = Got("routes")
  BY Zenon, <1>1, <1>2, <1>4 DEF AtPeerState, Got
<1>10. \A i \in DOMAIN s : s[i].topic # "region"
  <2>1. AskedRegion = {}
    BY Zenon, <1>2 DEF AskedRegion
  <2> QED
    BY Zenon, <2>1 DEF Rest, Underlay, AskingRight
<1>11. AskedRegion' = {db[p].region}
  <2>1. p # None
    BY Zenon, NoneAssumption
  <2> QED
    BY <1>8, <1>9, <2>1 DEF AskedRegion
<1>12. \A i \in DOMAIN t : t[i].topic = "region" =>
          /\ t[i].body \in AskedRegion'
          /\ \A j \in DOMAIN t : t[j].topic = "region" => j = i
  <2>1. /\ \A i \in DOMAIN s : t[i] = s[i] /\ i \in DOMAIN t
        /\ DOMAIN t = 1 .. Len(s) + 1 /\ t[Len(s) + 1] = m
        /\ DOMAIN s = 1 .. Len(s) /\ Len(s) \in Nat
    <3>1. DOMAIN s = 1 .. Len(s) /\ Len(s) \in Nat
      BY Zenon, <1>4, SeqFacts
    <3>2. /\ DOMAIN Append(s, m) = 1 .. Len(s) + 1
          /\ \A i \in DOMAIN s : Append(s, m)[i] = s[i]
          /\ Append(s, m)[Len(s) + 1] = m
      BY Zenon, <1>4, AppendSeq
    <3>3. Joins(m, s, t)
      BY Zenon, <1>4, Joined
    <3> QED
      BY Zenon, <1>4, <3>1, <3>2, <3>3 DEF Joins
  <2> HIDE DEF s, t
  <2>2. \A i \in DOMAIN t : i \in DOMAIN s \/ i = Len(s) + 1
    BY <2>1
  <2>3. \A i \in DOMAIN t : t[i].topic = "region" => i = Len(s) + 1
    <3>1. \A i \in DOMAIN s : s[i].topic # "region"
      BY <1>10 DEF s
    <3> QED
      BY Zenon, <2>1, <2>2, <3>1
  <2> QED
    BY <1>3, <1>11, <2>1, <2>3
<1>13. UnderFor(Asking.under, [q \in Asking.done |-> Got("routes").peers[q].region])'
  <2>1. UnderFor(Asking.under, [q \in Asking.done |-> Got("routes").peers[q].region])
    BY Zenon, <1>2 DEF Rest, Underlay, AskingRight
  <2>2. derps' = derps
    BY Zenon, <1>2
  <2> QED
    BY <1>8, <1>9, <2>1, <2>2 DEF UnderFor
<1>14. /\ Asking'.done \subseteq Homed(Got("routes")'.peers)
       /\ Asking'.asked \in Homed(Got("routes")'.peers) \cup {None}
  <2>1. Asking.done \subseteq Homed(db)
    BY Zenon, <1>2 DEF Rest, Underlay, AskingRight
  <2> QED
    BY <1>2, <1>8, <1>9, <2>1
<1>15. AskingRight'
  BY <1>8, <1>9, <1>12, <1>13, <1>14 DEF AskingRight
<1> QED
  BY Zenon, <1>6, <1>15 DEF Rest, Underlay

LEMMA RestOfRoutesAnswer ==
  ASSUME Basic, Rest, stopped \subseteq {"control"}, RoutesAnswer
  PROVE  Rest'
<1> DEFINE p == Asking.asked
           db == Got("routes").peers
           s == mbox["multiderp"]
           t == mbox'["multiderp"]
           m == Head(s)
           under == Asking.under
<1>1. Shape /\ BusyShape /\ "routes" \notin stopped /\ "multiderp" \notin stopped
      /\ "multiderp" \in Actors /\ "routes" \in Actors \ {"multiderp"}
  BY Zenon, ShapeIs DEF Basic, Actors
<1>2. /\ AtPeerState /\ p # None /\ s # << >> /\ m.topic = "region" /\ Took("multiderp")
      /\ Answered(p, WithTransport(under, p, m.body))
      /\ UNCHANGED <<sent, bus, control, peers, derps, dp, ips, stopped>>
  BY Zenon, <1>1 DEF RoutesAnswer, Takes, Got
<1>3. /\ t = Tail(s) /\ IsSeq(s) /\ \A b \in Actors \ {"multiderp"} : mbox'[b] = mbox[b]
  BY Zenon, <1>1, <1>2, TakenMail
<1>4. Follows' /\ StatesLinked' /\ HomesAgree' /\ Topics' /\ Known' /\ UnderlayFollows'
  BY Zenon, <1>1, <1>2, <1>3, QuestionStep
<1>5. Leaves(s, t)
  BY Zenon, <1>2, <1>3, Left
<1>6. m = s[1] /\ 1 \in DOMAIN s
  BY Zenon, <1>5 DEF Leaves
<1>7. AskingRight
  BY Zenon DEF Rest, Underlay
<1>8. m.body = db[p].region /\ m.body \in DOMAIN derps.regions
  <2>1. m.body \in AskedRegion
    BY Zenon, <1>2, <1>6, <1>7 DEF AskingRight
  <2>2. AskedRegion = {db[p].region}
    BY Zenon, <1>2 DEF AskedRegion
  <2>3. RegionsIn(m) = {m.body}
    BY <1>2 DEF RegionsIn
  <2>4. RegionsIn(m) \subseteq DOMAIN derps.regions
    BY Zenon, <1>1, <1>2, HeadKnown DEF Rest, Known
  <2> QED
    BY <2>1, <2>2, <2>3, <2>4
<1>9. \A i \in DOMAIN t : t[i].topic # "region"
  <2> SUFFICES ASSUME NEW i \in DOMAIN t, t[i].topic = "region" PROVE FALSE
    BY Zenon
  <2>1. i + 1 \in DOMAIN s /\ t[i] = s[i + 1] /\ i \in Nat
    BY Zenon, <1>5 DEF Leaves
  <2>2. i + 1 = 1
    BY Zenon, <1>2, <1>6, <1>7, <2>1 DEF AskingRight
  <2>3. DOMAIN t = 1 .. Len(s) - 1 /\ Len(s) \in Nat \ {0}
    BY Zenon, <1>2, <1>3, TailSeq
  <2> HIDE DEF s, t
  <2> QED
    BY <2>1, <2>2, <2>3
<1>10. /\ Asking.done \subseteq Homed(db) /\ p \in Homed(db)
       /\ UnderFor(under, [q \in Asking.done |-> db[q].region])
  BY Zenon, <1>2, <1>7 DEF AskingRight
<1> DEFINE new == WithTransport(under, p, m.body)
           b == [asked |-> None, done |-> Asking.done \cup {p}, under |-> new]
<1>11. UnderFor(new, [q \in Asking.done \cup {p} |-> db[q].region])
  <2>1. /\ \A q \in Asking.done : db[q].region \in DOMAIN derps.regions
        /\ under = [q \in Asking.done |-> derps.regions[db[q].region]]
    <3> DEFINE h == [q \in Asking.done |-> db[q].region]
    <3>1. DOMAIN h = Asking.done /\ \A q \in Asking.done : h[q] = db[q].region
      OBVIOUS
    <3> HIDE DEF h
    <3>2. /\ \A q \in DOMAIN h : h[q] \in DOMAIN derps.regions
          /\ under = [q \in DOMAIN h |-> derps.regions[h[q]]]
      BY Zenon, <1>10 DEF UnderFor, h
    <3> HIDE DEF db
    <3> QED
      BY <3>1, <3>2
  <2>2. new = [x \in DOMAIN under \cup {p} |-> IF x = p THEN derps.regions[m.body] ELSE under[x]]
    BY <1>8 DEF WithTransport
  <2> HIDE DEF new, under, db, p, m
  <2>3. DOMAIN under = Asking.done
    BY <2>1
  <2>4. new = [q \in Asking.done \cup {p} |-> derps.regions[db[q].region]]
    BY <1>8, <2>1, <2>2, <2>3
  <2>5. \A q \in Asking.done \cup {p} : db[q].region \in DOMAIN derps.regions
    BY <1>8, <2>1
  <2> QED
    BY <2>4, <2>5 DEF UnderFor
<1>12. b \in Progress
  <2>1. /\ p \in MapPeers /\ Asking.done \in SUBSET MapPeers
        /\ under \in UNION {[ps -> Nat] : ps \in SUBSET MapPeers}
    BY <1>1, <1>2, AskingShape DEF Progress
  <2>2. new \in UNION {[ps -> Nat] : ps \in SUBSET MapPeers}
    <3>1. DerpsShape
      BY Zenon, ShapeIs DEF Basic
    <3> HIDE DEF p, under, m
    <3> QED
      BY Zenon, <2>1, <3>1, WithTransportIs
  <2> HIDE DEF new, under, p
  <2> QED
    BY <2>1, <2>2 DEF Progress
<1>13. AtPeerState' /\ Got("routes")' = Got("routes")
  BY Zenon, <1>1, <1>2, <1>3 DEF AtPeerState, Got
<1>14. busy'["routes"] = b /\ Asking' = b
  <2>1. busy' = [busy EXCEPT !["routes"] = b]
    BY Zenon, <1>2 DEF Answered
  <2> HIDE DEF b
  <2>2. busy'["routes"] = b
    BY <1>1, <2>1 DEF BusyShape
  <2>3. b # None
    BY Zenon, <1>12, NoProgress
  <2> QED
    BY Zenon, <2>2, <2>3 DEF Asking
<1>15. b.asked = None /\ b.done = Asking.done \cup {p} /\ b.under = new
  OBVIOUS
<1> HIDE DEF b, new, p
<1>16. UnderFor(Asking.under, [q \in Asking.done |-> Got("routes").peers[q].region])'
  <2>1. derps' = derps
    BY Zenon, <1>2
  <2> QED
    BY <1>11, <1>13, <1>14, <1>15, <2>1 DEF UnderFor
<1>17. /\ Asking'.done \subseteq Homed(Got("routes")'.peers)
       /\ Asking'.asked \in Homed(Got("routes")'.peers) \cup {None}
  BY <1>10, <1>13, <1>14, <1>15
<1>18. AskingRight'
  BY <1>9, <1>13, <1>16, <1>17 DEF AskingRight
<1> QED
  BY Zenon, <1>4, <1>18 DEF Rest, Underlay

LEMMA RestOfRoutesDone ==
  ASSUME Basic, Rest, stopped \subseteq {"control"}, RoutesDone
  PROVE  Rest'
<1> DEFINE m == Head(mbox["routes"])
           db == m.body.peers
           s == mbox["routes"]
           t == mbox'["routes"]
           out == RoutesOf(db, Homed(db))
           under == Asking.under
           p == Message("peer_routes", [out |-> out, under |-> under])
<1>1. Shape /\ BusyShape /\ IsSeq(bus) /\ "routes" \notin stopped /\ "routes" \in Actors
      /\ "multiderp" \in Actors \ {"routes"} /\ "dataplane" \in Actors \ {"routes"}
  BY Zenon, ShapeIs DEF Basic, Actors
<1>2. /\ AtPeerState /\ Asking.asked = None /\ Asking.done = Homed(db)
      /\ busy' = [busy EXCEPT !["routes"] = None] /\ Took("routes") /\ Publish(p)
      /\ UNCHANGED <<sent, control, peers, derps, dp, ips, stopped>>
  BY Zenon DEF RoutesDone, Got
<1>3. s # << >> /\ m.topic = "peer_state"
  BY Zenon, <1>2 DEF AtPeerState
<1>4. /\ p.topic = "peer_routes" /\ Carries(p, "out") /\ Carries(p, "under")
      /\ ValueOf(p, "out") = out /\ ValueOf(p, "under") = under
      /\ ~ Carries(p, "node routes") /\ ~ Carries(p, "self_routes")
  <2> HIDE DEF out, under
  <2>1. p.topic = "peer_routes" /\ p.body.out = out /\ p.body.under = under
    BY DEF Message
  <2> HIDE DEF p
  <2> QED
    BY <2>1 DEF Carries, ValueOf
<1> HIDE DEF p, out, under
<1>5. /\ \A b \in Actors \ {"routes"} : mbox'[b] = mbox[b] /\ SameMail(b, Kinds)
      /\ Delivered' = Delivered /\ Topics' /\ Known' /\ HomesAgree' /\ StatesLinked'
      /\ FilterFollows' /\ IpsFollow' /\ PeersFollow' /\ StateFollows' /\ TunnelFollows'
      /\ SourcesFollow'
  <2>1. p.topic \in {"self_routes", "peer_routes"}
    BY <1>4
  <2> QED
    BY Zenon, <1>1, <1>2, <1>3, <2>1, RoutesPublish
<1>6. /\ \A k, d : After(t, k, Upon(m, k, d)) = After(s, k, d)
      /\ \A k : ~ Carries(m, k) => \A d : After(t, k, d) = After(s, k, d)
  BY Zenon, <1>1, <1>2, <1>3, TakenMail
<1>7. /\ \A d : After(bus', "out", d) = out
      /\ \A d : After(bus', "under", d) = under
      /\ SameBus({"node routes", "self_routes"})
  <2>1. \A k : ~ Carries(p, k) => \A d : After(bus', k, d) = After(bus, k, d)
    BY Zenon, <1>1, <1>2, PublishedBus
  <2>2. \A k : Carries(p, k) => \A d : After(bus', k, d) = ValueOf(p, k)
    BY Zenon, <1>1, <1>2, PublishedBus
  <2> QED
    BY <1>4, <2>1, <2>2 DEF SameBus
<1>8. /\ ~ Carries(m, "node routes") /\ \A d : Upon(m, "state", d) = db
      /\ \A d : Upon(m, "routes", d) = out
  BY <1>3 DEF Carries, Upon, ValueOf, out
<1>9. SelfFollows'
  <2>1. SameMail("routes", {"node routes"}) /\ SameMail("dataplane", {"self_routes"})
    <3>1. SameMail("routes", {"node routes"})
      BY <1>6, <1>8 DEF SameMail
    <3>2. SameMail("dataplane", Kinds) /\ {"self_routes"} \subseteq Kinds
      BY <1>1, <1>5 DEF Kinds
    <3> QED
      BY Zenon, <3>1, <3>2, FewerKinds
  <2> QED
    BY Zenon, <1>2, <1>7, <2>1, SelfKept DEF Rest, Follows
<1>10. After(t, "state", db) = Delivered
  <2>1. After(s, "state", Delivered) = Delivered
    BY Zenon DEF Rest, Follows, RoutesFollow, Mail
  <2>2. After(t, "state", Upon(m, "state", Delivered)) = After(s, "state", Delivered)
    BY Zenon, <1>6
  <2> QED
    BY <1>8, <2>1, <2>2
<1>11. RoutesFollow'
  <2>1. After(t, "state", Delivered) = Delivered
    <3>1. CASE Free(t, "state")
      BY Zenon, <3>1, AfterFree
    <3>2. CASE ~ Free(t, "state")
      <4>1. After(t, "state", Delivered) = After(t, "state", db)
        BY Zenon, <3>2, AfterAny
      <4> QED
        BY Zenon, <1>10, <4>1
    <3> QED
      BY Zenon, <3>1, <3>2
  <2> DEFINE x == OnBus("out", Mail("dataplane", "out", dp.out))
  <2>2. x' = out
    BY Zenon, <1>7 DEF OnBus
  <2>3. Mail("routes", "routes", x)' = Mail("routes", "routes", x)
    <3> HIDE DEF x
    <3>1. After(t, "routes", Upon(m, "routes", x)) = After(s, "routes", x)
      BY Zenon, <1>6
    <3>2. Upon(m, "routes", x) = out
      BY Zenon, <1>8
    <3> QED
      BY Zenon, <2>2, <3>1, <3>2 DEF Mail
  <2>4. RoutesOf(Delivered, Homed(Delivered))' = RoutesOf(Delivered, Homed(Delivered))
    BY Zenon, <1>5
  <2> QED
    BY Zenon, <1>5, <2>1, <2>3, <2>4 DEF RoutesFollow, Rest, Follows, Mail
<1>12. UnderlayFollows'
  <2> SUFFICES ASSUME Free(t, "state")
               PROVE  UnderFor(OnBus("under", Mail("dataplane", "under", dp.under)), HomesOf(Delivered))'
    BY Zenon DEF UnderlayFollows
  <2>1. db = Delivered
    <3>1. After(t, "state", db) = db
      BY Zenon, AfterFree
    <3> QED
      BY Zenon, <1>10, <3>1
  <2>2. UnderFor(under, [q \in Asking.done |-> db[q].region])
    BY Zenon, <1>2 DEF Rest, Underlay, AskingRight, Got, under
  <2>3. UnderFor(under, HomesOf(Delivered))
    BY <1>2, <2>1, <2>2 DEF HomesOf
  <2> DEFINE h == HomesOf(Delivered)
             u == OnBus("under", Mail("dataplane", "under", dp.under))
  <2>4. h' = h /\ u' = under
    BY Zenon, <1>5, <1>7 DEF OnBus
  <2> HIDE DEF h, u
  <2>5. UnderFor(under, h)
    BY Zenon, <2>3 DEF h
  <2>6. UnderFor(u, h)'
    BY <1>2, <2>4, <2>5 DEF UnderFor
  <2> QED
    BY <2>6 DEF u, h
<1>13. AskingRight'
  <2>1. AskedRegion = {}
    BY Zenon, <1>2 DEF AskedRegion
  <2>2. \A i \in DOMAIN mbox["multiderp"] : mbox["multiderp"][i].topic # "region"
    BY Zenon, <2>1 DEF Rest, Underlay, AskingRight
  <2>3. busy'["routes"] = None
    BY <1>1, <1>2 DEF BusyShape
  <2> QED
    BY Zenon, <1>1, <1>5, <2>2, <2>3, AskingIdle
<1> QED
  BY Zenon, <1>5, <1>9, <1>11, <1>12, <1>13 DEF Rest, Follows, Underlay

-----------------------------------------------------------------------------
(* DataplaneActor *)

(* Each table is replaced when a message for it is taken: the tunnel too,  *)
(* because the state says which peers have gone since the last one.        *)
LEMMA TablesReplaced ==
  ASSUME Shape, StatesLinked, DataplaneUpdate, NEW m, m = Head(mbox["dataplane"])
  PROVE  /\ dp'.filter = Upon(m, "pf", dp.filter)
         /\ dp'.in = Upon(m, "self_routes", dp.in)
         /\ dp'.src = Upon(m, "src_filter", dp.src)
         /\ dp'.out = Upon(m, "out", dp.out)
         /\ dp'.under = Upon(m, "under", dp.under)
         /\ dp'.tunnel = Upon(m, "keys", dp.tunnel)
<1>1. DpShape /\ IsSeq(mbox["dataplane"])
  BY Zenon, ShapeIs DEF Shape, Actors
<1>2. PICK t \in {"peer_routes", "self_routes", "src_filter", "pf", "peer_state"} :
        /\ Takes("dataplane", t)
        /\ dp' = CASE t = "peer_routes" -> [dp EXCEPT !.out = m.body.out, !.under = m.body.under]
                   [] t = "self_routes" -> [dp EXCEPT !.in = m.body]
                   [] t = "src_filter"  -> [dp EXCEPT !.src = m.body]
                   [] t = "pf"          -> [dp EXCEPT !.filter = m.body]
                   [] t = "peer_state"  -> [dp EXCEPT !.tunnel = TunnelAfter(m.body)]
  BY Zenon DEF DataplaneUpdate, Got
<1>3. m.topic = t /\ mbox["dataplane"] # << >>
  BY Zenon, <1>2 DEF Takes
<1>4. t = "peer_state" => TunnelAfter(m.body) = KeysOf(m.body.peers)
  <2> SUFFICES ASSUME t = "peer_state" PROVE TunnelAfter(m.body) = KeysOf(m.body.peers)
    OBVIOUS
  <2>1. IsState(m)
    BY <1>3 DEF IsState
  <2>2. Replaces(m, DOMAIN dp.tunnel)
    <3>1. Linked(mbox["dataplane"], DOMAIN dp.tunnel)
      BY Zenon DEF StatesLinked
    <3> QED
      BY Zenon, <1>1, <1>3, <2>1, <3>1, LinkedTail
  <2>3. (DOMAIN dp.tunnel \cup m.body.upserts) \ m.body.deletions = DOMAIN m.body.peers
    BY <2>2 DEF Replaces
  <2>4. m.body.upserts = DOMAIN m.body.peers
    BY Zenon, <2>2 DEF Replaces
  <2> QED
    BY <2>3, <2>4 DEF TunnelAfter, KeysOf
<1>5. /\ Carries(m, "pf") <=> t = "pf"
      /\ Carries(m, "self_routes") <=> t = "self_routes"
      /\ Carries(m, "src_filter") <=> t = "src_filter"
      /\ Carries(m, "out") <=> t = "peer_routes"
      /\ Carries(m, "under") <=> t = "peer_routes"
      /\ Carries(m, "keys") <=> t = "peer_state"
  BY <1>3 DEF Carries
<1>6. /\ ValueOf(m, "pf") = m.body /\ ValueOf(m, "self_routes") = m.body
      /\ ValueOf(m, "src_filter") = m.body /\ ValueOf(m, "out") = m.body.out
      /\ ValueOf(m, "under") = m.body.under /\ ValueOf(m, "keys") = KeysOf(m.body.peers)
  BY DEF ValueOf
<1>7. /\ dp'.filter = IF t = "pf" THEN m.body ELSE dp.filter
      /\ dp'.in = IF t = "self_routes" THEN m.body ELSE dp.in
      /\ dp'.src = IF t = "src_filter" THEN m.body ELSE dp.src
  BY <1>1, <1>2 DEF DpShape
<1>8. /\ dp'.out = IF t = "peer_routes" THEN m.body.out ELSE dp.out
      /\ dp'.under = IF t = "peer_routes" THEN m.body.under ELSE dp.under
      /\ dp'.tunnel = IF t = "peer_state" THEN TunnelAfter(m.body) ELSE dp.tunnel
  BY <1>1, <1>2 DEF DpShape
<1> QED
  BY <1>4, <1>5, <1>6, <1>7, <1>8 DEF Upon

LEMMA RestOfDataplane ==
  ASSUME Basic, Rest, DataplaneUpdate, stopped \subseteq {"control"}
  PROVE  Rest'
<1> DEFINE m == Head(mbox["dataplane"])
           s == mbox["dataplane"]
           t == mbox'["dataplane"]
<1>1. Shape /\ IsSeq(s) /\ "routes" \notin stopped /\ "dataplane" \in Actors
  BY Zenon, ShapeIs DEF Basic, Actors, MailShape
<1>2. /\ s # << >> /\ Took("dataplane")
      /\ UNCHANGED <<sent, bus, busy, control, peers, derps, ips, stopped>>
  BY Zenon DEF DataplaneUpdate, Takes
<1>3. /\ t = Tail(s) /\ \A b \in Actors \ {"dataplane"} : mbox'[b] = mbox[b]
      /\ \A k, d : After(t, k, Upon(m, k, d)) = After(s, k, d)
  BY Zenon, <1>1, <1>2, TakenMail
<1>4. /\ dp'.filter = Upon(m, "pf", dp.filter) /\ dp'.in = Upon(m, "self_routes", dp.in)
      /\ dp'.src = Upon(m, "src_filter", dp.src) /\ dp'.out = Upon(m, "out", dp.out)
      /\ dp'.under = Upon(m, "under", dp.under) /\ dp'.tunnel = Upon(m, "keys", dp.tunnel)
  BY Zenon, <1>1, TablesReplaced DEF Rest
<1>5. /\ Mail("dataplane", "pf", dp.filter)' = Mail("dataplane", "pf", dp.filter)
      /\ Mail("dataplane", "self_routes", dp.in)' = Mail("dataplane", "self_routes", dp.in)
      /\ Mail("dataplane", "src_filter", dp.src)' = Mail("dataplane", "src_filter", dp.src)
      /\ Mail("dataplane", "out", dp.out)' = Mail("dataplane", "out", dp.out)
      /\ Mail("dataplane", "under", dp.under)' = Mail("dataplane", "under", dp.under)
      /\ Mail("dataplane", "keys", dp.tunnel)' = Mail("dataplane", "keys", dp.tunnel)
  BY Zenon, <1>3, <1>4 DEF Mail
<1>6. /\ mbox'["filter"] = mbox["filter"] /\ mbox'["routes"] = mbox["routes"]
      /\ mbox'["netstack"] = mbox["netstack"] /\ mbox'["tracker"] = mbox["tracker"]
      /\ mbox'["source"] = mbox["source"] /\ mbox'["multiderp"] = mbox["multiderp"]
      /\ mbox'["control"] = mbox["control"] /\ mbox'["latency"] = mbox["latency"]
  BY <1>3 DEF Actors
<1>7. /\ \A k, d : OnBus(k, d)' = OnBus(k, d)
      /\ \A k, d : After(mbox'["filter"], k, d) = After(mbox["filter"], k, d)
      /\ \A k, d : After(mbox'["routes"], k, d) = After(mbox["routes"], k, d)
      /\ \A k, d : After(mbox'["source"], k, d) = After(mbox["source"], k, d)
  BY Zenon, <1>2, <1>6 DEF OnBus
<1>8. Delivered' = Delivered
  BY Zenon, <1>2, <1>6 DEF Delivered, Mail
<1>9. FilterFollows'
  <2> DEFINE x == OnBus("pf", Mail("dataplane", "pf", dp.filter))
             y == OnBus("filter", Mail("filter", "filter", x))
  <2>1. x' = x
    BY Zenon, <1>2, <1>5 DEF OnBus
  <2>2. y' = y
    <3> HIDE DEF x
    <3> QED
      BY Zenon, <1>2, <1>6, <2>1 DEF OnBus, Mail
  <2>3. y = LastIn(sent, "pf") /\ LastIn(sent, "pf")' = LastIn(sent, "pf")
    BY Zenon, <1>2 DEF Rest, Follows, FilterFollows
  <2> QED
    BY <2>2, <2>3 DEF FilterFollows
<1>10. SelfFollows'
  <2> DEFINE x == OnBus("self_routes", Mail("dataplane", "self_routes", dp.in))
             y == OnBus("node routes", Mail("routes", "node routes", x))
  <2>1. x' = x
    BY Zenon, <1>2, <1>5 DEF OnBus
  <2>2. y' = y
    <3> HIDE DEF x
    <3> QED
      BY Zenon, <1>2, <1>6, <2>1 DEF OnBus, Mail
  <2>3. y = LastNode("routes", {}) /\ LastNode("routes", {})' = LastNode("routes", {})
    BY Zenon, <1>2 DEF Rest, Follows, SelfFollows, LastNode
  <2> QED
    BY <2>2, <2>3 DEF SelfFollows
<1>11. IpsFollow' /\ PeersFollow'
  <2>1. /\ SameBus({"node ips"}) /\ SameBus({"peers"}) /\ SameMail("netstack", {"node ips"})
        /\ SameMail("tracker", {"peers"})
    BY Zenon, <1>2, <1>6 DEF SameBus, SameMail
  <2> QED
    BY Zenon, <1>2, <2>1, IpsKept, PeersKept DEF Rest, Follows
<1>12. StateFollows' /\ TunnelFollows'
  <2>1. KeysOf(Delivered)' = KeysOf(Delivered)
    BY Zenon, <1>8
  <2> QED
    BY Zenon, <1>2, <1>5, <1>8, <2>1 DEF Rest, Follows, StateFollows, TunnelFollows, OnBus
<1>13. SourcesFollow'
  <2> DEFINE x == OnBus("src_filter", Mail("dataplane", "src_filter", dp.src))
  <2>1. x' = x
    BY Zenon, <1>2, <1>5 DEF OnBus
  <2>2. Mail("source", "sources", x)' = Mail("source", "sources", x)
    <3> HIDE DEF x
    <3> QED
      BY Zenon, <1>6, <2>1 DEF Mail
  <2>3. RoutesOf(Delivered, DOMAIN Delivered)' = RoutesOf(Delivered, DOMAIN Delivered)
    BY Zenon, <1>8
  <2> QED
    BY Zenon, <2>2, <2>3 DEF Rest, Follows, SourcesFollow
<1>14. RoutesFollow'
  <2> DEFINE x == OnBus("out", Mail("dataplane", "out", dp.out))
  <2>1. x' = x
    BY Zenon, <1>2, <1>5 DEF OnBus
  <2>2. Mail("routes", "routes", x)' = Mail("routes", "routes", x)
    <3> HIDE DEF x
    <3> QED
      BY Zenon, <1>6, <2>1 DEF Mail
  <2>3. RoutesOf(Delivered, Homed(Delivered))' = RoutesOf(Delivered, Homed(Delivered))
    BY Zenon, <1>8
  <2>4. Mail("routes", "state", Delivered)' = Mail("routes", "state", Delivered)
    BY Zenon, <1>6, <1>8 DEF Mail
  <2> QED
    BY Zenon, <1>8, <2>2, <2>3, <2>4 DEF Rest, Follows, RoutesFollow
<1>15. StatesLinked'
  <2> DEFINE b == IF IsState(m) THEN DOMAIN m.body.peers ELSE DOMAIN dp.tunnel
  <2>1. Linked(t, b)
    BY Zenon, <1>1, <1>2, <1>3, LinkedTail DEF Rest, StatesLinked
  <2>2. DOMAIN dp'.tunnel = b
    BY <1>4 DEF Upon, Carries, ValueOf, KeysOf, IsState
  <2> QED
    BY Zenon, <1>2, <1>8, <2>1, <2>2 DEF Rest, StatesLinked
<1>16. HomesAgree'
  BY Zenon, <1>2, <1>6 DEF HomesAgree, Mail, Rest
<1>17. \A b \in Actors : TakenOrKept(mbox[b], mbox'[b])
  BY Zenon, <1>2, <1>3 DEF TakenOrKept
<1>18. Topics'
  BY Zenon, <1>1, <1>17, TopicsKept DEF Rest
<1>19. /\ Underlay' /\ MultiderpKnows' /\ HomeKnown'
       /\ \A r : KnownSoon(r) => KnownSoon(r)'
  <2>1. OnBus("under", Mail("dataplane", "under", dp.under))'
          = OnBus("under", Mail("dataplane", "under", dp.under))
    BY Zenon, <1>2, <1>5 DEF OnBus
  <2> QED
    BY Zenon, <1>1, <1>2, <1>6, <2>1, OthersStep, ExtendsSelf DEF Rest
<1>20. MessagesKnown' /\ UpdatesKnown'
  <2>1. \A b \in {"latency", "tracker", "routes"} : TakenOrKept(mbox[b], mbox'[b])
    BY <1>17 DEF Actors
  <2> QED
    BY Zenon, <1>1, <1>2, <1>19, <2>1, RegionsKept DEF Rest, Known
<1> QED
  BY Zenon, <1>9, <1>10, <1>11, <1>12, <1>13, <1>14, <1>15, <1>16, <1>18, <1>19, <1>20
     DEF Rest, Follows, Known
=============================================================================
