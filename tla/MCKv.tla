-------------------------------- MODULE MCKv --------------------------------
(* Model checking of KvStore: rows A1 and A2 have the index key A, B1 has  *)
(* the index key B.  Threads, keys and owners are interchangeable.         *)
EXTENDS KvStore, TLC

MCFieldsOf == [v \in Vals |-> IF v = "B1" THEN {"B"} ELSE {"A"}]

Load(by, ops, vals, txns) == [by |-> by, ops |-> ops, vals |-> vals, txns |-> txns]
MCWorkloads ==
    {Load(Threads, {"singleton"}, {"A1", "A2"}, 3),
     Load(Threads, {"table", "indexed"}, {"A1", "B1"}, 2)}
    \cup UNION {{Load({t}, {"singleton", "indexed"}, {"B1"}, 3),
                 Load({t}, {"table", "indexed"}, {"A1", "A2"}, 3)} : t \in Threads}

Symmetry == Permutations(Threads) \cup Permutations(Keys) \cup Permutations(Owners)
=============================================================================
