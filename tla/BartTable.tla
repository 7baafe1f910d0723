----------------------------- MODULE BartTable ------------------------------
(***************************************************************************)
(* SplitStackTable (ts_bart/src/table): one trie and one size per address  *)
(* family, and the operations of the RoutingTable trait on them.  routes   *)
(* is what a plain map from prefix to value would hold after the same      *)
(* calls; the code has no such variable.                                   *)
(***************************************************************************)
EXTENDS BaseIndex

-----------------------------------------------------------------------------
(***************************************************************************)
(* The routing trie of ts_bart: a node holds the prefixes that end inside  *)
(* its stride, by index, and one child per octet.  A child that leads to a *)
(* single route is not a node but a leaf (with its prefix) or a fringe     *)
(* (a route that ends exactly with the octet); insert splits such a child, *)
(* remove compresses the path above what is left.                          *)
(*                                                                         *)
(* The arrays of a node are total functions here; module Array256 has the  *)
(* packed representation.                                                  *)
(***************************************************************************)

CONSTANTS Values,       \* the routes' values
          NoValue       \* Option::None

NoChild == [kind |-> "none"]
FringeChild(v) == [kind |-> "fringe", value |-> v]
LeafChild(p, v) == [kind |-> "leaf", prefix |-> p, value |-> v]
PathChild(n) == [kind |-> "path", node |-> n]

EmptyNode == [prefixes |-> [i \in Indices |-> NoValue],
              children |-> [o \in Octets |-> NoChild]]

SetPrefix(n, idx, v) == [n EXCEPT !.prefixes[idx] = v]
SetChild(n, octet, child) == [n EXCEPT !.children[octet] = child]

PrefixSet(n) == {i \in Indices : n.prefixes[i] # NoValue}
ChildSet(n) == {o \in Octets : n.children[o] # NoChild}

\* What a route becomes as an immediate child at this depth.
RouteChild(p, v, depth) == IF IsFringe(depth, p) THEN FringeChild(v) ELSE LeafChild(p, v)

\* The child is the route p itself.
HoldsRoute(child, p, depth) ==
    \/ child.kind = "leaf" /\ child.prefix = p
    \/ child.kind = "fringe" /\ IsFringe(depth, p)

(***************************************************************************)
(* insert: the result is the new node and the value replaced               *)
(***************************************************************************)
RECURSIVE InsertInner(_, _, _, _)
InsertInner(n, p, v, depth) ==
    LET octet == Octet(p.addr, depth)
        child == n.children[octet]
        idx == FromPrefix(octet, Overflow(p))
        \* A node in place of the single route, which moves down one level.
        split == CASE child.kind = "path" -> child.node
                   [] child.kind = "fringe" -> SetPrefix(EmptyNode, 1, child.value)
                   [] child.kind = "leaf" ->
                        InsertInner(EmptyNode, child.prefix, child.value, depth + 1).node
        below == InsertInner(split, p, v, depth + 1)
    IN  CASE depth = FullStrides(p) ->
               [node |-> SetPrefix(n, idx, v), old |-> n.prefixes[idx]]
          [] depth # FullStrides(p) /\ child = NoChild ->
               [node |-> SetChild(n, octet, RouteChild(p, v, depth)), old |-> NoValue]
          [] depth # FullStrides(p) /\ HoldsRoute(child, p, depth) ->
               [node |-> SetChild(n, octet, [child EXCEPT !.value = v]), old |-> child.value]
          [] OTHER ->
               [node |-> SetChild(n, octet, PathChild(below.node)), old |-> below.old]

(***************************************************************************)
(* remove: when one immediate route is left in a node below the            *)
(* compression root, it is taken out to be inserted there again.           *)
(***************************************************************************)
NoRemoval == [kind |-> "none"]
Removal(p, v, root) == [kind |-> "removal", prefix |-> p, value |-> v, root |-> root]

\* Mutant of IsDeletable: no node is, so every node is a compression root.
IsDeletableNever(n) == FALSE

IsDeletable(n) == Cardinality(ChildSet(n)) = 1 /\ PrefixSet(n) = {}

TryRemoveLastChild(n, addr, depth, root) ==
    LET keep == [node |-> n, removal |-> NoRemoval]
    IN  IF depth = root THEN keep
        ELSE IF ChildSet(n) = {} /\ Cardinality(PrefixSet(n)) = 1
        THEN LET idx == Min(PrefixSet(n))
             IN  [node |-> SetPrefix(n, idx, NoValue),
                  removal |-> Removal(PrefixFromPath(addr, depth, idx), n.prefixes[idx], root)]
        ELSE IF Cardinality(ChildSet(n)) = 1 /\ PrefixSet(n) = {}
        THEN LET octet == Min(ChildSet(n))
                 child == n.children[octet]
                 gone == SetChild(n, octet, NoChild)
             IN  CASE child.kind = "path" -> keep
                   [] child.kind = "fringe" ->
                        [node |-> gone,
                         removal |-> Removal(FringePrefix(addr, depth, octet), child.value, root)]
                   [] child.kind = "leaf" ->
                        [node |-> gone, removal |-> Removal(child.prefix, child.value, root)]
        ELSE keep

\* Take the route out of this node, then see what is left in it.
TakeOut(n, old, addr, depth, root) ==
    LET rest == TryRemoveLastChild(n, addr, depth, root)
    IN  [node |-> rest.node, old |-> old, removal |-> rest.removal]

Untouched(n) == [node |-> n, old |-> NoValue, removal |-> NoRemoval]

RECURSIVE RemoveInner(_, _, _, _)
RemoveInner(n, p, depth, root) ==
    LET octet == Octet(p.addr, depth)
        child == n.children[octet]
        idx == FromPrefix(octet, Overflow(p))
        below == RemoveInner(child.node, p, depth + 1, IF IsDeletable(n) THEN root ELSE depth)
    IN  CASE depth = FullStrides(p) ->
               TakeOut(SetPrefix(n, idx, NoValue), n.prefixes[idx], p.addr, depth, root)
          [] depth # FullStrides(p) /\ HoldsRoute(child, p, depth) ->
               TakeOut(SetChild(n, octet, NoChild), child.value, p.addr, depth, root)
          [] depth # FullStrides(p) /\ child.kind = "path" ->
               [below EXCEPT !.node = SetChild(n, octet, PathChild(below.node))]
          [] OTHER -> Untouched(n)

\* The string of nodes between the compression root and the route left over
\* goes, and the route comes back as an immediate child of the root.
RECURSIVE Compress(_, _, _)
Compress(n, removal, depth) ==
    LET octet == Octet(removal.prefix.addr, depth)
    IN  IF depth = removal.root
        THEN InsertInner(SetChild(n, octet, NoChild), removal.prefix, removal.value, depth).node
        ELSE SetChild(n, octet,
                      PathChild(Compress(n.children[octet].node, removal, depth + 1)))

CompressRemovalPath(root, removal) ==
    IF removal = NoRemoval THEN root ELSE Compress(root, removal, 0)

TrieInsert(root, p, v) == InsertInner(root, p, v, 0)

TrieRemove(root, p) ==
    LET out == RemoveInner(root, p, 0, 0)
    IN  [node |-> CompressRemovalPath(out.node, out.removal), old |-> out.old]

(***************************************************************************)
(* modify: the caller's closure sees the value of the route, or none, and  *)
(* asks for an insert, a removal, or nothing (after a change in place).    *)
(***************************************************************************)
InsertOp(v) == [op |-> "insert", value |-> v]
RemoveOp == [op |-> "remove"]
NoopOp == [op |-> "noop"]
UpdateOp(v) == [op |-> "update", value |-> v]       \* change in place, then noop

Updated(old, f) == IF old # NoValue /\ f.op = "update" THEN f.value ELSE old

RECURSIVE ModifyInner(_, _, _, _, _)
ModifyInner(n, p, f, depth, root) ==
    LET octet == Octet(p.addr, depth)
        child == n.children[octet]
        idx == FromPrefix(octet, Overflow(p))
        below == ModifyInner(child.node, p, f, depth + 1, IF IsDeletable(n) THEN root ELSE depth)
        inserted == InsertInner(n, p, f.value, depth)
    IN  CASE depth = FullStrides(p) ->
               (CASE f.op = "remove" ->
                       TakeOut(SetPrefix(n, idx, NoValue), n.prefixes[idx], p.addr, depth, root)
                  [] f.op = "insert" ->
                       [Untouched(SetPrefix(n, idx, f.value)) EXCEPT !.old = n.prefixes[idx]]
                  [] OTHER -> Untouched(SetPrefix(n, idx, Updated(n.prefixes[idx], f))))
          [] depth # FullStrides(p) /\ HoldsRoute(child, p, depth) ->
               (CASE f.op = "remove" ->
                       TakeOut(SetChild(n, octet, NoChild), child.value, p.addr, depth, root)
                  [] f.op = "insert" ->
                       [Untouched(SetChild(n, octet, RouteChild(p, f.value, depth)))
                            EXCEPT !.old = child.value]
                  [] OTHER ->
                       Untouched(SetChild(n, octet,
                                          [child EXCEPT !.value = Updated(child.value, f)])))
          [] depth # FullStrides(p) /\ child.kind = "path" ->
               [below EXCEPT !.node = SetChild(n, octet, PathChild(below.node))]
          [] OTHER ->
               IF f.op = "insert" THEN [Untouched(inserted.node) EXCEPT !.old = inserted.old]
               ELSE Untouched(n)

TrieModify(root, p, f) ==
    LET out == ModifyInner(root, p, f, 0, 0)
    IN  [node |-> CompressRemovalPath(out.node, out.removal), old |-> out.old]

(***************************************************************************)
(* Lookups                                                                 *)
(***************************************************************************)
SupersetsPrefix(n, idx) == PrefixSet(n) \cap Lpm(idx) # {}

RECURSIVE ContainsFrom(_, _, _)
ContainsFrom(n, addr, depth) ==
    LET octet == Octet(addr, depth)
        child == n.children[octet]
    IN  \/ SupersetsPrefix(n, FromPfx7(octet))
        \/ child.kind = "fringe"
        \/ child.kind = "leaf" /\ NetContains(child.prefix, addr)
        \/ child.kind = "path" /\ ContainsFrom(child.node, addr, depth + 1)
TrieContains(root, addr) == ContainsFrom(root, addr, 0)

RECURSIVE ExactFrom(_, _, _)
ExactFrom(n, p, depth) ==
    LET octet == Octet(p.addr, depth)
        child == n.children[octet]
    IN  CASE depth = FullStrides(p) -> n.prefixes[FromPrefix(octet, Overflow(p))]
          [] depth # FullStrides(p) /\ child.kind = "path" -> ExactFrom(child.node, p, depth + 1)
          [] depth # FullStrides(p) /\ HoldsRoute(child, p, depth) -> child.value
          [] OTHER -> NoValue
LookupExact(root, p) == ExactFrom(root, p, 0)

\* The prefixes of a node that cover the octet, most specific first.
RECURSIVE PrefixIter(_, _)
PrefixIter(n, yield) ==
    IF yield = {} THEN << >>
    ELSE <<n.prefixes[Max(yield)]>> \o PrefixIter(n, yield \ {Max(yield)})
MatchingPrefixes(n, octet) == PrefixIter(n, PrefixSet(n) \cap Lpm(FromPfx7(octet)))

\* All values that cover the address: the immediate child first, then the
\* prefixes of the nodes on the way, from the deepest.
RECURSIVE AllFrom(_, _, _)
AllFrom(n, addr, depth) ==
    LET octet == Octet(addr, depth)
        child == n.children[octet]
        deeper == CASE child.kind = "path" /\ depth + 1 < Strides ->
                         AllFrom(child.node, addr, depth + 1)
                    [] child.kind = "fringe" -> <<child.value>>
                    [] child.kind = "leaf" /\ NetContains(child.prefix, addr) -> <<child.value>>
                    [] OTHER -> << >>
    IN  deeper \o MatchingPrefixes(n, octet)
LookupAll(root, addr) == AllFrom(root, addr, 0)

LookupAddress(root, addr) ==
    LET all == LookupAll(root, addr) IN IF all = << >> THEN NoValue ELSE Head(all)

\* The longest match of a prefix.  A leaf is compared with itself: the
\* pattern of the match rebinds `prefix`, so every leaf on the way matches.
LeafCovers(leaf, p) == NetCovers(leaf, leaf)

NoMatch == [found |-> FALSE]
Match(p, v) == [found |-> TRUE, prefix |-> p, value |-> v]

RECURSIVE LpmFrom(_, _, _)
LpmFrom(n, p, depth) ==
    LET octet == Octet(p.addr, depth)
        child == n.children[octet]
        atEnd == depth = FullStrides(p)
        deeper == CASE child.kind = "path" /\ depth < FullStrides(p) /\ depth + 1 < Strides ->
                         LpmFrom(child.node, p, depth + 1)
                    [] child.kind = "leaf" /\ LeafCovers(child.prefix, p) ->
                         Match(child.prefix, child.value)
                    [] child.kind = "fringe" /\ (depth + 1) * StrideBits <= p.len ->
                         Match([addr |-> p.addr, len |-> (depth + 1) * StrideBits], child.value)
                    [] OTHER -> NoMatch
        hits == PrefixSet(n) \cap
                    Lpm(IF atEnd THEN FromPrefix(octet, Overflow(p)) ELSE FromPfx7(octet))
    IN  CASE deeper.found -> deeper
          [] ~deeper.found /\ hits # {} ->
               Match([addr |-> p.addr, len |-> PrefixBits(Max(hits), depth)],
                     n.prefixes[Max(hits)])
          [] OTHER -> NoMatch
LookupPrefixLpm(root, p) == LpmFrom(root, p, 0)

RECURSIVE PopFull(_, _)
PopFull(path, next) ==
    IF next = MaxOctet /\ path # << >>
    THEN PopFull(Front(path), Last(path).octet)
    ELSE [path |-> path, next |-> next + 1]

RECURSIVE Walk(_, _)
Walk(path, next) ==
    IF path = << >> THEN << >>
    ELSE LET node == Last(path).node
             here == {o \in ChildSet(node) : o >= next}
             octet == Min(here)
             child == node.children[octet]
             item == <<[path |-> [i \in 1 .. Len(path) - 1 |-> path[i + 1].octet] \o <<octet>>,
                        child |-> child]>>
             after == PopFull(path, octet)
             up == PopFull(Front(path), Last(path).octet)
         IN  CASE here = {} -> Walk(up.path, up.next)
               [] here # {} /\ child.kind = "path" ->
                    item \o Walk(Append(path, [octet |-> octet, node |-> child.node]), 0)
               [] OTHER -> item \o Walk(after.path, after.next)

Descendants(n) == Walk(<<[octet |-> 0, node |-> n]>>, 0)

DescendantNodes(n) ==
    <<n>> \o [i \in 1 .. Len(SelectSeq(Descendants(n), LAMBDA d : d.child.kind = "path")) |->
                SelectSeq(Descendants(n), LAMBDA d : d.child.kind = "path")[i].child.node]

SumOver(nodes, Count(_)) == FoldSeq(LAMBDA n, total : Count(n) + total, 0, nodes)

Stats(n) ==
    LET nodes == DescendantNodes(n)
        kids(kind) == SumOver(nodes, LAMBDA m :
                        Cardinality({o \in Octets : m.children[o].kind = kind}))
    IN  [node_count |-> Len(nodes),
         prefix_count |-> SumOver(nodes, LAMBDA m : Cardinality(PrefixSet(m))),
         child_count |-> SumOver(nodes, LAMBDA m : Cardinality(ChildSet(m))),
         leaf_count |-> kids("leaf"), fringe_count |-> kids("fringe")]

-----------------------------------------------------------------------------
CONSTANTS Stacks,           \* the address families
          RoutePrefixes          \* RoutePrefixes[s]: the prefixes used in stack s

VARIABLES tables, routes

tableVars == <<tables, routes>>

EmptyTable == [root |-> EmptyNode, size |-> 0]

Ops == {InsertOp(v) : v \in Values} \cup {UpdateOp(v) : v \in Values} \cup {RemoveOp, NoopOp}

TableInit ==
    /\ tables = [s \in Stacks |-> EmptyTable]
    /\ routes = [s \in Stacks |-> [p \in RoutePrefixes[s] |-> NoValue]]

RouteInsert(s, p, v) ==
    LET out == TrieInsert(tables[s].root, p, v)
    IN  /\ tables' = [tables EXCEPT ![s] =
                [root |-> out.node, size |-> @.size + (IF out.old = NoValue THEN 1 ELSE 0)]]
        /\ routes' = [routes EXCEPT ![s][p] = v]

RouteRemove(s, p) ==
    LET out == TrieRemove(tables[s].root, p)
    IN  /\ tables' = [tables EXCEPT ![s] =
                [root |-> out.node, size |-> @.size - (IF out.old # NoValue THEN 1 ELSE 0)]]
        /\ routes' = [routes EXCEPT ![s][p] = NoValue]

Modified(old, f) ==
    CASE f.op = "insert" -> f.value
      [] f.op = "remove" -> NoValue
      [] OTHER -> Updated(old, f)

SizeChange(old, f) ==
    CASE f.op = "insert" /\ old = NoValue -> 1
      [] f.op = "remove" /\ old # NoValue -> -1
      [] OTHER -> 0

RouteModify(s, p, f) ==
    LET out == TrieModify(tables[s].root, p, f)
    IN  /\ tables' = [tables EXCEPT ![s] =
                [root |-> out.node, size |-> @.size + SizeChange(out.old, f)]]
        /\ routes' = [routes EXCEPT ![s][p] = Modified(@, f)]

RouteClear ==
    /\ tables' = [s \in Stacks |-> EmptyTable]
    /\ routes' = [s \in Stacks |-> [p \in RoutePrefixes[s] |-> NoValue]]

TableNext ==
    \/ \E s \in Stacks : \E p \in RoutePrefixes[s] :
        \/ \E v \in Values : RouteInsert(s, p, v)
        \/ RouteRemove(s, p)
        \/ \E f \in Ops : RouteModify(s, p, f)
    \/ RouteClear

TableSpec == TableInit /\ [][TableNext]_tableVars

(***************************************************************************)
(* Properties                                                              *)
(***************************************************************************)
Present(s) == {p \in RoutePrefixes[s] : routes[s][p] # NoValue}
Covering(s, addr) == {p \in Present(s) : NetContains(p, addr)}
Covers(s, q) == {p \in Present(s) : NetCovers(p, q)}
LongestOf(ps) == CHOOSE p \in ps : \A q \in ps : q.len <= p.len

\* After any insertions, replacements, removals and modifications the trie
\* answers as the plain map would: an exact lookup finds the value of the
\* prefix and nothing for a prefix that is not there, an address lookup
\* yields the covering routes from the most to the least specific, and
\* contains agrees with it.  Splitting a leaf or compressing a path must not
\* lose, duplicate or reorder a route.
LookupsMatchRoutes ==
    \A s \in Stacks :
        LET root == tables[s].root
        IN  /\ \A p \in RoutePrefixes[s] : LookupExact(root, p) = routes[s][p]
            /\ \A addr \in Addrs :
                LET all == Covering(s, addr)
                    want == [i \in 1 .. Cardinality(all) |->
                               CHOOSE p \in all : Cardinality({q \in all : q.len >= p.len}) = i]
                IN  /\ LookupAll(root, addr) = [i \in DOMAIN want |-> routes[s][want[i]]]
                    /\ TrieContains(root, addr) = (all # {})

\* The size the table counts is the number of routes in the trie, however
\* they were added and removed.
SizeIsRouteCount ==
    \A s \in Stacks :
        LET stats == Stats(tables[s].root)
        IN  /\ tables[s].size = Cardinality(Present(s))
            /\ tables[s].size = stats.prefix_count + stats.leaf_count + stats.fringe_count

\* No path is longer than its routes need: below the root every node holds
\* at least two routes, so that a route alone below a node is its direct
\* child.  In particular removal leaves no empty node behind.
PathsCompressed ==
    \A s \in Stacks :
        LET nodes == DescendantNodes(tables[s].root)
        IN  \A i \in 2 .. Len(nodes) :
                LET st == Stats(nodes[i])
                IN  st.prefix_count + st.leaf_count + st.fringe_count >= 2

\* The walk of the trie visits every child once, in the order of its path.
PathBefore(a, b) ==
    \/ Len(a) < Len(b) /\ SubSeq(b, 1, Len(a)) = a
    \/ \E i \in DOMAIN a \cap DOMAIN b :
        a[i] < b[i] /\ SubSeq(a, 1, i - 1) = SubSeq(b, 1, i - 1)
WalkVisitsAll ==
    \A s \in Stacks :
        LET all == Descendants(tables[s].root)
            stats == Stats(tables[s].root)
        IN  /\ Len(all) = stats.child_count
            /\ \A i, j \in DOMAIN all : i < j => PathBefore(all[i].path, all[j].path)

\* Lookup of a prefix finds the longest route that covers it.
LongestPrefixFound ==
    \A s \in Stacks : \A q \in RoutePrefixes[s] :
        LET found == LookupPrefixLpm(tables[s].root, q)
        IN  IF Covers(s, q) = {} THEN ~found.found
            ELSE found.found /\ found.value = routes[s][LongestOf(Covers(s, q))]
=============================================================================
