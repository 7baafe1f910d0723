----------------------------- MODULE BaseIndex -----------------------------
(***************************************************************************)
(* Addresses, prefixes and the index that numbers the prefixes inside one  *)
(* stride of a trie (ts_bart/src/base_index.rs, lpm.rs, allot.rs and       *)
(* iptrie/util.rs).  A stride is StrideBits wide (8 in the code) and an    *)
(* address has Strides of them (4 or 16).                                  *)
(***************************************************************************)
EXTENDS Integers, Sequences, FiniteSets, FiniteSetsExt, SequencesExt

CONSTANTS StrideBits, Strides

Octets == 0 .. 2 ^ StrideBits - 1
MaxOctet == 2 ^ StrideBits - 1
AddrBits == StrideBits * Strides
Addrs == 0 .. 2 ^ AddrBits - 1

Octet(addr, depth) == (addr \div 2 ^ (StrideBits * (Strides - 1 - depth))) % 2 ^ StrideBits

\* A truncated prefix (IpNet::trunc): no host bits.
Net(addr, len) ==
    [addr |-> addr - (addr % 2 ^ (AddrBits - len)), len |-> len]
Nets == {Net(a, l) : a \in Addrs, l \in 0 .. AddrBits}
NetContains(p, addr) == Net(addr, p.len).addr = p.addr
NetCovers(p, q) == p.len <= q.len /\ NetContains(p, q.addr)

\* stride_count_and_overflow
FullStrides(p) == p.len \div StrideBits
Overflow(p) == p.len % StrideBits

IsFringe(depth, p) == depth = FullStrides(p) - 1 /\ Overflow(p) = 0

(***************************************************************************)
(* The index of a prefix of a stride: 1 is the empty prefix, and 2i, 2i+1  *)
(* are the halves of i.  The prefixes of full width have no index: they    *)
(* are the children of a node.                                             *)
(***************************************************************************)
Indices == 1 .. 2 ^ StrideBits - 1

FromPrefix(octet, len) == (octet \div 2 ^ (StrideBits - len)) + 2 ^ len
FromPfx7(octet) == 2 ^ (StrideBits - 1) + (octet \div 2)

\* bits.Len8: the number of bits of the index.
IndexLen(idx) == CHOOSE n \in 1 .. StrideBits : idx \in 2 ^ (n - 1) .. 2 ^ n - 1

IndexPrefix(idx) ==
    LET len == IndexLen(idx) - 1
    IN  <<(idx % 2 ^ len) * 2 ^ (StrideBits - len), len>>

PrefixBits(idx, depth) == depth * StrideBits + IndexLen(idx) - 1

NetMask(len) == 2 ^ StrideBits - 2 ^ (StrideBits - len)
IndexRange(idx) ==
    LET first == IndexPrefix(idx)[1]
    IN  first .. first + (MaxOctet - NetMask(IndexPrefix(idx)[2]))

Parent(idx) == IF idx = 1 THEN 0 ELSE idx \div 2
ChildIndices(idx) == IF idx >= 2 ^ (StrideBits - 1) THEN {} ELSE {2 * idx, 2 * idx + 1}

\* cmp_rank: by address, then by length.
RankBefore(i, j) ==
    \/ IndexPrefix(i)[1] < IndexPrefix(j)[1]
    \/ IndexPrefix(i)[1] = IndexPrefix(j)[1] /\ IndexPrefix(i)[2] < IndexPrefix(j)[2]

\* The index and all it is a half of: what can match it.
RECURSIVE Lpm(_)
Lpm(idx) == IF idx = 0 THEN {} ELSE {idx} \cup Lpm(idx \div 2)

\* allot::entry walks the halves breadth first; indices of one more bit stand
\* for the children.
RECURSIVE AllotFrom(_, _, _)
AllotFrom(queue, pfx, fringe) ==
    IF queue = << >> THEN [prefix |-> pfx, fringe |-> fringe]
    ELSE LET j == Head(queue)
         IN  IF j >= 2 ^ StrideBits
             THEN AllotFrom(Tail(queue), pfx, fringe \cup {j % 2 ^ StrideBits})
             ELSE AllotFrom(Tail(queue) \o <<2 * j, 2 * j + 1>>, pfx \cup {j}, fringe)
Allot(idx) == AllotFrom(<<idx>>, {}, {})

\* The prefix a walk of the trie has reached.
PrefixFromPath(addr, depth, idx) ==
    LET upper == Net(addr, depth * StrideBits).addr
        below == 2 ^ (StrideBits * (Strides - 1 - depth))
    IN  [addr |-> upper + (IndexPrefix(idx)[1] * below), len |-> PrefixBits(idx, depth)]

FringePrefix(addr, depth, octet) ==
    LET upper == Net(addr, depth * StrideBits).addr
        below == 2 ^ (StrideBits * (Strides - 1 - depth))
    IN  [addr |-> upper + (octet * below), len |-> (depth + 1) * StrideBits]

(***************************************************************************)
(* What the numbering is for                                               *)
(***************************************************************************)
\* Index arithmetic agrees with the prefixes it stands for: from_prefix and
\* prefix are inverse, the range of an index is the octets it covers, lpm
\* gives exactly the covering prefixes and allot exactly the covered ones.  x
\* is an octet and, where it is one, an index.
IndexAlgebra(x, y) ==
    /\ \A len \in 0 .. StrideBits - 1 :
        LET idx == FromPrefix(x, len)
        IN  /\ idx \in Indices
            /\ IndexPrefix(idx) = <<x - (x % 2 ^ (StrideBits - len)), len>>
            /\ x \in IndexRange(idx)
            /\ Cardinality(IndexRange(idx)) = 2 ^ (StrideBits - len)
    /\ FromPfx7(x) = FromPrefix(x, StrideBits - 1)
    /\ {x, y} \subseteq Indices =>
        /\ (x \in Lpm(y)) = (IndexRange(y) \subseteq IndexRange(x) /\ IndexLen(x) <= IndexLen(y))
        /\ (y \in Allot(x).prefix) = (x \in Lpm(y))
        /\ x # y => RankBefore(x, y) # RankBefore(y, x)
        /\ (y \in ChildIndices(x)) = (Parent(y) = x)
        /\ Allot(x).fringe = IndexRange(x)
=============================================================================
