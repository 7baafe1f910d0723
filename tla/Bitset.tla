------------------------------- MODULE Bitset -------------------------------
(***************************************************************************)
(* Fixed-size bitsets (ts_bitset): an array of machine words, every query  *)
(* and every update written word by word.  A word is the set of the        *)
(* positions of its one bits; the width of a word is a parameter so that a *)
(* bitset of several words stays small.                                    *)
(*                                                                         *)
(* The second half has the containers over words as their callers use      *)
(* them: the fixed bitset, the growing one of ts_dynbitset and the sparse  *)
(* array of ts_array256 under any sequence of updates, each with the set   *)
(* of bits or the array that it stands for kept beside it.                 *)
(***************************************************************************)
EXTENDS Integers, FiniteSets, Sequences, FiniteSetsExt, SequencesExt

CONSTANT WordBits       \* 64 in the code

NoBit == -1             \* Option::None

Word == SUBSET (0 .. WordBits - 1)
FullWord == 0 .. WordBits - 1

Bitsets(n) == [0 .. n - 1 -> Word]
EmptyBits(n) == [w \in 0 .. n - 1 |-> {}]
NWords(bs) == Cardinality(DOMAIN bs)
NBits(bs) == NWords(bs) * WordBits

\* Words as numbers: shifts drop what leaves the word, and shift by a whole
\* word gives zero (unbounded_shl, unbounded_shr).
ShlWord(w, k) == {b + k : b \in w} \cap FullWord
ShrWord(w, k) == {b - k : b \in w} \cap FullWord
LowBits(n) == 0 .. n - 1                    \* (1 << n) - 1

WordIdx(bit) == bit \div WordBits
SubwordIdx(bit) == bit % WordBits

\* The word indices in iteration order, and reversed.
WordIter(bs) == [i \in 1 .. NWords(bs) |-> i - 1]
FirstWord(bs, ok(_)) == IF \E w \in DOMAIN bs : ok(w)
                        THEN Min({w \in DOMAIN bs : ok(w)}) ELSE NoBit
LastWord(bs, ok(_)) == IF \E w \in DOMAIN bs : ok(w)
                       THEN Max({w \in DOMAIN bs : ok(w)}) ELSE NoBit

(***************************************************************************)
(* Single bits                                                             *)
(***************************************************************************)
SetBit(bs, bit) == [bs EXCEPT ![WordIdx(bit)] = @ \cup {SubwordIdx(bit)}]
ClearBit(bs, bit) == [bs EXCEPT ![WordIdx(bit)] = @ \ {SubwordIdx(bit)}]
TestBit(bs, bit) == SubwordIdx(bit) \in bs[WordIdx(bit)]

WithBits(bs, bits) == FoldLeft(SetBit, bs, bits)
WithoutBits(bs, bits) == FoldLeft(ClearBit, bs, bits)

(***************************************************************************)
(* Searches                                                                *)
(***************************************************************************)
FirstSet(bs) ==
    LET nonzero(w) == bs[w] # {}
        i == FirstWord(bs, nonzero)
    IN  IF i = NoBit THEN NoBit ELSE WordBits * i + Min(bs[i])

NextSet(bs, bit) ==
    LET word == WordIdx(bit)
        first == ShrWord(bs[word], SubwordIdx(bit))
        later(w) == w > word /\ bs[w] # {}
        i == FirstWord(bs, later)
    IN  IF first # {} THEN bit + Min(first)
        ELSE IF i = NoBit THEN NoBit ELSE i * WordBits + Min(bs[i])

LastSet(bs) ==
    LET nonzero(w) == bs[w] # {}
        i == LastWord(bs, nonzero)
    IN  IF i = NoBit THEN NoBit ELSE i * WordBits + Max(bs[i])

IntersectionTop(bs, other) ==
    LET shared(w) == bs[w] \cap other[w] # {}
        i == LastWord(bs, shared)
    IN  IF i = NoBit THEN NoBit ELSE i * WordBits + Max(bs[i] \cap other[i])

\* The bits of one word, the lowest taken off at every call of the iterator.
RECURSIVE WordBitSeq(_, _)
WordBitSeq(word, offset) ==
    IF word = {} THEN << >>
    ELSE <<offset + Min(word)>> \o WordBitSeq(word \ {Min(word)}, offset)

BitSeq(bs) ==
    LET append(seq, w) == seq \o WordBitSeq(bs[w], w * WordBits)
    IN  FoldLeft(append, << >>, WordIter(bs))

(***************************************************************************)
(* Whole-set queries                                                       *)
(***************************************************************************)
IsEmptyBits(bs) == \A w \in DOMAIN bs : bs[w] = {}

IntersectsBits(bs, other) == \E w \in DOMAIN bs : bs[w] \cap other[w] # {}

CountOnes(bs) ==
    LET add(sum, w) == sum + Cardinality(bs[w])
    IN  FoldLeft(add, 0, WordIter(bs))

(***************************************************************************)
(* Whole-set updates                                                       *)
(***************************************************************************)
UnionInplace(bs, other) == [w \in DOMAIN bs |-> bs[w] \cup other[w]]
IntersectInplace(bs, other) == [w \in DOMAIN bs |-> bs[w] \cap other[w]]
InvertInplace(bs) == [w \in DOMAIN bs |-> FullWord \ bs[w]]

\* Resizing copies whole words; copy_from_slice needs equal lengths, so the
\* code returns only for m <= NWords(bs).
ResizeBits(bs, m) == [w \in 0 .. m - 1 |-> bs[w]]

WithBitsUpto(n, bit) ==
    [w \in 0 .. n - 1 |->
        IF w < bit \div WordBits THEN FullWord
        ELSE IF w = bit \div WordBits THEN LowBits(bit % WordBits) ELSE {}]

(***************************************************************************)
(* Shifts work in place, so the order in which words are rewritten         *)
(* matters: from the top for a left shift, from the bottom for a right one.*)
(***************************************************************************)
ShlTargets(bs, words) == Reverse([i \in 1 .. NWords(bs) - words |-> words + i - 1])
ShrTargets(bs, words) == [i \in 1 .. NWords(bs) - words |-> i - 1]

FillZero(bs, ws) == [w \in DOMAIN bs |-> IF w \in ws THEN {} ELSE bs[w]]

UnboundedShlInplace(bs, rhs) ==
    LET words == rhs \div WordBits
        bits == rhs % WordBits
        move(b, tgt) ==
            LET src == tgt - words
                low == IF src = 0 THEN {} ELSE b[src - 1]
            IN  [b EXCEPT ![tgt] = ShlWord(b[src], bits) \cup ShrWord(low, WordBits - bits)]
    IN  IF rhs >= NBits(bs) THEN EmptyBits(NWords(bs))
        ELSE FillZero(FoldLeft(move, bs, ShlTargets(bs, words)), 0 .. words - 1)

UnboundedShrInplace(bs, rhs) ==
    LET words == rhs \div WordBits
        bits == rhs % WordBits
        move(b, tgt) ==
            LET src == tgt + words
                high == IF src + 1 \in DOMAIN b THEN b[src + 1] ELSE {}
            IN  [b EXCEPT ![tgt] = ShrWord(b[src], bits) \cup ShlWord(high, WordBits - bits)]
    IN  IF rhs >= NBits(bs) THEN EmptyBits(NWords(bs))
        ELSE FillZero(FoldLeft(move, bs, ShrTargets(bs, words)),
                      NWords(bs) - words .. NWords(bs) - 1)

(***************************************************************************)
(* Ranks                                                                   *)
(***************************************************************************)
MaskWord(w, n) ==
    LET target == (n + 1) \div WordBits
    IN  CASE target > w -> FullWord
          [] target < w -> {}
          [] OTHER -> LowBits((n + 1) % WordBits)

RankMask(n, i) == [w \in 0 .. n - 1 |-> MaskWord(w, i)]

Rank(bs, i) == CountOnes(IntersectInplace(RankMask(NWords(bs), i), bs))

\* The bits strictly after n.
BitsAfter(bs, n) == BitSeq(IntersectInplace(InvertInplace(RankMask(NWords(bs), n)), bs))

-----------------------------------------------------------------------------
(* The fixed bitset under any sequence of updates. *)

CONSTANT Words          \* N_WORDS

VARIABLES bits,         \* the bitset
          members       \* the set of bits the updates so far should leave

opsVars == <<bits, members>>

Bits == 0 .. Words * WordBits - 1
AsSet(bs) == {b \in 0 .. NBits(bs) - 1 : TestBit(bs, b)}

OpsInit == bits = EmptyBits(Words) /\ members = {}

Set(bit) == bits' = SetBit(bits, bit) /\ members' = members \cup {bit}
Clear(bit) == bits' = ClearBit(bits, bit) /\ members' = members \ {bit}
Invert == bits' = InvertInplace(bits) /\ members' = Bits \ members
Shl(k) == /\ bits' = UnboundedShlInplace(bits, k)
          /\ members' = {b + k : b \in members} \cap Bits
Shr(k) == /\ bits' = UnboundedShrInplace(bits, k)
          /\ members' = {b - k : b \in members} \cap Bits
Upto(k) == bits' = WithBitsUpto(Words, k) /\ members' = LowBits(k)
Union(k) == /\ bits' = UnionInplace(bits, WithBitsUpto(Words, k))
            /\ members' = members \cup LowBits(k)
Intersect(k) == /\ bits' = IntersectInplace(bits, WithBitsUpto(Words, k))
                /\ members' = members \cap LowBits(k)
FromBits(a, b) == /\ bits' = WithBits(EmptyBits(Words), <<a, b>>)
                  /\ members' = {a, b}

OpsNext == \/ \E bit \in Bits : Set(bit) \/ Clear(bit)
           \/ Invert
           \/ \E k \in 0 .. Words * WordBits + 1 : Shl(k) \/ Shr(k)
           \/ \E k \in Bits : Upto(k) \/ Union(k) \/ Intersect(k)
           \/ \E a, b \in Bits : FromBits(a, b)

OpsSpec == OpsInit /\ [][OpsNext]_opsVars

(***************************************************************************)
(* Properties                                                              *)
(***************************************************************************)
\* The words hold exactly the bits of the updates: shifts carry across word
\* boundaries in place without reading a word they have already rewritten.
WordsHoldMembers == bits \in Bitsets(Words) /\ AsSet(bits) = members

Least(S) == IF S = {} THEN NoBit ELSE Min(S)
Greatest(S) == IF S = {} THEN NoBit ELSE Max(S)
Ascending(seq, S) == /\ ToSet(seq) = S
                     /\ \A i, j \in DOMAIN seq : i < j => seq[i] < seq[j]

\* Every search, count and rank computed word by word is the one of the set:
\* in particular the rank at the last bit of a word and of the bitset.
SearchesMatchMembers ==
    /\ FirstSet(bits) = Least(members)
    /\ LastSet(bits) = Greatest(members)
    /\ CountOnes(bits) = Cardinality(members)
    /\ IsEmptyBits(bits) = (members = {})
    /\ Ascending(BitSeq(bits), members)
    /\ \A b \in Bits :
        /\ NextSet(bits, b) = Least({m \in members : m >= b})
        /\ Rank(bits, b) = Cardinality({m \in members : m <= b})
        /\ Ascending(BitsAfter(bits, b), {m \in members : m > b})
        /\ LET upto == WithBitsUpto(Words, b)
           IN  /\ IntersectionTop(bits, upto) = Greatest({m \in members : m < b})
               /\ IntersectsBits(bits, upto) = (\E m \in members : m < b)
               /\ AsSet(UnionInplace(bits, upto)) = members \cup LowBits(b)
    /\ \A m \in 1 .. Words :
        AsSet(ResizeBits(bits, m)) = {b \in members : b < m * WordBits}

-----------------------------------------------------------------------------
(***************************************************************************)
(* The growing bitset of ts_dynbitset: a vector of bitsets of one word     *)
(* (WORDS = 1, the only instance in use; first_set computes with 64 bits   *)
(* per bitset, which is right only for that width).                        *)
(***************************************************************************)
CONSTANTS MaxBit,       \* bits 0 .. MaxBit - 1 are used
          Others        \* sets of bits that serve as the second operand

VARIABLES dyn,          \* the vector of bitsets
          wanted        \* the set the operations so far should leave

dynVars == <<dyn, wanted>>

DynBits == 0 .. MaxBit - 1
DynIdx(bit) == bit \div WordBits + 1            \* index in the vector, from 1
DynSub(bit) == bit % WordBits

TruncateTo(d, n) == SubSeq(d, 1, IF n < Len(d) THEN n ELSE Len(d))

TruncateEmpty(d) ==
    LET live == {i \in DOMAIN d : ~IsEmptyBits(d[i])}
    IN  TruncateTo(d, IF live = {} THEN 0 ELSE Max(live))

EnsureCapacity(d, bit) ==
    d \o [i \in 1 .. Max({0, DynIdx(bit) - Len(d)}) |-> EmptyBits(1)]

DynSet(d, bit) == [EnsureCapacity(d, bit) EXCEPT ![DynIdx(bit)] = SetBit(@, DynSub(bit))]

DynClear(d, bit) ==
    IF DynIdx(bit) > Len(d) THEN d
    ELSE TruncateEmpty([d EXCEPT ![DynIdx(bit)] = ClearBit(@, DynSub(bit))])

DynTest(d, bit) == DynIdx(bit) <= Len(d) /\ TestBit(d[DynIdx(bit)], DynSub(bit))

DynZeroFrom(d, bit) ==
    LET cut == TruncateTo(d, DynIdx(bit))
    IN  IF DynIdx(bit) > Len(cut) THEN cut
        ELSE TruncateEmpty([cut EXCEPT ![DynIdx(bit)] =
                               IntersectInplace(@, WithBitsUpto(1, DynSub(bit)))])

DynUnion(d, other) ==
    [i \in DOMAIN d |-> IF i \in DOMAIN other THEN UnionInplace(d[i], other[i]) ELSE d[i]]
    \o SubSeq(other, Len(d) + 1, Len(other))

DynIntersect(d, other) ==
    LET cut == TruncateTo(d, Len(other))
    IN  TruncateEmpty([i \in DOMAIN cut |-> IntersectInplace(cut[i], other[i])])

\* Inverts the words there are.
DynInvert(d) == TruncateEmpty([i \in DOMAIN d |-> InvertInplace(d[i])])

DynFromIter(seq) == TruncateEmpty(FoldLeft(DynSet, << >>, seq))

(***************************************************************************)
(* Queries, from the first bitset or from the last                         *)
(***************************************************************************)
DynFirstSet(d) ==
    LET hits == {i \in DOMAIN d : FirstSet(d[i]) # NoBit}
    IN  IF hits = {} THEN NoBit ELSE (Min(hits) - 1) * WordBits + FirstSet(d[Min(hits)])

DynNextSet(d, bit) ==
    LET query(i) == IF i = DynIdx(bit) THEN DynSub(bit) ELSE 0
        hits == {i \in DynIdx(bit) .. Len(d) : NextSet(d[i], query(i)) # NoBit}
    IN  IF hits = {} THEN NoBit
        ELSE (Min(hits) - 1) * WordBits + NextSet(d[Min(hits)], query(Min(hits)))

DynLastSet(d) ==
    LET hits == {i \in DOMAIN d : LastSet(d[i]) # NoBit}
    IN  IF hits = {} THEN NoBit ELSE (Max(hits) - 1) * WordBits + LastSet(d[Max(hits)])

DynIntersectionTop(d, other) ==
    LET hits == {i \in DOMAIN d \cap DOMAIN other : IntersectionTop(d[i], other[i]) # NoBit}
    IN  IF hits = {} THEN NoBit
        ELSE (Max(hits) - 1) * WordBits + IntersectionTop(d[Max(hits)], other[Max(hits)])

DynIntersects(d, other) ==
    \E i \in DOMAIN d \cap DOMAIN other : IntersectsBits(d[i], other[i])

DynIsEmpty(d) == \A i \in DOMAIN d : IsEmptyBits(d[i])

DynCountOnes(d) == FoldLeft(LAMBDA sum, bs : sum + CountOnes(bs), 0, d)

DynBitSeq(d) ==
    LET append(seq, i) == seq \o [k \in 1 .. CountOnes(d[i]) |->
                                     BitSeq(d[i])[k] + (i - 1) * WordBits]
    IN  FoldLeft(append, << >>, [i \in DOMAIN d |-> i])

(***************************************************************************)
(* Any sequence of updates                                                 *)
(***************************************************************************)
DynInit == dyn = << >> /\ wanted = {}

Operand(S) == FoldSet(LAMBDA bit, d : DynSet(d, bit), << >>, S)

DSet(bit) == dyn' = DynSet(dyn, bit) /\ wanted' = wanted \cup {bit}
DClear(bit) == dyn' = DynClear(dyn, bit) /\ wanted' = wanted \ {bit}
DZeroFrom(bit) == dyn' = DynZeroFrom(dyn, bit) /\ wanted' = {b \in wanted : b < bit}
DUnion(S) == dyn' = DynUnion(dyn, Operand(S)) /\ wanted' = wanted \cup S
DIntersect(S) == dyn' = DynIntersect(dyn, Operand(S)) /\ wanted' = wanted \cap S
DInvert == /\ dyn' = DynInvert(dyn)
           /\ wanted' = (0 .. Len(dyn) * WordBits - 1) \ wanted
DClearAll == dyn' = << >> /\ wanted' = {}

DynNext == \/ \E bit \in DynBits : DSet(bit) \/ DClear(bit) \/ DZeroFrom(bit)
           \/ \E S \in Others : DUnion(S) \/ DIntersect(S)
           \/ DInvert \/ DClearAll

DynSpec == DynInit /\ [][DynNext]_dynVars

(***************************************************************************)
(* Properties                                                              *)
(***************************************************************************)
\* The vector never ends with an empty bitset, whatever mix of updates made
\* it: the derived equality compares vectors, and callers compare bitsets.
NoTrailingEmpty == dyn # << >> => ~IsEmptyBits(dyn[Len(dyn)])

\* All queries see one and the same set, the one the updates describe,
\* including bits beyond the end of either operand.
DynMatchesSet ==
    /\ \A bit \in 0 .. MaxBit + WordBits :
        /\ DynTest(dyn, bit) = (bit \in wanted)
        /\ DynNextSet(dyn, bit) = Least({b \in wanted : b >= bit})
    /\ DynFirstSet(dyn) = Least(wanted)
    /\ DynLastSet(dyn) = Greatest(wanted)
    /\ DynIsEmpty(dyn) = (wanted = {})
    /\ DynCountOnes(dyn) = Cardinality(wanted)
    /\ ToSet(DynBitSeq(dyn)) = wanted
    /\ DynFromIter(DynBitSeq(dyn)) = dyn
    /\ \A S \in Others :
        /\ DynIntersectionTop(dyn, Operand(S)) = Greatest(wanted \cap S)
        /\ DynIntersects(dyn, Operand(S)) = (wanted \cap S # {})

-----------------------------------------------------------------------------
(***************************************************************************)
(* The sparse array of ts_array256: a bitset says which indices are        *)
(* occupied, the elements lie packed in a vector, and the place of an      *)
(* element is the rank of its index.  Slots stands for 256 (a whole u8).   *)
(***************************************************************************)
CONSTANTS ArrayWords,   \* words of the occupancy bitset (4 in the code)
          Elements,     \* the values stored
          Absent        \* Option::None

VARIABLES occupied,     \* the bitset
          storage,      \* the packed elements
          entries       \* the array the operations so far should leave

arrayVars == <<occupied, storage, entries>>

Slots == 0 .. ArrayWords * WordBits - 1

ArrayInit == /\ occupied = EmptyBits(ArrayWords)
             /\ storage = << >>
             /\ entries = [i \in Slots |-> Absent]

\* Position in the vector, counted from 1; the bit of idx is set already.
StorageIndex(bs, idx) == Rank(bs, idx)

GetElement(index) == IF TestBit(occupied, index)
              THEN storage[StorageIndex(occupied, index)] ELSE Absent

ReplaceElement(index, element) ==
    /\ TestBit(occupied, index)
    /\ storage' = [storage EXCEPT ![StorageIndex(occupied, index)] = element]
    /\ UNCHANGED occupied

\* The bit is set first, so that the rank counts the new element.
InsertNew(index, element) ==
    /\ ~TestBit(occupied, index)
    /\ occupied' = SetBit(occupied, index)
    /\ storage' = InsertAt(storage, StorageIndex(occupied', index), element)

InsertElement(index, element) ==
    /\ ReplaceElement(index, element) \/ InsertNew(index, element)
    /\ entries' = [entries EXCEPT ![index] = element]

\* The position is computed before the bit goes.
RemoveElement(index) ==
    /\ Len(storage) # 0 /\ TestBit(occupied, index)
    /\ storage' = RemoveAt(storage, StorageIndex(occupied, index))
    /\ occupied' = ClearBit(occupied, index)
    /\ entries' = [entries EXCEPT ![index] = Absent]

ClearArray == /\ occupied' = EmptyBits(ArrayWords)
              /\ storage' = << >>
              /\ entries' = [i \in Slots |-> Absent]

\* iter pairs the k-th set bit with the k-th stored element; iter_after looks
\* every element up.
Iter == [k \in 1 .. Len(storage) |-> <<BitSeq(occupied)[k], storage[k]>>]
IterAfter(n) ==
    LET after == BitsAfter(occupied, n)
    IN  [k \in DOMAIN after |-> <<after[k], storage[StorageIndex(occupied, after[k])]>>]

\* iter_mut visits the elements through the same pairing.
IterMut(element) ==
    /\ storage' = [k \in DOMAIN storage |-> element]
    /\ entries' = [i \in Slots |-> IF entries[i] = Absent THEN Absent ELSE element]
    /\ UNCHANGED occupied

ArrayNext == \/ \E i \in Slots, e \in Elements : InsertElement(i, e)
             \/ \E i \in Slots : RemoveElement(i)
             \/ \E e \in Elements : IterMut(e)
             \/ ClearArray

ArraySpec == ArrayInit /\ [][ArrayNext]_arrayVars

(***************************************************************************)
(* Properties                                                              *)
(***************************************************************************)
\* The packed vector and the ranks stay in step: whatever was inserted,
\* replaced or removed elsewhere, an index finds its own element, and the
\* storage holds one element per set bit (len() trusts it).
ElementsStayInPlace ==
    /\ \A i \in Slots : GetElement(i) = entries[i]
    /\ Len(storage) = CountOnes(occupied)

\* Iterations give every occupied index once, in order, with its element.
IterationsMatch ==
    /\ \A k \in DOMAIN Iter : Iter[k][2] = entries[Iter[k][1]]
    /\ \A j, k \in DOMAIN Iter : j < k => Iter[j][1] < Iter[k][1]
    /\ Len(Iter) = Cardinality({i \in Slots : entries[i] # Absent})
    /\ \A n \in Slots : IterAfter(n) =
        SelectSeq(Iter, LAMBDA entry : entry[1] > n)
=============================================================================
