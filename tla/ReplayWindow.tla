---------------------------- MODULE ReplayWindow ----------------------------
(***************************************************************************)
(* The RFC 6479 replay window of a receive session                         *)
(* (ts_tunnel/src/wireguard/replay.rs) as ReceiveSession::decrypt_one      *)
(* drives it: check the counter, decrypt, and set the counter when the     *)
(* packet is authentic.  The bits live in a ring of NBlocks blocks of      *)
(* BlockBits bits; a block is modelled by the set of its one bits.  The    *)
(* code's masks and shifts are % and \div, because both sizes are powers   *)
(* of two there.                                                           *)
(***************************************************************************)
EXTENDS Naturals

CONSTANTS
    NBlocks,      \* ReplayWindow::N_BLOCKS, 4 in the code
    BlockBits,    \* u64::BITS, 64 in the code
    MaxCounter    \* u64::MAX

ASSUME ReplayAssumption ==
    /\ NBlocks \in Nat \ {0, 1}
    /\ BlockBits \in Nat \ {0}
    /\ MaxCounter \in Nat

Counters == 0 .. MaxCounter

VARIABLES
    last,      \* the newest counter set
    blocks,    \* the ring: block index -> the one bits of the block
    accepted,  \* history: every counter that was accepted
    verdict,   \* what decrypt_one returned for the last packet
    panicked   \* ReplayWindow::set panicked

vars == <<last, blocks, accepted, verdict, panicked>>

-----------------------------------------------------------------------------

WINDOW_SIZE == (NBlocks - 1) * BlockBits

(* Mutant of smallest_valid: one counter too many is let through. *)
smallest_valid_low == IF last >= WINDOW_SIZE THEN last - WINDOW_SIZE ELSE 0

(* last.saturating_sub(WINDOW_SIZE - 1) *)
smallest_valid == IF last >= WINDOW_SIZE - 1 THEN last - (WINDOW_SIZE - 1) ELSE 0

block_idx_unbounded(c) == c \div BlockBits

bit_idx(c) == c % BlockBits

block_idx(c) == block_idx_unbounded(c) % NBlocks

BitSet(b, c) == bit_idx(c) \in b[block_idx(c)]

(* Report whether c is a new value that can be processed. *)
check(c) ==
    \/ c > last
    \/ c >= smallest_valid /\ ~ BitSet(blocks, c)

(* Mutant of AdvanceTo: the clearing loop stops one block short. *)
AdvanceToShort(c) ==
    LET cur_block == block_idx_unbounded(last)
        new_block == block_idx_unbounded(c)
    IN  IF new_block - cur_block >= NBlocks
        THEN [i \in 0 .. NBlocks - 1 |-> {}]
        ELSE [i \in 0 .. NBlocks - 1 |->
                IF \E j \in cur_block + 1 .. new_block - 1 : i = j % NBlocks
                THEN {} ELSE blocks[i]]

(* Entering new blocks clears them: all of them when the ring is lapped. *)
AdvanceTo(c) ==
    LET cur_block == block_idx_unbounded(last)
        new_block == block_idx_unbounded(c)
    IN  IF new_block - cur_block >= NBlocks
        THEN [i \in 0 .. NBlocks - 1 |-> {}]
        ELSE [i \in 0 .. NBlocks - 1 |->
                IF \E j \in cur_block .. new_block - 1 : i = (j + 1) % NBlocks
                THEN {} ELSE blocks[i]]

(* Mark c as seen, or panic if it is too old or already marked. *)
set(c) ==
    LET cleared == IF c > last THEN AdvanceTo(c) ELSE blocks
    IN  IF c < smallest_valid \/ BitSet(cleared, c)
        THEN /\ panicked' = TRUE
             /\ UNCHANGED <<last, blocks, accepted>>
        ELSE /\ last' = IF c > last THEN c ELSE last
             /\ blocks' = [cleared EXCEPT ![block_idx(c)] = @ \cup {bit_idx(c)}]
             /\ accepted' = accepted \cup {c}
             /\ UNCHANGED panicked

-----------------------------------------------------------------------------

Init ==
    /\ last = 0
    /\ blocks = [i \in 0 .. NBlocks - 1 |-> {}]
    /\ accepted = {}
    /\ verdict = FALSE
    /\ panicked = FALSE

(* A transport packet whose counter is c; authentic: the AEAD tag is good. *)
decrypt_one(c, authentic) ==
    /\ ~ panicked
    /\ verdict' = (check(c) /\ authentic)
    /\ IF check(c) /\ authentic
       THEN set(c)
       ELSE UNCHANGED <<last, blocks, accepted, panicked>>

Next == \E c \in Counters, authentic \in BOOLEAN : decrypt_one(c, authentic)

Spec == Init /\ [][Next]_vars

-----------------------------------------------------------------------------

(* Every variable keeps the type of its field or history. *)
TypeOK ==
    /\ last \in Counters
    /\ blocks \in [0 .. NBlocks - 1 -> SUBSET (0 .. BlockBits - 1)]
    /\ accepted \subseteq Counters
    /\ verdict \in BOOLEAN
    /\ panicked \in BOOLEAN

(* set never panics: whatever order counters arrive in, a counter that     *)
(* passed check is inside the window and its bit is clear once the blocks  *)
(* it advances into have been zeroed ("Panics: if check(counter) is        *)
(* false", the only caller being decrypt_one).                             *)
NeverPanics == ~ panicked

(* last is the newest accepted counter. *)
LastIsNewest ==
    /\ \A c \in accepted : c <= last
    /\ last \in accepted \/ (accepted = {} /\ last = 0)

(* The ring holds exactly the last NBlocks blocks of the accepted set, the *)
(* not yet reached tail of the newest block included: no bit survives from *)
(* an earlier lap and none is lost, so zeroing whole blocks gives "exactly *)
(* the same content as in the bit-shift implementation".                   *)
RingExact ==
    \A c \in Counters :
        /\ block_idx_unbounded(c) <= block_idx_unbounded(last)
        /\ block_idx_unbounded(last) < block_idx_unbounded(c) + NBlocks
        => (BitSet(blocks, c) <=> c \in accepted)

(* The window implements the abstract tracker: each packet gets the        *)
(* verdict that remembering every accepted counter would give it.          *)
AR == INSTANCE AntiReplay WITH WindowSize <- WINDOW_SIZE, seen <- accepted

ImplementsAntiReplay == AR!Spec

=============================================================================
