---------------------------- MODULE SerialStore ----------------------------
(***************************************************************************)
(* What the key-value store promises: cells whose content changes by       *)
(* single raw writes, or by transactions that work on a copy and put it in *)
(* place of the content as a whole, or not at all.                         *)
(***************************************************************************)
CONSTANTS Cells,   \* singletons and rows
          Rows,      \* the cells that belong to the table
          Contents,  \* what a cell may hold
          Nothing    \* the content of an empty cell

VARIABLES db,      \* the committed content
          work,    \* the content as the open transaction sees it, else db
          open     \* is a read-write transaction open?

storeVars == <<db, work, open>>

StoreInit ==
    /\ db = [c \in Cells |-> Nothing]
    /\ work = db
    /\ open = FALSE

\* What one operation may do to a content: write or remove a cell, clear the
\* table, or rewrite the rows that are there.
Changes(content) ==
    {[content EXCEPT ![c] = v] : c \in Cells, v \in Contents \union {Nothing}}
    \union {[c \in Cells |-> IF c \in Rows THEN Nothing ELSE content[c]]}
    \union {[c \in Cells |-> IF c \in Rows /\ content[c] # Nothing THEN f[content[c]]
                             ELSE content[c]] : f \in [Contents -> Contents]}

RawChange ==
    /\ ~open
    /\ db' \in Changes(db)
    /\ work' = db'
    /\ UNCHANGED open

Begin == ~open /\ open' = TRUE /\ UNCHANGED <<db, work>>

Change == open /\ work' \in Changes(work) /\ UNCHANGED <<db, open>>

CommitAll == open /\ db' = work /\ open' = FALSE /\ UNCHANGED work

DropAll == open /\ work' = db /\ open' = FALSE /\ UNCHANGED db

StoreNext == RawChange \/ Begin \/ Change \/ CommitAll \/ DropAll

StoreSpec == StoreInit /\ [][StoreNext]_storeVars
=============================================================================
