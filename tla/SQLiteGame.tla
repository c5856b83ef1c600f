----------------------------- MODULE SQLiteGame -----------------------------
(***************************************************************************)
(* What a game keeps in a database file: the tables of SQLiteStorage, the  *)
(* bookkeeping of SQLiteGame and the tables of the game itself, as an      *)
(* image of the file's content.                                            *)
(*                                                                         *)
(* The tables of the game are one row per label with an ID from AutoId;    *)
(* processing a block gives its label's row a fresh ID, so every block is  *)
(* an insert or an update, and the counter of the AutoId changes with it.  *)
(* Undo data is the changeset that SQLite's session extension recorded.    *)
(***************************************************************************)
EXTENDS Blockchain

NextId == "nextid"
Keys == Labels \cup {NextId}

ASSUME KeyAssumption == NextId \notin Labels

\* The "game state" that Game sees: a keyword with the block it stands for.
INITIAL_STATE == [keyword |-> "initial", block |-> NoBlock]
BLOCKHASH_STATE(b) == [keyword |-> "block", block |-> b]

NoRows == [k \in Keys |-> 0]

\* SetupSchema on an empty file.
SetupSchema == [block |-> NoBlock, state |-> INITIAL_STATE, rows |-> NoRows,
                initialised |-> FALSE, undo |-> {}]

-----------------------------------------------------------------------------
(***************************************************************************)
(* The game.                                                               *)
(***************************************************************************)
\* AutoId starts at one; the game has no rows of its own at first.
InitialRows == [NoRows EXCEPT ![NextId] = 1]

\* UpdateState, after which ActiveAutoIds syncs the counter.
UpdateState(rows, l) == [rows EXCEPT ![l] = rows[NextId],
                                     ![NextId] = rows[NextId] + 1]

\* The rows for a block: what a game that started at the genesis block and
\* processed exactly the blocks up to b has.
RowsFor(b) ==
    LET n == Len(b) - Len(Genesis)
        last(l) == {i \in 1 .. n : b[Len(Genesis) + i] = l}
    IN  [k \in Keys |->
            IF k = NextId THEN n + 1
            ELSE IF last(k) = {} THEN 0
            ELSE CHOOSE i \in last(k) : \A j \in last(k) : j <= i]

\* Mutant: the changeset is extracted while the AutoIds are still active.
ExtractChangesetBeforeSync(old, new) ==
    {[key |-> k, from |-> old[k], to |-> new[k]] :
        k \in {l \in Labels : old[l] # new[l]}}

\* The session: what changed in which row.
ExtractChangeset(old, new) ==
    {[key |-> k, from |-> old[k], to |-> new[k]] :
        k \in {l \in Keys : old[l] # new[l]}}

\* The inverted changeset applies if it meets the rows as it left them
\* (AbortOnConflict), and then puts the old values back.
NoConflict(rows, changes) == \A c \in changes : rows[c.key] = c.to

ApplyInverted(rows, changes) ==
    [k \in Keys |-> IF \E c \in changes : c.key = k
                    THEN (CHOOSE c \in changes : c.key = k).from
                    ELSE rows[k]]

-----------------------------------------------------------------------------
(***************************************************************************)
(* SQLiteGame as the game logic of Game.                                   *)
(***************************************************************************)
InitialiseGame(db) ==
    IF db.initialised THEN db
    ELSE [db EXCEPT !.rows = InitialRows, !.initialised = TRUE]

\* The state keyword fits the block that is current in this image, and the
\* game is initialised there, which is itself a CHECK.
CheckCurrentState(db, state) ==
    /\ db.block # NoBlock
    /\ db.block = IF state.keyword = "block" THEN state.block ELSE Genesis
    /\ db.initialised

ProcessForwardRows(db, b) == UpdateState(db.rows, b[Len(b)])

\* The image after block b was processed.
Forward(db, b) ==
    LET new == ProcessForwardRows(db, b) IN
    [db EXCEPT
        !.rows = new,
        !.undo = {r \in @ : r.block # b}
                    \cup {[block |-> b, height |-> Height(b),
                           data |-> ExtractChangeset(db.rows, new)]},
        !.block = b,
        !.state = BLOCKHASH_STATE(b)]

UndoOf(db, b) == {r \in db.undo : r.block = b}

\* The image after block b was detached with the given undo data.
Backwards(db, b, data) ==
    [db EXCEPT !.rows = ApplyInverted(@, data),
               !.undo = @ \ UndoOf(db, b),
               !.block = Parent(b),
               !.state = BLOCKHASH_STATE(Parent(b))]
=============================================================================
