--------------------------- MODULE StorageProofs ---------------------------
(***************************************************************************)
(* Proofs about the storages that survive the process (GameStorage): for   *)
(* every set of labels, genesis block, batch size and map size, what is in *)
(* the tables of the game is the state of the block recorded as current,   *)
(* undo data takes the state back, and RPC threads read the block they     *)
(* report.                                                                 *)
(*                                                                         *)
(* The argument has three layers.  An image of the file is good if its     *)
(* rows are those of its block and every row of undo data is the changeset *)
(* from a parent to its child; processing, undoing and pruning blocks      *)
(* keeps images good.  A store is good if its images are and nothing but   *)
(* the open batch is in its transaction; the operations of the             *)
(* TransactionManager keep it so, on each of the backends.  The phases of  *)
(* Game say which of these hold while it reinitialises.                    *)
(***************************************************************************)
EXTENDS GameStorage, BlockchainLemmas, WellFoundedInduction, NaturalsInduction

-----------------------------------------------------------------------------
(***************************************************************************)
(* The invariant.                                                          *)
(***************************************************************************)
Changes == [key : Keys, from : Nat, to : Nat]

UndoRows == [block : Seq(Labels) \ {<<>>}, height : Nat, data : SUBSET Changes]

States == [keyword : {"initial", "block"}, block : Seq(Labels) \cup {NoBlock}]

Images == [block : Seq(Labels) \cup {NoBlock}, state : States,
           rows : [Keys -> Nat], initialised : BOOLEAN,
           undo : SUBSET UndoRows]

\* The changeset of the step from the parent of a block to the block.
ChangesetOf(b) == ExtractChangeset(RowsFor(Parent(b)), RowsFor(b))

GoodUndo(r) == OnChain(Genesis, Parent(r.block)) /\ r.data = ChangesetOf(r.block)

GoodImage(db) ==
    /\ db \in Images
    /\ \A r \in db.undo : GoodUndo(r)
    /\ db.block # NoBlock => OnChain(Genesis, db.block)
    /\ Consistent(db)
    /\ (db.initialised /\ db.block = NoBlock) => db.rows = InitialRows

Stores == [disk : Images, view : Images, saves : Seq(Images),
           started : BOOLEAN, map : Nat, needsResize : BOOLEAN,
           batched : Nat, batchSize : Nat]

\* All that is left when an exception ends the process.
UsableStore(s) ==
    /\ s \in Stores
    /\ GoodImage(s.disk) /\ GoodImage(s.view)
    /\ s.map >= 2

\* What is not on disk is an open batch; on SQLite the batch has one
\* savepoint, on LMDB the write transaction.
GoodStore(s, lmdb) ==
    /\ UsableStore(s)
    /\ ~s.needsResize
    /\ s.batched < s.batchSize
    /\ s.batched = 0 => s.view = s.disk
    /\ IF lmdb THEN s.started <=> s.batched > 0
       ELSE s.saves = IF s.batched > 0 THEN <<s.disk>> ELSE <<>>

\* After TryAbortTransaction: a savepoint may still be open.
AbortedStore(s, lmdb) ==
    /\ UsableStore(s)
    /\ ~s.needsResize
    /\ s.batched = 0 /\ s.batched < s.batchSize
    /\ s.view = s.disk
    /\ lmdb => ~s.started

ReaderRecords == [busy : BOOLEAN, block : Seq(Labels) \cup {NoBlock},
                  rows : [Keys -> Nat], valid : BOOLEAN]

Phases == {"run", "pruning", "reinit", "dropping", "clearing", "cleared",
           "initial", "down", "terminated"}

TypeInv ==
    /\ backend \in {"sqlite", "sqlite no WAL", "lmdb"}
    /\ phase \in Phases
    /\ mode \in {"CATCHING_UP", "UP_TO_DATE"}
    /\ tip \in Seq(Labels)
    /\ mode = "CATCHING_UP" => target \in Seq(Labels)
    /\ reader \in [Readers -> ReaderRecords]

StoreInv ==
    IF phase = "terminated" THEN UsableStore(store)
    ELSE IF phase \in {"dropping", "clearing"} THEN AbortedStore(store, Lmdb)
    ELSE GoodStore(store, Lmdb)

PhaseInv ==
    /\ phase \in {"run", "pruning"} =>
          /\ store.view.block # NoBlock
          /\ mode = "UP_TO_DATE" => store.batchSize = 1
    /\ phase \in {"cleared", "initial"} => store.view.block = NoBlock
    /\ phase \in {"cleared", "initial", "down"} => store.batched = 0
    /\ (phase = "initial" /\ ~Lmdb) => store.view.initialised

StorageInv == TypeInv /\ StoreInv /\ PhaseInv /\ ReadersSeeTheirBlock

-----------------------------------------------------------------------------
(***************************************************************************)
(* The rows of a block.                                                    *)
(***************************************************************************)
\* A set of natural numbers has a least element (the form of induction used
\* here).
LEMMA LeastOf ==
    ASSUME NEW T, T \subseteq Nat, T # {}
    PROVE  \E x \in T : \A y \in T : x <= y
<1>1. PICK x \in T : \A y \in T : ~(<<y, x>> \in OpToRel(<, Nat))
  BY WFMin, NatLessThanWellFounded, Zenon
<1>2. \A y \in T : y < x => <<y, x>> \in OpToRel(<, Nat)
  BY DEF OpToRel
<1>3. \A y \in T : ~(y < x)
  BY <1>1, <1>2, Zenon
<1>4. QED
  BY <1>3

\* The greatest of some of the numbers from 1 to n is one of them.
LEMMA GreatestOf ==
    ASSUME NEW n \in Nat, NEW T, T \subseteq 1..n, T # {}
    PROVE  LET m == CHOOSE i \in T : \A j \in T : j <= i
           IN  m \in T /\ \A j \in T : j <= m
<1> DEFINE U == {m \in Nat : \A j \in T : j <= m}
<1>1. U \subseteq Nat /\ n \in U
  OBVIOUS
<1>2. PICK m \in U : \A y \in U : m <= y
  BY <1>1, LeastOf
<1>3. m \in T
  <2>1. SUFFICES ASSUME m \notin T PROVE FALSE
    OBVIOUS
  <2>2. \A j \in T : j < m /\ j \in Nat /\ 1 <= j
    BY <1>2, <2>1
  <2>3. PICK t \in T : TRUE
    OBVIOUS
  <2>4. m \in Nat /\ m - 1 \in Nat
    BY <1>2, <2>2, <2>3
  <2>5. \A j \in T : j <= m - 1
    BY <2>2, <2>4
  <2>6. QED
    BY <1>2, <2>4, <2>5
<1>4. \E i \in T : \A j \in T : j <= i
  BY <1>2, <1>3
<1>5. QED
  BY <1>4

\* The position of the last block since the genesis block with a label.
LastOf(b, k) ==
    LET last == {i \in 1 .. (Len(b) - Len(Genesis)) : b[Len(Genesis) + i] = k}
    IN  IF last = {} THEN 0 ELSE CHOOSE i \in last : \A j \in last : j <= i

\* The rows are numbers: the next ID counts the blocks since the genesis
\* block, the row of a label has the position of its last block.
LEMMA RowsParts ==
    ASSUME NEW b \in Seq(Labels), OnChain(Genesis, b)
    PROVE  /\ RowsFor(b) \in [Keys -> Nat]
           /\ RowsFor(b)[NextId] = Len(b) - Len(Genesis) + 1
           /\ \A k \in Labels : RowsFor(b)[k] = LastOf(b, k)
<1> DEFINE n == Len(b) - Len(Genesis)
           last(k) == {i \in 1..n : b[Len(Genesis) + i] = k}
<1>1. Len(b) \in Nat /\ Len(Genesis) \in Nat /\ Len(Genesis) <= Len(b)
  BY BlockchainAssumption, LenProperties DEF OnChain
<1>2. n \in Nat /\ n + 1 \in Nat
  BY <1>1
<1>3. \A k : LastOf(b, k) \in Nat
  <2>1. TAKE k
  <2>2. last(k) \subseteq 1..n
    OBVIOUS
  <2>3. CASE last(k) = {}
    BY <2>3 DEF LastOf
  <2>4. CASE last(k) # {}
    <3> DEFINE T == last(k)
               m == CHOOSE i \in T : \A j \in T : j <= i
    <3>1. LastOf(b, k) = m
      BY <2>4 DEF LastOf
    <3>2. T \subseteq 1..n /\ T # {}
      BY <2>2, <2>4
    <3> HIDE DEF T, n
    <3>3. m \in T
      BY <1>2, <3>2, GreatestOf
    <3> HIDE DEF m
    <3>4. m \in Nat
      BY <1>2, <3>2, <3>3
    <3>5. QED
      BY <3>1, <3>4
  <2>5. QED
    BY <2>3, <2>4
<1>4. RowsFor(b) = [k \in Keys |-> IF k = NextId THEN n + 1 ELSE LastOf(b, k)]
  BY DEF RowsFor, LastOf
<1>5. NextId \in Keys /\ Labels \subseteq Keys /\ \A k \in Labels : k # NextId
  BY KeyAssumption DEF Keys
<1> HIDE DEF n
<1>6. QED
  BY <1>2, <1>3, <1>4, <1>5 DEF n

\* What a game has before any block.
LEMMA RowsOfGenesis == OnChain(Genesis, Genesis) /\ RowsFor(Genesis) = InitialRows
<1>1. Genesis \in Seq(Labels) /\ Len(Genesis) \in Nat
  BY BlockchainAssumption, LenProperties
<1>2. OnChain(Genesis, Genesis)
  BY <1>1, OnChainParts
<1>3. \A k : LastOf(Genesis, k) = 0
  <2>1. 1 .. (Len(Genesis) - Len(Genesis)) = {}
    BY <1>1
  <2>2. QED
    BY <2>1 DEF LastOf
<1>4. /\ RowsFor(Genesis) \in [Keys -> Nat]
      /\ RowsFor(Genesis)[NextId] = 1
      /\ \A k \in Labels : RowsFor(Genesis)[k] = 0
  BY <1>1, <1>2, <1>3, RowsParts
<1>5. QED
  BY <1>2, <1>4, KeyAssumption DEF InitialRows, NoRows, Keys

\* Processing a block takes the rows of its parent to its own.
LEMMA RowsOfChild ==
    ASSUME NEW c \in Seq(Labels) \ {<<>>}, OnChain(Genesis, Parent(c))
    PROVE  /\ OnChain(Genesis, c)
           /\ RowsFor(c) = UpdateState(RowsFor(Parent(c)), c[Len(c)])
           /\ RowsFor(c) \in [Keys -> Nat]
           /\ RowsFor(Parent(c)) \in [Keys -> Nat]
<1> DEFINE a == Parent(c)
           l == c[Len(c)]
           g == Len(Genesis)
           n == Len(a) - g
<1>1. /\ a \in Seq(Labels) /\ Len(a) = Len(c) - 1 /\ Len(c) \in Nat \ {0}
      /\ l \in Labels
  BY ParentType
<1>2. Genesis \in Seq(Labels) /\ g \in Nat /\ g <= Len(a)
  BY BlockchainAssumption, LenProperties DEF OnChain
<1>3. OnChain(Genesis, c)
  BY <1>2, OnChainOfParent
<1>4. \A i \in 1..Len(a) : a[i] = c[i]
  <2>1. Len(c) - 1 \in 0..Len(c) /\ c \in Seq(Labels)
    BY <1>1
  <2>2. \A i \in 1..(Len(c) - 1) : Prefix(c, Len(c) - 1)[i] = c[i]
    BY <2>1, PrefixParts
  <2>3. QED
    BY <1>1, <2>2 DEF Parent
<1>5. n \in Nat /\ Len(c) - g = n + 1 /\ g + (n + 1) = Len(c) /\ Len(a) \in Nat
  BY <1>1, <1>2
<1>6. \A i \in 1..n : g + i \in 1..Len(a)
  BY <1>2, <1>5
<1>7. \A i \in 1..n : a[g + i] = c[g + i]
  BY <1>4, <1>6
<1> HIDE DEF a, l, g, n
<1>8. \A k \in Labels : LastOf(c, k) = IF k = l THEN n + 1 ELSE LastOf(a, k)
  <2>1. TAKE k \in Labels
  <2> DEFINE old == {i \in 1..n : a[g + i] = k}
             new == {i \in 1..(n + 1) : c[g + i] = k}
  <2>2. LastOf(a, k) = IF old = {} THEN 0
                       ELSE CHOOSE i \in old : \A j \in old : j <= i
    BY DEF LastOf, n, g
  <2>3. LastOf(c, k) = IF new = {} THEN 0
                       ELSE CHOOSE i \in new : \A j \in new : j <= i
    <3>1. Len(c) - Len(Genesis) = n + 1
      BY <1>5 DEF g
    <3> DEFINE T == {i \in 1 .. (Len(c) - Len(Genesis)) : c[Len(Genesis) + i] = k}
    <3>2. LastOf(c, k) = IF T = {} THEN 0
                         ELSE CHOOSE i \in T : \A j \in T : j <= i
      BY DEF LastOf
    <3>3. T = new
      BY <3>1 DEF g
    <3> HIDE DEF T, new
    <3>4. QED
      BY <3>2, <3>3
  <2>4. c[g + (n + 1)] = l
    BY <1>5 DEF l
  <2>5. CASE k # l
    <3>1. new = old
      BY <1>5, <1>7, <2>4, <2>5
    <3> HIDE DEF old, new
    <3>2. QED
      BY <2>2, <2>3, <2>5, <3>1
  <2>6. CASE k = l
    <3>1. n + 1 \in new /\ new \subseteq 1..(n + 1) /\ n + 1 \in Nat
      BY <1>5, <2>4, <2>6
    <3> DEFINE m == CHOOSE i \in new : \A j \in new : j <= i
    <3> HIDE DEF new
    <3>2. m \in new /\ \A j \in new : j <= m
      BY <3>1, GreatestOf
    <3> HIDE DEF m
    <3>3. m = n + 1
      BY <1>5, <3>1, <3>2
    <3>4. new # {}
      BY <3>1
    <3>5. QED
      BY <2>3, <2>6, <3>3, <3>4 DEF m
  <2>7. QED
    BY <2>5, <2>6
<1>9. /\ RowsFor(c) \in [Keys -> Nat] /\ RowsFor(c)[NextId] = n + 1 + 1
      /\ \A k \in Labels : RowsFor(c)[k] = LastOf(c, k)
  BY <1>3, <1>5, RowsParts DEF g
<1>10. /\ RowsFor(a) \in [Keys -> Nat] /\ RowsFor(a)[NextId] = n + 1
       /\ \A k \in Labels : RowsFor(a)[k] = LastOf(a, k)
  BY <1>1, RowsParts DEF a, n, g
<1>11. RowsFor(c) = UpdateState(RowsFor(a), l)
  <2>1. /\ Keys = Labels \cup {NextId} /\ NextId \notin Labels
        /\ NextId \in Keys /\ l \in Keys /\ l # NextId
    BY <1>1, KeyAssumption DEF Keys
  <2> DEFINE u == UpdateState(RowsFor(a), l)
  <2>2. /\ u \in [Keys -> Nat] /\ u[NextId] = n + 1 + 1 /\ u[l] = n + 1
        /\ \A k \in Keys : (k # l /\ k # NextId) => u[k] = RowsFor(a)[k]
    BY <1>5, <1>10, <2>1 DEF UpdateState
  <2> HIDE DEF u
  <2>3. \A k \in Keys : u[k] = RowsFor(c)[k]
    BY <1>1, <1>8, <1>9, <1>10, <2>1, <2>2
  <2>4. QED
    BY <1>9, <2>2, <2>3 DEF u
<1>12. QED
  BY <1>3, <1>9, <1>10, <1>11 DEF a, l

-----------------------------------------------------------------------------
(***************************************************************************)
(* Undo data.                                                              *)
(***************************************************************************)
\* The inverted changeset meets the new rows without a conflict and gives
\* the old ones.
LEMMA ChangesetInverts ==
    ASSUME NEW old \in [Keys -> Nat], NEW new \in [Keys -> Nat]
    PROVE  LET data == ExtractChangeset(old, new)
           IN  /\ data \subseteq Changes
               /\ NoConflict(new, data)
               /\ ApplyInverted(new, data) = old
<1> DEFINE data == ExtractChangeset(old, new)
<1>1. \A c \in data : /\ c \in Changes /\ c.key \in Keys
                      /\ c.from = old[c.key] /\ c.to = new[c.key]
  BY DEF ExtractChangeset, Changes
<1>2. \A k \in Keys : old[k] # new[k] => \E c \in data : c.key = k
  <2>1. TAKE k \in Keys
  <2>2. HAVE old[k] # new[k]
  <2>3. [key |-> k, from |-> old[k], to |-> new[k]] \in data
    BY <2>2 DEF ExtractChangeset
  <2>4. QED
    BY <2>3
<1> HIDE DEF data
<1>3. NoConflict(new, data)
  BY <1>1 DEF NoConflict
<1>4. \A k \in Keys : ApplyInverted(new, data)[k] = old[k]
  BY <1>1, <1>2 DEF ApplyInverted
<1>5. ApplyInverted(new, data) = old
  BY <1>4 DEF ApplyInverted
<1>6. QED
  BY <1>1, <1>3, <1>5 DEF data

\* Good undo data takes the rows of a block to those of its parent.
LEMMA UndoRestores ==
    ASSUME NEW r \in UndoRows, GoodUndo(r)
    PROVE  /\ NoConflict(RowsFor(r.block), r.data)
           /\ ApplyInverted(RowsFor(r.block), r.data) = RowsFor(Parent(r.block))
<1>1. r.block \in Seq(Labels) \ {<<>>}
  BY DEF UndoRows
<1>2. /\ RowsFor(r.block) \in [Keys -> Nat]
      /\ RowsFor(Parent(r.block)) \in [Keys -> Nat]
  BY <1>1, RowsOfChild DEF GoodUndo
<1>3. QED
  BY <1>2, ChangesetInverts DEF GoodUndo, ChangesetOf

-----------------------------------------------------------------------------
(***************************************************************************)
(* Images.                                                                 *)
(***************************************************************************)
\* A new file.
LEMMA SetupSchemaGood == GoodImage(SetupSchema) /\ SetupSchema.block = NoBlock
<1>1. NoRows \in [Keys -> Nat]
  BY DEF NoRows
<1>2. INITIAL_STATE \in States
  BY DEF INITIAL_STATE, States
<1>3. \A b \in BOOLEAN, u \in SUBSET UndoRows :
        [block |-> NoBlock, state |-> INITIAL_STATE, rows |-> NoRows,
         initialised |-> b, undo |-> u] \in Images
  BY <1>1, <1>2 DEF Images
<1>4. SetupSchema \in Images
  <2>1. FALSE \in BOOLEAN /\ {} \in SUBSET UndoRows
    OBVIOUS
  <2>2. QED
    BY <1>3, <2>1, Zenon DEF SetupSchema
<1>5. SetupSchema.block = NoBlock /\ SetupSchema.undo = {} /\ ~SetupSchema.initialised
  BY DEF SetupSchema
<1>6. QED
  BY <1>4, <1>5 DEF GoodImage, Consistent

\* What SQLiteGame::GetInitialStateInternal leaves.
LEMMA InitialiseGood ==
    ASSUME NEW db, GoodImage(db), db.block = NoBlock
    PROVE  /\ GoodImage(InitialiseGame(db))
           /\ InitialiseGame(db).block = NoBlock
           /\ InitialiseGame(db).initialised
<1> DEFINE y(b) == [db EXCEPT !.rows = InitialRows, !.initialised = b]
<1>1. InitialRows \in [Keys -> Nat] /\ db \in Images
  BY DEF InitialRows, NoRows, Keys, GoodImage
<1>2. \A b \in BOOLEAN : /\ y(b) \in Images /\ y(b).block = NoBlock
                         /\ y(b).rows = InitialRows /\ y(b).undo = db.undo
                         /\ y(b).initialised = b
  BY <1>1 DEF Images
<1>3. CASE db.initialised
  BY <1>3 DEF InitialiseGame
<1>4. CASE ~db.initialised
  <2> DEFINE x == InitialiseGame(db)
  <2>1. x = y(TRUE)
    BY <1>4 DEF InitialiseGame
  <2> HIDE DEF x, y
  <2>2. /\ x \in Images /\ x.block = NoBlock /\ x.rows = InitialRows
        /\ x.undo = db.undo /\ x.initialised = TRUE
    BY <1>2, <2>1, Zenon
  <2>3. GoodImage(x) /\ x.initialised
    BY <2>2 DEF GoodImage, Consistent
  <2>4. QED
    BY <2>2, <2>3 DEF x
<1>5. QED
  BY <1>3, <1>4

\* A state of the game as it is stored for a block.
LEMMA StoredStates ==
    /\ INITIAL_STATE \in States
    /\ \A b \in Seq(Labels) : BLOCKHASH_STATE(b) \in States
    /\ \A db : (db.block = Genesis /\ db.initialised) =>
          CheckCurrentState(db, INITIAL_STATE)
    /\ \A db : \A b \in Seq(Labels) : (db.block = b /\ db.initialised) =>
          CheckCurrentState(db, BLOCKHASH_STATE(b))
<1>1. \A b \in Seq(Labels) : b # NoBlock
  BY BlockchainAssumption
<1>2. INITIAL_STATE \in States /\ INITIAL_STATE.keyword = "initial"
  BY DEF INITIAL_STATE, States
<1>3. \A b \in Seq(Labels) : /\ BLOCKHASH_STATE(b) \in States
                             /\ BLOCKHASH_STATE(b).keyword = "block"
                             /\ BLOCKHASH_STATE(b).block = b
  BY DEF BLOCKHASH_STATE, States
<1>4. QED
  BY <1>1, <1>2, <1>3, BlockchainAssumption DEF CheckCurrentState

\* The initial state, stored for the genesis block.
LEMMA GenesisGood ==
    ASSUME NEW db, GoodImage(db), NEW rows, rows = InitialRows,
           NEW flag \in BOOLEAN, flag
    PROVE  LET new == [db EXCEPT !.block = Genesis, !.state = INITIAL_STATE,
                                 !.rows = rows, !.initialised = flag]
           IN  GoodImage(new) /\ new.block = Genesis
<1> DEFINE new == [db EXCEPT !.block = Genesis, !.state = INITIAL_STATE,
                             !.rows = rows, !.initialised = flag]
<1>1. /\ InitialRows \in [Keys -> Nat] /\ db \in Images /\ Genesis \in Seq(Labels)
      /\ Genesis # NoBlock /\ INITIAL_STATE \in States
  BY BlockchainAssumption, StoredStates DEF InitialRows, NoRows, Keys, GoodImage
<1>2. /\ new \in Images /\ new.block = Genesis /\ new.rows = InitialRows
      /\ new.undo = db.undo /\ new.state = INITIAL_STATE /\ new.initialised
  BY <1>1 DEF Images
<1> HIDE DEF new
<1>3. QED
  BY <1>1, <1>2, RowsOfGenesis, StoredStates DEF GoodImage, Consistent, new

\* UpdateStateForAttach: the image of a child.
LEMMA ForwardGood ==
    ASSUME NEW db, GoodImage(db), NEW c \in Seq(Labels) \ {<<>>}, Parent(c) = db.block,
           db.block # NoBlock
    PROVE  GoodImage(Forward(db, c)) /\ Forward(db, c).block = c
<1> DEFINE new == ProcessForwardRows(db, c)
           row == [block |-> c, height |-> Height(c),
                   data |-> ExtractChangeset(db.rows, new)]
           undo == {r \in db.undo : r.block # c} \cup {row}
           x == Forward(db, c)
<1>1. /\ db \in Images /\ OnChain(Genesis, db.block) /\ db.rows = RowsFor(db.block)
      /\ db.undo \subseteq UndoRows /\ \A r \in db.undo : GoodUndo(r)
  BY DEF GoodImage, Consistent, Images
<1>2. /\ OnChain(Genesis, c) /\ new = RowsFor(c) /\ new \in [Keys -> Nat]
      /\ db.rows \in [Keys -> Nat]
  BY <1>1, RowsOfChild DEF ProcessForwardRows
<1>3. c \in Seq(Labels) /\ c # NoBlock /\ Height(c) \in Nat
  BY BlockchainAssumption, LenProperties DEF Height
<1> HIDE DEF new
<1>4. row \in UndoRows /\ row.block = c /\ row.data = ExtractChangeset(db.rows, new)
  BY <1>2, <1>3, ChangesetInverts DEF UndoRows
<1> HIDE DEF row
<1>5. GoodUndo(row)
  BY <1>1, <1>2, <1>4 DEF GoodUndo, ChangesetOf
<1>6. undo \subseteq UndoRows /\ \A r \in undo : GoodUndo(r)
  BY <1>1, <1>4, <1>5
<1>7. x = [db EXCEPT !.rows = new, !.undo = undo, !.block = c,
                     !.state = BLOCKHASH_STATE(c)]
  BY DEF Forward, new, row
<1> HIDE DEF undo, x
<1>8. BLOCKHASH_STATE(c) \in States
  BY <1>3, StoredStates
<1>9. /\ x \in Images /\ x.block = c /\ x.rows = new /\ x.undo = undo
      /\ x.state = BLOCKHASH_STATE(c) /\ x.initialised
  <2>1. db.initialised
    BY DEF GoodImage, Consistent, CheckCurrentState
  <2>2. QED
    BY <1>1, <1>2, <1>3, <1>6, <1>7, <1>8, <2>1 DEF Images
<1>10. QED
  BY <1>2, <1>3, <1>6, <1>9, StoredStates DEF GoodImage, Consistent, x

\* UpdateStateForDetach: the image of the parent.  The undo data that is
\* stored for the current block meets no conflict.
LEMMA BackwardsGood ==
    ASSUME NEW db, GoodImage(db), db.block # NoBlock, NEW r \in UndoOf(db, db.block)
    PROVE  /\ NoConflict(db.rows, r.data)
           /\ GoodImage(Backwards(db, db.block, r.data))
           /\ Backwards(db, db.block, r.data).block # NoBlock
<1> DEFINE b == db.block
           x == Backwards(db, b, r.data)
           undo == db.undo \ UndoOf(db, b)
           rows == ApplyInverted(db.rows, r.data)
<1>1. /\ db \in Images /\ db.rows = RowsFor(b)
      /\ db.undo \subseteq UndoRows /\ \A q \in db.undo : GoodUndo(q)
  BY DEF GoodImage, Consistent, Images
<1>2. r \in UndoRows /\ GoodUndo(r) /\ r.block = b
  BY <1>1 DEF UndoOf
<1>3. b \in Seq(Labels) \ {<<>>} /\ OnChain(Genesis, Parent(b))
  BY <1>2 DEF UndoRows, GoodUndo
<1>4. Parent(b) \in Seq(Labels) /\ Parent(b) # NoBlock
  BY <1>3, ParentType, BlockchainAssumption
<1>5. NoConflict(db.rows, r.data) /\ rows = RowsFor(Parent(b))
  BY <1>1, <1>2, UndoRestores
<1>6. rows \in [Keys -> Nat]
  BY <1>3, <1>5, RowsOfChild
<1>7. undo \subseteq UndoRows /\ \A q \in undo : GoodUndo(q)
  BY <1>1
<1>8. x = [db EXCEPT !.rows = rows, !.undo = undo, !.block = Parent(b),
                     !.state = BLOCKHASH_STATE(Parent(b))]
  BY DEF Backwards
<1> HIDE DEF b, undo, x, rows
<1>9. BLOCKHASH_STATE(Parent(b)) \in States
  BY <1>4, StoredStates
<1>10. /\ x \in Images /\ x.block = Parent(b) /\ x.rows = rows /\ x.undo = undo
       /\ x.state = BLOCKHASH_STATE(Parent(b)) /\ x.initialised
  <2>1. db.initialised
    BY DEF GoodImage, Consistent, CheckCurrentState, b
  <2>2. QED
    BY <1>1, <1>4, <1>6, <1>7, <1>8, <1>9, <2>1 DEF Images
<1>11. GoodImage(x) /\ x.block # NoBlock
  BY <1>3, <1>4, <1>5, <1>7, <1>10, StoredStates DEF GoodImage, Consistent
<1>12. QED
  BY <1>5, <1>11 DEF b, x

\* Pruning keeps the block and its state, on each backend.
LEMMA PruneGood ==
    ASSUME NEW db, GoodImage(db), NEW h
    PROVE  GoodImage(PruneUndoData(db, h)) /\ PruneUndoData(db, h).block = db.block
<1>1. db \in Images
  BY DEF GoodImage
<1>2. ASSUME NEW undo, undo \subseteq db.undo
      PROVE  LET x == [db EXCEPT !.undo = undo]
             IN  GoodImage(x) /\ x.block = db.block
  <2> DEFINE x == [db EXCEPT !.undo = undo]
  <2>1. /\ x \in Images /\ x.block = db.block /\ x.rows = db.rows /\ x.undo = undo
        /\ x.state = db.state /\ x.initialised = db.initialised
    BY <1>1, <1>2 DEF Images
  <2> HIDE DEF x
  <2>2. QED
    BY <1>2, <2>1 DEF GoodImage, Consistent, CheckCurrentState, x
<1> DEFINE kept == {r \in db.undo : r.height > h}
           left == db.undo \ {r \in db.undo : r.height <= h}
<1>3. kept \subseteq db.undo /\ left \subseteq db.undo
  OBVIOUS
<1>4. PruneUndoData(db, h) = IF Lmdb THEN [db EXCEPT !.undo = left]
                             ELSE [db EXCEPT !.undo = kept]
  BY DEF PruneUndoData, LMDB!PruneUndoData, SQLite!PruneUndoData
<1> HIDE DEF kept, left
<1>5. QED
  BY <1>2, <1>3, <1>4

-----------------------------------------------------------------------------
(***************************************************************************)
(* Stores.  An open transaction is the state in which images are written.  *)
(***************************************************************************)
OpenStore(s, lmdb) ==
    /\ UsableStore(s)
    /\ ~s.needsResize
    /\ IF lmdb THEN s.started ELSE s.saves = <<s.disk>>

\* A write or a commit that threw RetryWithNewTransaction.
FailedStore(s) == UsableStore(s) /\ s.needsResize

WithStarted(s, b) == [s EXCEPT !.started = b]

WithResize(s, b) == [s EXCEPT !.needsResize = b]

LEMMA WithStartedFields ==
    ASSUME NEW s \in Stores, NEW b \in BOOLEAN
    PROVE  LET t == WithStarted(s, b)
           IN  /\ t \in Stores /\ t.disk = s.disk /\ t.view = s.view
               /\ t.saves = s.saves /\ t.started = b /\ t.map = s.map
               /\ t.needsResize = s.needsResize
               /\ t.batched = s.batched /\ t.batchSize = s.batchSize
  BY DEF Stores, WithStarted

LEMMA WithResizeFields ==
    ASSUME NEW s \in Stores, NEW b \in BOOLEAN
    PROVE  LET t == WithResize(s, b)
           IN  /\ t \in Stores /\ t.disk = s.disk /\ t.view = s.view
               /\ t.saves = s.saves /\ t.started = s.started /\ t.map = s.map
               /\ t.needsResize = b
               /\ t.batched = s.batched /\ t.batchSize = s.batchSize
  BY DEF Stores, WithResize

\* The field types of a store.
LEMMA StoreTypes ==
    ASSUME NEW s \in Stores
    PROVE  /\ s.disk \in Images /\ s.view \in Images /\ s.saves \in Seq(Images)
           /\ s.started \in BOOLEAN /\ s.map \in Nat /\ s.needsResize \in BOOLEAN
           /\ s.batched \in Nat /\ s.batchSize \in Nat
  BY DEF Stores

-----------------------------------------------------------------------------
(***************************************************************************)
(* The operations of the two storages.                                     *)
(***************************************************************************)
LEMMA SavepointFields ==
    ASSUME NEW s \in Stores
    PROVE  LET t == SQLite!Savepoint(s)
           IN  /\ t \in Stores /\ t.disk = s.disk /\ t.view = s.view
               /\ t.saves = Append(s.saves, s.view) /\ t.map = s.map
               /\ t.needsResize = s.needsResize
               /\ t.batched = s.batched /\ t.batchSize = s.batchSize
<1> DEFINE q == Append(s.saves, s.view)
           t == [s EXCEPT !.saves = q]
<1>1. q \in Seq(Images)
  BY StoreTypes, AppendProperties
<1>2. SQLite!Savepoint(s) = t
  BY DEF SQLite!Savepoint
<1> HIDE DEF q
<1>3. /\ t \in Stores /\ t.disk = s.disk /\ t.view = s.view
      /\ t.saves = q /\ t.map = s.map
      /\ t.needsResize = s.needsResize
      /\ t.batched = s.batched /\ t.batchSize = s.batchSize
  BY <1>1 DEF Stores
<1>4. QED
  BY <1>2, <1>3 DEF q

LEMMA ExecuteFields ==
    ASSUME NEW s \in Stores, NEW db \in Images
    PROVE  LET t == SQLite!Execute(s, db)
           IN  /\ t \in Stores /\ t.disk = (IF s.saves = <<>> THEN db ELSE s.disk)
               /\ t.view = db /\ t.saves = s.saves /\ t.map = s.map
               /\ t.needsResize = s.needsResize
               /\ t.batched = s.batched /\ t.batchSize = s.batchSize
<1> DEFINE d == IF s.saves = <<>> THEN db ELSE s.disk
           t == [s EXCEPT !.view = db, !.disk = d]
<1>1. d \in Images
  BY StoreTypes
<1>2. SQLite!Execute(s, db) = t
  BY DEF SQLite!Execute
<1> HIDE DEF d
<1>3. /\ t \in Stores /\ t.disk = d /\ t.view = db
      /\ t.saves = s.saves /\ t.map = s.map
      /\ t.needsResize = s.needsResize
      /\ t.batched = s.batched /\ t.batchSize = s.batchSize
  BY <1>1 DEF Stores
<1>4. QED
  BY <1>2, <1>3 DEF d

LEMMA ReleaseFields ==
    ASSUME NEW s \in Stores, s.saves # <<>>
    PROVE  LET t == SQLite!Release(s)
           IN  /\ t \in Stores /\ t.disk = (IF Len(s.saves) = 1 THEN s.view ELSE s.disk)
               /\ t.view = s.view /\ t.saves = SQLite!Front(s.saves) /\ t.map = s.map
               /\ t.needsResize = s.needsResize
               /\ t.batched = s.batched /\ t.batchSize = s.batchSize
<1> DEFINE d == IF Len(s.saves) = 1 THEN s.view ELSE s.disk
           q == SQLite!Front(s.saves)
           t == [s EXCEPT !.saves = q, !.disk = d]
<1>1. d \in Images
  BY StoreTypes
<1>2. q \in Seq(Images)
  <2>1. s.saves \in Seq(Images) /\ Len(s.saves) \in Nat \ {0}
    BY StoreTypes, EmptySeq
  <2>2. /\ 1 \in Int /\ Len(s.saves) - 1 \in Int
        /\ \A i \in 1 .. (Len(s.saves) - 1) : s.saves[i] \in Images
    BY <2>1, ElementOfSeq
  <2>3. QED
    BY <2>1, <2>2, SubSeqProperties DEF SQLite!Front
<1>3. SQLite!Release(s) = t
  BY DEF SQLite!Release
<1> HIDE DEF d, q
<1>4. /\ t \in Stores /\ t.disk = d /\ t.view = s.view
      /\ t.saves = q /\ t.map = s.map
      /\ t.needsResize = s.needsResize
      /\ t.batched = s.batched /\ t.batchSize = s.batchSize
  BY <1>1, <1>2 DEF Stores
<1>5. QED
  BY <1>3, <1>4 DEF d, q

\* A stack of savepoints with one entry.
LEMMA OneSavepoint ==
    ASSUME NEW i
    PROVE  /\ Append(<<>>, i) = <<i>> /\ <<i>> # <<>> /\ Len(<<i>>) = 1
           /\ SQLite!Front(<<i>>) = <<>> /\ SQLite!Last(<<i>>) = i
  BY DEF SQLite!Front, SQLite!Last

LEMMA TwoSavepoints ==
    ASSUME NEW i, NEW j
    PROVE  LET q == Append(<<i>>, j)
           IN  q # <<>> /\ Len(q) = 2 /\ SQLite!Front(q) = <<i>>
<1> DEFINE q == Append(<<i>>, j)
           S == {i, j}
<1>1. <<i>> \in Seq(S) /\ Len(<<i>>) = 1 /\ <<i>>[1] = i /\ j \in S
  OBVIOUS
<1>2. q \in Seq(S) /\ Len(q) = 2 /\ q # <<>> /\ q[1] = i
  <2> HIDE DEF S
  <2>1. /\ q \in Seq(S) /\ q # <<>> /\ Len(q) = Len(<<i>>) + 1
        /\ \A k \in 1 .. Len(<<i>>) : q[k] = <<i>>[k]
    BY <1>1, AppendProperties
  <2> HIDE DEF q
  <2>2. QED
    BY <1>1, <2>1
<1>3. \A k \in 1..1 : q[k] \in S
  BY <1>2
<1> HIDE DEF q, S
<1>4. /\ SubSeq(q, 1, 1) \in Seq(S) /\ Len(SubSeq(q, 1, 1)) = 1
      /\ SubSeq(q, 1, 1)[1] = q[1]
  BY <1>1, <1>2, <1>3, SubSeqProperties
<1>5. SubSeq(q, 1, 1) = <<i>>
  <2>1. \A k \in 1 .. Len(<<i>>) : SubSeq(q, 1, 1)[k] = <<i>>[k]
    BY <1>1, <1>2, <1>4
  <2>2. QED
    BY <1>1, <1>4, <2>1, SeqEqual
<1>6. SQLite!Front(q) = SubSeq(q, 1, 1)
  BY <1>2 DEF SQLite!Front
<1>7. QED
  BY <1>2, <1>5, <1>6 DEF q

\* A write to the map works, or asks for a larger map.
LEMMA PutFields ==
    ASSUME NEW s \in Stores, NEW db \in Images
    PROVE  LET t == LMDB!Put(s, db)
           IN  /\ t \in Stores /\ t.disk = s.disk /\ t.started = s.started
               /\ t.map = s.map
               /\ t.batched = s.batched /\ t.batchSize = s.batchSize
               /\ \/ t.view = db /\ t.needsResize = s.needsResize
                  \/ t.view = s.view /\ t.needsResize = TRUE
<1> DEFINE x == WithResize(s, TRUE)
           y == [s EXCEPT !.view = db]
<1>1. /\ x \in Stores /\ x.disk = s.disk /\ x.started = s.started
      /\ x.map = s.map /\ x.batched = s.batched /\ x.batchSize = s.batchSize
      /\ x.view = s.view /\ x.needsResize = TRUE
  BY WithResizeFields, Zenon
<1>2. /\ y \in Stores /\ y.disk = s.disk /\ y.started = s.started
      /\ y.map = s.map /\ y.batched = s.batched /\ y.batchSize = s.batchSize
      /\ y.view = db /\ y.needsResize = s.needsResize
  BY DEF Stores
<1>3. LMDB!Put(s, db) = x \/ LMDB!Put(s, db) = y
  BY DEF LMDB!Put, LMDB!CheckOk, WithResize
<1> HIDE DEF x, y
<1>4. QED
  BY <1>1, <1>2, <1>3, Zenon

\* The handle is gone after a commit, whether it works or not.
LEMMA LMDBCommitFields ==
    ASSUME NEW s \in Stores
    PROVE  LET t == LMDB!CommitTransaction(s)
           IN  /\ t \in Stores /\ t.view = s.view /\ t.started = FALSE
               /\ t.map = s.map
               /\ t.batched = s.batched /\ t.batchSize = s.batchSize
               /\ \/ t.disk = s.view /\ t.needsResize = s.needsResize
                  \/ t.disk = s.disk /\ t.needsResize = TRUE
<1> DEFINE u == WithStarted(s, FALSE)
           x == WithResize(u, TRUE)
           y == [u EXCEPT !.disk = s.view]
           t == LMDB!CommitTransaction(s)
<1>1. /\ u \in Stores /\ u.disk = s.disk /\ u.started = FALSE /\ u.view = s.view
      /\ u.map = s.map /\ u.batched = s.batched /\ u.batchSize = s.batchSize
      /\ u.needsResize = s.needsResize
  BY WithStartedFields, Zenon
<1>2. t = x \/ t = y
  BY DEF LMDB!CommitTransaction, LMDB!CheckOk, WithResize, WithStarted
<1> HIDE DEF u, t
<1>3. /\ x \in Stores /\ x.disk = u.disk /\ x.started = u.started
      /\ x.map = u.map /\ x.batched = u.batched /\ x.batchSize = u.batchSize
      /\ x.view = u.view /\ x.needsResize = TRUE
  BY <1>1, WithResizeFields, Zenon
<1>4. /\ y \in Stores /\ y.disk = s.view /\ y.started = u.started
      /\ y.map = u.map /\ y.batched = u.batched /\ y.batchSize = u.batchSize
      /\ y.view = u.view /\ y.needsResize = u.needsResize
  BY <1>1, StoreTypes DEF Stores
<1> HIDE DEF x, y
<1>5. QED
  BY <1>1, <1>2, <1>3, <1>4, Zenon DEF t

\* A rollback after a failure leaves what is on disk, in a larger map.
LEMMA LMDBRollbackFields ==
    ASSUME NEW s \in Stores
    PROVE  LET t == LMDB!RollbackTransaction(s)
           IN  /\ t \in Stores /\ t.disk = s.disk /\ t.view = s.disk
               /\ t.started = FALSE /\ t.needsResize = FALSE
               /\ t.map >= s.map
               /\ t.batched = s.batched /\ t.batchSize = s.batchSize
<1> DEFINE v == [s EXCEPT !.view = s.disk]
           u == WithStarted(v, FALSE)
           w == WithResize(u, FALSE)
           x == [w EXCEPT !.map = 2 * s.map]
           t == LMDB!RollbackTransaction(s)
<1>1. /\ v \in Stores /\ v.disk = s.disk /\ v.view = s.disk
      /\ v.map = s.map /\ v.batched = s.batched /\ v.batchSize = s.batchSize
      /\ v.needsResize = s.needsResize
  BY StoreTypes DEF Stores
<1>2. t = IF s.needsResize THEN x ELSE u
  BY DEF LMDB!RollbackTransaction, LMDB!Resize, WithResize, WithStarted, Stores
<1> HIDE DEF v, t
<1>3. /\ u \in Stores /\ u.disk = v.disk /\ u.started = FALSE /\ u.view = v.view
      /\ u.map = v.map /\ u.batched = v.batched /\ u.batchSize = v.batchSize
      /\ u.needsResize = v.needsResize
  BY <1>1, WithStartedFields, Zenon
<1> HIDE DEF u
<1>4. /\ w \in Stores /\ w.disk = u.disk /\ w.started = u.started /\ w.view = u.view
      /\ w.map = u.map /\ w.batched = u.batched /\ w.batchSize = u.batchSize
      /\ w.needsResize = FALSE
  BY <1>3, WithResizeFields, Zenon
<1> HIDE DEF w
<1>5. /\ x \in Stores /\ x.disk = w.disk /\ x.started = w.started /\ x.view = w.view
      /\ x.map = 2 * s.map /\ x.batched = w.batched /\ x.batchSize = w.batchSize
      /\ x.needsResize = w.needsResize
  BY <1>4, StoreTypes, SMTT(30) DEF Stores
<1> HIDE DEF x
<1>6. 2 * s.map >= s.map /\ s.map >= s.map /\ s.needsResize \in BOOLEAN
  BY StoreTypes
<1>7. CASE s.needsResize
  BY <1>1, <1>2, <1>3, <1>4, <1>5, <1>6, <1>7, Zenon DEF t
<1>8. CASE ~s.needsResize
  <2>1. s.needsResize = FALSE
    BY <1>6, <1>8, Zenon
  <2>2. QED
    BY <1>1, <1>2, <1>3, <1>6, <1>8, <2>1, Zenon DEF t
<1>9. QED
  BY <1>7, <1>8

-----------------------------------------------------------------------------
(***************************************************************************)
(* The TransactionManager.                                                 *)
(***************************************************************************)
\* Statements see the image of the connection or of the transaction.
LEMMA CurrentIsView ==
    ASSUME NEW s, GoodStore(s, Lmdb)
    PROVE  Current(s) = s.view
<1>1. s \in Stores /\ s.batched \in Nat /\ (s.batched = 0 => s.view = s.disk)
  BY StoreTypes DEF GoodStore, UsableStore
<1>2. Lmdb => (s.started <=> s.batched > 0)
  BY DEF GoodStore
<1>3. (Lmdb /\ ~s.started) => s.view = s.disk
  BY <1>1, <1>2
<1>4. QED
  BY <1>3 DEF Current, LMDB!Read, SQLite!Read

\* BeginTransaction opens a transaction, or goes on with the batch.
LEMMA BeginOpens ==
    ASSUME NEW s, GoodStore(s, Lmdb)
    PROVE  LET t == BeginTransaction(s)
           IN  /\ OpenStore(t, Lmdb) /\ t.disk = s.disk /\ t.view = s.view
               /\ t.batched = s.batched /\ t.batchSize = s.batchSize
<1> DEFINE t == BeginTransaction(s)
<1>1. /\ s \in Stores /\ GoodImage(s.disk) /\ GoodImage(s.view) /\ s.map >= 2
      /\ ~s.needsResize /\ s.batched \in Nat
      /\ s.batched = 0 => s.view = s.disk
  BY StoreTypes DEF GoodStore, UsableStore
<1>2. CASE s.batched > 0
  <2>1. t = s
    BY <1>2 DEF BeginTransaction
  <2>2. OpenStore(s, Lmdb)
    BY <1>2 DEF GoodStore, OpenStore
  <2>3. QED
    BY <2>1, <2>2
<1>3. CASE ~(s.batched > 0) /\ Lmdb
  <2>1. t = WithStarted(s, TRUE)
    BY <1>3 DEF BeginTransaction, LMDB!BeginTransaction, WithStarted
  <2> HIDE DEF t
  <2>2. /\ t \in Stores /\ t.disk = s.disk /\ t.view = s.view /\ t.started = TRUE
        /\ t.map = s.map /\ t.needsResize = s.needsResize
        /\ t.batched = s.batched /\ t.batchSize = s.batchSize
    BY <1>1, <2>1, WithStartedFields, Zenon
  <2>3. OpenStore(t, Lmdb)
    BY <1>1, <1>3, <2>2 DEF OpenStore, UsableStore
  <2>4. QED
    BY <2>2, <2>3 DEF t
<1>4. CASE ~(s.batched > 0) /\ ~Lmdb
  <2> DEFINE u == SQLite!Savepoint(s)
  <2>1. s.batched = 0 /\ s.view = s.disk /\ s.saves = <<>>
    BY <1>1, <1>4 DEF GoodStore
  <2>2. /\ u \in Stores /\ u.disk = s.disk /\ u.view = s.view
        /\ u.saves = Append(s.saves, s.view) /\ u.map = s.map
        /\ u.needsResize = s.needsResize
        /\ u.batched = s.batched /\ u.batchSize = s.batchSize
    BY <1>1, SavepointFields
  <2>3. u.saves = <<u.disk>>
    BY <2>1, <2>2, OneSavepoint
  <2>4. t = WithStarted(u, TRUE)
    BY <1>4 DEF BeginTransaction, SQLite!BeginTransaction, WithStarted
  <2> HIDE DEF t, u
  <2>5. /\ t \in Stores /\ t.disk = u.disk /\ t.view = u.view /\ t.saves = u.saves
        /\ t.map = u.map /\ t.needsResize = u.needsResize
        /\ t.batched = u.batched /\ t.batchSize = u.batchSize
    BY <2>2, <2>4, WithStartedFields, Zenon
  <2>6. OpenStore(t, Lmdb)
    BY <1>1, <1>4, <2>2, <2>3, <2>5 DEF OpenStore, UsableStore
  <2>7. QED
    BY <2>2, <2>5, <2>6 DEF t
<1>5. QED
  BY <1>2, <1>3, <1>4

\* What is written in an open transaction is its view; only LMDB fails.
LEMMA WriteOpen ==
    ASSUME NEW s, OpenStore(s, Lmdb), NEW db, GoodImage(db)
    PROVE  LET t == Write(s, db)
           IN  /\ t.disk = s.disk
               /\ t.batched = s.batched /\ t.batchSize = s.batchSize
               /\ \/ FailedStore(t) /\ Lmdb
                  \/ OpenStore(t, Lmdb) /\ t.view = db
<1> DEFINE t == Write(s, db)
<1>1. /\ s \in Stores /\ GoodImage(s.disk) /\ GoodImage(s.view) /\ s.map >= 2
      /\ ~s.needsResize /\ db \in Images
  BY DEF OpenStore, UsableStore, GoodImage
<1>2. CASE Lmdb
  <2>1. t = LMDB!Put(s, db)
    BY <1>2 DEF Write
  <2> HIDE DEF t
  <2>2. /\ t \in Stores /\ t.disk = s.disk /\ t.started = s.started /\ t.map = s.map
        /\ t.batched = s.batched /\ t.batchSize = s.batchSize
        /\ \/ t.view = db /\ t.needsResize = s.needsResize
           \/ t.view = s.view /\ t.needsResize = TRUE
    BY <1>1, <2>1, PutFields, Zenon
  <2>3. CASE t.view = db /\ t.needsResize = s.needsResize
    <3>1. OpenStore(t, Lmdb)
      BY <1>1, <1>2, <2>2, <2>3 DEF OpenStore, UsableStore
    <3>2. QED
      BY <2>2, <2>3, <3>1 DEF t
  <2>4. CASE t.view = s.view /\ t.needsResize = TRUE
    <3>1. FailedStore(t)
      BY <1>1, <2>2, <2>4 DEF FailedStore, UsableStore
    <3>2. QED
      BY <1>2, <2>2, <3>1 DEF t
  <2>5. QED
    BY <2>2, <2>3, <2>4
<1>3. CASE ~Lmdb
  <2>1. t = SQLite!Execute(s, db)
    BY <1>3 DEF Write
  <2> HIDE DEF t
  <2>2. s.saves = <<s.disk>> /\ s.saves # <<>>
    BY <1>3, OneSavepoint DEF OpenStore
  <2>3. /\ t \in Stores /\ t.disk = s.disk /\ t.view = db /\ t.saves = s.saves
        /\ t.map = s.map /\ t.needsResize = s.needsResize
        /\ t.batched = s.batched /\ t.batchSize = s.batchSize
    BY <1>1, <2>1, <2>2, ExecuteFields
  <2>4. OpenStore(t, Lmdb)
    BY <1>1, <1>3, <2>2, <2>3 DEF OpenStore, UsableStore
  <2>5. QED
    BY <2>3, <2>4 DEF t
<1>4. QED
  BY <1>2, <1>3

\* A commit puts the view on disk and closes the transaction; only LMDB fails.
LEMMA FlushOpen ==
    ASSUME NEW s, OpenStore(s, Lmdb), s.batched > 0, s.batchSize > 0
    PROVE  LET t == Flush(s)
           IN  /\ t.batchSize = s.batchSize /\ t.view = s.view
               /\ \/ FailedStore(t) /\ Lmdb /\ t.disk = s.disk
                  \/ GoodStore(t, Lmdb) /\ t.batched = 0
<1> DEFINE t == Flush(s)
           c == IF Lmdb THEN LMDB!CommitTransaction(s) ELSE SQLite!CommitTransaction(s)
           e == [c EXCEPT !.batched = 0]
<1>1. /\ s \in Stores /\ GoodImage(s.disk) /\ GoodImage(s.view) /\ s.map >= 2
      /\ ~s.needsResize /\ s.batched \in Nat /\ s.batchSize \in Nat
  BY StoreTypes DEF OpenStore, UsableStore
<1>2. t = IF c.needsResize THEN c ELSE e
  BY <1>1 DEF Flush
<1>3. ASSUME c \in Stores, c.batchSize = s.batchSize, c.view = s.view, c.disk = s.view,
             c.map = s.map, ~c.needsResize,
             IF Lmdb THEN c.started = FALSE ELSE c.saves = <<>>
      PROVE  GoodStore(t, Lmdb) /\ t.batched = 0 /\ t.batchSize = s.batchSize
             /\ t.view = s.view
  <2>1. t = e
    BY <1>2, <1>3
  <2> HIDE DEF c, t
  <2>2. /\ e \in Stores /\ e.batchSize = c.batchSize /\ e.view = c.view
        /\ e.disk = c.disk /\ e.map = c.map /\ e.needsResize = c.needsResize
        /\ e.started = c.started /\ e.saves = c.saves /\ e.batched = 0
    BY <1>3 DEF Stores
  <2> HIDE DEF e
  <2>3. UsableStore(e) /\ ~e.needsResize /\ e.batched < e.batchSize
    BY <1>1, <1>3, <2>2 DEF UsableStore
  <2>4. IF Lmdb THEN e.started = FALSE ELSE e.saves = <<>>
    BY <1>3, <2>2
  <2>5. ~(e.batched > 0) /\ e.view = e.disk
    BY <1>3, <2>2
  <2>6. GoodStore(e, Lmdb)
    BY <2>3, <2>4, <2>5 DEF GoodStore
  <2>7. QED
    BY <1>3, <2>1, <2>2, <2>6
<1> HIDE DEF t, e
<1>4. CASE Lmdb
  <2>1. c = LMDB!CommitTransaction(s)
    BY <1>4
  <2> HIDE DEF c
  <2>2. /\ c \in Stores /\ c.view = s.view /\ c.started = FALSE /\ c.map = s.map
        /\ c.batched = s.batched /\ c.batchSize = s.batchSize
        /\ \/ c.disk = s.view /\ c.needsResize = s.needsResize
           \/ c.disk = s.disk /\ c.needsResize = TRUE
    BY <1>1, <2>1, LMDBCommitFields, Zenon
  <2>3. CASE c.disk = s.view /\ c.needsResize = s.needsResize
    BY <1>1, <1>3, <1>4, <2>2, <2>3, Zenon DEF t
  <2>4. CASE c.disk = s.disk /\ c.needsResize = TRUE
    <3>1. t = c
      BY <1>2, <2>4
    <3>2. FailedStore(c)
      BY <1>1, <2>2, <2>4 DEF FailedStore, UsableStore
    <3>3. QED
      BY <1>4, <2>2, <2>4, <3>1, <3>2 DEF t
  <2>5. QED
    BY <2>2, <2>3, <2>4
<1>5. CASE ~Lmdb
  <2> DEFINE u == SQLite!Release(s)
  <2>1. c = WithStarted(u, FALSE)
    BY <1>5 DEF SQLite!CommitTransaction, WithStarted
  <2>2. s.saves = <<s.disk>>
    BY <1>5 DEF OpenStore
  <2>3. s.saves # <<>> /\ Len(s.saves) = 1 /\ SQLite!Front(s.saves) = <<>>
    BY <2>2, OneSavepoint
  <2> HIDE DEF c
  <2>4. /\ u \in Stores /\ u.disk = s.view /\ u.view = s.view /\ u.saves = <<>>
        /\ u.map = s.map /\ u.needsResize = s.needsResize
        /\ u.batched = s.batched /\ u.batchSize = s.batchSize
    BY <1>1, <2>3, ReleaseFields
  <2> HIDE DEF u
  <2>5. /\ c \in Stores /\ c.disk = u.disk /\ c.view = u.view /\ c.saves = u.saves
        /\ c.map = u.map /\ c.needsResize = u.needsResize
        /\ c.batchSize = u.batchSize
    BY <2>1, <2>4, WithStartedFields, Zenon
  <2>6. QED
    BY <1>1, <1>3, <1>5, <2>4, <2>5, Zenon DEF t
<1>6. QED
  BY <1>4, <1>5

\* The retry of a transaction that failed starts from what is on disk.
LEMMA RollbackFailed ==
    ASSUME NEW s, FailedStore(s), Lmdb, s.batchSize > 0
    PROVE  LET t == RollbackTransaction(s)
           IN  /\ GoodStore(t, Lmdb) /\ t.batched = 0 /\ t.batchSize = s.batchSize
               /\ t.view = s.disk /\ t.disk = s.disk
<1> DEFINE u == LMDB!RollbackTransaction(s)
           t == [u EXCEPT !.batched = 0]
<1>1. /\ s \in Stores /\ GoodImage(s.disk) /\ s.map \in Nat /\ s.map >= 2
      /\ s.batchSize \in Nat
  BY StoreTypes DEF FailedStore, UsableStore
<1>2. RollbackTransaction(s) = t
  BY DEF RollbackTransaction
<1>3. /\ u \in Stores /\ u.disk = s.disk /\ u.view = s.disk
      /\ u.started = FALSE /\ u.needsResize = FALSE /\ u.map >= s.map
      /\ u.batched = s.batched /\ u.batchSize = s.batchSize
  BY <1>1, LMDBRollbackFields, Zenon
<1> HIDE DEF u
<1>4. /\ t \in Stores /\ t.disk = u.disk /\ t.view = u.view
      /\ t.started = u.started /\ t.needsResize = u.needsResize /\ t.map = u.map
      /\ t.batched = 0 /\ t.batchSize = u.batchSize
  BY <1>3 DEF Stores
<1> HIDE DEF t
<1>5. t.map >= 2
  BY <1>1, <1>3, <1>4, StoreTypes
<1>6. t.disk = s.disk /\ t.view = s.disk /\ ~t.started /\ ~t.needsResize
  BY <1>3, <1>4, Zenon
<1>7. t.batched < t.batchSize /\ ~(t.batched > 0)
  BY <1>1, <1>3, <1>4
<1>8. GoodStore(t, Lmdb)
  BY <1>1, <1>4, <1>5, <1>6, <1>7 DEF GoodStore, UsableStore
<1>9. QED
  BY <1>2, <1>3, <1>4, <1>6, <1>8

\* CommitTransaction of the manager counts the transaction to the batch and
\* commits a full one.
LEMMA CommitOpen ==
    ASSUME NEW s, OpenStore(s, Lmdb), s.batched < s.batchSize
    PROVE  LET t == CommitTransaction(s)
           IN  /\ t.batchSize = s.batchSize
               /\ \/ FailedStore(t) /\ Lmdb /\ t.disk = s.disk
                  \/ GoodStore(t, Lmdb) /\ t.view = s.view
<1> DEFINE u == [s EXCEPT !.batched = s.batched + 1]
           t == CommitTransaction(s)
<1>1. /\ s \in Stores /\ GoodImage(s.disk) /\ GoodImage(s.view) /\ s.map >= 2
      /\ ~s.needsResize /\ s.batched \in Nat /\ s.batchSize \in Nat
  BY StoreTypes DEF OpenStore, UsableStore
<1>2. t = IF u.batched >= u.batchSize THEN Flush(u) ELSE u
  BY DEF CommitTransaction
<1>3. /\ u \in Stores /\ u.disk = s.disk /\ u.view = s.view
      /\ u.started = s.started /\ u.saves = s.saves /\ u.needsResize = s.needsResize
      /\ u.map = s.map /\ u.batched = s.batched + 1 /\ u.batchSize = s.batchSize
  BY <1>1 DEF Stores
<1> HIDE DEF u, t
<1>4. OpenStore(u, Lmdb)
  BY <1>1, <1>3 DEF OpenStore, UsableStore
<1>5. u.batched > 0 /\ u.batchSize > 0 /\ u.batched \in Nat
  BY <1>1, <1>3
<1>6. CASE u.batched >= u.batchSize
  <2>1. t = Flush(u)
    BY <1>2, <1>6
  <2>2. QED
    BY <1>3, <1>4, <1>5, <2>1, FlushOpen DEF t
<1>7. CASE ~(u.batched >= u.batchSize)
  <2>1. t = u
    BY <1>2, <1>7
  <2>2. u.batched < u.batchSize /\ u.batched # 0
    BY <1>1, <1>3, <1>7
  <2>3. GoodStore(u, Lmdb)
    BY <1>4, <1>5, <2>2 DEF OpenStore, GoodStore
  <2>4. QED
    BY <1>3, <2>1, <2>3 DEF t
<1>8. QED
  BY <1>6, <1>7

\* A transaction leaves a good store: with its image if it worked, or with
\* what is on disk if it threw.
LEMMA InTransactionGood ==
    ASSUME NEW s, GoodStore(s, Lmdb), NEW db, GoodImage(db)
    PROVE  LET t == InTransaction(s, db)
           IN  /\ GoodStore(t, Lmdb) /\ t.batchSize = s.batchSize
               /\ Throws(s, db) => t.view = s.disk /\ t.batched = 0
               /\ ~Throws(s, db) => t.view = db
<1> DEFINE b == BeginTransaction(s)
           w == Write(b, db)
           a == Attempt(s, db)
<1>1. s.batched \in Nat /\ s.batchSize \in Nat /\ s.batched < s.batchSize
  BY StoreTypes DEF GoodStore, UsableStore
<1>2. /\ OpenStore(b, Lmdb) /\ b.disk = s.disk
      /\ b.batched = s.batched /\ b.batchSize = s.batchSize
  BY BeginOpens
<1>3. a = IF w.needsResize THEN w ELSE CommitTransaction(w)
  BY DEF Attempt
<1> HIDE DEF b, a
<1>4. /\ w.disk = b.disk /\ w.batched = b.batched /\ w.batchSize = b.batchSize
      /\ \/ FailedStore(w) /\ Lmdb
         \/ OpenStore(w, Lmdb) /\ w.view = db
  BY <1>2, WriteOpen
<1> HIDE DEF w
<1>5. /\ a.batchSize = s.batchSize
      /\ \/ FailedStore(a) /\ Lmdb /\ a.disk = s.disk
         \/ GoodStore(a, Lmdb) /\ a.view = db
  <2>1. CASE FailedStore(w) /\ Lmdb
    <3>1. a = w
      BY <1>3, <2>1 DEF FailedStore
    <3>2. QED
      BY <1>2, <1>4, <2>1, <3>1
  <2>2. CASE OpenStore(w, Lmdb) /\ w.view = db
    <3>1. a = CommitTransaction(w)
      BY <1>3, <2>2 DEF OpenStore
    <3>2. w.batched < w.batchSize
      BY <1>1, <1>2, <1>4
    <3>3. QED
      BY <1>2, <1>4, <2>2, <3>1, <3>2, CommitOpen
  <2>3. QED
    BY <1>4, <2>1, <2>2
<1>6. /\ Throws(s, db) <=> a.needsResize
      /\ InTransaction(s, db) = IF Throws(s, db) THEN RollbackTransaction(a) ELSE a
  BY DEF Throws, InTransaction, a
<1>7. CASE FailedStore(a) /\ Lmdb /\ a.disk = s.disk
  <2>1. a.needsResize /\ a.batchSize > 0
    BY <1>1, <1>5, <1>7 DEF FailedStore
  <2>2. QED
    BY <1>5, <1>6, <1>7, <2>1, RollbackFailed
<1>8. CASE GoodStore(a, Lmdb) /\ a.view = db
  <2>1. ~a.needsResize
    BY <1>8 DEF GoodStore
  <2>2. QED
    BY <1>5, <1>6, <1>8, <2>1
<1>9. QED
  BY <1>5, <1>7, <1>8

\* SetBatchSize keeps the view.  It may have to commit, which nobody retries.
LEMMA SetBatchSizeGood ==
    ASSUME NEW s, GoodStore(s, Lmdb), NEW n \in Nat \ {0}
    PROVE  LET t == SetBatchSize(s, n)
           IN  \/ FailedStore(t)
               \/ /\ GoodStore(t, Lmdb) /\ t.view = s.view
                  /\ t.batchSize = n /\ ~t.needsResize
<1> DEFINE u == [s EXCEPT !.batchSize = n]
           t == SetBatchSize(s, n)
<1>1. /\ s \in Stores /\ GoodImage(s.disk) /\ GoodImage(s.view) /\ s.map >= 2
      /\ ~s.needsResize /\ s.batched \in Nat /\ s.batchSize \in Nat
      /\ s.batched = 0 => s.view = s.disk
  BY StoreTypes DEF GoodStore, UsableStore
<1>2. t = IF u.batched >= n THEN Flush(u) ELSE u
  BY DEF SetBatchSize
<1>3. /\ u \in Stores /\ u.disk = s.disk /\ u.view = s.view
      /\ u.started = s.started /\ u.saves = s.saves /\ u.needsResize = s.needsResize
      /\ u.map = s.map /\ u.batched = s.batched /\ u.batchSize = n
  BY <1>1 DEF Stores
<1> HIDE DEF u, t
<1>4. CASE u.batched >= n
  <2>1. u.batched > 0 /\ u.batchSize > 0
    BY <1>1, <1>3, <1>4
  <2>2. OpenStore(u, Lmdb)
    BY <1>1, <1>3, <2>1 DEF GoodStore, OpenStore, UsableStore
  <2>3. t = Flush(u)
    BY <1>2, <1>4
  <2>4. QED
    BY <1>3, <2>1, <2>2, <2>3, FlushOpen DEF t, GoodStore
<1>5. CASE ~(u.batched >= n)
  <2>1. t = u
    BY <1>2, <1>5
  <2>2. u.batched < u.batchSize
    BY <1>1, <1>3, <1>5
  <2>3. GoodStore(u, Lmdb)
    BY <1>1, <1>3, <2>2 DEF GoodStore, UsableStore
  <2>4. QED
    BY <1>1, <1>3, <2>1, <2>3 DEF t
<1>6. QED
  BY <1>4, <1>5

\* Flush at the end of the process.
LEMMA FlushUsable ==
    ASSUME NEW s, GoodStore(s, Lmdb)
    PROVE  UsableStore(Flush(s))
<1>1. s \in Stores /\ s.batched \in Nat /\ s.batchSize \in Nat /\ s.batched < s.batchSize
  BY StoreTypes DEF GoodStore, UsableStore
<1>2. CASE s.batched = 0
  BY <1>2 DEF Flush, GoodStore
<1>3. CASE s.batched # 0
  <2>1. s.batched > 0 /\ s.batchSize > 0
    BY <1>1, <1>3
  <2>2. OpenStore(s, Lmdb)
    BY <2>1 DEF GoodStore, OpenStore
  <2>3. QED
    BY <2>1, <2>2, FlushOpen DEF FailedStore, GoodStore
<1>4. QED
  BY <1>2, <1>3

\* Rolling back an open batch leaves what is on disk; on SQLite the savepoint
\* stays open, until the storage is cleared.
LEMMA TryAbortGood ==
    ASSUME NEW s, GoodStore(s, Lmdb)
    PROVE  AbortedStore(TryAbortTransaction(s), Lmdb)
<1> DEFINE t == TryAbortTransaction(s)
<1>1. /\ s \in Stores /\ GoodImage(s.disk) /\ GoodImage(s.view)
      /\ s.map \in Nat /\ s.map >= 2 /\ ~s.needsResize
      /\ s.batched \in Nat /\ s.batchSize \in Nat /\ s.batched < s.batchSize
      /\ s.batched = 0 => s.view = s.disk
  BY StoreTypes DEF GoodStore, UsableStore
<1>2. CASE ~(s.batched > 0)
  <2>1. t = s /\ s.batched = 0
    BY <1>1, <1>2 DEF TryAbortTransaction
  <2>2. Lmdb => ~s.started
    BY <1>2 DEF GoodStore
  <2>3. QED
    BY <1>1, <2>1, <2>2 DEF AbortedStore, UsableStore
<1>3. ASSUME NEW u \in Stores, u.disk = s.disk, u.view = s.disk, u.map >= s.map,
             ~u.needsResize, Lmdb => ~u.started, u.batchSize = s.batchSize,
             t = [u EXCEPT !.batched = 0]
      PROVE  AbortedStore(t, Lmdb)
  <2> HIDE DEF t
  <2>1. /\ t \in Stores /\ t.disk = u.disk /\ t.view = u.view
        /\ t.started = u.started /\ t.needsResize = u.needsResize /\ t.map = u.map
        /\ t.batched = 0 /\ t.batchSize = u.batchSize
    BY <1>3 DEF Stores
  <2>2. t.map >= 2 /\ t.batched < t.batchSize
    BY <1>1, <1>3, <2>1, StoreTypes
  <2>3. QED
    BY <1>1, <1>3, <2>1, <2>2 DEF AbortedStore, UsableStore
<1>4. CASE s.batched > 0 /\ Lmdb
  <2> DEFINE u == LMDB!RollbackTransaction(s)
  <2>1. t = [u EXCEPT !.batched = 0]
    BY <1>4 DEF TryAbortTransaction, RollbackTransaction
  <2>2. /\ u \in Stores /\ u.disk = s.disk /\ u.view = s.disk
        /\ u.started = FALSE /\ u.needsResize = FALSE /\ u.map >= s.map
        /\ u.batched = s.batched /\ u.batchSize = s.batchSize
    BY <1>1, LMDBRollbackFields, Zenon
  <2> HIDE DEF u, t
  <2>3. ~u.needsResize /\ ~u.started
    BY <2>2, Zenon
  <2>4. QED
    BY <1>3, <2>1, <2>2, <2>3 DEF t
<1>5. CASE s.batched > 0 /\ ~Lmdb
  <2> DEFINE v == SQLite!RollbackTo(s)
             u == WithStarted(v, FALSE)
  <2>1. t = [u EXCEPT !.batched = 0]
    BY <1>5 DEF TryAbortTransaction, RollbackTransaction, SQLite!RollbackTransaction,
                WithStarted
  <2>2. SQLite!Last(s.saves) = s.disk
    BY <1>5, OneSavepoint DEF GoodStore
  <2>3. /\ v \in Stores /\ v.disk = s.disk /\ v.view = s.disk /\ v.map = s.map
        /\ v.needsResize = s.needsResize /\ v.batchSize = s.batchSize
    BY <1>1, <2>2, StoreTypes DEF Stores, SQLite!RollbackTo
  <2> HIDE DEF v, t
  <2>4. /\ u \in Stores /\ u.disk = v.disk /\ u.view = v.view /\ u.map = v.map
        /\ u.needsResize = v.needsResize /\ u.batchSize = v.batchSize
    BY <2>3, WithStartedFields, Zenon
  <2> HIDE DEF u
  <2>5. u.map >= s.map /\ ~u.needsResize
    BY <1>1, <2>3, <2>4
  <2>6. QED
    BY <1>3, <1>5, <2>1, <2>3, <2>4, <2>5 DEF t
<1>6. QED
  BY <1>2, <1>4, <1>5

\* An empty image fits into every map.
LEMMA EmptyFits == LMDB!Pages(SetupSchema) = 1
<1>1. SetupSchema.undo = {} /\ SetupSchema.rows = NoRows
  BY DEF SetupSchema
<1>2. {k \in DOMAIN SetupSchema.rows : SetupSchema.rows[k] # 0} = {}
  BY <1>1 DEF NoRows
<1>3. LMDB!Cardinality({}) = Cardinality({})
  BY DEF LMDB!Cardinality, Cardinality
<1>4. QED
  BY <1>1, <1>2, <1>3, FS_EmptySet DEF LMDB!Pages

\* Clear leaves an empty storage and no savepoint, whatever was open.
LEMMA ClearGood ==
    ASSUME NEW s, AbortedStore(s, Lmdb)
    PROVE  LET t == IF Lmdb THEN LMDB!Clear(s, SetupSchema)
                    ELSE SQLite!Clear(s, SetupSchema)
           IN  /\ GoodStore(t, Lmdb) /\ t.view = SetupSchema
               /\ t.batched = 0 /\ t.batchSize = s.batchSize
<1>1. /\ s \in Stores /\ s.map \in Nat /\ s.map >= 2 /\ ~s.needsResize
      /\ s.batched = 0 /\ s.batched < s.batchSize
      /\ GoodImage(SetupSchema) /\ SetupSchema \in Images
  BY StoreTypes, SetupSchemaGood DEF AbortedStore, UsableStore, GoodImage
<1>2. ASSUME NEW t \in Stores, t.disk = SetupSchema, t.view = SetupSchema,
             t.map = s.map, ~t.needsResize, t.batched = s.batched,
             t.batchSize = s.batchSize,
             IF Lmdb THEN ~t.started ELSE t.saves = <<>>
      PROVE  GoodStore(t, Lmdb)
  <2>1. UsableStore(t) /\ ~t.needsResize /\ t.batched = 0 /\ t.batched < t.batchSize
        /\ ~(t.batched > 0)
    BY <1>1, <1>2 DEF UsableStore
  <2>2. QED
    BY <1>2, <2>1 DEF GoodStore
<1>3. CASE Lmdb
  <2> DEFINE b == WithStarted(s, TRUE)
             p == [b EXCEPT !.view = SetupSchema]
             u == WithStarted(p, FALSE)
             t == [u EXCEPT !.disk = p.view]
  <2>1. /\ b \in Stores /\ b.map = s.map /\ b.needsResize = s.needsResize
        /\ b.batched = s.batched /\ b.batchSize = s.batchSize
    BY <1>1, WithStartedFields, Zenon
  <2>2. LMDB!BeginTransaction(s) = b
    BY DEF LMDB!BeginTransaction, WithStarted
  <2> HIDE DEF b
  <2>3. /\ p \in Stores /\ p.map = b.map /\ p.needsResize = b.needsResize
        /\ p.batched = b.batched /\ p.batchSize = b.batchSize /\ p.view = SetupSchema
    BY <1>1, <2>1 DEF Stores
  <2>4. LMDB!Put(b, SetupSchema) = p
    BY <1>1, <2>1, EmptyFits DEF LMDB!Put, LMDB!CheckOk
  <2> HIDE DEF p
  <2>5. /\ u \in Stores /\ u.map = p.map /\ u.needsResize = p.needsResize
        /\ u.batched = p.batched /\ u.batchSize = p.batchSize
        /\ u.view = p.view /\ u.started = FALSE
    BY <2>3, WithStartedFields, Zenon
  <2>6. LMDB!CommitTransaction(p) = t
    <3>1. u = [p EXCEPT !.started = FALSE]
      BY DEF WithStarted
    <3> HIDE DEF u
    <3>2. LMDB!Pages(p.view) + 1 <= u.map
      BY <1>1, <2>1, <2>3, <2>5, EmptyFits
    <3>3. LMDB!CommitTransaction(p) = LMDB!CheckOk(u, t, LMDB!Pages(p.view) + 1)
      BY <3>1 DEF LMDB!CommitTransaction
    <3>4. QED
      BY <3>2, <3>3 DEF LMDB!CheckOk
  <2> HIDE DEF u
  <2>7. /\ t \in Stores /\ t.map = u.map /\ t.needsResize = u.needsResize
        /\ t.batched = u.batched /\ t.batchSize = u.batchSize
        /\ t.view = u.view /\ t.disk = p.view /\ t.started = u.started
    BY <1>1, <2>3, <2>5 DEF Stores
  <2>8. LMDB!Clear(s, SetupSchema) = t
    BY <2>2, <2>4, <2>6 DEF LMDB!Clear
  <2> HIDE DEF t
  <2>9. ~t.started /\ t.needsResize = s.needsResize
    BY <2>1, <2>3, <2>5, <2>7, Zenon
  <2>10. GoodStore(t, Lmdb)
    BY <1>1, <1>2, <1>3, <2>1, <2>3, <2>5, <2>7, <2>9
  <2>11. QED
    BY <1>1, <1>3, <2>1, <2>3, <2>5, <2>7, <2>8, <2>10
<1>4. CASE ~Lmdb
  <2> DEFINE y(q) == [s EXCEPT !.disk = SetupSchema, !.view = SetupSchema, !.saves = q]
             t == WithStarted(y(<<>>), FALSE)
  <2>1. \A q \in Seq(Images) :
          /\ y(q) \in Stores /\ y(q).disk = SetupSchema /\ y(q).view = SetupSchema
          /\ y(q).saves = q /\ y(q).map = s.map /\ y(q).needsResize = s.needsResize
          /\ y(q).batched = s.batched /\ y(q).batchSize = s.batchSize
    BY <1>1 DEF Stores
  <2>2. <<>> \in Seq(Images)
    BY EmptySeq
  <2>3. SQLite!Clear(s, SetupSchema) = t
    BY <1>1 DEF SQLite!Clear, SQLite!OpenDatabase, WithStarted, Stores
  <2> DEFINE u == y(<<>>)
  <2> HIDE DEF y
  <2>4. /\ u \in Stores /\ u.disk = SetupSchema /\ u.view = SetupSchema
        /\ u.saves = <<>> /\ u.map = s.map /\ u.needsResize = s.needsResize
        /\ u.batched = s.batched /\ u.batchSize = s.batchSize
    BY <2>1, <2>2, Zenon
  <2> HIDE DEF u
  <2>5. /\ t \in Stores /\ t.disk = u.disk /\ t.view = u.view /\ t.saves = u.saves
        /\ t.map = u.map /\ t.needsResize = u.needsResize
        /\ t.batched = u.batched /\ t.batchSize = u.batchSize
    BY <2>4, WithStartedFields, Zenon DEF u
  <2> HIDE DEF t
  <2>6. GoodStore(t, Lmdb)
    BY <1>1, <1>2, <1>4, <2>4, <2>5
  <2>7. QED
    BY <1>1, <1>4, <2>3, <2>4, <2>5, <2>6
<1>5. QED
  BY <1>3, <1>4

\* The initial state of a game on SQLite goes into the open batch, or onto
\* the disk if there is none.
LEMMA GetInitialStateGood ==
    ASSUME NEW s, GoodStore(s, Lmdb), s.view.block = NoBlock
    PROVE  LET t == GetInitialState(s)
           IN  /\ GoodStore(t, Lmdb) /\ t.view.block = NoBlock
               /\ t.batched = s.batched /\ t.batchSize = s.batchSize
               /\ ~Lmdb => t.view.initialised
<1>1. CASE Lmdb
  BY <1>1 DEF GetInitialState
<1>2. CASE ~Lmdb
  <2> DEFINE v == InitialiseGame(s.view)
             p == SQLite!Savepoint(s)
             e == SQLite!Execute(p, v)
             t == SQLite!Release(e)
             q == Append(s.saves, s.view)
  <2>1. /\ s \in Stores /\ GoodImage(s.disk) /\ GoodImage(s.view) /\ s.map >= 2
        /\ ~s.needsResize /\ s.batched \in Nat /\ s.batched < s.batchSize
        /\ s.saves = IF s.batched > 0 THEN <<s.disk>> ELSE <<>>
    BY <1>2, StoreTypes DEF GoodStore, UsableStore
  <2>2. GoodImage(v) /\ v.block = NoBlock /\ v.initialised /\ v \in Images
    BY <2>1, InitialiseGood DEF GoodImage
  <2>3. GetInitialState(s) = t
    BY <1>2 DEF GetInitialState, SQLite!Read
  <2> HIDE DEF v
  <2>4. /\ p \in Stores /\ p.disk = s.disk /\ p.view = s.view /\ p.saves = q
        /\ p.map = s.map /\ p.needsResize = s.needsResize
        /\ p.batched = s.batched /\ p.batchSize = s.batchSize
    BY <2>1, SavepointFields
  <2>5. /\ q # <<>>
        /\ Len(q) = IF s.batched > 0 THEN 2 ELSE 1
        /\ SQLite!Front(q) = s.saves
    <3>1. CASE s.batched > 0
      BY <2>1, <3>1, TwoSavepoints
    <3>2. CASE ~(s.batched > 0)
      BY <2>1, <3>2, OneSavepoint
    <3>3. QED
      BY <3>1, <3>2
  <2> HIDE DEF p, q
  <2>6. /\ e \in Stores /\ e.disk = s.disk /\ e.view = v /\ e.saves = q
        /\ e.map = s.map /\ e.needsResize = s.needsResize
        /\ e.batched = s.batched /\ e.batchSize = s.batchSize
    BY <2>2, <2>4, <2>5, ExecuteFields
  <2> HIDE DEF e
  <2>7. /\ t \in Stores /\ t.disk = (IF s.batched > 0 THEN s.disk ELSE v)
        /\ t.view = v /\ t.saves = s.saves /\ t.map = s.map
        /\ t.needsResize = s.needsResize
        /\ t.batched = s.batched /\ t.batchSize = s.batchSize
    <3>1. (Len(e.saves) = 1) <=> ~(s.batched > 0)
      <4>1. CASE s.batched > 0
        <5>1. Len(q) = 2
          BY <2>5, <4>1
        <5>2. Len(e.saves) # 1
          BY <2>6, <5>1
        <5>3. QED
          BY <4>1, <5>2
      <4>2. CASE ~(s.batched > 0)
        BY <2>5, <2>6, <4>2
      <4>3. QED
        BY <4>1, <4>2
    <3>2. /\ t \in Stores /\ t.disk = (IF Len(e.saves) = 1 THEN e.view ELSE e.disk)
          /\ t.view = e.view /\ t.saves = SQLite!Front(e.saves) /\ t.map = e.map
          /\ t.needsResize = e.needsResize
          /\ t.batched = e.batched /\ t.batchSize = e.batchSize
      BY <2>5, <2>6, ReleaseFields
    <3>3. QED
      BY <2>5, <2>6, <3>1, <3>2
  <2> HIDE DEF t
  <2>8. UsableStore(t) /\ ~t.needsResize /\ t.batched < t.batchSize
    BY <2>1, <2>2, <2>7 DEF UsableStore
  <2>9. t.batched = 0 => t.view = t.disk
    BY <2>1, <2>7
  <2>10. t.saves = IF t.batched > 0 THEN <<t.disk>> ELSE <<>>
    BY <2>1, <2>7
  <2>11. GoodStore(t, Lmdb)
    BY <1>2, <2>8, <2>9, <2>10 DEF GoodStore
  <2>12. QED
    BY <2>2, <2>3, <2>7, <2>11
<1>3. QED
  BY <1>1, <1>2

\* A store with nothing but what is on disk.
LEMMA FreshGood ==
    ASSUME NEW s, UsableStore(s), NEW t \in Stores, t.disk = s.disk, t.view = s.disk,
           t.saves = <<>>, t.started = FALSE, t.needsResize = FALSE, t.map = s.map,
           t.batched = 0, t.batchSize \in Nat \ {0}
    PROVE  GoodStore(t, Lmdb)
<1>1. UsableStore(t)
  BY DEF UsableStore
<1>2. ~t.started /\ ~t.needsResize
  BY Zenon
<1>3. t.batched < t.batchSize /\ ~(t.batched > 0)
  OBVIOUS
<1>4. QED
  BY <1>1, <1>2, <1>3 DEF GoodStore

\* What a stopped or killed process leaves.
LEMMA DownGood ==
    ASSUME NEW s, UsableStore(s)
    PROVE  GoodStore(Down(s), Lmdb) /\ Down(s).batched = 0
<1> DEFINE y(q) == [s EXCEPT !.view = s.disk, !.saves = q,
                             !.batched = 0, !.batchSize = 1]
           u == y(<<>>)
           w == WithStarted(u, FALSE)
           t == WithResize(w, FALSE)
<1>1. s \in Stores /\ s.disk \in Images
  BY StoreTypes DEF UsableStore
<1>2. \A q \in Seq(Images) :
        /\ y(q) \in Stores /\ y(q).disk = s.disk /\ y(q).view = s.disk
        /\ y(q).saves = q /\ y(q).map = s.map
        /\ y(q).batched = 0 /\ y(q).batchSize = 1
  BY <1>1 DEF Stores
<1>3. Down(s) = t
  BY <1>1 DEF Down, WithStarted, WithResize, Stores
<1>4. <<>> \in Seq(Images)
  BY EmptySeq
<1> HIDE DEF y
<1>5. /\ u \in Stores /\ u.disk = s.disk /\ u.view = s.disk /\ u.saves = <<>>
      /\ u.map = s.map /\ u.batched = 0 /\ u.batchSize = 1
  BY <1>2, <1>4, Zenon
<1> HIDE DEF u
<1>6. /\ w \in Stores /\ w.disk = s.disk /\ w.view = s.disk /\ w.saves = <<>>
      /\ w.started = FALSE /\ w.map = s.map /\ w.batched = 0 /\ w.batchSize = 1
  BY <1>5, WithStartedFields, Zenon
<1> HIDE DEF w
<1>7. /\ t \in Stores /\ t.disk = s.disk /\ t.view = s.disk /\ t.saves = <<>>
      /\ t.started = FALSE /\ t.needsResize = FALSE /\ t.map = s.map
      /\ t.batched = 0 /\ t.batchSize = 1
  BY <1>6, WithResizeFields, Zenon
<1> HIDE DEF t
<1>8. t.batchSize \in Nat \ {0}
  BY <1>7
<1>9. QED
  BY <1>3, <1>7, <1>8, FreshGood

\* Opening the storage in a new process.
LEMMA StartGood ==
    ASSUME NEW s, GoodStore(s, Lmdb), s.batched = 0
    PROVE  LET t == IF Lmdb THEN LMDB!Initialise(s) ELSE SQLite!OpenDatabase(s)
           IN  GoodStore(t, Lmdb)
<1>1. /\ s \in Stores /\ s.disk \in Images /\ GoodImage(s.disk) /\ s.map >= 2
      /\ ~s.needsResize /\ s.batched < s.batchSize
  BY StoreTypes DEF GoodStore, UsableStore
<1>2. CASE Lmdb
  <2> DEFINE y(b, c) == [s EXCEPT !.view = s.disk, !.started = b, !.needsResize = c]
             t == LMDB!Initialise(s)
  <2>1. \A b \in BOOLEAN, c \in BOOLEAN :
          /\ y(b, c) \in Stores /\ y(b, c).disk = s.disk
          /\ y(b, c).view = s.disk /\ y(b, c).started = b
          /\ y(b, c).needsResize = c /\ y(b, c).map = s.map
          /\ y(b, c).batched = s.batched /\ y(b, c).batchSize = s.batchSize
    BY <1>1 DEF Stores
  <2>2. t = y(FALSE, FALSE)
    BY DEF LMDB!Initialise
  <2> HIDE DEF y, t
  <2>3. /\ t \in Stores /\ t.disk = s.disk /\ t.view = s.disk /\ t.map = s.map
        /\ t.batched = s.batched /\ t.batchSize = s.batchSize
        /\ ~t.started /\ ~t.needsResize
    BY <2>1, <2>2, Zenon
  <2>4. UsableStore(t) /\ t.batched < t.batchSize /\ ~(t.batched > 0)
    BY <1>1, <2>3 DEF UsableStore
  <2>5. QED
    BY <1>2, <2>3, <2>4 DEF GoodStore, t
<1>3. CASE ~Lmdb
  <2> DEFINE y(q) == [s EXCEPT !.view = s.disk, !.saves = q]
             u == y(<<>>)
             t == WithStarted(u, FALSE)
  <2>1. \A q \in Seq(Images) :
          /\ y(q) \in Stores /\ y(q).disk = s.disk /\ y(q).view = s.disk
          /\ y(q).saves = q /\ y(q).needsResize = s.needsResize /\ y(q).map = s.map
          /\ y(q).batched = s.batched /\ y(q).batchSize = s.batchSize
    BY <1>1 DEF Stores
  <2>2. <<>> \in Seq(Images)
    BY EmptySeq
  <2>3. SQLite!OpenDatabase(s) = t
    BY DEF SQLite!OpenDatabase, WithStarted
  <2> HIDE DEF y
  <2>4. /\ u \in Stores /\ u.disk = s.disk /\ u.view = s.disk /\ u.map = s.map
        /\ u.saves = <<>> /\ u.needsResize = s.needsResize
        /\ u.batched = s.batched /\ u.batchSize = s.batchSize
    BY <2>1, <2>2, Zenon
  <2> HIDE DEF u
  <2>5. /\ t \in Stores /\ t.disk = u.disk /\ t.view = u.view /\ t.map = u.map
        /\ t.saves = u.saves /\ t.needsResize = u.needsResize
        /\ t.batched = u.batched /\ t.batchSize = u.batchSize
    BY <2>4, WithStartedFields, Zenon
  <2> HIDE DEF t
  <2>6. UsableStore(t) /\ t.batched < t.batchSize /\ ~(t.batched > 0)
    BY <1>1, <2>4, <2>5 DEF UsableStore
  <2>7. GoodStore(t, Lmdb)
    BY <1>1, <1>3, <2>4, <2>5, <2>6 DEF GoodStore
  <2>8. QED
    BY <1>3, <2>3, <2>7
<1>4. QED
  BY <1>2, <1>3

-----------------------------------------------------------------------------
(***************************************************************************)
(* The steps of GameStorage.                                               *)
(***************************************************************************)
\* The blocks of the tree are blocks.
LEMMA BlocksType == \A b \in Blocks : b \in Seq(Labels)
<1>1. \A h \in 0..MaxHeight : h \in Nat
  BY BlockchainAssumption
<1>2. QED
  BY <1>1, SeqDef DEF Blocks

\* Where no reader is involved, a step has to keep the store and the phase.
LEMMA StepKeeps ==
    ASSUME StorageInv, backend' = backend, tip' = tip, reader' = reader,
           phase' \in Phases, mode' \in {"CATCHING_UP", "UP_TO_DATE"},
           mode' = "CATCHING_UP" => target' \in Seq(Labels),
           StoreInv', PhaseInv'
    PROVE  StorageInv'
  BY DEF StorageInv, TypeInv, ReadersSeeTheirBlock

\* The lock is released at the end of a handler, or the target is reached.
LEMMA HandlerEnds ==
    ASSUME EndHandler
    PROVE  phase' \in {"run", "reinit"}
  BY DEF EndHandler

\* A handler ends with a good store that has a current block.
LEMMA HandlerKeeps ==
    ASSUME StorageInv, backend' = backend, tip' = tip, reader' = reader,
           mode' = mode, target' = target,
           phase' \in {"run", "pruning", "reinit"},
           GoodStore(store', Lmdb), store'.batchSize = store.batchSize,
           phase' # "reinit" => store'.view.block # NoBlock,
           phase \in {"run", "pruning"}
    PROVE  StorageInv'
<1>1. Lmdb' <=> Lmdb
  BY DEF Lmdb
<1>2. StoreInv'
  BY <1>1 DEF StoreInv
<1>3. PhaseInv'
  BY DEF PhaseInv, StorageInv
<1>4. phase' \in Phases /\ mode' \in {"CATCHING_UP", "UP_TO_DATE"}
      /\ (mode' = "CATCHING_UP" => target' \in Seq(Labels))
  BY DEF StorageInv, TypeInv, Phases
<1>5. QED
  BY <1>2, <1>3, <1>4, StepKeeps

\* A thread that is not reading.
LEMMA IdleReader == Idle \in ReaderRecords /\ ~Idle.busy
<1> DEFINE z(b, c) == [busy |-> b, block |-> NoBlock, rows |-> NoRows, valid |-> c]
<1>1. \A b \in BOOLEAN, c \in BOOLEAN : z(b, c) \in ReaderRecords /\ z(b, c).busy = b
  BY DEF ReaderRecords, NoRows
<1>2. Idle = z(FALSE, TRUE)
  BY DEF Idle
<1> HIDE DEF z
<1>3. QED
  BY <1>1, <1>2, Zenon

LEMMA InitInv == Init => StorageInv
<1> SUFFICES ASSUME Init PROVE StorageInv
  OBVIOUS
<1> DEFINE y(q, b, c) == [disk |-> SetupSchema, view |-> SetupSchema, saves |-> q,
                          started |-> b, map |-> InitialMap, needsResize |-> c,
                          batched |-> 0, batchSize |-> 1]
           s == y(<<>>, FALSE, FALSE)
<1>1. GoodImage(SetupSchema) /\ SetupSchema \in Images
  BY SetupSchemaGood DEF GoodImage
<1> HIDE DEF SetupSchema
<1>2. \A q \in Seq(Images), b \in BOOLEAN, c \in BOOLEAN :
        /\ y(q, b, c) \in Stores /\ y(q, b, c).disk = SetupSchema
        /\ y(q, b, c).view = SetupSchema /\ y(q, b, c).saves = q
        /\ y(q, b, c).started = b /\ y(q, b, c).needsResize = c
        /\ y(q, b, c).map = InitialMap /\ y(q, b, c).batched = 0
        /\ y(q, b, c).batchSize = 1
  BY <1>1, StorageAssumption DEF Stores
<1>3. <<>> \in Seq(Images) /\ FALSE \in BOOLEAN
  BY EmptySeq
<1>4. store = s
  BY DEF Init
<1> HIDE DEF y
<1>5. /\ s \in Stores /\ s.disk = SetupSchema /\ s.view = SetupSchema /\ s.saves = <<>>
      /\ s.started = FALSE /\ s.needsResize = FALSE /\ s.map = InitialMap
      /\ s.batched = 0 /\ s.batchSize = 1
  BY <1>2, <1>3, Zenon
<1> HIDE DEF s
<1>6. GoodStore(s, Lmdb)
  <2>1. UsableStore(s) /\ s.batchSize \in Nat \ {0}
    BY <1>1, <1>5, StorageAssumption DEF UsableStore
  <2>2. QED
    BY <1>5, <2>1, FreshGood
<1>7. Idle \in ReaderRecords /\ ~Idle.busy
  BY IdleReader
<1>8. TypeInv
  BY <1>7, BlocksType DEF Init, TypeInv, Phases
<1>9. ReadersSeeTheirBlock
  BY <1>7 DEF Init, ReadersSeeTheirBlock
<1>10. StoreInv
  BY <1>4, <1>6 DEF Init, StoreInv
<1>11. PhaseInv
  BY <1>4, <1>5 DEF Init, PhaseInv
<1>12. QED
  BY <1>8, <1>9, <1>10, <1>11 DEF StorageInv

LEMMA SyncStep ==
    ASSUME StorageInv, SyncFromCurrentState
    PROVE  StorageInv'
<1>1. GoodStore(store, Lmdb) /\ Current(store) = store.view
  BY CurrentIsView DEF StorageInv, StoreInv, SyncFromCurrentState
<1>2. backend' = backend /\ tip' = tip /\ reader' = reader
      /\ store.view.block # NoBlock
  BY <1>1 DEF SyncFromCurrentState
<1>3. Lmdb' <=> Lmdb
  BY <1>2 DEF Lmdb
<1>4. ASSUME NEW n \in Nat \ {0}, store' = SetBatchSize(store, n),
             phase' = IF store'.needsResize THEN "terminated" ELSE "run",
             mode' \in {"CATCHING_UP", "UP_TO_DATE"},
             mode' = "CATCHING_UP" => target' \in Seq(Labels),
             mode' = "UP_TO_DATE" => n = 1
      PROVE  StorageInv'
  <2>1. CASE FailedStore(store')
    <3>1. phase' = "terminated" /\ UsableStore(store')
      BY <1>4, <2>1 DEF FailedStore
    <3>2. StoreInv' /\ PhaseInv' /\ phase' \in Phases
      BY <3>1 DEF StoreInv, PhaseInv, Phases
    <3>3. QED
      BY <1>2, <1>4, <3>2, StepKeeps
  <2>2. CASE /\ GoodStore(store', Lmdb) /\ store'.view = store.view
             /\ store'.batchSize = n /\ ~store'.needsResize
    <3>1. phase' = "run"
      BY <1>4, <2>2
    <3>2. StoreInv' /\ PhaseInv' /\ phase' \in Phases
      BY <1>2, <1>3, <1>4, <2>2, <3>1 DEF StoreInv, PhaseInv, Phases
    <3>3. QED
      BY <1>2, <1>4, <3>2, StepKeeps
  <2>3. QED
    BY <1>1, <1>4, <2>1, <2>2, SetBatchSizeGood
<1>5. tip \in Seq(Labels) /\ 1 \in Nat \ {0} /\ BatchSize \in Nat \ {0}
  <2>1. 1 \in Nat \ {0}
    OBVIOUS
  <2>2. QED
    BY <2>1, StorageAssumption, Zenon DEF StorageInv, TypeInv
<1>6. CASE Current(store).block = tip
  BY <1>4, <1>5, <1>6 DEF SyncFromCurrentState
<1>7. CASE Current(store).block # tip
  BY <1>4, <1>5, <1>7 DEF SyncFromCurrentState
<1>8. QED
  BY <1>6, <1>7

LEMMA LearnGenesisStep ==
    ASSUME StorageInv, LearnGenesis
    PROVE  StorageInv'
<1>1. GoodStore(store, Lmdb) /\ Current(store) = store.view
  BY CurrentIsView DEF StorageInv, StoreInv, LearnGenesis
<1>2. /\ backend' = backend /\ tip' = tip /\ reader' = reader
      /\ phase' = phase /\ phase = "reinit" /\ mode' = mode /\ target' = target
      /\ store.view.block = NoBlock /\ store' = GetInitialState(store)
  BY <1>1 DEF LearnGenesis
<1>3. Lmdb' <=> Lmdb
  BY <1>2 DEF Lmdb
<1>4. GoodStore(store', Lmdb)
  BY <1>1, <1>2, GetInitialStateGood
<1>5. StoreInv' /\ PhaseInv'
  BY <1>2, <1>3, <1>4 DEF StoreInv, PhaseInv
<1>6. QED
  BY <1>2, <1>5, StepKeeps DEF StorageInv, TypeInv

LEMMA StartOverStep ==
    ASSUME StorageInv, StartOver
    PROVE  StorageInv'
<1>1. GoodStore(store, Lmdb)
  BY DEF StorageInv, StoreInv, StartOver
<1>2. /\ backend' = backend /\ tip' = tip /\ reader' = reader
      /\ phase' = "clearing" /\ mode' = mode /\ target' = target
      /\ store' = TryAbortTransaction(store)
  BY DEF StartOver
<1>3. Lmdb' <=> Lmdb
  BY <1>2 DEF Lmdb
<1>4. AbortedStore(store', Lmdb)
  BY <1>1, <1>2, TryAbortGood
<1>5. StoreInv' /\ PhaseInv' /\ phase' \in Phases
  BY <1>2, <1>3, <1>4 DEF StoreInv, PhaseInv, Phases
<1>6. QED
  BY <1>2, <1>5, StepKeeps DEF StorageInv, TypeInv

LEMMA ClearStep ==
    ASSUME StorageInv, ClearStorage
    PROVE  StorageInv'
<1>1. AbortedStore(store, Lmdb) /\ reader \in [Readers -> ReaderRecords]
  BY DEF StorageInv, StoreInv, TypeInv, ClearStorage
<1>2. /\ backend' = backend /\ tip' = tip /\ mode' = mode /\ target' = target
      /\ phase' \in {"cleared", "reinit"}
  BY DEF ClearStorage
<1>3. Lmdb' <=> Lmdb
  BY <1>2 DEF Lmdb
<1>4. Snapshots = {}
  BY DEF ClearStorage, CloseDatabase, Snapshots
<1>5. reader' = reader
  BY <1>1, <1>4 DEF ClearStorage
<1>6. GoodStore(store', Lmdb) /\ store'.view = SetupSchema /\ store'.batched = 0
  <2>1. store' = IF Lmdb THEN LMDB!Clear(store, SetupSchema)
                 ELSE SQLite!Clear(store, SetupSchema)
    BY DEF ClearStorage
  <2>2. QED
    BY <1>1, <2>1, ClearGood
<1>7. StoreInv' /\ PhaseInv' /\ phase' \in Phases
  BY <1>2, <1>3, <1>6, SetupSchemaGood DEF StoreInv, PhaseInv, Phases
<1>8. QED
  BY <1>2, <1>5, <1>7, StepKeeps DEF StorageInv, TypeInv

LEMMA PrepareGenesisStep ==
    ASSUME StorageInv, PrepareGenesis
    PROVE  StorageInv'
<1>1. GoodStore(store, Lmdb) /\ store.view.block = NoBlock /\ store.batched = 0
  BY DEF StorageInv, StoreInv, PhaseInv, PrepareGenesis
<1>2. /\ backend' = backend /\ tip' = tip /\ reader' = reader
      /\ phase' = "initial" /\ mode' = mode /\ target' = target
      /\ store' = GetInitialState(store)
  BY DEF PrepareGenesis
<1>3. Lmdb' <=> Lmdb
  BY <1>2 DEF Lmdb
<1>4. /\ GoodStore(store', Lmdb) /\ store'.view.block = NoBlock
      /\ store'.batched = 0 /\ (~Lmdb => store'.view.initialised)
  BY <1>1, <1>2, GetInitialStateGood
<1>5. StoreInv' /\ PhaseInv' /\ phase' \in Phases
  BY <1>2, <1>3, <1>4 DEF StoreInv, PhaseInv, Phases
<1>6. QED
  BY <1>2, <1>5, StepKeeps DEF StorageInv, TypeInv

LEMMA StoreGenesisStep ==
    ASSUME StorageInv, StoreGenesis
    PROVE  StorageInv'
<1> DEFINE v == store.view
           rows == IF Lmdb THEN InitialRows ELSE v.rows
           flag == Lmdb \/ v.initialised
           db == [v EXCEPT !.block = Genesis, !.state = INITIAL_STATE, !.rows = rows,
                           !.initialised = flag]
<1>1. /\ GoodStore(store, Lmdb) /\ v.block = NoBlock /\ store.batched = 0
      /\ (~Lmdb => v.initialised) /\ GoodImage(v)
  BY DEF StorageInv, StoreInv, PhaseInv, StoreGenesis, GoodStore, UsableStore
<1>2. Current(store) = v /\ store.disk = v
  BY <1>1, CurrentIsView DEF GoodStore
<1>3. rows = InitialRows /\ flag \in BOOLEAN /\ flag
  <2>1. rows = InitialRows
    BY <1>1 DEF GoodImage
  <2>2. flag \in BOOLEAN /\ flag
    BY <1>1, Zenon
  <2>3. QED
    BY <2>1, <2>2
<1>4. GoodImage(db)
  BY <1>1, <1>3, GenesisGood
<1>5. /\ backend' = backend /\ tip' = tip /\ reader' = reader
      /\ mode' = mode /\ target' = target
      /\ store' = InTransaction(store, db)
      /\ phase' = IF Throws(store, db) THEN "initial" ELSE "reinit"
  BY <1>2 DEF StoreGenesis
<1>6. Lmdb' <=> Lmdb
  BY <1>5 DEF Lmdb
<1> HIDE DEF db
<1>7. /\ GoodStore(store', Lmdb)
      /\ Throws(store, db) => store'.view = store.disk /\ store'.batched = 0
  BY <1>1, <1>4, <1>5, InTransactionGood
<1>8. StoreInv' /\ PhaseInv' /\ phase' \in Phases
  BY <1>1, <1>2, <1>5, <1>6, <1>7 DEF StoreInv, PhaseInv, Phases
<1>9. QED
  BY <1>5, <1>8, StepKeeps DEF StorageInv, TypeInv

\* The next update Game processes: a child of the current block, or the
\* current block itself.
LEMMA NextUpdateParts ==
    ASSUME StorageInv, phase = "run", Current(store).block # Goal
    PROVE  /\ GoodStore(store, Lmdb) /\ Current(store) = store.view
           /\ store.view.block # NoBlock /\ GoodImage(store.view)
           /\ NextUpdate.type = "attach" =>
                 /\ NextUpdate.block \in Seq(Labels) \ {<<>>}
                 /\ Parent(NextUpdate.block) = store.view.block
           /\ NextUpdate.type = "detach" => NextUpdate.block = store.view.block
<1>1. GoodStore(store, Lmdb) /\ store.view.block # NoBlock
  BY DEF StorageInv, StoreInv, PhaseInv
<1>2. Current(store) = store.view /\ GoodImage(store.view)
  BY <1>1, CurrentIsView DEF GoodStore, UsableStore
<1>3. store.view.block \in Seq(Labels) /\ Goal \in Seq(Labels)
  BY <1>1, <1>2 DEF GoodImage, Images, Goal, StorageInv, TypeInv
<1> DEFINE a == store.view.block
           u == Updates(a, Goal)[1]
<1>4. \/ /\ u.type = "attach" /\ u.block \in Seq(Labels) \ {<<>>}
         /\ Parent(u.block) = a
      \/ u.type = "detach" /\ u.block = a
  BY <1>2, <1>3, FirstUpdate
<1>5. NextUpdate = u
  BY <1>2 DEF NextUpdate
<1> HIDE DEF u
<1>6. QED
  BY <1>1, <1>2, <1>4, <1>5

\* EnsureCurrentState never fails.
LEMMA CurrentStateFits ==
    ASSUME GoodImage(store.view), Current(store) = store.view, store.view.block # NoBlock
    PROVE  CurrentStateOk
  BY DEF CurrentStateOk, GoodImage, Consistent

LEMMA AttachStep ==
    ASSUME StorageInv, Attach
    PROVE  StorageInv'
<1> DEFINE db == Forward(store.view, NextUpdate.block)
<1>1. /\ GoodStore(store, Lmdb) /\ Current(store) = store.view
      /\ store.view.block # NoBlock /\ GoodImage(store.view)
      /\ NextUpdate.block \in Seq(Labels) \ {<<>>}
      /\ Parent(NextUpdate.block) = store.view.block
  BY NextUpdateParts DEF Attach
<1>2. CurrentStateOk
  BY <1>1, CurrentStateFits
<1>3. GoodImage(db) /\ db.block # NoBlock
  BY <1>1, ForwardGood, BlockchainAssumption
<1>4. /\ backend' = backend /\ tip' = tip /\ reader' = reader
      /\ mode' = mode /\ target' = target /\ phase = "run"
      /\ store' = InTransaction(store, db)
      /\ phase' = IF Throws(store, db) THEN "reinit" ELSE "pruning"
  BY <1>1, <1>2 DEF Attach
<1> HIDE DEF db
<1>5. /\ GoodStore(store', Lmdb) /\ store'.batchSize = store.batchSize
      /\ ~Throws(store, db) => store'.view = db
  BY <1>1, <1>3, <1>4, InTransactionGood
<1>6. QED
  BY <1>3, <1>4, <1>5, HandlerKeeps

LEMMA PruneStep ==
    ASSUME StorageInv, Prune
    PROVE  StorageInv'
<1> DEFINE h == Height(Current(store).block) - KeepBlocks
           db == PruneUndoData(store.view, h)
<1>1. GoodStore(store, Lmdb) /\ store.view.block # NoBlock
  BY DEF StorageInv, StoreInv, PhaseInv, Prune
<1>2. Current(store) = store.view /\ GoodImage(store.view)
  BY <1>1, CurrentIsView DEF GoodStore, UsableStore
<1>3. GoodImage(db) /\ db.block # NoBlock
  BY <1>1, <1>2, PruneGood
<1>4. /\ backend' = backend /\ tip' = tip /\ reader' = reader
      /\ mode' = mode /\ target' = target /\ phase = "pruning"
  BY DEF Prune
<1>5. \/ /\ store' = InTransaction(store, db)
         /\ IF Throws(store, db) THEN phase' = "reinit" ELSE EndHandler
      \/ store' = store /\ EndHandler
  BY <1>2 DEF Prune
<1> HIDE DEF db
<1>6. CASE /\ store' = InTransaction(store, db)
           /\ IF Throws(store, db) THEN phase' = "reinit" ELSE EndHandler
  <2>1. /\ GoodStore(store', Lmdb) /\ store'.batchSize = store.batchSize
        /\ ~Throws(store, db) => store'.view = db
    BY <1>1, <1>3, <1>6, InTransactionGood
  <2>2. QED
    BY <1>3, <1>4, <1>6, <2>1, HandlerEnds, HandlerKeeps
<1>7. CASE store' = store /\ EndHandler
  BY <1>1, <1>4, <1>7, HandlerEnds, HandlerKeeps
<1>8. QED
  BY <1>5, <1>6, <1>7

LEMMA DetachStep ==
    ASSUME StorageInv, Detach
    PROVE  StorageInv'
<1> DEFINE b == store.view.block
           undo == UndoOf(store.view, b)
           r == CHOOSE q \in undo : TRUE
           db == Backwards(store.view, b, r.data)
<1>1. /\ GoodStore(store, Lmdb) /\ Current(store) = store.view
      /\ b # NoBlock /\ GoodImage(store.view) /\ NextUpdate.block = b
  BY NextUpdateParts DEF Detach
<1>2. CurrentStateOk
  BY <1>1, CurrentStateFits
<1>3. /\ backend' = backend /\ tip' = tip /\ reader' = reader
      /\ mode' = mode /\ target' = target /\ phase = "run"
  BY DEF Detach
<1>4. CASE undo = {}
  <2>1. store' = TryAbortTransaction(store) /\ phase' = "dropping"
    BY <1>1, <1>4 DEF Detach
  <2>2. Lmdb' <=> Lmdb
    BY <1>3 DEF Lmdb
  <2>3. AbortedStore(store', Lmdb)
    BY <1>1, <2>1, TryAbortGood
  <2>4. StoreInv' /\ PhaseInv' /\ phase' \in Phases
    BY <2>1, <2>2, <2>3 DEF StoreInv, PhaseInv, Phases
  <2>5. QED
    BY <1>3, <2>4, StepKeeps DEF StorageInv, TypeInv
<1>5. CASE undo # {}
  <2>1. r \in undo
    BY <1>5
  <2>2. NoConflict(store.view.rows, r.data) /\ GoodImage(db) /\ db.block # NoBlock
    BY <1>1, <2>1, BackwardsGood
  <2>3. /\ store' = InTransaction(store, db)
        /\ IF Throws(store, db) THEN phase' = "reinit" ELSE EndHandler
    BY <1>1, <1>2, <1>5, <2>2 DEF Detach
  <2> HIDE DEF db
  <2>4. /\ GoodStore(store', Lmdb) /\ store'.batchSize = store.batchSize
        /\ ~Throws(store, db) => store'.view = db
    BY <1>1, <2>2, <2>3, InTransactionGood
  <2>5. QED
    BY <1>3, <2>2, <2>3, <2>4, HandlerEnds, HandlerKeeps
<1>6. QED
  BY <1>4, <1>5

\* The rows an RPC thread goes on to read are those of the block it reports:
\* a snapshot is used only if it is for the same state.
LEMMA StartReadStep ==
    ASSUME StorageInv, NEW p \in Readers, StartRead(p)
    PROVE  StorageInv'
<1> DEFINE b == store.view.block
           rows == IF Lmdb THEN store.view.rows ELSE store.disk.rows
           y(x, z) == [busy |-> x, block |-> b, rows |-> rows, valid |-> z]
           new == y(TRUE, TRUE)
<1>1. /\ GoodStore(store, Lmdb) /\ b # NoBlock
      /\ reader \in [Readers -> ReaderRecords] /\ ReadersSeeTheirBlock
  BY DEF StorageInv, StoreInv, PhaseInv, TypeInv, StartRead
<1>2. Current(store) = store.view /\ GoodImage(store.view) /\ GoodImage(store.disk)
  BY <1>1, CurrentIsView DEF GoodStore, UsableStore
<1>3. b \in Seq(Labels) \cup {NoBlock} /\ rows \in [Keys -> Nat]
  BY <1>2 DEF GoodImage, Images
<1>4. rows = RowsFor(b)
  <2>1. CASE Lmdb
    BY <1>1, <1>2, <2>1 DEF GoodImage, Consistent
  <2>2. CASE ~Lmdb
    <3>1. CheckCurrentState(store.disk, store.view.state)
      BY <1>2, <2>2 DEF StartRead, SnapshotUsable
    <3>2. CheckCurrentState(store.view, store.view.state)
      BY <1>1, <1>2 DEF GoodImage, Consistent
    <3>3. store.disk.block = b
      BY <3>1, <3>2 DEF CheckCurrentState
    <3>4. store.disk.rows = RowsFor(b)
      BY <1>1, <1>2, <3>3 DEF GoodImage, Consistent
    <3>5. QED
      BY <2>2, <3>4
  <2>3. QED
    BY <2>1, <2>2
<1>5. /\ reader' = [reader EXCEPT ![p] = new] /\ store' = store /\ phase' = phase
      /\ backend' = backend /\ tip' = tip /\ mode' = mode /\ target' = target
  BY <1>2 DEF StartRead
<1> HIDE DEF rows, b
<1>6. \A x \in BOOLEAN, z \in BOOLEAN :
        /\ y(x, z) \in ReaderRecords /\ y(x, z).valid = z
        /\ y(x, z).block = b /\ y(x, z).rows = rows
  BY <1>3 DEF ReaderRecords
<1> HIDE DEF y
<1>7. new \in ReaderRecords /\ new.valid = TRUE /\ new.rows = RowsFor(new.block)
  BY <1>4, <1>6, Zenon
<1> HIDE DEF new
<1>8. reader' \in [Readers -> ReaderRecords]
  BY <1>1, <1>5, <1>7
<1>9. ReadersSeeTheirBlock'
  <2>1. \A q \in Readers : reader'[q] = IF q = p THEN new ELSE reader[q]
    BY <1>1, <1>5
  <2>2. QED
    BY <1>1, <1>7, <2>1 DEF ReadersSeeTheirBlock
<1>10. StoreInv' /\ PhaseInv' /\ TypeInv'
  BY <1>5, <1>8 DEF StorageInv, StoreInv, PhaseInv, TypeInv, Lmdb
<1>11. QED
  BY <1>9, <1>10 DEF StorageInv

LEMMA FinishReadStep ==
    ASSUME StorageInv, NEW p \in Readers, FinishRead(p)
    PROVE  StorageInv'
<1>1. reader \in [Readers -> ReaderRecords] /\ ReadersSeeTheirBlock
  BY DEF StorageInv, TypeInv
<1>2. /\ reader' = [reader EXCEPT ![p] = Idle] /\ store' = store /\ phase' = phase
      /\ backend' = backend /\ tip' = tip /\ mode' = mode /\ target' = target
  BY DEF FinishRead
<1>3. \A q \in Readers : reader'[q] = IF q = p THEN Idle ELSE reader[q]
  BY <1>1, <1>2
<1>4. reader' \in [Readers -> ReaderRecords]
  BY <1>1, <1>2, IdleReader
<1>5. ReadersSeeTheirBlock'
  BY <1>1, <1>3, IdleReader DEF ReadersSeeTheirBlock
<1>6. StoreInv' /\ PhaseInv' /\ TypeInv'
  BY <1>2, <1>4 DEF StorageInv, StoreInv, PhaseInv, TypeInv, Lmdb
<1>7. QED
  BY <1>5, <1>6 DEF StorageInv

\* The end of a process, however it comes about.
LEMMA EndProcessKeeps ==
    ASSUME StorageInv, NEW s, UsableStore(s), EndProcess(s)
    PROVE  StorageInv'
<1>1. /\ store' = Down(s) /\ phase' = "down" /\ mode' = "UP_TO_DATE"
      /\ reader' = [p \in Readers |-> Idle] /\ backend' = backend /\ tip' = tip
  BY DEF EndProcess
<1>2. Lmdb' <=> Lmdb
  BY <1>1 DEF Lmdb
<1>3. GoodStore(store', Lmdb) /\ store'.batched = 0
  BY <1>1, DownGood
<1>4. StoreInv' /\ PhaseInv'
  BY <1>1, <1>2, <1>3 DEF StoreInv, PhaseInv
<1>5. TypeInv'
  BY <1>1, IdleReader DEF StorageInv, TypeInv, Phases
<1>6. ReadersSeeTheirBlock'
  BY <1>1, IdleReader DEF ReadersSeeTheirBlock
<1>7. QED
  BY <1>4, <1>5, <1>6 DEF StorageInv

\* In every phase the images are good.
LEMMA AlwaysUsable ==
    ASSUME StorageInv
    PROVE  UsableStore(store)
  BY DEF StorageInv, StoreInv, GoodStore, AbortedStore

LEMMA StartStep ==
    ASSUME StorageInv, Start
    PROVE  StorageInv'
<1>1. GoodStore(store, Lmdb) /\ store.batched = 0
  BY DEF StorageInv, StoreInv, PhaseInv, Start
<1>2. /\ backend' = backend /\ tip' = tip /\ reader' = reader
      /\ phase' = "reinit" /\ mode' = mode /\ target' = target
      /\ store' = IF Lmdb THEN LMDB!Initialise(store) ELSE SQLite!OpenDatabase(store)
  BY DEF Start
<1>3. Lmdb' <=> Lmdb
  BY <1>2 DEF Lmdb
<1>4. GoodStore(store', Lmdb)
  BY <1>1, <1>2, StartGood
<1>5. StoreInv' /\ PhaseInv' /\ phase' \in Phases
  BY <1>2, <1>3, <1>4 DEF StoreInv, PhaseInv, Phases
<1>6. QED
  BY <1>2, <1>5, StepKeeps DEF StorageInv, TypeInv

LEMMA TipChangeStep ==
    ASSUME StorageInv, TipChange
    PROVE  StorageInv'
<1>1. /\ backend' = backend /\ store' = store /\ reader' = reader /\ phase' = phase
      /\ mode' = mode /\ target' = target /\ tip' \in Seq(Labels)
  BY BlocksType DEF TipChange
<1>2. QED
  BY <1>1 DEF StorageInv, StoreInv, PhaseInv, TypeInv, ReadersSeeTheirBlock, Lmdb

-----------------------------------------------------------------------------
(***************************************************************************)
(* The theorems.                                                           *)
(***************************************************************************)
LEMMA StorageStep == StorageInv /\ [Next]_vars => StorageInv'
<1> SUFFICES ASSUME StorageInv, [Next]_vars PROVE StorageInv'
  OBVIOUS
<1>1. UsableStore(store)
  BY AlwaysUsable
<1>2. ASSUME GameStep PROVE StorageInv'
  <2>1. ASSUME Terminate PROVE StorageInv'
    BY <1>1, <2>1, EndProcessKeeps DEF Terminate
  <2>2. QED
    BY <1>2, <2>1, StartStep, SyncStep, LearnGenesisStep, StartOverStep, ClearStep,
       PrepareGenesisStep, StoreGenesisStep, AttachStep, PruneStep, DetachStep
       DEF GameStep
<1>3. ASSUME NEW r \in Readers, StartRead(r) \/ FinishRead(r) PROVE StorageInv'
  BY <1>3, StartReadStep, FinishReadStep
<1>4. ASSUME Kill PROVE StorageInv'
  BY <1>1, <1>4, EndProcessKeeps DEF Kill
<1>5. ASSUME Stop PROVE StorageInv'
  <2>1. GoodStore(store, Lmdb) /\ EndProcess(Flush(store))
    BY <1>5 DEF StorageInv, StoreInv, Stop
  <2>2. UsableStore(Flush(store))
    BY <2>1, FlushUsable
  <2>3. QED
    BY <2>1, <2>2, EndProcessKeeps
<1>6. ASSUME UNCHANGED vars PROVE StorageInv'
  BY <1>6 DEF vars, StorageInv, StoreInv, PhaseInv, TypeInv, ReadersSeeTheirBlock, Lmdb
<1>7. QED
  BY <1>2, <1>3, <1>4, <1>5, <1>6, TipChangeStep DEF Next

LEMMA StorageInvariant == Spec => []StorageInv
<1>1. StorageInv /\ [Next]_vars => StorageInv'
  BY StorageStep
<1>2. QED
  BY InitInv, <1>1, PTL DEF Spec

\* The rows of the game are those of the recorded block, in the open
\* transaction and on disk, through batches, retries with a larger map,
\* failed commits, kills and restarts.
THEOREM RowsMatchBlock == Spec => []ContentMatchesBlock
<1>1. StorageInv => ContentMatchesBlock
  BY AlwaysUsable DEF UsableStore, GoodImage, ContentMatchesBlock
<1>2. QED
  BY <1>1, StorageInvariant, PTL

\* Every changeset that is stored takes the rows of its block back to those
\* of the parent, without a conflict.
THEOREM UndoDataRestores == Spec => []UndoRestoresParent
<1>1. ASSUME StorageInv PROVE UndoRestoresParent
  <2>1. GoodImage(store.view) /\ GoodImage(store.disk)
    BY <1>1, AlwaysUsable DEF UsableStore
  <2>2. \A db \in {store.view, store.disk} : \A r \in db.undo :
          r \in UndoRows /\ GoodUndo(r)
    BY <2>1 DEF GoodImage, Images
  <2>3. QED
    BY <2>2, UndoRestores DEF UndoRestoresParent
<1>2. QED
  BY <1>1, StorageInvariant, PTL

\* Once Game is up to date nothing is left in an open transaction.
THEOREM UpToDateIsDurable == Spec => []CommittedIsDurable
<1>1. ASSUME StorageInv PROVE CommittedIsDurable
  <2>1. SUFFICES ASSUME phase = "run", mode = "UP_TO_DATE"
                 PROVE  store.disk = store.view
    BY DEF CommittedIsDurable
  <2>2. GoodStore(store, Lmdb) /\ store.batchSize = 1
    BY <1>1, <2>1 DEF StorageInv, StoreInv, PhaseInv
  <2>3. store.batched \in Nat /\ store.batched < 1
    BY <2>2, StoreTypes DEF GoodStore, UsableStore
  <2>4. store.batched = 0
    BY <2>3
  <2>5. QED
    BY <2>2, <2>4 DEF GoodStore
<1>2. QED
  BY <1>1, StorageInvariant, PTL

\* RPC threads return the state of the block they report.
THEOREM ReadersAreConsistent == Spec => []ReadersSeeTheirBlock
<1>1. StorageInv => ReadersSeeTheirBlock
  BY DEF StorageInv
<1>2. QED
  BY <1>1, StorageInvariant, PTL

\* No CHECK of SQLiteGame fails: neither EnsureCurrentState nor the one on a
\* changeset that meets a conflict aborts the process.
THEOREM ChecksOfSQLiteGameHold == Spec => [](phase # "aborted")
<1>1. StorageInv => phase # "aborted"
  BY DEF StorageInv, TypeInv, Phases
<1>2. QED
  BY <1>1, StorageInvariant, PTL
=============================================================================
