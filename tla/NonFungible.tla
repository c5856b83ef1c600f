----------------------------- MODULE NonFungible ----------------------------
(***************************************************************************)
(* The rules of the example game for assets.  db is the confirmed database *)
(* [assets, balances, ok], where ok is FALSE once a CHECK or a constraint  *)
(* failed, which ends the process; pend is the pending state, an overlay   *)
(* of the database.  MoveParser decides alike for both, from the existence *)
(* of the asset and the balance that MoveProcessor reads from db and       *)
(* PendingStateUpdater from the overlay.                                   *)
(***************************************************************************)
EXTENDS Integers, Sequences, SequencesExt

CONSTANTS
    MaxAmount,          \* MAX_AMOUNT, 2^60 in the code
    UnprintableNames    \* names of assets and minters with control characters

IsValidName(nm) == nm \notin UnprintableNames

AmountFromJson(n) == n \in 0..MaxAmount

\* An operation of an unknown or malformed kind has the kind "invalid".
\* A mint names an asset of its sender, the others one of any minter.
AssetOf(name, op) ==
    IF op.kind = "mint" THEN <<name, op.asset>> ELSE <<op.minter, op.asset>>

HandleMint(op, exists) ==
    /\ op.kind = "mint"
    /\ IsValidName(op.asset)
    /\ AmountFromJson(op.n)
    /\ ~exists

AssetFromJson(op) == IsValidName(op.minter) /\ IsValidName(op.asset)

HandleTransfer(op, balance) ==
    /\ op.kind = "transfer"
    /\ AssetFromJson(op)
    /\ AmountFromJson(op.n) /\ op.n > 0
    /\ op.n <= balance

HandleBurn(op, balance) ==
    /\ op.kind = "burn"
    /\ AssetFromJson(op)
    /\ AmountFromJson(op.n) /\ op.n > 0
    /\ op.n <= balance

HandleOperation(op, exists, balance) ==
    HandleMint(op, exists) \/ HandleTransfer(op, balance) \/ HandleBurn(op, balance)

\* The calls of UpdateBalance an operation makes, in order.
BalanceUpdates(name, op) ==
    CASE op.kind = "mint" ->
            IF op.n > 0 THEN <<[name |-> name, num |-> op.n]>> ELSE <<>>
      [] op.kind = "transfer" ->
            <<[name |-> name, num |-> -op.n], [name |-> op.recipient, num |-> op.n]>>
      [] op.kind = "burn" ->
            <<[name |-> name, num |-> -op.n]>>

-----------------------------------------------------------------------------
\* MoveProcessor, on the database.
AssetExists(db, a) == a \in DOMAIN db.assets

GetDbBalance(db, a, name) ==
    IF <<name, a>> \in DOMAIN db.balances THEN db.balances[<<name, a>>] ELSE 0

SetRow(rows, key, value) ==
    [k \in DOMAIN rows \union {key} |-> IF k = key THEN value ELSE rows[k]]

DeleteRow(rows, key) == [k \in DOMAIN rows \ {key} |-> rows[k]]

UpdateBalance(db, a, name, num) ==
    LET newBalance == GetDbBalance(db, a, name) + num
    IN  [db EXCEPT !.ok = @ /\ newBalance \in 0..MaxAmount,
                   !.balances = IF newBalance = 0 THEN DeleteRow(@, <<name, a>>)
                                ELSE SetRow(@, <<name, a>>, newBalance)]

ProcessOperation(db, name, op) ==
    LET a == AssetOf(name, op)
        minted == IF op.kind # "mint" THEN db
                  ELSE [db EXCEPT !.ok = @ /\ ~AssetExists(db, a),
                                  !.assets = SetRow(@, a, op.data)]
        Update(d, u) == UpdateBalance(d, a, u.name, u.num)
    IN  IF HandleOperation(op, AssetExists(db, a), GetDbBalance(db, a, name))
        THEN FoldLeft(Update, minted, BalanceUpdates(name, op))
        ELSE db

\* A move is one operation or an array of them.
ProcessOne(db, mv) ==
    LET Process(d, op) == ProcessOperation(d, mv.name, op)
    IN  FoldLeft(Process, db, mv.ops)

ProcessAll(db, moves) == FoldLeft(ProcessOne, db, moves)

InitialiseState == [assets |-> <<>>, balances |-> <<>>, ok |-> TRUE]

-----------------------------------------------------------------------------
\* PendingStateUpdater, on the overlay.
Clear == [assets |-> <<>>, balances |-> <<>>, ok |-> TRUE]

\* Mutant: only assets of the database count as existing.
PendingAssetExistsConfirmed(pend, db, a) == AssetExists(db, a)

PendingAssetExists(pend, db, a) ==
    a \in DOMAIN pend.assets \/ AssetExists(db, a)

PendingGetBalance(pend, db, a, name) ==
    IF <<name, a>> \in DOMAIN pend.balances THEN pend.balances[<<name, a>>]
    ELSE GetDbBalance(db, a, name)

PendingUpdateBalance(pend, db, a, name, num) ==
    [pend EXCEPT !.balances =
        SetRow(@, <<name, a>>, PendingGetBalance(pend, db, a, name) + num)]

\* AddAsset checks that the asset was not in the map.
PendingOperation(pend, db, name, op) ==
    LET a == AssetOf(name, op)
        minted == IF op.kind # "mint" THEN pend
                  ELSE [pend EXCEPT !.ok = @ /\ a \notin DOMAIN pend.assets,
                                    !.assets = SetRow(@, a, op.data)]
        Update(p, u) == PendingUpdateBalance(p, db, a, u.name, u.num)
    IN  IF HandleOperation(op, PendingAssetExists(pend, db, a),
                               PendingGetBalance(pend, db, a, name))
        THEN FoldLeft(Update, minted, BalanceUpdates(name, op))
        ELSE pend

AddPendingOperations(pend, db, mv) ==
    LET Process(p, op) == PendingOperation(p, db, mv.name, op)
    IN  FoldLeft(Process, pend, mv.ops)

\* What the pending state makes of the database for who reads both.
Overlay(pend, db) ==
    LET keys == DOMAIN pend.balances \union DOMAIN db.balances
        Balance(k) == PendingGetBalance(pend, db, k[2], k[1])
    IN  [assets |-> [a \in DOMAIN pend.assets \union DOMAIN db.assets |->
                        IF a \in DOMAIN pend.assets THEN pend.assets[a]
                        ELSE db.assets[a]],
         balances |-> [k \in {l \in keys : Balance(l) # 0} |-> Balance(k)],
         ok |-> pend.ok /\ db.ok]
=============================================================================
