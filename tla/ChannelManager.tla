--------------------------- MODULE ChannelManager ---------------------------
(***************************************************************************)
(* ChannelManager: the logic of a channel daemon.  Every public method     *)
(* takes the manager's mutex for its whole duration, so each is one        *)
(* operator from the state of the manager to its new state; `out' and      *)
(* `txs' collect what the method broadcasts and which moves it sends to    *)
(* the blockchain, and `check' names the CHECK that aborts the process.    *)
(* `wallet' says what the wallet does during the method: whether it sends  *)
(* moves (otherwise name_update throws and the transaction ID is null),    *)
(* and how many automoves it signs.  `me' is the player of the daemon.     *)
(***************************************************************************)
EXTENDS RollingState

CONSTANTS
    HasAutoMove(_),     \* OpenChannel::MaybeAutoMove finds a move
    AutoMove(_),        \* that move
    IsFinal(_),         \* OpenChannel::MaybeOnChainMove sends a move
    InputPlayers,       \* who has to give input before automoves are found
    MaxAutoMoves,       \* bound on the automoves made in a row
    NoTx, NoDispute

\* An automove is a valid move (ProcessAutoMoves has a CHECK on it).
ASSUME AutoMoveAssumption ==
    /\ MaxAutoMoves \in Nat
    /\ \A s \in BoardStates : WhoseTurn(s) # NO_TURN /\ HasAutoMove(s) =>
          AutoMove(s) \in BoardMoves /\ IsMove(s, AutoMove(s))

Txs == [kind : {"resolution", "dispute", "close"}, by : Players,
        proof : StateProofs]

Messages == [reinit : Reinits, proof : StateProofs]

NoCheck == "ok"

\* The CHECKs of the methods, as the code writes them; CHECK (ApplyLocalMove)
\* on a move that is not valid, and on one that the wallet did not sign.
NotSigned == "ApplyLocalMove, not signed"
Checks == {NoCheck, "dispute->turn != NO_TURN", "!stopped && exists",
           "UpdateWithMove", "ApplyLocalMove", NotSigned,
           "latestCnt == onChainCnt",
           "State proof provided on-chain is not valid"}

Wallets == [sends : BOOLEAN, signs : 0 .. MaxAutoMoves]

Managers == [rs : RollingStates, exists : BOOLEAN, stopped : BOOLEAN,
             auto : BOOLEAN,
             dispute : {NoDispute} \cup
                [turn : Players \cup {NO_TURN}, count : Nat,
                 pendingResolution : Txs \cup {NoTx}],
             pendingDispute : Txs \cup {NoTx},
             check : Checks, out : Seq(Messages), txs : SUBSET (Txs \cup {NoTx})]

NewManager(p) ==
    [rs |-> NewRollingState, exists |-> FALSE, stopped |-> FALSE,
     auto |-> p \notin InputPlayers, dispute |-> NoDispute,
     pendingDispute |-> NoTx, check |-> NoCheck, out |-> <<>>, txs |-> {}]

Fails(m, name) == [m EXCEPT !.check = name]

Latest(m) == GetLatestState(m.rs)

\* MoveSender::SendMove: the transaction, or null if the wallet fails.
SendMove(tx, wallet) == IF wallet.sends THEN tx ELSE NoTx

Sent(m, tx) == [m EXCEPT !.txs = @ \cup {tx}]

-----------------------------------------------------------------------------
CanResolve(m, me) ==
    /\ m.exists
    /\ m.dispute # NoDispute
    /\ m.dispute.pendingResolution = NoTx
    /\ m.dispute.turn = me
    /\ TurnCount(Latest(m)) > m.dispute.count

TryResolveDispute(m, me, wallet) ==
    LET tx == SendMove([kind |-> "resolution", by |-> me,
                        proof |-> GetStateProof(m.rs)], wallet)
        due == /\ m.exists
               /\ m.dispute # NoDispute
               /\ m.dispute.pendingResolution = NoTx
    IN  IF due /\ m.dispute.turn = NO_TURN
        THEN Fails(m, "dispute->turn != NO_TURN")
        ELSE IF ~CanResolve(m, me) THEN m
        ELSE Sent([m EXCEPT !.dispute.pendingResolution = tx], tx)

\* A local move is valid, and it is our turn: the wallet has the key to sign.
IsLocalMove(m, me, mv) ==
    CanExtend(GetStateProof(m.rs), mv) /\ WhoseTurn(Latest(m)) = me

ApplyLocalMove(m, mv) ==
    LET r == m.rs.reinitId
        new == ExtendStateProof(r, GetStateProof(m.rs), mv)
    IN  IF m.stopped \/ ~m.exists THEN Fails(m, "!stopped && exists")
        ELSE IF ~SignalsChange(m.rs, r, new) THEN Fails(m, "UpdateWithMove")
        ELSE [m EXCEPT !.rs = UpdateWithMove(m.rs, r, new)]

AutoMoveDue(m, me) ==
    /\ m.check = NoCheck
    /\ WhoseTurn(Latest(m)) = me
    /\ m.auto /\ HasAutoMove(Latest(m))

\* One round of the loop in ProcessAutoMoves.  ApplyLocalMove looks at
\* `exists' before it asks the wallet for the signature.
AutoStep(m, me, sign) ==
    LET mv == AutoMove(Latest(m))
    IN  IF ~AutoMoveDue(m, me) THEN m
        ELSE IF ~IsLocalMove(m, me, mv) THEN Fails(m, "ApplyLocalMove")
        ELSE IF sign \/ m.stopped \/ ~m.exists THEN ApplyLocalMove(m, mv)
        ELSE Fails(m, NotSigned)

ProcessAutoMoves(m, me, wallet) ==
    LET step[k \in 0 .. MaxAutoMoves] ==
            IF k = 0 THEN m ELSE AutoStep(step[k - 1], me, k <= wallet.signs)
    IN  step[MaxAutoMoves]

Broadcast(m) ==
    [m EXCEPT !.out = Append(@, [reinit |-> m.rs.reinitId,
                                 proof |-> GetStateProof(m.rs)])]

\* What the game sends itself when the channel has come to an end.  Who
\* sends it makes no difference.
MaybeOnChainMove(m, wallet) ==
    IF IsFinal(Latest(m))
    THEN Sent(m, SendMove([kind |-> "close", by |-> 1,
                           proof |-> StateProofFromReinit(m.rs.reinitId)], wallet))
    ELSE m

ProcessStateUpdate(m, me, broadcast, wallet) ==
    LET moved == ProcessAutoMoves(m, me, wallet)
        told == IF broadcast \/ moved.rs # m.rs THEN Broadcast(moved)
                                                ELSE moved
        resolved == TryResolveDispute(told, me, wallet)
    IN  IF moved.check # NoCheck THEN moved
        ELSE IF resolved.check # NoCheck THEN resolved
        ELSE MaybeOnChainMove(resolved, wallet)

-----------------------------------------------------------------------------
ProcessOffChain(m, me, msg, wallet) ==
    LET new == [m EXCEPT !.rs = UpdateWithMove(m.rs, msg.reinit, msg.proof)]
    IN  IF m.stopped THEN m
        ELSE IF ~SignalsChange(m.rs, msg.reinit, msg.proof) THEN new
        ELSE ProcessStateUpdate(new, me, FALSE, wallet)

ProcessOnChainNonExistant(m) ==
    IF m.stopped THEN m ELSE [m EXCEPT !.exists = FALSE]

ResetMinedTxid(tx, mempool) == IF tx \in mempool THEN tx ELSE NoTx

\* Mutant: a resolution that was sent once counts as pending for ever.
NewDisputeSticky(m, ch, mempool) ==
    LET end == UnverifiedProofEndState(ch.proof) IN
    IF ch.disputeHeight = 0 THEN NoDispute
    ELSE [turn |-> WhoseTurn(end), count |-> TurnCount(end),
          pendingResolution |-> IF m.dispute = NoDispute THEN NoTx
                                ELSE m.dispute.pendingResolution]

NewDispute(m, ch, mempool) ==
    LET end == UnverifiedProofEndState(ch.proof) IN
    IF ch.disputeHeight = 0 THEN NoDispute
    ELSE [turn |-> WhoseTurn(end), count |-> TurnCount(end),
          pendingResolution |->
             IF m.dispute = NoDispute THEN NoTx
             ELSE ResetMinedTxid(m.dispute.pendingResolution, mempool)]

ProcessOnChain(m, me, ch, mempool, wallet) ==
    LET new == [m EXCEPT
                   !.exists = TRUE,
                   !.pendingDispute = ResetMinedTxid(@, mempool),
                   !.rs = UpdateOnChain(@, ch.reinit, ch.proof),
                   !.dispute = NewDispute(m, ch, mempool)]
    IN  IF m.stopped THEN m
        ELSE IF ~OnChainProofIsValid(ch.reinit, ch.proof)
        THEN Fails(m, "State proof provided on-chain is not valid")
        ELSE ProcessStateUpdate(new, me, FALSE, wallet)

\* A move that the wallet does not sign is ignored.
ProcessLocalMove(m, me, mv, wallet) ==
    IF m.stopped \/ ~m.exists \/ ~IsLocalMove(m, me, mv) THEN m
    ELSE LET new == ApplyLocalMove(m, mv)
         IN  IF new.check # NoCheck THEN new
             ELSE ProcessStateUpdate(new, me, TRUE, wallet)

\* The input that makes automoves possible has been given just before.
TriggerAutoMoves(m, me, wallet) ==
    LET moved == ProcessAutoMoves([m EXCEPT !.auto = TRUE], me, wallet)
    IN  IF m.stopped \/ ~m.exists THEN [m EXCEPT !.auto = TRUE]
        ELSE IF moved.check # NoCheck \/ moved.rs = m.rs THEN moved
        ELSE ProcessStateUpdate(moved, me, TRUE, wallet)

\* The transaction is only remembered to be shown, which is left out.
PutStateOnChain(m, me, wallet) ==
    LET latest == TurnCount(Latest(m))
        onChain == GetOnChainTurnCount(m.rs)
        tx == SendMove([kind |-> "resolution", by |-> me,
                        proof |-> GetStateProof(m.rs)], wallet)
    IN  IF ~m.exists THEN m
        ELSE IF latest < onChain THEN Fails(m, "latestCnt == onChainCnt")
        ELSE IF latest = onChain THEN m
        ELSE Sent(m, tx)

FileDispute(m, me, wallet) ==
    LET tx == SendMove([kind |-> "dispute", by |-> me,
                        proof |-> GetStateProof(m.rs)], wallet)
    IN  IF ~m.exists \/ m.dispute # NoDispute \/ m.pendingDispute # NoTx THEN m
        ELSE Sent([m EXCEPT !.pendingDispute = tx], tx)

StopUpdates(m) == [m EXCEPT !.stopped = TRUE]
=============================================================================
