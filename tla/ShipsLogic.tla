----------------------------- MODULE ShipsLogic -----------------------------
(***************************************************************************)
(* The on-chain part of Xayaships: channels are created, joined, aborted   *)
(* and closed by moves, disputes expire, and channels that nobody joins    *)
(* time out.  A block is processed move by move (ProcessMove actions) and  *)
(* ends with EndBlock; between blocks, pending moves are tracked.  A move  *)
(* that is not valid changes nothing and is not a step.                    *)
(*                                                                         *)
(* The two seats of a channel are the Participants of StateProof, and a    *)
(* row of the channels table has the names of the players in them; before  *)
(* the join it has no board (there is nothing to agree on).  The board     *)
(* game is a parameter; module ShipsBoard has that of the code.            *)
(***************************************************************************)
EXTENDS ChannelGame

CONSTANTS
    Names,
    Winner(_),                  \* the winner of a board state, or 0
    NoReinit, NoProof,
    DISPUTE_BLOCKS, CHANNEL_TIMEOUT_BLOCKS,
    UIntMod,                    \* heights are unsigned: arithmetic wraps here
    StartHeight, MaxHeight,     \* bounds on the heights
    MaxMoves                    \* bound on the moves in a block

ASSUME LogicAssumption ==
    /\ Len(Participants) = 2
    /\ \A s \in BoardStates : Winner(s) \in 0 .. 2 /\ (Winner(s) # 0 <=>
                                  WhoseTurn(s) = NO_TURN)
    /\ \A r \in Reinits : Winner(ReinitState(r)) = 0
    /\ NoReinit \notin Reinits
    /\ IsFiniteSet(Names)
    /\ DISPUTE_BLOCKS \in Nat /\ CHANNEL_TIMEOUT_BLOCKS \in Nat
    /\ StartHeight \in Nat /\ MaxHeight \in Nat /\ MaxMoves \in Nat
    /\ UIntMod \in Nat /\ StartHeight <= MaxHeight /\ MaxHeight < UIntMod

\* Txids of creating moves are channel IDs, those of joins reinitialisations.
Txids == Reinits

VARIABLES
    height, moves,      \* block being processed, moves of it so far
    channels,           \* ID -> [names, data], data as in ChannelGame
    extradata,          \* ID -> [createdheight, participants]
    won, lost,          \* the game_stats
    pending,            \* ShipsPending: [create, join, abort, channels]
    usedTxids,
    agreed,             \* reinitialisation -> proofs agreed off chain so far
    joined              \* number of channels that were joined

vars == <<height, moves, channels, extradata, won, lost, pending, usedTxids,
          agreed, joined>>

NoPending == [create |-> {}, join |-> {}, abort |-> {}, channels |-> <<>>]

Init ==
    /\ height = StartHeight
    /\ moves = 0
    /\ channels = <<>>
    /\ extradata = <<>>
    /\ won = [n \in Names |-> 0]
    /\ lost = [n \in Names |-> 0]
    /\ pending = NoPending
    /\ usedTxids = {}
    /\ agreed = <<>>
    /\ joined = 0

With(f, id, v) ==
    [i \in DOMAIN f \cup {id} |-> IF i = id THEN v ELSE f[i]]

Without(f, ids) == [id \in DOMAIN f \ ids |-> f[id]]

Seats(id) == Len(channels[id].names)

ProcessMove == /\ moves < MaxMoves
               /\ moves' = moves + 1
               /\ UNCHANGED <<height, pending>>

-----------------------------------------------------------------------------
HandleCreateChannel(name, txid) ==
    /\ ProcessMove
    /\ txid \notin usedTxids
    /\ usedTxids' = usedTxids \cup {txid}
    /\ channels' = With(channels, txid,
          [names |-> <<name>>, data |-> [reinit |-> NoReinit,
                                         proof |-> NoProof,
                                         disputeHeight |-> 0]])
    /\ extradata' = With(extradata, txid, [createdheight |-> height,
                                           participants |-> 1])
    /\ UNCHANGED <<won, lost, agreed, joined>>

ParseJoinChannelMove(name, id) ==
    /\ id \in DOMAIN channels
    /\ Seats(id) = 1
    /\ channels[id].names[1] # name

\* Mutant: the number of participants is not updated.
HandleJoinChannelOnlyMeta(name, txid, id) ==
    /\ ProcessMove
    /\ txid \notin usedTxids
    /\ ParseJoinChannelMove(name, id)
    /\ usedTxids' = usedTxids \cup {txid}
    /\ channels' = [channels EXCEPT
                      ![id] = [names |-> Append(@.names, name),
                               data |-> Reinitialise(@.data, txid)]]
    /\ agreed' = With(agreed, txid, <<StateProofFromReinit(txid)>>)
    /\ joined' = joined + 1
    /\ UNCHANGED <<extradata, won, lost>>

HandleJoinChannel(name, txid, id) ==
    /\ ProcessMove
    /\ txid \notin usedTxids
    /\ ParseJoinChannelMove(name, id)
    /\ usedTxids' = usedTxids \cup {txid}
    /\ channels' = [channels EXCEPT
                      ![id] = [names |-> Append(@.names, name),
                               data |-> Reinitialise(@.data, txid)]]
    /\ extradata' = [extradata EXCEPT ![id].participants = 2]
    /\ agreed' = With(agreed, txid, <<StateProofFromReinit(txid)>>)
    /\ joined' = joined + 1
    /\ UNCHANGED <<won, lost>>

ParseAbortChannelMove(name, id) ==
    /\ id \in DOMAIN channels
    /\ Seats(id) = 1
    /\ channels[id].names[1] = name

DeleteChannels(ids) == /\ channels' = Without(channels, ids)
                       /\ extradata' = Without(extradata, ids)

HandleAbortChannel(name, id) ==
    /\ ProcessMove
    /\ ParseAbortChannelMove(name, id)
    /\ DeleteChannels({id})
    /\ UNCHANGED <<won, lost, usedTxids, agreed, joined>>

\* Each of the channels is won by the seat winner[id].
UpdateStats(winner) ==
    LET loser == [id \in DOMAIN winner |-> 3 - winner[id]]
        count(n, seat) == Cardinality({id \in DOMAIN winner :
                                         channels[id].names[seat[id]] = n})
    IN  /\ won' = [n \in Names |-> won[n] + count(n, winner)]
        /\ lost' = [n \in Names |-> lost[n] + count(n, loser)]

HandleDeclareLoss(name, id, r) ==
    /\ ProcessMove
    /\ id \in DOMAIN channels
    /\ Seats(id) = 2
    /\ channels[id].data.reinit = r
    /\ \E loser \in 1 .. 2 : /\ channels[id].names[loser] = name
                             /\ UpdateStats([i \in {id} |-> 3 - loser])
    /\ DeleteChannels({id})
    /\ UNCHANGED <<usedTxids, agreed, joined>>

\* A channel whose state on chain has a winner is closed right away.
HandleDisputeResolution(id, proof, isDispute) ==
    LET data == channels[id].data
        new == IF isDispute THEN ProcessDispute(data, height, proof)
                            ELSE ProcessResolution(data, proof)
    IN  /\ ProcessMove
        /\ id \in DOMAIN channels
        /\ Seats(id) = 2
        /\ IF isDispute THEN ValidDispute(data, proof)
                        ELSE ValidResolution(data, proof)
        /\ IF Winner(LatestOnChain(new)) # 0
           THEN /\ UpdateStats([i \in {id} |-> Winner(LatestOnChain(new))])
                /\ DeleteChannels({id})
           ELSE /\ channels' = [channels EXCEPT ![id].data = new]
                /\ UNCHANGED <<extradata, won, lost>>
        /\ UNCHANGED <<usedTxids, agreed, joined>>

-----------------------------------------------------------------------------
QueryForDisputeHeight(h) ==
    {id \in DOMAIN channels : /\ HasDispute(channels[id].data)
                              /\ channels[id].data.disputeHeight <= h}

\* Mutant: a dispute expires a block too early.
ExpiredEarly(h) == QueryForDisputeHeight((h - DISPUTE_BLOCKS + 1) % UIntMod)

\* The disputed channels that ProcessExpiredDisputes closes; the difference
\* of the heights is unsigned.
Expired(h) == QueryForDisputeHeight((h - DISPUTE_BLOCKS) % UIntMod)

\* Mutant: a channel has to be older than the timeout.
TimedOutLater(h) ==
    {id \in DOMAIN extradata :
        /\ h >= CHANNEL_TIMEOUT_BLOCKS
        /\ extradata[id].participants < 2
        /\ extradata[id].createdheight < h - CHANNEL_TIMEOUT_BLOCKS}

\* The channels that TimeOutChannels deletes.
TimedOut(h) ==
    {id \in DOMAIN extradata :
        /\ h >= CHANNEL_TIMEOUT_BLOCKS
        /\ extradata[id].participants < 2
        /\ extradata[id].createdheight <= h - CHANNEL_TIMEOUT_BLOCKS}

\* Mutant: the pending moves are kept over a block.
EndBlockKeepsPending ==
    /\ height < MaxHeight
    /\ UpdateStats([id \in Expired(height) |->
                       3 - WhoseTurn(LatestOnChain(channels[id].data))])
    /\ DeleteChannels(Expired(height) \cup TimedOut(height))
    /\ height' = height + 1
    /\ moves' = 0
    /\ UNCHANGED <<usedTxids, agreed, joined, pending>>

\* After the moves of a block, the player whose turn it is loses an expired
\* dispute and channels time out.  With the new block, pending moves are
\* cleared.
EndBlock ==
    /\ height < MaxHeight
    /\ UpdateStats([id \in Expired(height) |->
                       3 - WhoseTurn(LatestOnChain(channels[id].data))])
    /\ DeleteChannels(Expired(height) \cup TimedOut(height))
    /\ height' = height + 1
    /\ moves' = 0
    /\ pending' = NoPending
    /\ UNCHANGED <<usedTxids, agreed, joined>>

-----------------------------------------------------------------------------
\* Pending moves are processed on the confirmed state between blocks.
AddPendingMove ==
    /\ moves = 0
    /\ UNCHANGED <<height, moves, channels, extradata, won, lost, usedTxids,
                   agreed, joined>>

PendingCreate(name, txid) ==
    /\ AddPendingMove
    /\ txid \notin usedTxids
    /\ pending' = [pending EXCEPT !.create = @ \cup {<<name, txid>>}]

PendingJoin(name, id) ==
    /\ AddPendingMove
    /\ ParseJoinChannelMove(name, id)
    /\ pending' = [pending EXCEPT !.join = @ \cup {<<name, id>>}]

PendingAbort(name, id) ==
    /\ AddPendingMove
    /\ ParseAbortChannelMove(name, id)
    /\ pending' = [pending EXCEPT !.abort = @ \cup {id}]

\* The turn count a pending proof for the channel has to exceed.
KnownTurnCount(id) ==
    IF id \in DOMAIN pending.channels THEN pending.channels[id].turnCount
    ELSE TurnCount(LatestOnChain(channels[id].data))

\* A state proof that is fresher than what is on chain or pending already.
\* (It cannot be one of the joined game before the channel is joined.)
AddPendingStateProof(id, proof) ==
    LET cnt == TurnCount(UnverifiedProofEndState(proof)) IN
    /\ AddPendingMove
    /\ id \in DOMAIN channels
    /\ Seats(id) = 2
    /\ VerifyStateProof(channels[id].data.reinit, proof)
    /\ cnt > KnownTurnCount(id)
    /\ pending' = [pending EXCEPT !.channels =
                      With(@, id, [proof |-> proof, turnCount |-> cnt])]

-----------------------------------------------------------------------------
\* The players of a joined channel agree on another move off chain.
OffChainMove(r, mv) ==
    LET latest == agreed[r][Len(agreed[r])] IN
    /\ r \in DOMAIN agreed
    /\ \E id \in DOMAIN channels : channels[id].data.reinit = r
    /\ CanExtend(latest, mv)
    /\ agreed' = [agreed EXCEPT ![r] =
                     Append(@, ExtendStateProof(r, latest, mv))]
    /\ UNCHANGED <<height, moves, channels, extradata, won, lost, pending,
                   usedTxids, joined>>

AgreedProofs == UNION {{agreed[r][i] : i \in DOMAIN agreed[r]} :
                          r \in DOMAIN agreed}

Next ==
    \/ \E name \in Names, txid \in Txids :
          \/ HandleCreateChannel(name, txid)
          \/ PendingCreate(name, txid)
    \/ \E id \in DOMAIN channels :
          \/ \E name \in Names :
                \/ \E txid \in Txids : HandleJoinChannel(name, txid, id)
                \/ HandleAbortChannel(name, id)
                \/ \E r \in Reinits : HandleDeclareLoss(name, id, r)
                \/ PendingJoin(name, id)
                \/ PendingAbort(name, id)
          \/ \E proof \in AgreedProofs :
                \/ \E isDispute \in BOOLEAN :
                      HandleDisputeResolution(id, proof, isDispute)
                \/ AddPendingStateProof(id, proof)
    \/ \E r \in Reinits, mv \in BoardMoves : OffChainMove(r, mv)
    \/ EndBlock

Spec == Init /\ [][Next]_vars

-----------------------------------------------------------------------------
OpenMatches == {id \in DOMAIN channels : Seats(id) = 2}

Total(f) == MapThenSumSet(LAMBDA n : f[n], Names)

\* Every channel that was joined is still open, or has been counted once as
\* won and once as lost: a match closed by one move or timeout is not closed
\* again by another, nor dropped without a result (UpdateStats,
\* DeleteChannelById, TimeOutChannels).  While it is open, the state on chain
\* has a turn, and only matches have disputes: the CHECKs of
\* ProcessExpiredDisputes hold.
EveryMatchCountsOnce ==
    /\ Total(won) = joined - Cardinality(OpenMatches)
    /\ Total(lost) = Total(won)
    /\ \A id \in OpenMatches :
          WhoseTurn(LatestOnChain(channels[id].data)) # NO_TURN
    /\ \A id \in DOMAIN channels \ OpenMatches :
          ~HasDispute(channels[id].data)

\* Nothing stays open for longer than its time: neither a channel nobody
\* joins nor a dispute nobody answers.  In particular the CHECK_EQ on the
\* creation height in TimeOutChannels holds.
NothingOverdue ==
    /\ \A id \in DOMAIN extradata :
          extradata[id].participants = 1 =>
              extradata[id].createdheight + CHANNEL_TIMEOUT_BLOCKS >= height
    /\ \A id \in OpenMatches :
          HasDispute(channels[id].data) =>
              channels[id].data.disputeHeight + DISPUTE_BLOCKS >= height

\* Between blocks, what is shown as pending refers to the confirmed state: a
\* proof is fresher than the state of its match, and channels to be joined or
\* aborted are open.
PendingIsCurrent ==
    moves = 0 =>
        /\ \A id \in DOMAIN pending.channels :
              /\ id \in OpenMatches
              /\ TurnCount(UnverifiedProofEndState(pending.channels[id].proof))
                   > TurnCount(LatestOnChain(channels[id].data))
        /\ \A id \in pending.abort \cup {j[2] : j \in pending.join} :
              id \in DOMAIN channels \ OpenMatches

\* The end of a block closes a match only when its dispute has been open for
\* DISPUTE_BLOCKS blocks, so that there was time for an answer.  Below that
\* height, the unsigned difference wraps and a dispute expires at once.
DisputeGetsItsTime ==
    [][height' # height =>
         \A id \in OpenMatches \ DOMAIN channels' :
             /\ HasDispute(channels[id].data)
             /\ \/ channels[id].data.disputeHeight + DISPUTE_BLOCKS <= height
                \/ height < DISPUTE_BLOCKS]_vars
=============================================================================
