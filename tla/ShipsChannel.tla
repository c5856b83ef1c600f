---------------------------- MODULE ShipsChannel ----------------------------
(***************************************************************************)
(* A game of Xayaships between players who use the channel daemon          *)
(* (ShipsChannel and its RPC server) and players who may send any move the *)
(* rules allow.  The board is the latest state everyone has; how it gets   *)
(* to everyone is the matter of module Channel.                            *)
(*                                                                         *)
(* The position and the seed of a player are kept only in the daemon.  A   *)
(* reorg of the join puts another reinitialisation in the place of the     *)
(* current one: a fresh board, and if the chain switches back, the board   *)
(* as it was.  A restart of the daemon loses what it knew.                 *)
(***************************************************************************)
EXTENDS ShipsBoard

CONSTANTS
    Threads,            \* threads of the RPC server
    OwnPositions,       \* positions the users ask for
    OtherPositions,     \* positions others commit to
    MaxFaults           \* bound on the restarts and switches of the chain

ASSUME ChannelAssumption ==
    /\ OwnPositions \subseteq Grids /\ OtherPositions \subseteq Grids
    /\ MaxFaults \in Nat

Players == {1, 2}

VARIABLES
    daemons,        \* players who use the daemon
    board,          \* latest board of the current reinitialisation
    aside,          \* that of the reinitialisation before the switch, or None
    position, positionSalt, seed0,
    call,           \* positions of setposition calls that passed the check
    fate,           \* "running", or what aborted the daemon
    revealed,       \* players whose user called revealposition
    forgot,         \* players whose daemon lost its secrets or drew new ones
    faults

vars == <<daemons, board, aside, position, positionSalt, seed0, call, fate,
          revealed, forgot, faults>>

Secrets == <<position, positionSalt, seed0>>

\* What the salt is before SetPosition writes it: uninitialised, and not what
\* will be drawn.
NotDrawn == 0

Init ==
    /\ daemons \in {{1}, {2}}
    /\ board = InitialBoardState
    /\ aside = None
    /\ position = [p \in Players |-> {}]
    /\ positionSalt = [p \in Players |-> NotDrawn]
    /\ seed0 = [p \in Players |-> None]
    /\ call = [p \in Players |-> [t \in Threads |-> None]]
    /\ fate = [p \in Players |-> "running"]
    /\ revealed = {}
    /\ forgot = {}
    /\ faults = 0

Running(p) == p \in daemons /\ fate[p] = "running"

IsPositionSet(p) == position[p] # {}

\* A call of setposition is between the two writes of SetPosition.  It holds
\* the RPC server's mutex, but not that of the channel manager, which is the
\* one that automoves are made with.
Writing(p) == IsPositionSet(p) /\ positionSalt[p] = NotDrawn

Abort(p, why) == fate' = [fate EXCEPT ![p] = why]

-----------------------------------------------------------------------------
\* The RPC method checks without the lock that there is no position yet and
\* that the new one is valid.
SetPositionCall(p, t, g) ==
    /\ Running(p)
    /\ call[p][t] = None
    /\ ~IsPositionSet(p)
    /\ VerifyPositionOfShips(g)
    /\ call' = [call EXCEPT ![p][t] = g]
    /\ UNCHANGED <<daemons, board, aside, Secrets, fate, revealed, forgot,
                   faults>>

\* With the lock it stores the position ...
SetPosition(p, t) ==
    /\ Running(p)
    /\ call[p][t] # None
    /\ ~Writing(p)
    /\ call' = [call EXCEPT ![p][t] = None]
    /\ IF IsPositionSet(p)
       THEN Abort(p, "setposition") /\ UNCHANGED position
       ELSE position' = [position EXCEPT ![p] = call[p][t]] /\ UNCHANGED fate
    /\ UNCHANGED <<daemons, board, aside, positionSalt, seed0, revealed, forgot,
                   faults>>

\* ... and then a salt, another one after a restart; the automoves that this triggers are AutoMove.
\* One made while the salt is being written finds it neither old nor new:
\* for all that matters it is then not the new one.
DrawSalt(p) ==
    /\ Running(p)
    /\ Writing(p)
    /\ positionSalt' = [positionSalt EXCEPT ![p] = IF p \in forgot THEN 2 ELSE 1]
    /\ UNCHANGED <<daemons, board, aside, position, seed0, call, fate, revealed,
                   forgot, faults>>

GetPositionRevealMove(p) == PositionReveal(position[p], positionSalt[p])

PositionHash(p) == Hash(<<position[p], positionSalt[p]>>)

HitAll(pb, p) == Cardinality(pb.known_ships[Other(p)].hits) >= TotalShipCells

\* Whether the automove of p, whose turn it is, needs its position; it is a
\* CHECK that it is there.
NeedsPosition(pb, p) ==
    \/ GetPhase(pb) \in {"ANSWER", "SECOND_REVEAL_POSITION"}
    \/ GetPhase(pb) = "SHOOT" /\ HitAll(pb, p)

\* Mutant: the seed the first player committed to is not the one it keeps.
InternalAutoMoveOtherSeed(pb, p, s) ==
    LET phase == GetPhase(pb) IN
    CASE phase = "FIRST_COMMITMENT" ->
            IF IsPositionSet(p)
            THEN PositionCommitment(PositionHash(p), Hash(seed0[p]), None)
            ELSE None
      [] phase = "SECOND_COMMITMENT" ->
            IF IsPositionSet(p)
            THEN PositionCommitment(PositionHash(p), None, s) ELSE None
      [] phase = "FIRST_REVEAL_SEED" -> SeedReveal(seed0[p])
      [] phase = "ANSWER" ->
            Reply(IF Coord(pb.current_shot) \in position[p] THEN "HIT"
                                                            ELSE "MISS")
      [] phase = "SHOOT" /\ ~HitAll(pb, p) -> None
      [] OTHER -> GetPositionRevealMove(p)

\* Mutant: a shot is answered as if the grid had been transposed.
InternalAutoMoveTransposed(pb, p, s) ==
    LET phase == GetPhase(pb)
        c == Coord(pb.current_shot)
    IN
    CASE phase = "FIRST_COMMITMENT" ->
            IF IsPositionSet(p)
            THEN PositionCommitment(PositionHash(p), Hash(s), None) ELSE None
      [] phase = "SECOND_COMMITMENT" ->
            IF IsPositionSet(p)
            THEN PositionCommitment(PositionHash(p), None, s) ELSE None
      [] phase = "FIRST_REVEAL_SEED" -> SeedReveal(seed0[p])
      [] phase = "ANSWER" ->
            Reply(IF <<c[2], c[1]>> \in position[p] THEN "HIT" ELSE "MISS")
      [] phase = "SHOOT" /\ ~HitAll(pb, p) -> None
      [] OTHER -> GetPositionRevealMove(p)

\* The move of p, or None if it is up to the user.  The seed s is drawn for
\* the two commitments; the first player keeps it.
InternalAutoMove(pb, p, s) ==
    LET phase == GetPhase(pb) IN
    CASE phase = "FIRST_COMMITMENT" ->
            IF IsPositionSet(p)
            THEN PositionCommitment(PositionHash(p), Hash(s), None) ELSE None
      [] phase = "SECOND_COMMITMENT" ->
            IF IsPositionSet(p)
            THEN PositionCommitment(PositionHash(p), None, s) ELSE None
      [] phase = "FIRST_REVEAL_SEED" -> SeedReveal(seed0[p])
      [] phase = "ANSWER" ->
            Reply(IF Coord(pb.current_shot) \in position[p] THEN "HIT"
                                                            ELSE "MISS")
      [] phase = "SHOOT" /\ ~HitAll(pb, p) -> None
      [] OTHER -> GetPositionRevealMove(p)

\* A move changes the latest state if it is valid and raises the turn count.
Accepted(pb, mv) ==
    LET new == ApplyMoveProto(pb, mv)
    IN  new # None /\ TurnCount(new) > TurnCount(pb)

\* The manager asks for an automove whenever it is p's turn.  It is a CHECK
\* that the move can be applied, which fails, too, if the wallet does not
\* sign the new state.
AutoMove(p, s, signs) ==
    LET mv == InternalAutoMove(board, p, s)
        valid == ApplyMoveProto(board, mv) # None
    IN
    /\ Running(p)
    /\ WhoseTurn(board) = p
    /\ IF NeedsPosition(board, p) /\ ~IsPositionSet(p)
       THEN Abort(p, "automove") /\ UNCHANGED <<board, seed0, forgot>>
       ELSE /\ mv # None
            /\ IF GetPhase(board) = "FIRST_COMMITMENT"
               THEN /\ seed0' = [seed0 EXCEPT ![p] = s]
                    /\ forgot' = IF seed0[p] # None /\ aside # None
                                 THEN forgot \cup {p} ELSE forgot
               ELSE UNCHANGED <<seed0, forgot>>
            /\ CASE Accepted(board, mv) /\ signs ->
                      board' = ApplyMoveProto(board, mv) /\ UNCHANGED fate
                 [] valid /\ ~signs -> Abort(p, "not signed") /\ UNCHANGED board
                 [] OTHER -> Abort(p, "automove") /\ UNCHANGED board
    /\ UNCHANGED <<daemons, aside, position, positionSalt, call, revealed,
                   faults>>

\* The user can act when there is no automove: those come with the update
\* of the state, under the manager's lock.  The RPC server's is needed, too.
UsersTurn(p) ==
    /\ Running(p)
    /\ ~Writing(p)
    /\ WhoseTurn(board) = p
    /\ GetPhase(board) = "SHOOT" /\ ~HitAll(board, p)

Shoot(p, c) ==
    /\ UsersTurn(p)
    /\ Accepted(board, Shot(GetIndex(c)))
    /\ board' = ApplyMoveProto(board, Shot(GetIndex(c)))
    /\ UNCHANGED <<daemons, aside, Secrets, call, fate, revealed, forgot,
                   faults>>

RevealPosition(p) ==
    /\ UsersTurn(p)
    /\ IsPositionSet(p)
    /\ revealed' = revealed \cup {p}
    /\ IF Accepted(board, GetPositionRevealMove(p))
       THEN board' = ApplyMoveProto(board, GetPositionRevealMove(p))
       ELSE UNCHANGED board
    /\ UNCHANGED <<daemons, aside, Secrets, call, fate, forgot, faults>>

-----------------------------------------------------------------------------
\* What a player without the daemon may send, in each phase.
OtherMoves ==
    LET hashes == {Hash(<<g, 0>>) : g \in OtherPositions} \cup {Malformed}
        seeds == Seeds \cup {Malformed}
    IN  {PositionCommitment(h, sh, None) :
            h \in hashes, sh \in {Hash(s) : s \in Seeds} \cup {None, Malformed}}
        \cup {PositionCommitment(h, None, s) : h \in hashes, s \in seeds}
        \cup {SeedReveal(s) : s \in seeds}
        \cup {Shot(i) : i \in -1 .. CELLS}
        \cup {Reply(r) : r \in {"HIT", "MISS", "INVALID"}}
        \cup {PositionReveal(g, 0) : g \in OtherPositions}

OtherMove(p) ==
    /\ p \notin daemons
    /\ WhoseTurn(board) = p
    /\ \E mv \in OtherMoves : /\ Accepted(board, mv)
                             /\ board' = ApplyMoveProto(board, mv)
    /\ UNCHANGED <<daemons, aside, Secrets, call, fate, revealed, forgot,
                   faults>>

-----------------------------------------------------------------------------
Fault == faults < MaxFaults /\ faults' = faults + 1

\* The join is replaced by another one.  (A bound: this happens before the
\* seeds are known, and the new board is followed no further.)
SwitchReinit ==
    /\ Fault
    /\ aside = None
    /\ board.known_ships = <<>>
    /\ aside' = board
    /\ board' = InitialBoardState
    /\ UNCHANGED <<daemons, Secrets, call, fate, revealed, forgot>>

\* The first join is on the chain again.
SwitchBack ==
    /\ Fault
    /\ aside # None
    /\ board' = aside
    /\ aside' = None
    /\ UNCHANGED <<daemons, Secrets, call, fate, revealed, forgot>>

\* A restart is the only fault of a behaviour.  The daemon learns the latest
\* board again from the chain or from the other player.
Restart(p) ==
    /\ p \in daemons
    /\ faults = 0
    /\ faults' = MaxFaults
    /\ position' = [position EXCEPT ![p] = {}]
    /\ positionSalt' = [positionSalt EXCEPT ![p] = NotDrawn]
    /\ seed0' = [seed0 EXCEPT ![p] = None]
    /\ call' = [call EXCEPT ![p] = [t \in Threads |-> None]]
    /\ fate' = [fate EXCEPT ![p] = "running"]
    /\ forgot' = forgot \cup {p}
    /\ UNCHANGED <<daemons, board, aside, revealed>>

\* Bounds: the one above on which boards are followed; setposition is called
\* before the seeds are known, and has set the position and the salt before
\* the first shot; once the daemon has aborted, no more moves are followed
\* until it is started again.
Followed ==
    /\ \A p \in daemons : fate[p] = "running"
    /\ board.known_ships # <<>> =>
          /\ aside = None
          /\ \A p \in Players : /\ ~Writing(p)
                                /\ \A t \in Threads : call[p][t] = None

Next ==
    \/ \E p \in Players :
          \/ /\ board.known_ships = <<>>
             /\ \E t \in Threads, g \in OwnPositions : SetPositionCall(p, t, g)
          \/ \E t \in Threads : SetPosition(p, t)
          \/ DrawSalt(p)
          \/ Followed /\ \E s \in Seeds, signs \in BOOLEAN : AutoMove(p, s, signs)
          \/ Followed /\ \E c \in Cells : Shoot(p, c)
          \/ Followed /\ RevealPosition(p)
          \/ Followed /\ OtherMove(p)
          \/ Restart(p)
    \/ SwitchReinit
    \/ SwitchBack

Spec == Init /\ [][Next]_vars

-----------------------------------------------------------------------------
\* Every board that moves lead to is one that ParseState accepts, and that
\* ToJson can show: IsValid holds and no CHECK on hits and guesses fails.
BoardStaysValid == IsValid(board) /\ ToJsonOK(board)

\* Who uses the daemon, keeps it running and does not give up by revealing
\* loses only when all their ships have been hit, whatever the other player
\* does (InternalAutoMove, ApplyPositionReveal).
LosesOnlyIfSunk ==
    \A p \in daemons \ (forgot \cup revealed) :
        board.winner = Other(p) => position[p] \subseteq board.known_ships[p].hits

\* A player who wins after revealing had placed a fleet and answered every
\* shot truthfully (the commitment, ApplyReply, ApplyPositionReveal).
WinnerDidNotLie ==
    \A p \in Players :
        board.winner = p /\ board.positions[p] # {} =>
            /\ IsFleet(board.positions[p])
            /\ \A c \in board.known_ships[p].guessed :
                  c \in board.known_ships[p].hits <=> c \in board.positions[p]

\* The board has a commitment of p that an automove made before the salt was
\* written, so that p can not reveal the position any more.
CommittedEarly(p) ==
    /\ p \in DOMAIN board.position_hashes
    /\ board.position_hashes[p] = Hash(<<position[p], NotDrawn>>)

\* The daemon's own CHECKs hold: an automove that is signed can always be
\* applied, unless the daemon lost its secrets, drew the seed again for
\* another reinitialisation, or committed to its position while the RPC
\* server was still setting it.
AbortsOnlyWithoutSecrets ==
    \A p \in Players : fate[p] = "automove" => p \in forgot \/ CommittedEarly(p)

\* What RollingState and ProcessResolution rely on: every valid move leads
\* to a board with a higher turn count.  The one exception is the reveal of
\* a position without cells in the lower half, which TurnCount cuts off.
MovesRaiseTurnCount ==
    WhoseTurn(board) # NO_TURN =>
        \A mv \in OtherMoves :
            LET new == ApplyMoveProto(board, mv)
            IN  \/ new = None
                \/ TurnCount(new) > TurnCount(board)
                \/ mv.move = "position_reveal" /\ mv.position \cap LowCells = {}
=============================================================================
