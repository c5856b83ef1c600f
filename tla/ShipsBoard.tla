----------------------------- MODULE ShipsBoard -----------------------------
(***************************************************************************)
(* The rules of a game of Xayaships on the board: both players commit to   *)
(* the hash of their position, the first one's seed and the second one's   *)
(* decide who starts, then they shoot and answer until one of them reveals *)
(* their position and the other may have to do so, too.                    *)
(*                                                                         *)
(* The fields of the BoardState protocol buffer are the fields of a board, *)
(* with None for one that is not set.  Players are numbered from 1.  A     *)
(* hash is what it was computed from; Malformed is a byte string of the    *)
(* wrong size.  A repeated field is a sequence, and the position 0 of a    *)
(* player who has not revealed is the empty grid.                          *)
(***************************************************************************)
EXTENDS ShipsGrid, Sequences

CONSTANTS
    None, Malformed,
    Seeds,                      \* the seeds for the random choice
    StartingPlayer(_, _),       \* the player chosen by the two seeds
    LowCells                    \* the cells of the lower 32 bits of a grid

NO_TURN == 0

Other(p) == 3 - p

\* A valid position has ships in both halves of the board: with a row and a
\* column of space for each, those of the code take 50 cells, and half of
\* the board has room for 45.
ASSUME LowCellsAssumption ==
    \A g \in Grids : VerifyPositionOfShips(g) => g \cap LowCells # {}

Hash(data) == [hash |-> data]

PositionHashes == [hash : Grids \X Nat]
SeedHashes == [hash : Seeds]

\* What is known of a player's ships, and the values of the fields.
Knowledge == [guessed : Grids, hits : Grids]

BoardRecords ==
    [turn : {None, 1, 2}, winner : {None, 1, 2},
     position_hashes : Seq(PositionHashes \cup {None}),
     seed_hash_0 : SeedHashes \cup {None}, seed_1 : Seeds \cup {None},
     known_ships : [1 .. 2 -> Knowledge] \cup {<<>>},
     current_shot : Int \cup {None},
     positions : [1 .. 2 -> Grids] \cup {<<>>}]

\* What a field may hold is told from the absence of a value, and a byte
\* string of the wrong size from a hash or a seed.
ASSUME BoardAssumption ==
    /\ None # Malformed
    /\ \A x \in {None, Malformed} :
          /\ x \notin Int /\ x \notin Seeds
          /\ x \notin PositionHashes /\ x \notin SeedHashes
          /\ \A g \in Grids : x # g
    /\ None \notin BoardRecords
    /\ \A s \in Seeds, t \in Seeds \cup {None} : StartingPlayer(s, t) \in {1, 2}

InitialBoardState ==
    [turn |-> 1, winner |-> None, position_hashes |-> <<>>,
     seed_hash_0 |-> None, seed_1 |-> None, known_ships |-> <<>>,
     current_shot |-> None, positions |-> <<>>]

GetPhase(pb) ==
    CASE pb.winner # None -> "FINISHED"
      [] pb.winner = None /\ Len(pb.position_hashes) = 0 -> "FIRST_COMMITMENT"
      [] pb.winner = None /\ Len(pb.position_hashes) = 1 -> "SECOND_COMMITMENT"
      [] pb.winner = None /\ Len(pb.position_hashes) = 2
            /\ Len(pb.known_ships) = 0 -> "FIRST_REVEAL_SEED"
      [] pb.winner = None /\ Len(pb.position_hashes) = 2
            /\ Len(pb.known_ships) = 2 ->
            IF Len(pb.positions) = 2 THEN "SECOND_REVEAL_POSITION"
            ELSE IF pb.current_shot # None THEN "ANSWER" ELSE "SHOOT"
      [] OTHER -> "INVALID"

IsValid(pb) ==
    LET phase == GetPhase(pb) IN
    /\ phase # "INVALID"
    /\ (pb.turn = None) <=> (phase = "FINISHED")
    /\ pb.turn # None =>
          /\ pb.turn \in {1, 2}
          /\ phase \in {"FIRST_COMMITMENT", "FIRST_REVEAL_SEED"} => pb.turn = 1
          /\ phase = "SECOND_COMMITMENT" => pb.turn = 2
          /\ phase = "SECOND_REVEAL_POSITION" =>
                pb.positions[pb.turn] = {} /\ pb.positions[Other(pb.turn)] # {}

\* ToJson checks that a cell that is a hit has been guessed.
ToJsonOK(pb) == \A i \in DOMAIN pb.known_ships :
                   pb.known_ships[i].hits \subseteq pb.known_ships[i].guessed

WhoseTurn(pb) == IF pb.turn = None THEN NO_TURN ELSE pb.turn

\* Revealed positions are counted through an int: only the lower 32 bits of
\* a grid decide whether it is there.
RevealsCounted(pb) == Cardinality({i \in DOMAIN pb.positions :
                                      pb.positions[i] \cap LowCells # {}})

TurnCount(pb) ==
    LET shots == Cardinality(UNION {{i} \X pb.known_ships[i].guessed :
                                       i \in DOMAIN pb.known_ships})
    IN  CASE GetPhase(pb) = "FIRST_COMMITMENT"  -> 1
          [] GetPhase(pb) = "SECOND_COMMITMENT" -> 2
          [] GetPhase(pb) = "FIRST_REVEAL_SEED" -> 3
          [] OTHER -> 4 + 2 * shots - (IF pb.current_shot # None THEN 1 ELSE 0)
                        + RevealsCounted(pb)

-----------------------------------------------------------------------------
(***************************************************************************)
(* The moves.  Each operator yields the new board, or None for a move that *)
(* is not valid.                                                           *)
(***************************************************************************)
ApplyPositionCommitment(pb, mv) ==
    LET phase == GetPhase(pb)
        add == Append(pb.position_hashes, mv.position_hash)
    IN  CASE mv.position_hash = Malformed -> None
          [] mv.position_hash # Malformed /\ phase = "FIRST_COMMITMENT" ->
                IF mv.seed_hash \in {None, Malformed} \/ mv.seed # None
                THEN None
                ELSE [pb EXCEPT !.turn = 2, !.position_hashes = add,
                                !.seed_hash_0 = mv.seed_hash]
          [] mv.position_hash # Malformed /\ phase = "SECOND_COMMITMENT" ->
                IF mv.seed_hash # None \/ mv.seed = Malformed THEN None
                ELSE [pb EXCEPT !.turn = 1, !.position_hashes = add,
                                !.seed_1 = mv.seed]
          [] OTHER -> None

ApplySeedReveal(pb, mv) ==
    IF \/ GetPhase(pb) # "FIRST_REVEAL_SEED"
       \/ mv.seed = Malformed
       \/ Hash(mv.seed) # pb.seed_hash_0
    THEN None
    ELSE [pb EXCEPT !.turn = StartingPlayer(mv.seed, pb.seed_1),
                    !.seed_hash_0 = None, !.seed_1 = None,
                    !.known_ships = [i \in 1 .. 2 |-> [guessed |-> {},
                                                       hits |-> {}]]]

\* Mutant: a cell may be the target more than once.
ApplyShotAgain(pb, mv) ==
    IF \/ GetPhase(pb) # "SHOOT"
       \/ mv.location = None
       \/ ~IsOnBoard(Coord(mv.location))
    THEN None
    ELSE [pb EXCEPT !.turn = Other(pb.turn), !.current_shot = mv.location,
                    !.known_ships[Other(pb.turn)].guessed =
                        @ \cup {Coord(mv.location)}]

ApplyShot(pb, mv) ==
    IF \/ GetPhase(pb) # "SHOOT"
       \/ mv.location = None
       \/ ~IsOnBoard(Coord(mv.location))
       \/ Coord(mv.location) \in pb.known_ships[Other(pb.turn)].guessed
    THEN None
    ELSE [pb EXCEPT !.turn = Other(pb.turn), !.current_shot = mv.location,
                    !.known_ships[Other(pb.turn)].guessed =
                        @ \cup {Coord(mv.location)}]

ApplyReply(pb, mv) ==
    IF \/ GetPhase(pb) # "ANSWER"
       \/ mv.reply \notin {"HIT", "MISS"}
       \/ ~IsOnBoard(Coord(pb.current_shot))
       \/ mv.reply = "HIT" /\ Coord(pb.current_shot)
                                 \in pb.known_ships[pb.turn].hits
    THEN None
    ELSE IF mv.reply = "MISS" THEN [pb EXCEPT !.current_shot = None]
    ELSE [pb EXCEPT !.current_shot = None, !.turn = Other(pb.turn),
                    !.known_ships[pb.turn].hits =
                        @ \cup {Coord(pb.current_shot)}]

\* Mutant: the answers of the player who reveals are not looked at.
RevealWinnerNoAnswers(pb, g) ==
    LET p == pb.turn IN
    CASE ~VerifyPositionOfShips(g) -> Other(p)
      [] VerifyPositionOfShips(g) ->
            IF GetPhase(pb) = "SECOND_REVEAL_POSITION" THEN p
            ELSE IF Cardinality(pb.known_ships[Other(p)].hits) >= TotalShipCells
            THEN p ELSE None

\* The winner once the player whose turn it is has revealed the position g:
\* the other one if it is not valid or the answers were wrong.  Else the
\* player wins who has hit everything, or whose opponent revealed first and
\* had not.
RevealWinner(pb, g) ==
    LET p == pb.turn
        known == pb.known_ships[p]
    IN  CASE ~VerifyPositionOfShips(g) -> Other(p)
          [] VerifyPositionOfShips(g) ->
                IF ~VerifyPositionForAnswers(g, known.guessed, known.hits)
                THEN Other(p)
                ELSE IF GetPhase(pb) = "SECOND_REVEAL_POSITION" THEN p
                ELSE IF Cardinality(pb.known_ships[Other(p)].hits)
                          >= TotalShipCells
                THEN p ELSE None

\* Mutant: the turn goes on after the game has a winner.
ApplyPositionRevealKeepsTurn(pb, mv) ==
    IF \/ GetPhase(pb) \notin {"SHOOT", "ANSWER", "SECOND_REVEAL_POSITION"}
       \/ Hash(<<mv.position, mv.salt>>) # pb.position_hashes[pb.turn]
    THEN None
    ELSE LET old == IF pb.positions = <<>> THEN <<{}, {}>> ELSE pb.positions
         IN  [pb EXCEPT
                !.positions = [old EXCEPT ![pb.turn] = mv.position],
                !.winner = RevealWinner(pb, mv.position),
                !.turn = Other(pb.turn)]

\* A board with hits that have not been guessed can only come from
\* signatures of both players; it is refused if the position is valid.
ApplyPositionReveal(pb, mv) ==
    IF \/ GetPhase(pb) \notin {"SHOOT", "ANSWER", "SECOND_REVEAL_POSITION"}
       \/ mv.position = None
       \/ mv.salt = Malformed
       \/ Hash(<<mv.position, mv.salt>>) # pb.position_hashes[pb.turn]
       \/ /\ VerifyPositionOfShips(mv.position)
          /\ ~(pb.known_ships[pb.turn].hits
                  \subseteq pb.known_ships[pb.turn].guessed)
    THEN None
    ELSE LET winner == RevealWinner(pb, mv.position)
             old == IF pb.positions = <<>> THEN <<{}, {}>> ELSE pb.positions
         IN  [pb EXCEPT
                !.positions = [old EXCEPT ![pb.turn] = mv.position],
                !.position_hashes =
                    IF winner # None THEN <<None, None>>
                    ELSE [@ EXCEPT ![pb.turn] = None],
                !.winner = winner,
                !.turn = IF winner # None THEN None ELSE Other(pb.turn)]

ApplyMoveProto(pb, mv) ==
    CASE mv.move = "position_commitment" -> ApplyPositionCommitment(pb, mv)
      [] mv.move = "seed_reveal"         -> ApplySeedReveal(pb, mv)
      [] mv.move = "shot"                -> ApplyShot(pb, mv)
      [] mv.move = "reply"               -> ApplyReply(pb, mv)
      [] mv.move = "position_reveal"     -> ApplyPositionReveal(pb, mv)
      [] OTHER -> None

-----------------------------------------------------------------------------
PositionCommitment(h, sh, s) ==
    [move |-> "position_commitment", position_hash |-> h, seed_hash |-> sh,
     seed |-> s]
SeedReveal(s) == [move |-> "seed_reveal", seed |-> s]
Shot(i) == [move |-> "shot", location |-> i]
Reply(r) == [move |-> "reply", reply |-> r]
PositionReveal(g, salt) == [move |-> "position_reveal", position |-> g,
                            salt |-> salt]
=============================================================================
