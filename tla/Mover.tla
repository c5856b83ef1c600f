------------------------------- MODULE Mover --------------------------------
(***************************************************************************)
(* The rules of the example game Mover: players on a plane that keep       *)
(* walking in a direction until their steps are used up.  The state is the *)
(* map of players; the undo data names, per player, what cannot be         *)
(* computed backwards.  The fields of an undo record are optional: a set   *)
(* that is empty if the field is not set.                                  *)
(***************************************************************************)
EXTENDS Integers, Sequences, SequencesExt, Functions

MaxSteps == 1000000

ParseDirection ==
    [l |-> "RIGHT", h |-> "LEFT", k |-> "UP", j |-> "DOWN",
     u |-> "RIGHT_UP", n |-> "RIGHT_DOWN", y |-> "LEFT_UP", b |-> "LEFT_DOWN"]

GetDirectionOffset ==
    [RIGHT |-> <<1, 0>>, LEFT |-> <<-1, 0>>, UP |-> <<0, 1>>,
     DOWN |-> <<0, -1>>, RIGHT_UP |-> <<1, 1>>, RIGHT_DOWN |-> <<1, -1>>,
     LEFT_UP |-> <<-1, 1>>, LEFT_DOWN |-> <<-1, -1>>]

\* A move that is not built as it should be has a d that is no direction.
ParseMove(mv) ==
    /\ mv.d \in DOMAIN ParseDirection
    /\ mv.n \in 1..MaxSteps

GetInitialState == <<>>     \* no players

-----------------------------------------------------------------------------
NoUndo == [is_new |-> FALSE, previous |-> {}, finished_dir |-> {}]

UndoOf(undo, name) == IF name \in DOMAIN undo THEN undo[name] ELSE NoUndo

With(map, key, value) == (key :> value) @@ map

\* Mutant: set_previous_steps_left is forgotten.
PreviousDirOnly(p) == [dir |-> p.dir]

Previous(p) == [dir |-> p.dir, steps_left |-> p.steps_left]

\* One move of the block: u is the entry of undo, created if need be.
ApplyMove(s, mv) ==
    LET p == s.players[mv.name]
        u == UndoOf(s.undo, mv.name)
        isNew == mv.name \notin DOMAIN s.players
        start == IF isNew THEN [x |-> 0, y |-> 0] ELSE [x |-> p.x, y |-> p.y]
    IN  IF ~ParseMove(mv) THEN s
        ELSE [players |->
                  With(s.players, mv.name,
                       [x |-> start.x, y |-> start.y,
                        dir |-> ParseDirection[mv.d], steps_left |-> mv.n]),
              undo |->
                  With(s.undo, mv.name,
                       IF isNew THEN [u EXCEPT !.is_new = TRUE]
                       ELSE [u EXCEPT !.previous = {Previous(p)}]),
              ok |-> s.ok]

Finishes(p) == p.dir # "NONE" /\ p.steps_left = 1

\* A player walks one step; it rests when that was the last one.
Walk(p) ==
    LET d == GetDirectionOffset[p.dir]
    IN  IF p.dir = "NONE" THEN p
        ELSE [x |-> p.x + d[1], y |-> p.y + d[2],
              dir |-> IF Finishes(p) THEN "NONE" ELSE p.dir,
              steps_left |-> p.steps_left - 1]

\* ok is FALSE if a CHECK fails, which ends the process.
ProcessForward(players, moves) ==
    LET s == FoldLeft(ApplyMove, [players |-> players, undo |-> <<>>, ok |-> TRUE], moves)
        finished == {nm \in DOMAIN s.players : Finishes(s.players[nm])}
    IN  [players |-> [nm \in DOMAIN s.players |-> Walk(s.players[nm])],
         undo |-> [nm \in DOMAIN s.undo \union finished |->
                      IF nm \in finished
                      THEN [UndoOf(s.undo, nm) EXCEPT
                                !.finished_dir = {s.players[nm].dir}]
                      ELSE s.undo[nm]],
         ok |-> \A nm \in DOMAIN s.players :
                    s.players[nm].dir # "NONE" => s.players[nm].steps_left > 0]

\* A player as it was before the block, given its undo record: the finished
\* direction is put back first, then the step is taken back, then the move.
WalkBack(p, u) ==
    LET dir == IF u.finished_dir # {} THEN CHOOSE d \in u.finished_dir : TRUE
               ELSE p.dir
        d == GetDirectionOffset[dir]
        back == IF dir = "NONE" THEN p
                ELSE [x |-> p.x - d[1], y |-> p.y - d[2],
                      dir |-> dir, steps_left |-> p.steps_left + 1]
    IN  IF u.previous = {} THEN back
        ELSE (CHOOSE v \in u.previous : TRUE) @@ back

ProcessBackwards(players, undo) ==
    LET kept == {nm \in DOMAIN players : ~UndoOf(undo, nm).is_new}
    IN  [players |-> [nm \in kept |-> WalkBack(players[nm], UndoOf(undo, nm))],
         ok |-> \A nm \in kept :
                    UndoOf(undo, nm).finished_dir # {} =>
                        players[nm].dir = "NONE" /\ players[nm].steps_left = 0]

-----------------------------------------------------------------------------
\* The pending moves: for each name the last one, and where it leads to from
\* the confirmed position.
AddPendingMove(pending, players, mv) ==
    LET d == GetDirectionOffset[ParseDirection[mv.d]]
        x == IF mv.name \in DOMAIN players THEN players[mv.name].x ELSE 0
        y == IF mv.name \in DOMAIN players THEN players[mv.name].y ELSE 0
    IN  IF ~ParseMove(mv) THEN pending
        ELSE With(pending, mv.name,
                  [dir |-> ParseDirection[mv.d], steps |-> mv.n,
                   target |-> <<x + mv.n * d[1], y + mv.n * d[2]>>])
=============================================================================
