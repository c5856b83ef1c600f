------------------------------ MODULE TestGame ------------------------------
(***************************************************************************)
(* The board game of the channel tests: players add to a number, and its   *)
(* parity says whose turn it is.  The numbers of the code (100 as the end, *)
(* 6 modulo 10 for automoves) are parameters.                              *)
(***************************************************************************)
EXTENDS Integers

CONSTANTS EndNumber, AutoFrom, MaxAdd

\* A move adds at least one, so there are no more moves than the number.
AdditionStates == {s \in [number : 0 .. EndNumber + MaxAdd - 1,
                          count : 0 .. EndNumber + MaxAdd - 1] :
                        s.count <= s.number}

AdditionMoves == 1 .. MaxAdd

AdditionWhoseTurn(s) == IF s.number >= EndNumber THEN 0 ELSE (s.number % 2) + 1

AdditionTurnCount(s) == s.count

AdditionIsMove(s, mv) == mv > 0

AdditionApplyMove(s, mv) == [number |-> s.number + mv, count |-> s.count + 1]

AdditionHasAutoMove(s) == s.number % 10 >= AutoFrom

AdditionAutoMove(s) == 2

AdditionIsFinal(s) == s.number = EndNumber
=============================================================================
