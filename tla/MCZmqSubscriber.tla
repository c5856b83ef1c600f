--------------------------- MODULE MCZmqSubscriber ---------------------------
EXTENDS ZmqSubscriber

(* Blocks on the first socket; pending moves on the last; "foreign" is the *)
(* attach topic of a game whose ID starts with the game's own.             *)
MCTopics == {"attach", "pending", "foreign"}
MCListened == {"attach", "pending"}
MCSocketOf == [t \in MCTopics |-> IF t = "pending" THEN NumSockets ELSE 1]

MCPublished ==
    [t \in MCTopics |-> CASE t = "attach" -> 5 [] t = "pending" -> 2 [] OTHER -> 1]
=============================================================================
