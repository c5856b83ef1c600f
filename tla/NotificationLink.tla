-------------------------- MODULE NotificationLink --------------------------
(***************************************************************************)
(* What Game relies on in the ZMQ subscriber (zmqsubscriber.hpp,           *)
(* ZmqListener): a session hands over, per topic, some of the messages     *)
(* published during the session, in order, and the mismatch flag of a      *)
(* message tells exactly whether it is the topic's first of the session or *)
(* some message of the topic before it is missing.                         *)
(***************************************************************************)
EXTENDS Naturals

CONSTANT Topics     \* the topics some listener is registered for

VARIABLES
    published,   \* how many messages the daemon has published, per topic
    position,    \* the number of the last message handed over
    first,       \* is the next message the first of the session?
    callback     \* the last call of a listener

vars == <<published, position, first, callback>>

Callback == [topic : Topics, number : Nat, mismatch : BOOLEAN]
NoCallback == [number |-> 0]

Init ==
    /\ published = [t \in Topics |-> 0]
    /\ position = [t \in Topics |-> 0]
    /\ first = [t \in Topics |-> TRUE]
    /\ callback = NoCallback

Publish(t) ==
    /\ published' = [published EXCEPT ![t] = @ + 1]
    /\ UNCHANGED <<position, first, callback>>

(* A new session starts from what is published from now on. *)
StartSession ==
    /\ position' = published
    /\ first' = [t \in Topics |-> TRUE]
    /\ UNCHANGED <<published, callback>>

HandOver(t) ==
    \E n \in position[t] + 1 .. published[t] :
        /\ callback' = [topic |-> t, number |-> n,
                        mismatch |-> first[t] \/ n > position[t] + 1]
        /\ position' = [position EXCEPT ![t] = n]
        /\ first' = [first EXCEPT ![t] = FALSE]
        /\ UNCHANGED published

Next ==
    \/ StartSession
    \/ \E t \in Topics : Publish(t) \/ HandOver(t)

Spec == Init /\ [][Next]_vars
=============================================================================
