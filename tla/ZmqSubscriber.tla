---------------------------- MODULE ZmqSubscriber ----------------------------
(***************************************************************************)
(* ZmqSubscriber: the worker thread that polls the ZMQ sockets, compares   *)
(* the 32-bit sequence number of a message with the last one of its topic, *)
(* and calls the listeners; and its Start and Stop, called by Game.        *)
(*                                                                         *)
(* External: the daemon, which numbers the messages of a topic modulo      *)
(* SeqModulus, and ZMQ, which keeps the order on a socket and drops        *)
(* messages.  ZMQ matches subscriptions by prefix, so messages of topics   *)
(* nobody listens to arrive as well.                                       *)
(***************************************************************************)
EXTENDS Naturals, Sequences

CONSTANTS
    Topics,         \* topics that arrive
    Listened,       \* those with a registered listener
    NumSockets,     \* 2 if pending moves come from another address, else 1
    SocketOf,       \* the socket a topic is subscribed on
    SeqModulus,     \* 2^32 in the code
    MaxGap,         \* bound: messages of a topic lost in a row
    MaxPublished,   \* bound: messages published, per topic
    MaxStarts       \* bound: calls of Start

ASSUME ZmqAssumption ==
    /\ Listened \subseteq Topics
    /\ NumSockets \in Nat \ {0}
    /\ SocketOf \in [Topics -> 1..NumSockets]
    /\ SeqModulus \in Nat \ {0}
    /\ MaxGap \in Nat /\ MaxGap < SeqModulus
    /\ MaxPublished \in [Topics -> Nat] /\ MaxStarts \in Nat

VARIABLES
    published,   \* the daemon's count of messages, per topic
    gap,         \* messages lost in a row, per topic
    sockets,     \* the received, unread messages per socket, <<>> if closed
    lastSeq,     \* lastSeq
    worker,      \* the worker thread: see Workers
    ready,       \* the socket the worker is to read, 0 if none
    shouldStop,  \* shouldStop
    starts,      \* calls of Start
    position,    \* history: number of the last message read, per topic
    callback     \* history: the last call of a listener

vars == <<published, gap, sockets, lastSeq, worker, ready, shouldStop,
          starts, position, callback>>

-----------------------------------------------------------------------------
NoSeq == SeqModulus      \* lastSeq has no entry for the topic
Sockets == 1..NumSockets

(***************************************************************************)
(* "none" when there is no thread, "polling" in zmq::poll, "reading" when  *)
(* poll has returned a socket, "ended" when Listen has returned.           *)
(***************************************************************************)
Workers == {"none", "polling", "reading", "ended"}
Message == [topic : Topics, number : Nat]

Link == INSTANCE NotificationLink WITH
            Topics <- Listened,
            published <- [t \in Listened |-> published[t]],
            position <- [t \in Listened |-> position[t]],
            first <- [t \in Listened |-> lastSeq[t] = NoSeq]

TypeOK ==
    /\ published \in [Topics -> Nat]
    /\ gap \in [Topics -> 0..MaxGap]
    /\ sockets \in [Sockets -> Seq(Message)]
    /\ lastSeq \in [Topics -> 0..SeqModulus]
    /\ worker \in Workers
    /\ ready \in 0..NumSockets
    /\ shouldStop \in BOOLEAN
    /\ starts \in 0..MaxStarts
    /\ position \in [Topics -> Nat]
    /\ callback \in Link!Callback \cup {Link!NoCallback}

IsRunning == worker # "none"

Init ==
    /\ published = [t \in Topics |-> 0]
    /\ gap = [t \in Topics |-> 0]
    /\ sockets = [s \in Sockets |-> <<>>]
    /\ lastSeq = [t \in Topics |-> NoSeq]
    /\ worker = "none"
    /\ ready = 0
    /\ shouldStop = FALSE
    /\ starts = 0
    /\ position = [t \in Topics |-> 0]
    /\ callback = Link!NoCallback

-----------------------------------------------------------------------------
(* The daemon publishes; the message is queued, or lost on the way. *)
Publish(t) ==
    /\ published[t] < MaxPublished[t]
    /\ published' = [published EXCEPT ![t] = @ + 1]
    /\ UNCHANGED <<lastSeq, worker, ready, shouldStop, starts, position, callback>>

Queue(t) ==
    /\ Publish(t)
    /\ IsRunning
    /\ sockets' = [sockets EXCEPT ![SocketOf[t]] =
                      Append(@, [topic |-> t, number |-> published[t] + 1])]
    /\ gap' = [gap EXCEPT ![t] = 0]

Lose(t) ==
    /\ Publish(t)
    /\ IsRunning /\ gap[t] < MaxGap
    /\ gap' = [gap EXCEPT ![t] = @ + 1]
    /\ UNCHANGED sockets

NotConnected(t) ==
    /\ Publish(t)
    /\ ~IsRunning
    /\ UNCHANGED <<gap, sockets>>

-----------------------------------------------------------------------------
(* The sequence number of a topic's n-th message, as decoded by the worker. *)
SeqOf(n) == n % SeqModulus

Start ==
    /\ ~IsRunning /\ starts < MaxStarts
    /\ starts' = starts + 1
    /\ lastSeq' = [t \in Topics |-> NoSeq]
    /\ position' = published
    /\ gap' = [t \in Topics |-> 0]
    /\ shouldStop' = FALSE
    /\ worker' = "polling"
    /\ UNCHANGED <<published, sockets, ready, callback>>

(* Stop sets the flag, and returns once the worker thread can be joined. *)
StopRequested ==
    /\ IsRunning /\ ~shouldStop
    /\ shouldStop' = TRUE
    /\ UNCHANGED <<published, gap, sockets, lastSeq, worker, ready, starts,
                   position, callback>>

StopJoined ==
    /\ shouldStop /\ worker = "ended"
    /\ worker' = "none"
    /\ sockets' = [s \in Sockets |-> <<>>]
    /\ UNCHANGED <<published, gap, lastSeq, ready, shouldStop, starts,
                   position, callback>>

\* Mutant: the poll waits for data, without a timeout.
PollStopOnData ==
    /\ worker = "polling" /\ shouldStop
    /\ \E s \in Sockets : sockets[s] # <<>>
    /\ worker' = "ended"
    /\ UNCHANGED <<published, gap, sockets, lastSeq, ready, shouldStop, starts,
                   position, callback>>

(***************************************************************************)
(* ReceiveMultiparts: after each poll, by data or by timeout, the flag is  *)
(* looked at before the data.  The first socket that has data is read.     *)
(***************************************************************************)
PollStop ==
    /\ worker = "polling" /\ shouldStop
    /\ worker' = "ended"
    /\ UNCHANGED <<published, gap, sockets, lastSeq, ready, shouldStop, starts,
                   position, callback>>

PollReady(s) ==
    /\ worker = "polling" /\ ~shouldStop
    /\ sockets[s] # <<>>
    /\ \A r \in 1..s - 1 : sockets[r] = <<>>
    /\ worker' = "reading"
    /\ ready' = s
    /\ UNCHANGED <<published, gap, sockets, lastSeq, shouldStop, starts,
                   position, callback>>

\* Mutant: the comparison does not wrap around.
MismatchNoWrap(t, seq) == lastSeq[t] = NoSeq \/ seq # lastSeq[t] + 1

SeqMismatch(t, seq) ==
    lastSeq[t] = NoSeq \/ seq # (lastSeq[t] + 1) % SeqModulus

(***************************************************************************)
(* One round of Listen.  The stop flag may have been set since the poll:   *)
(* the message is still handed over.                                       *)
(***************************************************************************)
Listen(s) ==
    /\ worker = "reading" /\ ready = s
    /\ LET msg == Head(sockets[s])
           t == msg.topic
       IN  /\ lastSeq' = [lastSeq EXCEPT ![t] = SeqOf(msg.number)]
           /\ position' = [position EXCEPT ![t] = msg.number]
           /\ callback' = IF t \in Listened
                          THEN [topic |-> t, number |-> msg.number,
                                mismatch |-> SeqMismatch(t, SeqOf(msg.number))]
                          ELSE callback
    /\ sockets' = [sockets EXCEPT ![s] = Tail(@)]
    /\ worker' = "polling"
    /\ ready' = 0
    /\ UNCHANGED <<published, gap, shouldStop, starts>>

Worker == PollStop \/ \E s \in Sockets : PollReady(s) \/ Listen(s)

Next ==
    \/ \E t \in Topics : Queue(t) \/ Lose(t) \/ NotConnected(t)
    \/ Start
    \/ StopRequested
    \/ StopJoined
    \/ Worker

Spec == Init /\ [][Next]_vars

(* The worker thread runs, and so does the thread that is inside Stop. *)
FairSpec == Spec /\ WF_vars(Worker) /\ WF_vars(StopJoined)

-----------------------------------------------------------------------------
(***************************************************************************)
(* Listen implements the link Game relies on: over losses, restarts of the *)
(* subscriber, wrap-around of the sequence numbers and messages of foreign *)
(* topics, a listener's seqMismatch is TRUE exactly for a topic's first    *)
(* message of the session and for one after a gap, and no message of an    *)
(* earlier session is handed over.                                         *)
(***************************************************************************)
LinkImplemented == Link!Spec

(***************************************************************************)
(* Stop returns: the thread that calls it waits in worker->join, and the   *)
(* worker ends although no message may ever arrive again.                  *)
(***************************************************************************)
StopReturns == [](shouldStop => <>~IsRunning)
=============================================================================
