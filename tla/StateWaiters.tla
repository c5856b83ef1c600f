---------------------------- MODULE StateWaiters ----------------------------
(***************************************************************************)
(* Game's long-polling calls: RPC threads block in WaitForChange and       *)
(* WaitForPendingChange on two condition variables, the ZMQ worker's       *)
(* handlers change the state and notify, and the main thread starts and    *)
(* stops Game.                                                             *)
(*                                                                         *)
(* A handler of the worker takes `mut', makes changes and releases it.  A  *)
(* waiting call is cut where Stop, which notifies without the lock, may    *)
(* come in between: after the lock is taken, after IsRunning was read, and *)
(* at the wait itself, which releases the lock.  Pending moves are         *)
(* tracked.                                                                *)
(***************************************************************************)
EXTENDS Naturals

CONSTANTS
    Waiters,       \* RPC threads
    ZmqThread,     \* the worker of the ZMQ subscriber
    Blocks,        \* block hashes
    NoBlock,       \* the null hash
    MaxVersion,    \* bound: pendingStateVersion after pending moves
    MaxStops       \* bound: calls of Stop

ASSUME WaitersAssumption ==
    /\ NoBlock \notin Blocks
    /\ "none" \notin Waiters /\ ZmqThread \notin Waiters \cup {"none"}
    /\ MaxVersion \in Nat /\ MaxStops \in Nat

VARIABLES
    mut,         \* the thread that holds the lock, or "none"
    block,       \* the current block of the storage
    version,     \* pendingStateVersion
    zmqRunning,  \* zmq.IsRunning ()
    phase,       \* the main thread, see Phases
    stops,       \* calls of Stop
    pc,          \* where each waiter is, see Places
    call,        \* the call a waiter is in, NoCall if it is in none
    unnotified   \* history: block was changed without a notification since
                 \* the last one

waitVars == <<mut, block, version, zmqRunning, phase, stops, pc, call,
              unnotified>>

-----------------------------------------------------------------------------
AlwaysBlock == 0     \* WAITFORCHANGE_ALWAYS_BLOCK

FirstVersion == 1

(* The main thread: Start and Stop step by step. *)
Phases ==
    {"off", "tracked", "starting", "on", "zmqStopped", "untracked", "notified"}

(***************************************************************************)
(* A waiter has taken the lock ("entered"), has seen that ZMQ is running   *)
(* and still holds the lock ("committed"), is in wait_for ("sleeping") or  *)
(* is to take the lock again ("woken").                                    *)
(***************************************************************************)
Places == {"out", "entered", "committed", "sleeping", "woken"}
HoldingPlaces == {"entered", "committed"}

StateCall == [kind : {"state"}, old : Blocks \cup {NoBlock}]
PendingCall == [kind : {"pending"}, old : Nat]
NoCall == [kind |-> "state", old |-> NoBlock]

WaitTypeOK ==
    /\ mut \in Waiters \cup {ZmqThread, "none"}
    /\ block \in Blocks \cup {NoBlock}
    /\ version \in Nat \ {0}
    /\ zmqRunning \in BOOLEAN
    /\ phase \in Phases
    /\ stops \in Nat
    /\ pc \in [Waiters -> Places]
    /\ call \in [Waiters -> StateCall \cup PendingCall]
    /\ unnotified \in BOOLEAN

WaitInit ==
    /\ mut = "none"
    /\ block \in Blocks \cup {NoBlock}
    /\ version = FirstVersion
    /\ zmqRunning = FALSE
    /\ phase = "off"
    /\ stops = 0
    /\ pc = [w \in Waiters |-> "out"]
    /\ call = [w \in Waiters |-> NoCall]
    /\ unnotified = FALSE

-----------------------------------------------------------------------------
(* notify_all on one of the two condition variables. *)
Woken(kind) ==
    [w \in Waiters |->
        IF pc[w] = "sleeping" /\ call[w].kind = kind THEN "woken" ELSE pc[w]]

NotifyPendingStateChange ==
    /\ version' = version + 1
    /\ pc' = Woken("pending")

mainVars == <<zmqRunning, phase, stops>>

-----------------------------------------------------------------------------
\* Mutant: an old block always makes the call wait.
ReturnsAtOnceNever(c) ==
    c.kind = "pending" /\ c.old # AlwaysBlock /\ c.old # version

(* The test at the start of both calls: what the caller knows is outdated. *)
ReturnsAtOnce(c) ==
    \/ c.kind = "state" /\ c.old # NoBlock /\ block # NoBlock /\ c.old # block
    \/ c.kind = "pending" /\ c.old # AlwaysBlock /\ c.old # version

Enter(w, c) ==
    /\ pc[w] = "out" /\ mut = "none"
    /\ ~ReturnsAtOnce(c)
    /\ mut' = w
    /\ pc' = [pc EXCEPT ![w] = "entered"]
    /\ call' = [call EXCEPT ![w] = c]
    /\ UNCHANGED <<mainVars, block, version, unnotified>>

WaitForChange(w) == \E old \in Blocks \cup {NoBlock} :
    Enter(w, [kind |-> "state", old |-> old])

(* A client's version is one it was given, or none. *)
WaitForPendingChange(w) == \E old \in 0..version :
    Enter(w, [kind |-> "pending", old |-> old])

(* zmq.IsRunning () *)
CheckRunning(w) ==
    /\ pc[w] = "entered"
    /\ IF zmqRunning
       THEN pc' = [pc EXCEPT ![w] = "committed"] /\ UNCHANGED <<mut, call>>
       ELSE /\ pc' = [pc EXCEPT ![w] = "out"]
            /\ mut' = "none"
            /\ call' = [call EXCEPT ![w] = NoCall]
    /\ UNCHANGED <<mainVars, block, version, unnotified>>

Sleep(w) ==
    /\ pc[w] = "committed"
    /\ pc' = [pc EXCEPT ![w] = "sleeping"]
    /\ mut' = "none"
    /\ UNCHANGED <<mainVars, block, version, call, unnotified>>

(* After WAITFORCHANGE_TIMEOUT, or spuriously. *)
TimeOut(w) ==
    /\ pc[w] = "sleeping"
    /\ pc' = [pc EXCEPT ![w] = "woken"]
    /\ UNCHANGED <<mainVars, mut, block, version, call, unnotified>>

(* The lock is taken again, the result read, and the call returns. *)
Return(w) ==
    /\ pc[w] = "woken" /\ mut = "none"
    /\ pc' = [pc EXCEPT ![w] = "out"]
    /\ call' = [call EXCEPT ![w] = NoCall]
    /\ UNCHANGED <<mainVars, mut, block, version, unnotified>>

-----------------------------------------------------------------------------
(***************************************************************************)
(* The handlers of the ZMQ worker thread, and ReinitialiseState in Start.  *)
(***************************************************************************)
HandlerEnter ==
    /\ zmqRunning /\ mut = "none"
    /\ mut' = ZmqThread
    /\ UNCHANGED <<mainVars, block, version, pc, call, unnotified>>

HandlerRuns == mut = ZmqThread \/ (phase = "starting" /\ mut = "none")

(* A block attached or detached, or the initial state stored. *)
ChangeState ==
    /\ HandlerRuns
    /\ \E b \in Blocks \ {block} : block' = b
    /\ pc' = Woken("state")
    /\ unnotified' = FALSE
    /\ UNCHANGED <<mainVars, mut, version, call>>

(* The storage cleared, or a batch of commits rolled back on a retry. *)
ChangeStateQuietly ==
    /\ HandlerRuns
    /\ \E b \in (Blocks \cup {NoBlock}) \ {block} : block' = b
    /\ unnotified' = TRUE
    /\ UNCHANGED <<mainVars, mut, version, pc, call>>

ChangePending ==
    /\ HandlerRuns
    /\ version < MaxVersion
    /\ NotifyPendingStateChange
    /\ UNCHANGED <<mainVars, mut, block, call, unnotified>>

HandlerReturn ==
    /\ mut = ZmqThread
    /\ mut' = "none"
    /\ UNCHANGED <<mainVars, block, version, pc, call, unnotified>>

HandlerStep ==
    \/ HandlerEnter \/ ChangeState \/ ChangeStateQuietly \/ ChangePending
    \/ HandlerReturn

-----------------------------------------------------------------------------
TrackGame ==
    /\ phase = "off" /\ mut = "none"
    /\ phase' = "tracked"
    /\ UNCHANGED <<mut, block, version, zmqRunning, stops, pc, call, unnotified>>

StartZmq ==
    /\ phase = "tracked"
    /\ phase' = "starting"
    /\ zmqRunning' = TRUE
    /\ UNCHANGED <<mut, block, version, stops, pc, call, unnotified>>

StartReinitialised ==
    /\ phase = "starting" /\ mut = "none"
    /\ phase' = "on"
    /\ UNCHANGED <<mut, block, version, zmqRunning, stops, pc, call, unnotified>>

(* zmq.Stop () joins the worker. *)
StopZmq ==
    /\ phase = "on" /\ stops < MaxStops
    /\ mut # ZmqThread
    /\ stops' = stops + 1
    /\ phase' = "zmqStopped"
    /\ zmqRunning' = FALSE
    /\ UNCHANGED <<mut, block, version, pc, call, unnotified>>

\* Mutant: UntrackGame does not take the lock.
UntrackGameUnlocked ==
    /\ phase = "zmqStopped"
    /\ phase' = "untracked"
    /\ UNCHANGED <<mut, block, version, zmqRunning, stops, pc, call, unnotified>>

UntrackGame ==
    /\ phase = "zmqStopped" /\ mut = "none"
    /\ phase' = "untracked"
    /\ UNCHANGED <<mut, block, version, zmqRunning, stops, pc, call, unnotified>>

(* Both notifications of Stop are made without the lock. *)
StopNotify ==
    /\ phase = "untracked"
    /\ phase' = "notified"
    /\ pc' = Woken("state")
    /\ UNCHANGED <<mut, block, version, zmqRunning, stops, call, unnotified>>

StopNotifyPending ==
    /\ phase = "notified"
    /\ phase' = "off"
    /\ NotifyPendingStateChange
    /\ UNCHANGED <<mut, block, zmqRunning, stops, call, unnotified>>

WaiterStep(w) ==
    \/ WaitForChange(w) \/ WaitForPendingChange(w)
    \/ CheckRunning(w) \/ Sleep(w) \/ TimeOut(w) \/ Return(w)

WaitNext ==
    \/ \E w \in Waiters : WaiterStep(w)
    \/ HandlerStep
    \/ TrackGame \/ StartZmq \/ StartReinitialised
    \/ StopZmq \/ UntrackGame \/ StopNotify \/ StopNotifyPending

WaitSpec == WaitInit /\ [][WaitNext]_waitVars

-----------------------------------------------------------------------------
(***************************************************************************)
(* Once Stop has returned, nobody sleeps on a condition variable that will *)
(* not be signalled any more: although Stop notifies without the lock,     *)
(* UntrackGame, which takes it, has made every caller that saw ZMQ running *)
(* reach its wait before.                                                  *)
(***************************************************************************)
StopWakesWaiters ==
    phase \in {"off", "tracked"} => \A w \in Waiters : pc[w] # "sleeping"

(* What a call named is still the current state, as far as was notified. *)
KnowsState(w) ==
    call[w].kind = "state" =>
        call[w].old = NoBlock \/ block = NoBlock \/ unnotified
            \/ call[w].old = block

KnowsPending(w) ==
    call[w].kind = "pending" => call[w].old \in {AlwaysBlock, version}

(***************************************************************************)
(* A caller that named its last block never sleeps over a change by an     *)
(* attached or detached block or by the initial state, whether the change  *)
(* came before its call, between its test and its wait, or after.          *)
(***************************************************************************)
NoMissedState ==
    \A w \in Waiters : pc[w] = "sleeping" => KnowsState(w)

(***************************************************************************)
(* A caller that named its last version of the pending state sleeps only   *)
(* while that is the current version, although Stop raises the version     *)
(* without the lock: TrackGame, which takes it, lets no call that was made *)
(* before last into the next session.                                      *)
(***************************************************************************)
NoMissedPending ==
    \A w \in Waiters : pc[w] = "sleeping" => KnowsPending(w)

(***************************************************************************)
(* No waiting call, of either kind, sleeps over a change: the test of what *)
(* the caller knows and the wait are one with respect to the handlers, and *)
(* Stop and a new session do not come in between unseen.                   *)
(***************************************************************************)
NoMissedChange == NoMissedState /\ NoMissedPending

(***************************************************************************)
(* The inductive invariant: the lock is held by the one waiter between its *)
(* entry and its wait; no waiter is committed to wait once UntrackGame has *)
(* had the lock; from the first notification of Stop on, no state waiter   *)
(* sleeps; and a waiter that holds the lock knows the current state, but   *)
(* for one that Stop has overtaken, which will find ZMQ stopped.           *)
(***************************************************************************)
LockInv ==
    \A w \in Waiters : pc[w] \in HoldingPlaces <=> mut = w

PhaseInv ==
    /\ zmqRunning <=> phase \in {"starting", "on"}
    /\ phase \in {"untracked", "notified", "off", "tracked"} =>
           \A w \in Waiters : pc[w] # "committed"
    /\ phase = "notified" =>
           \A w \in Waiters : pc[w] = "sleeping" => call[w].kind = "pending"

KnowledgeInv == \A w \in Waiters : pc[w] \in HoldingPlaces =>
    /\ KnowsState(w)
    /\ KnowsPending(w) \/ (phase = "off" /\ pc[w] = "entered")

WaitInv ==
    /\ WaitTypeOK /\ LockInv /\ PhaseInv /\ KnowledgeInv
    /\ StopWakesWaiters /\ NoMissedState /\ NoMissedPending
=============================================================================
