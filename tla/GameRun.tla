------------------------------ MODULE GameRun -------------------------------
(***************************************************************************)
(* Game::Run: the main loop with Game::Start as its start action and       *)
(* Game::Stop as its stop action, while RPC threads wait for changes.  The *)
(* main thread holds MainLoop's lock (loopMut) through both actions and    *)
(* needs Game's lock (mut) in them; RPC threads call Game::RequestStop,    *)
(* which is MainLoop::Stop.  A signal may interrupt any of the threads,    *)
(* whatever lock it holds.                                                 *)
(***************************************************************************)
EXTENDS StateWaiters

CONSTANTS
    Main, StopThreads, SignalThreads, Unset,    \* see MainLoop
    MaxRequests,     \* bound: calls of RequestStop
    MaxSignals, MaxRuns,
    MaxTold          \* bound: both ways of telling Run to stop together

VARIABLES
    main, loopMut, instanceMut, instance, shouldStop, running, stopping,
    handler, requests, signals, runs

Loop == INSTANCE MainLoop WITH
            mut <- loopMut, stops <- requests, MaxStops <- MaxRequests

ASSUME RunAssumption ==
    /\ "none" \notin Loop!Threads
    /\ Unset \notin BOOLEAN
    /\ Main \notin StopThreads \cup Waiters \cup {ZmqThread}
    /\ {MaxRequests, MaxSignals, MaxRuns, MaxTold} \subseteq Nat
    /\ MaxStops >= MaxRuns

loopVars == <<main, loopMut, instanceMut, instance, shouldStop, running,
              stopping, handler, requests, signals, runs>>

allVars == <<waitVars, loopVars>>

RunInit == WaitInit /\ Loop!Init

-----------------------------------------------------------------------------
\* The start and the stop action, step by step.
StartGame ==
    /\ main = "start" /\ Loop!Undisturbed(Main)
    /\ TrackGame \/ StartZmq \/ StartReinitialised
    /\ UNCHANGED loopVars

\* zmq.Stop () does not return while the worker is in a signal handler.
StopGame ==
    /\ main = "stop" /\ Loop!Undisturbed(Main)
    /\ \/ StopZmq /\ Loop!Undisturbed(ZmqThread)
       \/ UntrackGame \/ StopNotify \/ StopNotifyPending
    /\ UNCHANGED loopVars

\* Run goes on when the action has returned.
RunGame ==
    /\ main = "start" => phase = "on"
    /\ main = "stop" => phase = "off"
    /\ Loop!MainStep
    /\ UNCHANGED waitVars

MainThread == StartGame \/ StopGame \/ RunGame

RunWaiter(w) ==
    Loop!Undisturbed(w) /\ WaiterStep(w) /\ UNCHANGED loopVars

\* The worker, and in Start the main thread.
RunHandler ==
    /\ Loop!Undisturbed(IF mut = "none" /\ phase = "starting" THEN Main ELSE ZmqThread)
    /\ HandlerStep
    /\ UNCHANGED loopVars

\* The worker is there only while ZMQ is running.
RunSignal(t) ==
    /\ requests + signals < MaxTold
    /\ t = ZmqThread => zmqRunning
    /\ Loop!Signal(t)
    /\ UNCHANGED waitVars

RequestStop(t) ==
    /\ requests + signals < MaxTold
    /\ Loop!CallStop(t)
    /\ UNCHANGED waitVars

\* What goes on by itself: a waiting call, and a handler under the lock.
WaiterProceeds(w) ==
    /\ Loop!Undisturbed(w)
    /\ CheckRunning(w) \/ Sleep(w) \/ Return(w)
    /\ UNCHANGED loopVars

HandlerProceeds ==
    Loop!Undisturbed(ZmqThread) /\ HandlerReturn /\ UNCHANGED loopVars

RunNext ==
    \/ MainThread
    \/ \E w \in Waiters : RunWaiter(w)
    \/ RunHandler
    \/ \E t \in SignalThreads : RunSignal(t)
    \/ \E t \in StopThreads : RequestStop(t)
    \/ /\ \/ Loop!SpuriousWakeup
          \/ \E t \in Loop!Threads : Loop!StopStep(t)
       /\ UNCHANGED waitVars

(***************************************************************************)
(* Every thread is scheduled, and a thread that waits for a lock gets it   *)
(* if it is free again and again.                                          *)
(***************************************************************************)
RunSpec ==
    /\ RunInit /\ [][RunNext]_allVars
    /\ SF_allVars(MainThread)
    /\ \A w \in Waiters : WF_allVars(WaiterProceeds(w))
    /\ WF_allVars(HandlerProceeds)
    /\ \A t \in Loop!Threads : SF_allVars(Loop!StopStep(t) /\ UNCHANGED waitVars)

-----------------------------------------------------------------------------
\* In the start and the stop action, the main thread waits for Game's lock
\* and for the worker to end.
ActionAwaits(u) ==
    /\ Loop!Undisturbed(Main)
    /\ \/ main = "start" /\ phase \in {"off", "starting"} /\ mut = u
       \/ main = "stop" /\ phase = "zmqStopped" /\ mut = u
       \/ main = "stop" /\ phase = "on" /\ u = ZmqThread

Awaits(t, u) == Loop!Awaits(t, u) \/ (t = Main /\ ActionAwaits(u))

\* Threads that wait for one another, or a thread that waits for itself.
Deadlocked ==
    \E S \in SUBSET Loop!Threads \ {{}} : \A t \in S : \E u \in S : Awaits(t, u)

(***************************************************************************)
(* A signal came at a bad moment: its handler runs on a thread that holds  *)
(* MainLoop's or Game's lock, or Run had been told to stop before.         *)
(***************************************************************************)
BadMoment ==
    \/ \E t \in Loop!Threads : ~Loop!Undisturbed(t) /\ t \in {loopMut, mut}
    \/ signals > 0 /\ requests + signals > 1

(***************************************************************************)
(* Run returns once it was told to stop: the loop "can be stopped          *)
(* explicitly (e.g. through incoming RPC calls) or by listening to SIGTERM *)
(* and SIGINT" (mainloop.hpp), however busy the RPC threads and the        *)
(* handlers keep Game's lock, and also if the call or the signal comes     *)
(* while Run still installs the signal handlers.  The one thing that gets  *)
(* in the way is that threads are deadlocked by a signal at a bad moment:  *)
(* a single call of RequestStop, or a single signal on a thread that holds *)
(* no lock, is always honoured.                                            *)
(***************************************************************************)
StopHonoured ==
    (/\ main # "out"
     /\ \/ stopping # {}
        \/ running /\ shouldStop
        \/ instance /\ \E t \in Loop!Threads : ~Loop!Undisturbed(t))
        ~> (main = "out" \/ (Deadlocked /\ BadMoment))
=============================================================================
