------------------------------ MODULE MainLoop ------------------------------
(***************************************************************************)
(* MainLoop: Run blocks the main thread between a start and a stop action  *)
(* until Stop is called by another thread, e.g. an RPC thread, or by the   *)
(* handler of SIGTERM and SIGINT.                                          *)
(*                                                                         *)
(* There are two locks: `mut', which Run holds throughout but for its      *)
(* wait, and instanceForSignalsMutex, which Run takes while it holds `mut' *)
(* and which the handler holds while it calls Stop.  The process' signals  *)
(* may be delivered on any of its threads, also on one that holds a lock;  *)
(* the thread then does nothing else until the handler returns.            *)
(***************************************************************************)
EXTENDS Naturals

CONSTANTS
    Main,            \* the thread that calls Run
    StopThreads,     \* threads that call Stop
    SignalThreads,   \* threads a signal may be delivered on
    Unset,           \* the value of shouldStop before its first assignment
    MaxStops,        \* bound: calls of Stop
    MaxSignals,      \* bound: signals
    MaxRuns          \* bound: calls of Run

Threads == {Main} \cup StopThreads \cup SignalThreads

VARIABLES
    main,          \* where Run is, see Places
    mut,           \* holder of MainLoop::mut, or "none"
    instanceMut,   \* holder of instanceForSignalsMutex, or "none"
    instance,      \* is instanceForSignals set?
    shouldStop,    \* shouldStop
    running,       \* running
    stopping,      \* threads that are inside Stop
    handler,       \* per thread: where HandleInterrupt is, see HandlerPlaces
    stops, signals, runs

vars == <<main, mut, instanceMut, instance, shouldStop, running, stopping,
          handler, stops, signals, runs>>

-----------------------------------------------------------------------------
(***************************************************************************)
(* Run: outside, about to lock the instance, with the lock before and      *)
(* after the handlers are installed, in the start action, at the loop's    *)
(* test, about to wait, in cv.wait, about to take `mut' again, in the stop *)
(* action, about to lock the instance again, with the lock.                *)
(***************************************************************************)
Places == {"out", "install", "installing", "installed", "start", "test", "wait",
           "waiting", "relock", "stop", "uninstall", "uninstalling"}

(***************************************************************************)
(* HandleInterrupt: not running, about to lock the instance, with the lock *)
(* and about to call Stop, or interrupted there by the other of the two    *)
(* signals, whose handler is about to lock the instance.                   *)
(***************************************************************************)
HandlerPlaces == {"none", "entered", "locked", "nested"}

(* shouldStop is not initialised; Run does not read it before it is set. *)
TypeOK ==
    /\ main \in Places
    /\ {mut, instanceMut} \subseteq Threads \cup {"none"}
    /\ {instance, running} \subseteq BOOLEAN
    /\ shouldStop \in BOOLEAN \cup {Unset}
    /\ running => shouldStop \in BOOLEAN
    /\ stopping \subseteq StopThreads
    /\ handler \in [Threads -> HandlerPlaces]
    /\ stops \in 0..MaxStops /\ signals \in 0..MaxSignals
    /\ runs \in 0..MaxRuns

Init ==
    /\ main = "out"
    /\ mut = "none" /\ instanceMut = "none"
    /\ instance = FALSE /\ running = FALSE
    /\ shouldStop = Unset
    /\ stopping = {}
    /\ handler = [t \in Threads |-> "none"]
    /\ stops = 0 /\ signals = 0 /\ runs = 0

(* A thread runs its own code only while no signal handler runs on it. *)
Undisturbed(t) == t \in SignalThreads => handler[t] = "none"

stopVars == <<stopping, handler, stops, signals>>

-----------------------------------------------------------------------------
Run ==
    /\ main = "out" /\ Undisturbed(Main)
    /\ runs < MaxRuns
    /\ mut = "none"
    /\ mut' = Main
    /\ main' = "install"
    /\ runs' = runs + 1
    /\ UNCHANGED <<stopVars, instanceMut, instance, shouldStop, running>>

SetInstance ==
    /\ main = "install" /\ Undisturbed(Main)
    /\ instanceMut = "none"
    /\ instanceMut' = Main
    /\ instance' = TRUE
    /\ main' = "installing"
    /\ UNCHANGED <<stopVars, mut, shouldStop, running, runs>>

(* The first sigaction; the lock on the instance is still held. *)
Install ==
    /\ main = "installing" /\ Undisturbed(Main)
    /\ main' = "installed"
    /\ UNCHANGED <<stopVars, mut, instanceMut, instance, shouldStop, running, runs>>

(* The lock is released and the loop set up. *)
EnterLoop ==
    /\ main = "installed" /\ Undisturbed(Main)
    /\ instanceMut' = "none"
    /\ shouldStop' = FALSE
    /\ running' = TRUE
    /\ main' = "start"
    /\ UNCHANGED <<stopVars, mut, instance, runs>>

StartAction ==
    /\ main = "start" /\ Undisturbed(Main)
    /\ main' = "test"
    /\ UNCHANGED <<stopVars, mut, instanceMut, instance, shouldStop, running, runs>>

TestStop ==
    /\ main = "test" /\ Undisturbed(Main)
    /\ main' = IF shouldStop THEN "stop" ELSE "wait"
    /\ UNCHANGED <<stopVars, mut, instanceMut, instance, shouldStop, running, runs>>

Wait ==
    /\ main = "wait" /\ Undisturbed(Main)
    /\ mut' = "none"
    /\ main' = "waiting"
    /\ UNCHANGED <<stopVars, instanceMut, instance, shouldStop, running, runs>>

SpuriousWakeup ==
    /\ main = "waiting" /\ Undisturbed(Main)
    /\ main' = "relock"
    /\ UNCHANGED <<stopVars, mut, instanceMut, instance, shouldStop, running, runs>>

Relock ==
    /\ main = "relock" /\ Undisturbed(Main)
    /\ mut = "none"
    /\ mut' = Main
    /\ main' = "test"
    /\ UNCHANGED <<stopVars, instanceMut, instance, shouldStop, running, runs>>

StopAction ==
    /\ main = "stop" /\ Undisturbed(Main)
    /\ main' = "uninstall"
    /\ running' = FALSE
    /\ UNCHANGED <<stopVars, mut, instanceMut, instance, shouldStop, runs>>

ResetInstance ==
    /\ main = "uninstall" /\ Undisturbed(Main)
    /\ instanceMut = "none"
    /\ instanceMut' = Main
    /\ instance' = FALSE
    /\ main' = "uninstalling"
    /\ UNCHANGED <<stopVars, mut, shouldStop, running, runs>>

(* Both locks are released, and Run returns. *)
Uninstall ==
    /\ main = "uninstalling" /\ Undisturbed(Main)
    /\ instanceMut' = "none"
    /\ mut' = "none"
    /\ main' = "out"
    /\ UNCHANGED <<stopVars, instance, shouldStop, running, runs>>

MainStep ==
    \/ Run \/ SetInstance \/ Install \/ EnterLoop
    \/ StartAction \/ TestStop \/ Wait \/ Relock \/ StopAction
    \/ ResetInstance \/ Uninstall

-----------------------------------------------------------------------------
Notified == IF main = "waiting" THEN "relock" ELSE main

CallStop(t) ==
    /\ stops < MaxStops
    /\ t \notin stopping /\ Undisturbed(t)
    /\ stops' = stops + 1
    /\ stopping' = stopping \cup {t}
    /\ UNCHANGED <<main, mut, instanceMut, instance, shouldStop, running,
                   handler, signals, runs>>

LockStop(t) ==
    /\ t \in stopping /\ Undisturbed(t)
    /\ mut = "none"
    /\ mut' = t
    /\ UNCHANGED <<stopVars, main, instanceMut, instance, shouldStop, running, runs>>

\* Mutant: Stop does not notify.
StopQuietly ==
    /\ shouldStop' = TRUE
    /\ main' = main
    /\ mut' = "none"

(* The body of MainLoop::Stop, which holds the lock and releases it. *)
Stop ==
    /\ shouldStop' = TRUE
    /\ main' = Notified
    /\ mut' = "none"

ReturnStop(t) ==
    /\ t \in stopping /\ Undisturbed(t)
    /\ mut = t
    /\ Stop
    /\ stopping' = stopping \ {t}
    /\ UNCHANGED <<instanceMut, instance, running, handler, stops, signals, runs>>

-----------------------------------------------------------------------------
(* Run's end leaves the handlers in place: sigaction with no new action. *)
HandlersInstalled ==
    runs > 1 \/ (runs = 1 /\ main \notin {"install", "installing"})

(***************************************************************************)
(* A signal on a thread.  Without the handler, it just ends the process.   *)
(* A handler is interrupted by the other signal, as sa_mask is empty; one  *)
(* that waits for the instance then just runs after the other one.         *)
(***************************************************************************)
Signal(t) ==
    /\ signals < MaxSignals
    /\ HandlersInstalled
    /\ signals' = signals + 1
    /\ \/ Undisturbed(t) /\ handler' = [handler EXCEPT ![t] = "entered"]
       \/ handler[t] = "locked" /\ handler' = [handler EXCEPT ![t] = "nested"]
    /\ UNCHANGED <<main, mut, instanceMut, instance, shouldStop, running,
                   stopping, stops, runs>>

HandlerLock(t) ==
    /\ handler[t] = "entered"
    /\ instanceMut = "none"
    /\ IF instance
       THEN instanceMut' = t /\ handler' = [handler EXCEPT ![t] = "locked"]
       ELSE instanceMut' = "none" /\ handler' = [handler EXCEPT ![t] = "none"]
    /\ UNCHANGED <<main, mut, instance, shouldStop, running, stopping, stops,
                   signals, runs>>

(* Stop, called by the handler, from taking `mut' to releasing both locks. *)
HandlerStop(t) ==
    /\ handler[t] = "locked"
    /\ mut = "none"
    /\ Stop
    /\ instanceMut' = "none"
    /\ handler' = [handler EXCEPT ![t] = "none"]
    /\ UNCHANGED <<instance, running, stopping, stops, signals, runs>>

StopStep(t) == LockStop(t) \/ ReturnStop(t) \/ HandlerLock(t) \/ HandlerStop(t)

Next ==
    \/ MainStep \/ SpuriousWakeup
    \/ \E t \in StopThreads : CallStop(t)
    \/ \E t \in SignalThreads : Signal(t)
    \/ \E t \in Threads : StopStep(t)

(***************************************************************************)
(* Every thread is scheduled, the start and stop actions end, and a thread *)
(* that waits for a lock gets it if it is free again and again.            *)
(***************************************************************************)
Spec == Init /\ [][Next]_vars
             /\ WF_vars(MainStep)
             /\ \A t \in Threads : SF_vars(StopStep(t))

-----------------------------------------------------------------------------
\* The lock a thread is about to take, by its holder.
WantsMut(t) ==
    \/ handler[t] = "locked"
    \/ Undisturbed(t) /\ t \in stopping /\ mut # t
    \/ Undisturbed(t) /\ t = Main /\ main = "relock"

WantsInstance(t) ==
    \/ handler[t] \in {"entered", "nested"}
    \/ Undisturbed(t) /\ t = Main /\ main \in {"install", "uninstall"}

\* t waits for u, which may be t itself, to release a lock.
Awaits(t, u) ==
    \/ WantsMut(t) /\ mut = u
    \/ WantsInstance(t) /\ instanceMut = u
=============================================================================
