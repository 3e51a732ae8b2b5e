------------------------------- MODULE Daemon -------------------------------
(***************************************************************************)
(* app.Daemon: what the controller relies on the supervisor for, with one  *)
(* session at a time and one process at a time, and none of the            *)
(* goroutines, contexts and handles that make it so.  Supervisor           *)
(* implements it (see SupervisorRefinement); Controller is built on it.    *)
(*                                                                         *)
(* The commands are those of one caller at a time.  A process is "spawned" *)
(* from the moment it exists and "running" once Running() says so.         *)
(***************************************************************************)
EXTENDS Naturals

CONSTANTS
    ArgLists,       \* child argument lists
    InitArgs,       \* the first one
    CanGiveUp,      \* whether the backoff has a limit on consecutive failures
    None            \* no argument list: no process is prepared

ASSUME DaemonAssumption ==
    InitArgs \in ArgLists /\ None \notin ArgLists /\ CanGiveUp \in BOOLEAN

VARIABLES
    session,    \* "down", "up" from Start on, "stopping" while Stop waits
    stage,      \* how far the current child is
    args,       \* the arguments the next child will get
    cargs,      \* the arguments this child was, or will be, started with
    restarts,   \* unexpected exits ever
    givenUp,    \* no more attempts in this session
    ctxDone     \* the context of the session is cancelled

dvars == <<session, stage, args, cargs, restarts, givenUp, ctxDone>>

Sessions == {"down", "up", "stopping"}
Stages == {"none", "checked", "prepared", "spawned", "running", "exited"}

Process == stage \in {"spawned", "running"}
Running == stage = "running"

\* The context of the supervision goroutine is done.
Ending == session = "stopping" \/ ctxDone

DaemonInit ==
    /\ session = "down" /\ stage = "none"
    /\ args = InitArgs /\ cargs = None
    /\ restarts = 0 /\ givenUp = FALSE
    /\ ctxDone = FALSE

StartSession ==
    /\ session = "down"
    /\ session' = "up" /\ givenUp' = FALSE
    /\ UNCHANGED <<stage, args, cargs, restarts, ctxDone>>

BeginStop ==
    /\ session = "up"
    /\ session' = "stopping"
    /\ UNCHANGED <<stage, args, cargs, restarts, givenUp, ctxDone>>

EndStop ==
    /\ session = "stopping" /\ stage = "none"
    /\ session' = "down"
    /\ UNCHANGED <<stage, args, cargs, restarts, givenUp, ctxDone>>

SetDaemonArgs(a) ==
    /\ args' = a
    /\ UNCHANGED <<session, stage, cargs, restarts, givenUp, ctxDone>>

CancelCtx ==
    /\ ~ctxDone
    /\ ctxDone' = TRUE
    /\ UNCHANGED <<session, stage, args, cargs, restarts, givenUp>>

\* One attempt at a child: the context is looked at, the arguments are read,
\* the process is started and then announced.
Attempt ==
    /\ session = "up" /\ stage = "none" /\ ~givenUp /\ ~ctxDone
    /\ stage' = "checked"
    /\ UNCHANGED <<session, args, cargs, restarts, givenUp, ctxDone>>

Prepare ==
    /\ stage = "checked"
    /\ stage' = "prepared" /\ cargs' = args
    /\ UNCHANGED <<session, args, restarts, givenUp, ctxDone>>

Spawn ==
    /\ stage = "prepared" /\ ~Ending
    /\ stage' = "spawned"
    /\ UNCHANGED <<session, args, cargs, restarts, givenUp, ctxDone>>

SpawnFails ==
    /\ stage = "prepared"
    /\ stage' = "exited" /\ cargs' = None
    /\ UNCHANGED <<session, args, restarts, givenUp, ctxDone>>

Announce ==
    /\ stage = "spawned"
    /\ stage' = "running"
    /\ UNCHANGED <<session, args, cargs, restarts, givenUp, ctxDone>>

\* The child's end is noticed; it may have come at any moment before.
Reaped ==
    /\ stage = "running"
    /\ stage' = "exited" /\ cargs' = None
    /\ UNCHANGED <<session, args, restarts, givenUp, ctxDone>>

\* The exit is counted, or it was asked for and is not.
Count ==
    /\ stage = "exited"
    /\ stage' = "none" /\ restarts' = restarts + 1
    /\ \E g \in BOOLEAN : (g => CanGiveUp) /\ givenUp' = g
    /\ UNCHANGED <<session, args, cargs, ctxDone>>

Abandon ==
    /\ stage = "exited" /\ Ending
    /\ stage' = "none"
    /\ UNCHANGED <<session, args, cargs, restarts, givenUp, ctxDone>>

ChildStep ==
    Attempt \/ Prepare \/ Spawn \/ SpawnFails \/ Announce \/ Reaped \/ Count \/ Abandon

DaemonNext ==
    \/ StartSession \/ BeginStop \/ EndStop
    \/ \E a \in ArgLists : SetDaemonArgs(a)
    \/ CancelCtx
    \/ ChildStep

\* An attempt goes on by itself; a child need not end unless its context did.
DaemonFairness ==
    /\ WF_dvars(EndStop)
    /\ WF_dvars(Attempt \/ Prepare \/ Spawn \/ SpawnFails \/ Announce)
    /\ WF_dvars(Ending /\ Reaped)
    /\ WF_dvars(Count \/ Abandon)

DaemonSpec == DaemonInit /\ [][DaemonNext]_dvars

FairDaemonSpec == DaemonSpec /\ DaemonFairness
=============================================================================
