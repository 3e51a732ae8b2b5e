----------------------------- MODULE Supervisor -----------------------------
(***************************************************************************)
(* supervisor.Supervisor: one child process, kept alive with backoff, by a *)
(* supervision goroutine that Start launches and Stop joins.  Start, Stop  *)
(* and SetArgs arrive from several goroutines, but through a Controller    *)
(* whose cmdMu serialises them: Supervisor itself lets go of its own mutex *)
(* before Stop waits for the goroutine.                                    *)
(*                                                                         *)
(* One atomic step is one section under Supervisor.mu, or one call that    *)
(* blocks or talks to the kernel (exec, wait, signal, channel).  Time and  *)
(* the text of lastErr are left out: a backoff is a step that may be late, *)
(* "ran for StableAfter" is a choice.                                      *)
(***************************************************************************)
EXTENDS Naturals

CONSTANTS
    Callers,        \* goroutines that issue commands: the Run loop, the menu, control requests
    Loops,          \* identities for supervision goroutines (and their contexts), reused once free
    ArgLists,       \* child argument lists
    InitArgs,       \* Options.Args
    GiveUpAfter,    \* Backoff.GiveUpAfter; 0 means never
    MaxRestarts,    \* bound: how many unexpected exits the environment produces
    None            \* nil

ASSUME NoneAssumption == None \notin Callers /\ None \notin Loops /\ None \notin ArgLists
ASSUME ArgsAssumption == InitArgs \in ArgLists
ASSUME LimitAssumption == GiveUpAfter \in Nat /\ MaxRestarts \in Nat

VARIABLES
    cmdMu,      \* Controller.cmdMu: the caller that holds it
    pc,         \* where each caller is inside a command
    joining,    \* the goroutine a caller's Stop took out of s.stop / s.doneCh
    args,       \* s.opts.Args
    doneCh,     \* s.stop and s.doneCh, set and cleared together: the current goroutine
    cmd,        \* s.cmd, set and cleared with s.running: the goroutine whose child it is
    restarts,   \* s.restarts
    failures,   \* s.failures
    givenUp,    \* s.givenUp
    ctxDone,    \* the context passed to Start is cancelled
    cancelled,  \* goroutines whose own context Stop cancelled
    loop,       \* where each supervision goroutine is
    argv,       \* the arguments its current child was, or will be, started with
    child       \* that child, and how it ended

callerVars == <<cmdMu, pc, joining>>
counterVars == <<restarts, failures, givenUp>>
loopVars == <<loop, argv, child>>
vars == <<callerVars, args, doneCh, cmd, counterVars, ctxDone, cancelled, loopVars>>

CallerStates == {"idle", "held", "cancel", "join"}
LoopStates == {"gone", "top", "args", "exec", "spawned", "wait", "check", "account", "backoff"}
ChildStates == {"none", "alive", "exited", "refused", "cancelled"}

(* Faulty forms, one for each way the properties below could come to fail. *)

\* A supervision goroutine that looks only at its own context (for Cancelled).
OwnContextOnly(l) == l \in cancelled

\* No cmdMu around the commands (for LockFree).
NoLock == TRUE

\* Stop does not wait for the goroutine (for Finished).
NotAwaited(l) == l \in Loops

\* Stop clears s.doneCh before it has copied it (for StopBegin).
StopClearsFirst(c) ==
    /\ pc[c] = "held" /\ doneCh # None
    /\ pc' = [pc EXCEPT ![c] = "cancel"]
    /\ doneCh' = None
    /\ UNCHANGED <<cmdMu, joining, args, cmd, counterVars, ctxDone, cancelled, loopVars>>

\* Start keeps the verdict of the last session (for Start).
StartKeepsVerdict(c) ==
    /\ pc[c] = "held" /\ doneCh = None
    /\ \E l \in Loops :
        /\ loop[l] = "gone"
        /\ doneCh' = l
        /\ cancelled' = cancelled \ {l}
        /\ loop' = [loop EXCEPT ![l] = "top"]
    /\ UNCHANGED <<callerVars, args, cmd, counterVars, ctxDone, argv, child>>

\* Stop waits without having cancelled (for Cancel).
CancelForgotten(c) ==
    /\ pc[c] = "cancel"
    /\ pc' = [pc EXCEPT ![c] = "join"]
    /\ UNCHANGED <<cmdMu, joining, args, doneCh, cmd, counterVars, ctxDone, cancelled, loopVars>>

\* The arguments are read once, not for each child (for ReadArgs).
ArgsReadOnce(l) ==
    /\ loop[l] = "args"
    /\ loop' = [loop EXCEPT ![l] = "exec"]
    /\ UNCHANGED <<callerVars, args, doneCh, cmd, counterVars, ctxDone, cancelled, argv, child>>

\* The handle outlives the process (for Reap).
ReapKeepsHandle(l) ==
    /\ loop[l] = "wait" /\ child[l] # "alive"
    /\ loop' = [loop EXCEPT ![l] = "check"]
    /\ UNCHANGED <<callerVars, args, doneCh, cmd, counterVars, ctxDone, cancelled, argv, child>>

\* Every exit is counted, a deliberate one too (for Check).
CheckAlwaysCounts(l) ==
    /\ loop[l] = "check"
    /\ loop' = [loop EXCEPT ![l] = "account"]
    /\ UNCHANGED <<callerVars, args, doneCh, cmd, counterVars, ctxDone, cancelled, argv, child>>

\* The goroutine gives up without saying so (for Account).
SilentGiveUp(l) ==
    /\ loop[l] = "account"
    /\ failures' = failures + 1 /\ restarts' = restarts + 1
    /\ loop' = [loop EXCEPT ![l] = IF failures' = GiveUpAfter THEN "gone" ELSE "backoff"]
    /\ UNCHANGED <<callerVars, args, doneCh, cmd, givenUp, ctxDone, cancelled, argv, child>>

\* No WaitDelay: a child that ignores SIGTERM is waited for forever (for ChildTerminated).
NeverKilled(l) == l \notin Loops /\ UNCHANGED vars

-----------------------------------------------------------------------------
\* ctx.Err() of a supervision goroutine: Stop cancelled it, or the parent was.
Cancelled(l) == l \in cancelled \/ ctxDone

\* Backoff.ShouldGiveUp.
ShouldGiveUp(n) == GiveUpAfter > 0 /\ n >= GiveUpAfter

\* A goroutine identity that nothing refers to.
Free(l) == loop[l] = "gone" /\ doneCh # l /\ \A c \in Callers : joining[c] # l

\* sync.Mutex: only a free lock is taken.
LockFree == cmdMu = None

\* <-done: the goroutine closes its channel when it returns.
Finished(l) == loop[l] = "gone"

Init ==
    /\ cmdMu = None
    /\ pc = [c \in Callers |-> "idle"]
    /\ joining = [c \in Callers |-> None]
    /\ args = InitArgs
    /\ doneCh = None
    /\ cmd = None
    /\ restarts = 0 /\ failures = 0 /\ givenUp = FALSE
    /\ ctxDone = FALSE
    /\ cancelled = {}
    /\ loop = [l \in Loops |-> "gone"]
    /\ argv = [l \in Loops |-> InitArgs]
    /\ child = [l \in Loops |-> "none"]

-----------------------------------------------------------------------------
(* Commands.  Between Lock and Unlock a caller issues any of them.         *)

Lock(c) ==
    /\ pc[c] = "idle" /\ LockFree
    /\ cmdMu' = c
    /\ pc' = [pc EXCEPT ![c] = "held"]
    /\ UNCHANGED <<joining, args, doneCh, cmd, counterVars, ctxDone, cancelled, loopVars>>

Unlock(c) ==
    /\ pc[c] = "held"
    /\ cmdMu' = None
    /\ pc' = [pc EXCEPT ![c] = "idle"]
    /\ UNCHANGED <<joining, args, doneCh, cmd, counterVars, ctxDone, cancelled, loopVars>>

\* A started supervisor is left alone, even one that gave up.
Start(c) ==
    /\ pc[c] = "held"
    /\ doneCh = None
    /\ \E l \in Loops :
        /\ Free(l)
        /\ doneCh' = l
        /\ cancelled' = cancelled \ {l}
        /\ loop' = [loop EXCEPT ![l] = "top"]
    /\ failures' = 0 /\ givenUp' = FALSE
    /\ UNCHANGED <<callerVars, args, cmd, restarts, ctxDone, argv, child>>

\* Stop takes the goroutine out under the mutex, cancels it and waits for it
\* after letting the mutex go.  Stop of a stopped supervisor changes nothing.
StopBegin(c) ==
    /\ pc[c] = "held"
    /\ doneCh # None
    /\ pc' = [pc EXCEPT ![c] = "cancel"]
    /\ joining' = [joining EXCEPT ![c] = doneCh]
    /\ doneCh' = None
    /\ UNCHANGED <<cmdMu, args, cmd, counterVars, ctxDone, cancelled, loopVars>>

Cancel(c) ==
    /\ pc[c] = "cancel"
    /\ pc' = [pc EXCEPT ![c] = "join"]
    /\ cancelled' = cancelled \cup {joining[c]}
    /\ UNCHANGED <<cmdMu, joining, args, doneCh, cmd, counterVars, ctxDone, loopVars>>

Join(c) ==
    /\ pc[c] = "join"
    /\ Finished(joining[c])
    /\ pc' = [pc EXCEPT ![c] = "held"]
    /\ joining' = [joining EXCEPT ![c] = None]
    /\ UNCHANGED <<cmdMu, args, doneCh, cmd, counterVars, ctxDone, cancelled, loopVars>>

SetArgs(c) ==
    /\ pc[c] = "held"
    /\ \E a \in ArgLists : args' = a
    /\ UNCHANGED <<callerVars, doneCh, cmd, counterVars, ctxDone, cancelled, loopVars>>

\* A signal or the control socket's quit cancels the context of Run.
CancelParent ==
    /\ ~ctxDone
    /\ ctxDone' = TRUE
    /\ UNCHANGED <<callerVars, args, doneCh, cmd, counterVars, cancelled, loopVars>>

-----------------------------------------------------------------------------
(* The supervision goroutine. *)

Top(l) ==
    /\ loop[l] = "top"
    /\ loop' = [loop EXCEPT ![l] = IF Cancelled(l) THEN "gone" ELSE "args"]
    /\ UNCHANGED <<callerVars, args, doneCh, cmd, counterVars, ctxDone, cancelled, argv, child>>

ReadArgs(l) ==
    /\ loop[l] = "args"
    /\ argv' = [argv EXCEPT ![l] = args]
    /\ loop' = [loop EXCEPT ![l] = "exec"]
    /\ UNCHANGED <<callerVars, args, doneCh, cmd, counterVars, ctxDone, cancelled, child>>

\* exec.CommandContext refuses to start once the context is done.
Exec(l) ==
    /\ loop[l] = "exec"
    /\ ~Cancelled(l)
    /\ child' = [child EXCEPT ![l] = "alive"]
    /\ loop' = [loop EXCEPT ![l] = "spawned"]
    /\ UNCHANGED <<callerVars, args, doneCh, cmd, counterVars, ctxDone, cancelled, argv>>

ExecFails(l) ==
    /\ loop[l] = "exec"
    /\ \/ Cancelled(l) /\ child' = [child EXCEPT ![l] = "cancelled"]
       \/ ~Cancelled(l) /\ restarts < MaxRestarts /\ child' = [child EXCEPT ![l] = "refused"]
    /\ loop' = [loop EXCEPT ![l] = "check"]
    /\ UNCHANGED <<callerVars, args, doneCh, cmd, counterVars, ctxDone, cancelled, argv>>

\* The running state becomes visible after the process already exists.
Publish(l) ==
    /\ loop[l] = "spawned"
    /\ cmd' = l
    /\ loop' = [loop EXCEPT ![l] = "wait"]
    /\ UNCHANGED <<callerVars, args, doneCh, counterVars, ctxDone, cancelled, argv, child>>

Reap(l) ==
    /\ loop[l] = "wait"
    /\ child[l] # "alive"
    /\ cmd' = None
    /\ loop' = [loop EXCEPT ![l] = "check"]
    /\ UNCHANGED <<callerVars, args, doneCh, counterVars, ctxDone, cancelled, argv, child>>

\* An exit under a cancelled context is the one Stop asked for: not a failure.
Check(l) ==
    /\ loop[l] = "check"
    /\ loop' = [loop EXCEPT ![l] = IF Cancelled(l) THEN "gone" ELSE "account"]
    /\ UNCHANGED <<callerVars, args, doneCh, cmd, counterVars, ctxDone, cancelled, argv, child>>

Account(l) ==
    /\ loop[l] = "account"
    /\ \E stable \in BOOLEAN :
        /\ stable => child[l] = "exited"
        /\ failures' = IF stable THEN 1 ELSE failures + 1
    /\ restarts' = restarts + 1
    /\ givenUp' = ShouldGiveUp(failures')
    /\ loop' = [loop EXCEPT ![l] = IF givenUp' THEN "gone" ELSE "backoff"]
    /\ UNCHANGED <<callerVars, args, doneCh, cmd, ctxDone, cancelled, argv, child>>

\* select { <-ctx.Done(): return; <-time.After(delay) }, either when both are ready.
BackoffEnds(l) ==
    /\ loop[l] = "backoff"
    /\ \/ loop' = [loop EXCEPT ![l] = "top"]
       \/ Cancelled(l) /\ loop' = [loop EXCEPT ![l] = "gone"]
    /\ UNCHANGED <<callerVars, args, doneCh, cmd, counterVars, ctxDone, cancelled, argv, child>>

-----------------------------------------------------------------------------
(* The child process. *)

ChildExits(l) ==
    /\ child[l] = "alive" /\ restarts < MaxRestarts
    /\ child' = [child EXCEPT ![l] = "exited"]
    /\ UNCHANGED <<callerVars, args, doneCh, cmd, counterVars, ctxDone, cancelled, loop, argv>>

\* Supervisor.Kill: SIGKILL to the published child, with supervision going on.
Kill ==
    /\ cmd # None /\ ChildExits(cmd)

\* SIGTERM on cancellation, SIGKILL after WaitDelay: the child does end.
ChildTerminated(l) ==
    /\ child[l] = "alive" /\ Cancelled(l)
    /\ child' = [child EXCEPT ![l] = "cancelled"]
    /\ UNCHANGED <<callerVars, args, doneCh, cmd, counterVars, ctxDone, cancelled, loop, argv>>

-----------------------------------------------------------------------------
LoopStep(l) ==
    \/ Top(l) \/ ReadArgs(l) \/ Exec(l) \/ ExecFails(l) \/ Publish(l)
    \/ Reap(l) \/ Check(l) \/ Account(l) \/ BackoffEnds(l)

Command(c) ==
    Lock(c) \/ Unlock(c) \/ Start(c) \/ StopBegin(c) \/ Cancel(c) \/ Join(c) \/ SetArgs(c)

Next ==
    \/ \E c \in Callers : Command(c)
    \/ CancelParent
    \/ \E l \in Loops : LoopStep(l) \/ ChildExits(l) \/ ChildTerminated(l)
    \/ Kill

Spec == Init /\ [][Next]_vars

\* Goroutines are scheduled, timers fire, and a signalled child ends; nobody is
\* obliged to issue a command, and a child need not fail.
Fairness ==
    /\ \A l \in Loops : WF_vars(LoopStep(l)) /\ WF_vars(ChildTerminated(l))
    /\ \A c \in Callers : WF_vars(Cancel(c)) /\ WF_vars(Join(c))

FairSpec == Spec /\ Fairness

-----------------------------------------------------------------------------
(* What makes it correct. *)

TypeOK ==
    /\ cmdMu \in Callers \cup {None}
    /\ pc \in [Callers -> CallerStates]
    /\ joining \in [Callers -> Loops \cup {None}]
    /\ args \in ArgLists
    /\ doneCh \in Loops \cup {None}
    /\ cmd \in Loops \cup {None}
    /\ restarts \in Nat /\ failures \in Nat /\ givenUp \in BOOLEAN
    /\ ctxDone \in BOOLEAN
    /\ cancelled \subseteq Loops
    /\ loop \in [Loops -> LoopStates]
    /\ argv \in [Loops -> ArgLists]
    /\ child \in [Loops -> ChildStates]

Alive(l) == child[l] = "alive"

\* Two tailscaled processes never run at once, whatever commands overlap with
\* crashes, backoffs and each other: they would fight over socket and state.
OneChild == \A k, l \in Loops : Alive(k) /\ Alive(l) => k = l

Stopping == \E c \in Callers : pc[c] \in {"cancel", "join"}

\* Once Stop has returned, and until the next Start, no goroutine is left that
\* could start a child, no child runs, and Running() says so.
StopIsFinal ==
    doneCh = None /\ ~Stopping =>
        cmd = None /\ \A l \in Loops : loop[l] = "gone" /\ ~Alive(l)

\* An exit that happened because the context was cancelled is never counted as
\* a restart or a failure, though the count comes after the check.
OnlyOwnExitsCount == \A l \in Loops : loop[l] = "account" => child[l] \in {"exited", "refused"}

\* "Given up" is reported only while nothing is being supervised any more, so
\* the error shown never accompanies a working child.
GivenUpIsDown == givenUp => \A l \in Loops : loop[l] = "gone" /\ ~Alive(l)

\* Running() is about the current child: the handle is never one left behind
\* by a goroutine whose Stop has completed.
HandleIsCurrent ==
    cmd # None => /\ loop[cmd] = "wait"
                  /\ doneCh = cmd \/ \E c \in Callers : joining[c] = cmd

\* Stop returns: it waits for a goroutine that may be starting, running,
\* reaping, counting or sleeping, and none of these keeps it forever.
StopReturns == \A c \in Callers : pc[c] = "join" ~> pc[c] = "held"

\* A started supervisor keeps its child running: after any exit it is up again,
\* unless it was stopped, cancelled or ran out of attempts.
KeptAlive == doneCh # None ~> cmd # None \/ doneCh = None \/ givenUp \/ ctxDone

\* Cancelling the context of Run alone, with no Stop, ends every child for good.
CancelIsEnough == ctxDone ~> [](\A l \in Loops : ~Alive(l))
=============================================================================
