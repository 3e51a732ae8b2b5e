------------------------ MODULE SupervisorRefinement ------------------------
(***************************************************************************)
(* Supervisor implements Daemon: seen through the session its callers hold *)
(* and the child of the current goroutine, every step of the goroutines,   *)
(* of Stop's hand-over and of the process is a step of Daemon or none.     *)
(***************************************************************************)
EXTENDS Supervisor

\* The goroutine of the session: the one s.doneCh names, or the one that a
\* Stop has taken out and not yet joined.
Current ==
    IF doneCh # None THEN doneCh
    ELSE IF \E c \in Callers : joining[c] # None
         THEN joining[CHOOSE c \in Callers : joining[c] # None]
         ELSE None

\* A Stop takes effect for the child when it cancels the context.
SessionView ==
    IF doneCh # None \/ \E c \in Callers : pc[c] = "cancel" THEN "up"
    ELSE IF \E c \in Callers : pc[c] = "join" THEN "stopping" ELSE "down"

StageOf(where) ==
    CASE where \in {"gone", "top", "backoff"} -> "none"
      [] where = "args" -> "checked"
      [] where = "exec" -> "prepared"
      [] where = "spawned" -> "spawned"
      [] where = "wait" -> "running"
      [] where \in {"check", "account"} -> "exited"

StageView == IF Current = None THEN "none" ELSE StageOf(loop[Current])

ArgsView == IF StageView \in {"prepared", "spawned", "running"} THEN argv[Current] ELSE None

Promise == INSTANCE Daemon WITH
    CanGiveUp <- (GiveUpAfter > 0), session <- SessionView, stage <- StageView, cargs <- ArgsView

\* Every behaviour of Supervisor is one of Daemon.
ImplementsDaemon == Promise!DaemonSpec

\* So is its progress: attempts go on, and a Stop ends.
ImplementsDaemonProgress == Promise!DaemonFairness
=============================================================================
