----------------------------- MODULE Instances -----------------------------
(***************************************************************************)
(* `minitail run` as a process among others of its kind on one directory:  *)
(* the guard against a second instance, the bind and the removals of the   *)
(* control socket in ServeControl, the end of the process, and the         *)
(* LaunchAgent that starts it again when it ends with an error.            *)
(*                                                                         *)
(* What an instance does with tailscaled is Controller's business.  Here   *)
(* it is up while its Run is, if it wins tailscaled's own socket, which    *)
(* only one tailscaled at a time can hold.  The goroutine of ServeControl  *)
(* goes on beside Run until the process ends.                              *)
(*                                                                         *)
(* The guard and the bind are far apart, and every removal of the socket   *)
(* goes by its path, whoever made it.  That bites when the start of one    *)
(* meets the start or the stop of another, or when the guard gets no       *)
(* answer from a minitail that is there.  `disturbed` remembers that one   *)
(* of these happened, until no minitail runs.                              *)
(***************************************************************************)
EXTENDS Naturals

CONSTANTS
    Instances,  \* identities of processes, used again once a process is gone
    None,       \* nobody
    Orphan,     \* a tailscaled that has outlived its minitail
    MaxEvents   \* bound: starts by hand, installs, uninstalls, crashes, bad files, late answers

ASSUME InstancesAssumption ==
    /\ None \notin Instances /\ Orphan \notin Instances \cup {None}
    /\ {"absent", "idle", "due"} \cap Instances = {}
    /\ MaxEvents \in Nat

VARIABLES
    pc,     \* out: no such process; check: up to the guard; run: in Run; stop: its context is cancelled
    srv,    \* ServeControl: none, remove, listen, serving, closing, ended
    sock,   \* the instance that made the socket file, None without a file
    tsd,    \* whose tailscaled holds tailscaled's socket
    agent,  \* the LaunchAgent: absent; idle: its job ended well; due: to be started; or its instance
    disturbed,  \* a start has met another's start or stop, or a guard has missed an answer,
                \* since no minitail ran
    budget  \* events left

vars == <<pc, srv, sock, tsd, agent, disturbed, budget>>

Starting(i) == pc[i] = "check" \/ (pc[i] = "run" /\ srv[i] \in {"remove", "listen"})

\* What makes a start, or a request to stop, of i disturbed.
StartOverlaps == \E j \in Instances : Starting(j) \/ pc[j] = "stop"
StopOverlaps(i) == \E j \in Instances \ {i} : Starting(j)

Event == budget > 0 /\ budget' = budget - 1

Init ==
    /\ pc = [i \in Instances |-> "out"] /\ srv = [i \in Instances |-> "none"]
    /\ sock = None /\ tsd = None /\ agent = "absent"
    /\ disturbed = FALSE /\ budget = MaxEvents

-----------------------------------------------------------------------------
(* Faulty forms, one for each way the properties below could come to fail. *)

\* The process waits for ServeControl to end, which nothing tells to (for Ends).
EndsButServes(i, success) ==
    /\ pc' = [pc EXCEPT ![i] = "out"] /\ UNCHANGED srv
    /\ agent' = IF agent = i THEN IF success THEN "idle" ELSE "due" ELSE agent
    /\ disturbed' = (disturbed /\ \E j \in Instances \ {i} : pc[j] # "out")

\* The guard is missing (for MayPass).
NobodyAsks == TRUE

\* A refused minitail removes the socket on its way out (for SocketAfterRefusal).
RefusalCleansUp == None

\* A socket left behind by a crash is not removed before the bind (for Removed).
StaleSocketKept == sock

-----------------------------------------------------------------------------
(* An instance *)

\* What launchd makes of the end of its job: KeepAlive with SuccessfulExit
\* false.
AgentAfter(i, success) == IF agent = i THEN IF success THEN "idle" ELSE "due" ELSE agent

Leaves(i) ==
    /\ pc' = [pc EXCEPT ![i] = "out"] /\ srv' = [srv EXCEPT ![i] = "none"]
    /\ disturbed' = (disturbed /\ \E j \in Instances \ {i} : pc[j] # "out")

Ends(i, success) == Leaves(i) /\ agent' = AgentAfter(i, success)

\* FetchStatus on the control socket is answered.
Answered == sock # None /\ srv[sock] = "serving"

\* `minitail run` up to the guard: Load may refuse the file.
LoadFails(i) ==
    /\ pc[i] = "check" /\ Event
    /\ Ends(i, FALSE)
    /\ UNCHANGED <<sock, tsd>>

SocketAfterRefusal == sock

\* "minitail is already running": main exits with 1.
Refused(i) ==
    /\ pc[i] = "check" /\ Answered
    /\ sock' = SocketAfterRefusal
    /\ Ends(i, FALSE)
    /\ UNCHANGED <<tsd, budget>>

MayPass == ~Answered

\* Run and ServeControl start.
GoesOn(i, at) ==
    /\ pc[i] = "check"
    /\ pc' = [pc EXCEPT ![i] = at]
    /\ srv' = [srv EXCEPT ![i] = "remove"]

\* A cancelled context is no answer to the guard.
GoesOnCancelled(i) == GoesOn(i, "stop") /\ disturbed' = TRUE

\* There is no answer; or there is, and it is a bad one or takes longer than the
\* guard waits; or the guard has been cancelled.
Passes(i) ==
    /\ \/ MayPass /\ GoesOn(i, "run") /\ UNCHANGED <<disturbed, budget>>
       \/ Answered /\ Event /\ GoesOn(i, "run") /\ disturbed' = TRUE
       \/ GoesOnCancelled(i) /\ UNCHANGED budget
    /\ UNCHANGED <<sock, tsd, agent>>

\* tailscaled of i takes its socket; one that finds it taken exits, to be
\* started again by the supervisor.
DaemonUp(i) ==
    /\ pc[i] = "run" /\ tsd = None
    /\ tsd' = i
    /\ UNCHANGED <<pc, srv, sock, agent, disturbed, budget>>

DaemonDies(i) ==
    /\ tsd = i
    /\ tsd' = None
    /\ UNCHANGED <<pc, srv, sock, agent, disturbed, budget>>

\* Quit, of the menu or over the socket, SIGTERM, SIGINT.
Cancel(i) ==
    /\ pc[i] = "run"
    /\ pc' = [pc EXCEPT ![i] = "stop"]
    /\ disturbed' = (disturbed \/ StopOverlaps(i))
    /\ UNCHANGED srv

Cancelled(i) == Cancel(i) /\ UNCHANGED <<sock, tsd, agent, budget>>

\* Run has stopped tailscaled and returned: main exits with 0, wherever the
\* goroutine of ServeControl is.
Exits(i) ==
    /\ pc[i] = "stop"
    /\ tsd' = IF tsd = i THEN None ELSE tsd
    /\ Ends(i, TRUE)
    /\ UNCHANGED <<sock, budget>>

\* A panic or SIGKILL: tailscaled and the socket file stay behind.
Crashes(i) ==
    /\ pc[i] # "out" /\ Event
    /\ tsd' = IF tsd = i THEN Orphan ELSE tsd
    /\ Ends(i, FALSE)
    /\ UNCHANGED sock

-----------------------------------------------------------------------------
(* ServeControl *)

Removed == None

RemoveStale(i) ==
    /\ srv[i] = "remove"
    /\ sock' = Removed
    /\ srv' = [srv EXCEPT ![i] = "listen"]
    /\ UNCHANGED <<pc, tsd, agent, disturbed, budget>>

ListenAt(i) == IF sock = None THEN "serving" ELSE "ended"

\* The bind makes the file, and fails if there is one: ServeControl is then
\* over, and minitail goes on without.
Listen(i) ==
    /\ srv[i] = "listen"
    /\ srv' = [srv EXCEPT ![i] = ListenAt(i)]
    /\ sock' = IF sock = None THEN i ELSE sock
    /\ UNCHANGED <<pc, tsd, agent, disturbed, budget>>

\* The context is done: Shutdown closes the listener, which unlinks its path.
Shutdown(i) ==
    /\ srv[i] = "serving" /\ pc[i] = "stop"
    /\ sock' = None
    /\ srv' = [srv EXCEPT ![i] = "closing"]
    /\ UNCHANGED <<pc, tsd, agent, disturbed, budget>>

\* The deferred os.Remove.
RemoveAgain(i) ==
    /\ srv[i] = "closing"
    /\ sock' = None
    /\ srv' = [srv EXCEPT ![i] = "ended"]
    /\ UNCHANGED <<pc, tsd, agent, disturbed, budget>>

-----------------------------------------------------------------------------
(* Those who start it *)

Starts(i) ==
    /\ pc[i] = "out"
    /\ pc' = [pc EXCEPT ![i] = "check"]
    /\ disturbed' = (disturbed \/ StartOverlaps)

RunByHand(i) ==
    /\ Event /\ Starts(i)
    /\ UNCHANGED <<srv, sock, tsd, agent>>

\* launchd starts the job: at load, at login, and after an end with an error.
LaunchAgentStarts(i) ==
    /\ agent = "due" /\ Starts(i)
    /\ agent' = i
    /\ UNCHANGED <<srv, sock, tsd, budget>>

\* launchctl bootout: the job gets SIGTERM and is no longer launchd's.  Up to its
\* guard it ends there and then, of the signal or of an answer it has got, or
\* goes on with its context cancelled.
Bootout ==
    \/ agent \notin Instances /\ UNCHANGED <<pc, srv, disturbed>>
    \/ \E i \in Instances :
        /\ agent = i
        /\ \/ Cancel(i)
           \/ pc[i] = "check" /\ Leaves(i)
           \/ GoesOnCancelled(i)
           \/ pc[i] = "stop" /\ UNCHANGED <<pc, srv, disturbed>>

\* `minitail service install`: out with any previous version, and bootstrap,
\* which starts the new one at once (RunAtLoad) or fails, as may `load`.
Install ==
    /\ Event
    /\ Bootout /\ agent' \in {"due", "absent"}
    /\ UNCHANGED <<sock, tsd>>

Uninstall ==
    /\ Event /\ agent # "absent"
    /\ Bootout /\ agent' = "absent"
    /\ UNCHANGED <<sock, tsd>>

\* Somebody ends the tailscaled a crash left behind.
OrphanEnds ==
    /\ tsd = Orphan
    /\ tsd' = None
    /\ UNCHANGED <<pc, srv, sock, agent, disturbed, budget>>

\* No minitail, and nobody to start one.
Quiet ==
    /\ \A i \in Instances : pc[i] = "out"
    /\ agent \in {"absent", "idle"}
    /\ UNCHANGED vars

Process(i) ==
    \/ Refused(i) \/ Passes(i) \/ DaemonUp(i) \/ Exits(i)
    \/ RemoveStale(i) \/ Listen(i) \/ Shutdown(i) \/ RemoveAgain(i)

Next ==
    \/ \E i \in Instances :
        \/ Process(i) \/ LoadFails(i) \/ DaemonDies(i) \/ Cancelled(i) \/ Crashes(i)
        \/ RunByHand(i) \/ LaunchAgentStarts(i)
    \/ Install \/ Uninstall \/ OrphanEnds \/ Quiet

Spec == Init /\ [][Next]_vars

\* A process goes on, and launchd starts a job that is due.  Nobody else owes
\* anything.
FairSpec ==
    /\ Spec
    /\ \A i \in Instances :
        /\ WF_vars(Refused(i)) /\ WF_vars(Passes(i)) /\ WF_vars(Exits(i))
        /\ WF_vars(RemoveStale(i)) /\ WF_vars(Listen(i))
    /\ WF_vars(\E i \in Instances : LaunchAgentStarts(i))

-----------------------------------------------------------------------------
(* Properties *)

\* Every variable has its type; a process that is gone serves nothing.
TypeOK ==
    /\ pc \in [Instances -> {"out", "check", "run", "stop"}]
    /\ srv \in [Instances -> {"none", "remove", "listen", "serving", "closing", "ended"}]
    /\ sock \in Instances \cup {None} /\ tsd \in Instances \cup {None, Orphan}
    /\ agent \in {"absent", "idle", "due"} \cup Instances
    /\ disturbed \in BOOLEAN /\ budget \in 0..MaxEvents
    /\ \A i \in Instances : srv[i] = "none" <=> pc[i] \in {"out", "check"}

\* `minitail status`, stop and quit reach the minitail that runs: nobody takes
\* its socket away or puts another in its place, through any sequence of
\* refused starts, crashes with their leftovers, and starts again -- as long as
\* no start met another's start or stop, and no guard missed an answer.
Reachable == ~disturbed => \A i \in Instances : pc[i] = "run" /\ srv[i] = "serving" => sock = i

\* `minitail status` never describes an instance that lost the fight over
\* tailscaled's socket to another minitail, which is what the guard is for: one
\* start after the other, through crashes and what they leave behind.
StatusIsOfTheWorking == Answered /\ ~disturbed => tsd \notin Instances \ {sock}

\* Once events stop, either launchd has nothing to keep alive -- no agent, or
\* its minitail was quit -- or some minitail runs: a crash at any point, a stale
\* socket, a bad file or a refused start is no obstacle, and neither is a start
\* that met another's start or stop.  Unless there was such a start, or a guard
\* that missed an answer, the one that runs answers on the socket.
ComesBack ==
    <>[](\/ agent \in {"absent", "idle"}
         \/ \E i \in Instances :
                pc[i] = "run" /\ (~disturbed => srv[i] = "serving" /\ sock = i))
=============================================================================
