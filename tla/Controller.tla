----------------------------- MODULE Controller -----------------------------
(***************************************************************************)
(* app.Controller: the polling loop of Run, the commands that the menu and *)
(* the control socket issue beside it, the goroutine that waits for        *)
(* `tailscale up`, the daemon (module Daemon) and the node it runs.        *)
(*                                                                         *)
(* One atomic step is one section under Controller.mu, one call into the   *)
(* daemon, or one call to the tailscale CLI.  A command is a list of such  *)
(* steps still to take; cmdMu is taken with the first and released with    *)
(* the last.  The ticker can fire whenever the loop waits, so a Poke adds  *)
(* no step the loop could not take anyway and is left out.                 *)
(*                                                                         *)
(* What the environment does to the program -- commands, crashes, failing  *)
(* calls, changes of the node -- comes in the kinds in Surprises, and      *)
(* MaxSurprises of them at most.                                           *)
(***************************************************************************)
EXTENDS Daemon, AppState, Integers, Sequences

CONSTANTS
    Clients,        \* goroutines of the menu and of control requests
    Run,            \* the goroutine of Run
    Files,          \* config files: [td, up, adv, parses]
    InitFile,       \* the one minitail was started with
    InitBackends,   \* what the node's stored state amounts to when minitail starts
    Rejected,       \* [up] flags that tailscaled refuses
    Surprises,      \* the kinds of events of this instance
    MaxSurprises    \* bound: how many of them happen

ASSUME ControllerAssumption ==
    /\ Run \notin Clients /\ None \notin Clients \cup {Run}
    /\ InitFile \in Files /\ InitFile.td = InitArgs
    /\ \A f \in Files : f.td \in ArgLists /\ f.parses \in BOOLEAN
    /\ InitBackends \subseteq Backends
    /\ MaxSurprises \in Nat

Actors == Clients \cup {Run}

VARIABLES
    \* the lock and the commands
    cmdMu,      \* the actor that holds it
    todo,       \* the steps of its command that each actor has yet to take
    held,       \* what each actor carries between the steps of a refresh
    \* Controller's fields
    file, want, status, view, openedAuthURL, appliedFor, applyErr,
    \* the polling loop
    loop,       \* where it is
    answer,     \* the answer of Status, before it is stored
    prev,       \* the state shown before this poll's refresh
    gen, sent,  \* the restart generation and flags applyPrefs works with
    \* everything else
    up,         \* the `tailscale up` in flight (upInFlight)
    node,       \* the node as tailscaled and the control plane have it; its field
                \* `late` is read by no action and records that its flags were last
                \* set by an `up` whose flags were not the file's any more
    budget      \* surprises left

cmdVars == <<cmdMu, todo>>
prefVars == <<appliedFor, applyErr>>
loopVars == <<loop, answer, prev, gen, sent>>
cvars == <<file, want, status, view, openedAuthURL, prefVars>>
vars == <<dvars, cmdVars, held, cvars, loopVars, up, node, budget>>

NoAnswer == NoStatus
Never == -1     \* appliedFor: no generation has the preferences

Surprise(kind) == kind \in Surprises /\ budget > 0 /\ budget' = budget - 1

\* AdvertisedRoutes; a file it cannot read advertises nothing and is reported
\* through the same field as a failed apply.
Advertised == IF file.parses THEN file.adv ELSE {}
BadConfig == ~file.parses \/ applyErr # None

\* What Status reports of the node.
NodeStatus == [backend |-> node.backend, url |-> node.url, approved |-> node.approved]

Snapshot == [want |-> want, status |-> status, badConfig |-> BadConfig, advertised |-> Advertised]

WithDaemon(in) ==
    [want |-> in.want, status |-> in.status, badConfig |-> in.badConfig,
     advertised |-> in.advertised, running |-> Running, restarts |-> restarts, givenUp |-> givenUp]

Init ==
    /\ DaemonInit
    /\ cmdMu = None
    /\ todo = [a \in Actors |-> <<>>]
    /\ held = [a \in Actors |-> None]
    /\ file = InitFile /\ want = FALSE /\ status = NoStatus
    /\ appliedFor = Never /\ applyErr = None /\ openedAuthURL = NoURL
    /\ view = Derive(WithDaemon(Snapshot))
    /\ loop = "boot" /\ answer = NoAnswer /\ prev = "stopped" /\ gen = Never /\ sent = None
    /\ up = None
    /\ \E b \in InitBackends :
        node = [backend |-> b, prefs |-> None, late |-> FALSE, url |-> NoURL, logins |-> 0,
                approved |-> {}]
    /\ budget = MaxSurprises

-----------------------------------------------------------------------------
(* Faulty forms, one for each way the properties below could come to fail. *)

\* Commands without cmdMu (for MayCommand).
MayCommandUnlocked(a) == todo[a] = <<>>

\* Reload compares the wrong section (for NeedsRestart).
RestartForUp(f) == want /\ f.up # file.up

\* The deferred Stop is missing (for RunEnds).
RunEndsWithoutStop ==
    /\ loop = "wait" /\ todo[Run] = <<>> /\ ctxDone
    /\ loop' = "returned"
    /\ UNCHANGED <<dvars, cmdVars, held, cvars, answer, prev, gen, sent, up, node, budget>>

\* A failure is recorded after the flags it is about are gone (for StoreResult).
ResultWithoutFlags ==
    /\ loop \in {"applied", "failed"} /\ todo[Run] = <<>>
    /\ loop' = "wait" /\ prev' = "stopped" /\ gen' = Never /\ sent' = None
    /\ applyErr' = IF loop = "failed" THEN [by |-> "set", args |-> sent'] ELSE None
    /\ appliedFor' = IF loop = "failed" THEN Never ELSE appliedFor
    /\ held' = [held EXCEPT ![Run] = None]
    /\ UNCHANGED <<dvars, cmdVars, file, want, status, view, openedAuthURL, answer, up, node, budget>>

\* A result is dropped only at shutdown (for ResultIsStale).
StaleOnQuitOnly == ctxDone

\* A failed `set` is not retried (for StoreResult).
StoreKeepsClaim ==
    /\ loop \in {"applied", "failed"} /\ todo[Run] = <<>>
    /\ applyErr' = IF loop = "failed" THEN [by |-> "set", args |-> sent] ELSE None
    /\ loop' = "wait" /\ prev' = "stopped" /\ gen' = Never /\ sent' = None
    /\ held' = [held EXCEPT ![Run] = None]
    /\ UNCHANGED <<dvars, cmdVars, file, want, status, view, openedAuthURL, appliedFor, answer, up,
                   node, budget>>

\* Stop leaves the daemon's context alone and then waits (for DaemonStop).
StopWithoutCancel(a) ==
    /\ todo[a] # <<>> /\ Head(todo[a]) = "stop"
    /\ todo' = [todo EXCEPT ![a] = Tail(@)]
    /\ UNCHANGED <<dvars, cmdMu, held, cvars, loopVars, up, node, budget>>

\* Stop does not record that the daemon is no longer wanted (for StopBegin).
StopKeepsWant(a) ==
    /\ cmdMu = None /\ todo[a] = <<>>
    /\ cmdMu' = a
    /\ todo' = [todo EXCEPT ![a] = <<"stop", "join", "input", "derive", "publish">>]
    /\ status' = NoStatus /\ applyErr' = None
    /\ UNCHANGED <<dvars, want, held, file, view, openedAuthURL, appliedFor, up, node>>

\* `tailscale status` waits for an answer whatever happens (for QueryStatus).
StatusWaits ==
    /\ loop = "status" /\ todo[Run] = <<>>
    /\ Process
    /\ answer' = NodeStatus
    /\ loop' = "store"
    /\ UNCHANGED <<dvars, cmdVars, held, cvars, prev, gen, sent, up, node, budget>>

\* No refresh by the polling loop while stopped (for ReadWant).
NoPollWhenStopped ==
    /\ loop = "want" /\ todo[Run] = <<>>
    /\ loop' = IF want THEN "running" ELSE "wait"
    /\ UNCHANGED <<dvars, cmdVars, held, cvars, answer, prev, gen, sent, up, node, budget>>

\* sameView compares only the state (for Publish).
PublishOnStateChange(a) ==
    /\ todo[a] # <<>> /\ Head(todo[a]) = "publish"
    /\ todo' = [todo EXCEPT ![a] = Tail(@)]
    /\ cmdMu' = IF cmdMu = a THEN None ELSE cmdMu
    /\ view' = IF view.state = held[a].state THEN view ELSE held[a]
    /\ held' = [held EXCEPT ![a] = IF a = Run THEN @ ELSE None]
    /\ UNCHANGED <<dvars, file, want, status, openedAuthURL, prefVars, loopVars, up, node, budget>>

\* The login page is opened only by the poll that first sees the state (for StartLogin).
LoginOnEntryOnly ==
    /\ loop = "react" /\ todo[Run] = <<>>
    /\ held[Run].state \in {"needs-login", "down"}
    /\ up' = IF up = None THEN [args |-> file.up, phase |-> "sent"] ELSE up
    /\ loop' = IF held[Run].url # NoURL /\ prev # "needs-login" THEN "open" ELSE "wait"
    /\ UNCHANGED <<dvars, cmdVars, held, cvars, answer, prev, gen, sent, node, budget>>

-----------------------------------------------------------------------------
(* Commands: Start, Stop, Reload under cmdMu, Reauthenticate without it.   *)

Refresh == <<"input", "derive", "publish">>

\* The lock is free and the actor is not inside a command.
MayCommand(a) == cmdMu = None /\ todo[a] = <<>>

Begin(a, steps) ==
    /\ cmdMu' = a
    /\ todo' = [todo EXCEPT ![a] = steps]

\* The next step of a's command; the last one releases cmdMu.
Step(a, name) ==
    /\ todo[a] # <<>> /\ Head(todo[a]) = name
    /\ todo' = [todo EXCEPT ![a] = Tail(@)]
    /\ cmdMu' = IF cmdMu = a /\ Len(todo[a]) = 1 THEN None ELSE cmdMu

StartBegin(a) ==
    /\ MayCommand(a)
    /\ want' = TRUE
    /\ appliedFor' = Never /\ applyErr' = None /\ openedAuthURL' = NoURL
    /\ Begin(a, (IF want THEN <<>> ELSE <<"start">>) \o Refresh)
    /\ UNCHANGED <<dvars, held, file, status, view, up, node>>

StopBegin(a) ==
    /\ MayCommand(a)
    /\ want' = FALSE
    /\ status' = NoStatus /\ applyErr' = None
    /\ Begin(a, (IF want THEN <<"stop", "join">> ELSE <<>>) \o Refresh)
    /\ UNCHANGED <<dvars, held, file, view, openedAuthURL, appliedFor, up, node>>

\* Only its own flags are a reason to restart tailscaled.
NeedsRestart(f) == want /\ f.td # file.td

\* A file that cannot be read is refused with nothing changed.
ReloadBegin(a) ==
    /\ MayCommand(a)
    /\ \E f \in Files :
        /\ f.parses
        /\ file' = f
        /\ Begin(a, <<"setargs">> \o
                    (IF NeedsRestart(f) THEN <<"stop", "join", "start">> ELSE <<>>) \o Refresh)
    /\ appliedFor' = Never /\ applyErr' = None
    /\ UNCHANGED <<dvars, held, want, status, view, openedAuthURL, up, node>>

\* `tailscale logout` needs a daemon that answers, and takes the node's own
\* preferences with its login; what was applied is forgotten only afterwards.
ReauthBegin(a) ==
    /\ todo[a] = <<>>
    /\ Process
    /\ node' = [node EXCEPT !.backend = "NeedsLogin", !.prefs = None, !.late = FALSE, !.url = NoURL]
    /\ todo' = [todo EXCEPT ![a] = <<"forget">>]
    /\ UNCHANGED <<dvars, cmdMu, held, cvars, up>>

Forget(a) ==
    /\ Step(a, "forget")
    /\ openedAuthURL' = NoURL /\ appliedFor' = Never /\ applyErr' = None
    /\ UNCHANGED <<dvars, held, file, want, status, view, loopVars, up, node, budget>>

SetArgsStep(a) ==
    /\ Step(a, "setargs")
    /\ SetDaemonArgs(file.td)
    /\ UNCHANGED <<held, cvars, loopVars, up, node, budget>>

DaemonStart(a) ==
    /\ Step(a, "start")
    /\ IF session = "down" THEN StartSession ELSE UNCHANGED dvars
    /\ UNCHANGED <<held, cvars, loopVars, up, node, budget>>

DaemonStop(a) ==
    /\ Step(a, "stop")
    /\ IF session = "up" THEN BeginStop ELSE UNCHANGED dvars
    /\ UNCHANGED <<held, cvars, loopVars, up, node, budget>>

DaemonStopped(a) ==
    /\ Step(a, "join")
    /\ EndStop
    /\ UNCHANGED <<held, cvars, loopVars, up, node, budget>>

-----------------------------------------------------------------------------
(* refresh: Controller's half of the input under mu, the daemon's half,    *)
(* and the view published under mu again.                                  *)

TakeInput(a) ==
    /\ Step(a, "input")
    /\ held' = [held EXCEPT ![a] = Snapshot]
    /\ UNCHANGED <<dvars, cvars, loopVars, up, node, budget>>

DeriveView(a) ==
    /\ Step(a, "derive")
    /\ held' = [held EXCEPT ![a] = Derive(WithDaemon(held[a]))]
    /\ UNCHANGED <<dvars, cvars, loopVars, up, node, budget>>

\* The polling loop goes on to react to the view it derived.
Publish(a) ==
    /\ Step(a, "publish")
    /\ view' = held[a]
    /\ held' = [held EXCEPT ![a] = IF a = Run THEN @ ELSE None]
    /\ UNCHANGED <<dvars, file, want, status, openedAuthURL, prefVars, loopVars, up, node, budget>>

CommandStep(a) ==
    \/ Forget(a) \/ SetArgsStep(a) \/ DaemonStart(a) \/ DaemonStop(a) \/ DaemonStopped(a)
    \/ TakeInput(a) \/ DeriveView(a) \/ Publish(a)

ClientCommand(a) ==
    /\ \/ StartBegin(a) /\ Surprise("start")
       \/ StopBegin(a) /\ Surprise("stop")
       \/ ReloadBegin(a) /\ Surprise("reload")
       \/ ReauthBegin(a) /\ Surprise("reauth")
    /\ UNCHANGED loopVars

-----------------------------------------------------------------------------
(* Run and its polling loop. *)

RunStarts ==
    /\ loop = "boot"
    /\ StartBegin(Run)
    /\ loop' = "want"
    /\ UNCHANGED <<answer, prev, gen, sent, budget>>

At(pc) == loop = pc /\ todo[Run] = <<>>

\* Back to the select of Run, with nothing kept from this poll.
PollEnds ==
    /\ loop' = "wait"
    /\ prev' = "stopped" /\ gen' = Never /\ sent' = None
    /\ held' = [held EXCEPT ![Run] = None]

ReadWant ==
    /\ At("want")
    /\ loop' = IF want THEN "running" ELSE "prev"
    /\ UNCHANGED <<dvars, cmdVars, held, cvars, answer, prev, gen, sent, up, node, budget>>

ReadRunning ==
    /\ At("running")
    /\ loop' = IF Running THEN "status" ELSE "prev"
    /\ UNCHANGED <<dvars, cmdVars, held, cvars, answer, prev, gen, sent, up, node, budget>>

\* tailscaled may not be answering, or not yet know better than "Starting".
QueryStatus ==
    /\ At("status")
    /\ \/ Process /\ ~ctxDone /\ answer' = NodeStatus /\ UNCHANGED budget
       \/ answer' = [NodeStatus EXCEPT !.backend = "Starting"] /\ Process /\ Surprise("status")
       \/ answer' = NoAnswer /\ Process /\ Surprise("status")
       \/ answer' = NoAnswer /\ (~Process \/ ctxDone) /\ UNCHANGED budget
    /\ loop' = "store"
    /\ UNCHANGED <<dvars, cmdVars, held, cvars, prev, gen, sent, up, node>>

\* An error drops the previous answer too.
StoreStatus ==
    /\ At("store")
    /\ status' = answer
    /\ answer' = NoAnswer
    /\ loop' = "prev"
    /\ UNCHANGED <<dvars, cmdVars, held, file, want, view, openedAuthURL, prefVars, prev, gen, sent,
                   up, node, budget>>

BeginRefresh ==
    /\ At("prev")
    /\ prev' = view.state
    /\ todo' = [todo EXCEPT ![Run] = Refresh]
    /\ loop' = "react"
    /\ UNCHANGED <<dvars, cmdMu, held, cvars, answer, gen, sent, up, node, budget>>

\* The view pollOnce derived, whether or not it is still the published one.
Cur == held[Run]

ReactNothing ==
    /\ At("react")
    /\ Cur.state \in {"stopped", "starting", "needs-machine-auth", "connecting", "error"}
    /\ PollEnds
    /\ UNCHANGED <<dvars, cmdVars, cvars, answer, up, node, budget>>

\* startLogin: `tailscale up` in a goroutine of its own, one at a time.
StartLogin ==
    /\ At("react")
    /\ Cur.state \in {"needs-login", "down"}
    /\ up' = IF up = None THEN [args |-> file.up, phase |-> "sent"] ELSE up
    /\ IF Cur.url # NoURL
       THEN loop' = "open" /\ UNCHANGED <<prev, gen, sent, held>>
       ELSE PollEnds
    /\ UNCHANGED <<dvars, cmdVars, cvars, answer, node, budget>>

\* Open the URL unless it is the one opened last.  The browser is asked after
\* the URL has been noted: whether that worked makes no difference afterwards.
OpenURL ==
    /\ At("open")
    /\ openedAuthURL' = Cur.url
    /\ PollEnds
    /\ UNCHANGED <<dvars, cmdVars, file, want, status, view, prefVars, answer, up, node, budget>>

\* applyPrefs: the generation is read before the section that claims it.
ReadGeneration ==
    /\ At("react")
    /\ Cur.state \in {"not-approved", "serving", "bad-config"}
    /\ gen' = restarts
    /\ loop' = "claim"
    /\ UNCHANGED <<dvars, cmdVars, held, cvars, answer, prev, sent, up, node, budget>>

ClaimGeneration ==
    /\ At("claim")
    /\ IF appliedFor = gen
       THEN PollEnds /\ UNCHANGED appliedFor
       ELSE /\ appliedFor' = gen
            /\ sent' = file.up
            /\ loop' = "set"
            /\ UNCHANGED <<prev, gen, held>>
    /\ UNCHANGED <<dvars, cmdVars, file, want, status, view, openedAuthURL, applyErr, answer, up,
                   node, budget>>

\* `tailscale set`: it can fail, and can fail after having taken effect.  Nothing
\* orders it and a `tailscale up` in flight.
ApplySucceeds ==
    /\ At("set") /\ Process /\ ~ctxDone /\ sent \notin Rejected
    /\ node' = [node EXCEPT !.prefs = sent, !.late = FALSE]
    /\ loop' = "applied"
    /\ UNCHANGED <<dvars, cmdVars, held, cvars, answer, prev, gen, sent, up, budget>>

ApplyFails ==
    /\ At("set")
    /\ \/ (~Process \/ ctxDone \/ sent \in Rejected) /\ UNCHANGED <<node, budget>>
       \/ Surprise("set") /\ UNCHANGED node
       \/ /\ Process /\ sent \notin Rejected /\ Surprise("set")
          /\ node' = [node EXCEPT !.prefs = sent, !.late = FALSE]
    /\ loop' = "failed"
    /\ UNCHANGED <<dvars, cmdVars, held, cvars, answer, prev, gen, sent, up>>

\* Stop, Start or Reload ran while `set` did, or minitail is shutting down.
ResultIsStale == ctxDone \/ ~want \/ appliedFor # gen

StoreResult ==
    /\ At("applied") \/ At("failed")
    /\ IF ResultIsStale
       THEN UNCHANGED prefVars
       ELSE /\ applyErr' = IF loop = "failed" THEN [by |-> "set", args |-> sent] ELSE None
            /\ appliedFor' = IF loop = "failed" THEN Never ELSE appliedFor
    /\ PollEnds
    /\ UNCHANGED <<dvars, cmdVars, file, want, status, view, openedAuthURL, answer, up, node, budget>>

Tick ==
    /\ At("wait")
    /\ loop' = "want"
    /\ UNCHANGED <<dvars, cmdVars, held, cvars, answer, prev, gen, sent, up, node, budget>>

\* The deferred Stop of Run, through the same lock as any other.
RunEnds ==
    /\ At("wait") /\ ctxDone
    /\ StopBegin(Run)
    /\ loop' = "returned"
    /\ UNCHANGED <<answer, prev, gen, sent, budget>>

Returned == At("returned")

PollStep ==
    \/ ReadWant \/ ReadRunning \/ QueryStatus \/ StoreStatus \/ BeginRefresh
    \/ ReactNothing \/ StartLogin \/ OpenURL
    \/ ReadGeneration \/ ClaimGeneration \/ ApplySucceeds \/ ApplyFails \/ StoreResult
    \/ Tick

-----------------------------------------------------------------------------
(* The goroutine of `tailscale up`. *)

\* tailscaled takes the flags: a logged-out node has to be logged in, one that
\* was brought down comes back, and then `up` is through.
UpLands ==
    /\ up # None /\ up.phase = "sent"
    /\ Process /\ ~ctxDone /\ up.args \notin Rejected
    /\ up' = [up EXCEPT !.phase = IF node.backend = "NeedsLogin" THEN "waiting" ELSE "through"]
    /\ node' = [node EXCEPT !.prefs = up.args, !.late = up.args # file.up,
                            !.backend = IF @ = "Stopped" THEN "Running" ELSE @]
    /\ UNCHANGED <<dvars, cmdVars, held, cvars, loopVars, budget>>

\* While `up` waits, a node that needs a login has a login page on offer.
PageOffered ==
    /\ up # None /\ up.phase = "waiting" /\ Process
    /\ node.backend = "NeedsLogin" /\ node.url = NoURL
    /\ node' = [node EXCEPT !.logins = @ + 1, !.url = node.logins + 1]
    /\ UNCHANGED <<dvars, cmdVars, held, cvars, loopVars, up, budget>>

UpSucceeds ==
    /\ up # None /\ up.phase = "through" /\ ~ctxDone
    /\ up' = None
    /\ applyErr' = None
    /\ UNCHANGED <<dvars, cmdVars, held, file, want, status, view, openedAuthURL, appliedFor,
                   loopVars, node, budget>>

\* The CLI ends with ctx, with tailscaled, on a flag it rejects, or by itself.
\* There is no check here of what ran meanwhile.
UpFails ==
    /\ up # None
    /\ \/ (ctxDone \/ ~Process \/ up.args \in Rejected) /\ UNCHANGED budget
       \/ Surprise("up")
    /\ up' = None
    /\ applyErr' = IF ctxDone THEN applyErr ELSE [by |-> "up", args |-> up.args]
    /\ UNCHANGED <<dvars, cmdVars, held, file, want, status, view, openedAuthURL, appliedFor,
                   loopVars, node>>

-----------------------------------------------------------------------------
(* The daemon's own steps, and the node's: its user, its tailnet.          *)

Unexpected == IF Ending THEN UNCHANGED budget ELSE Surprise("crash")

ChildProgress ==
    /\ \/ (Attempt \/ Prepare \/ Spawn \/ Announce \/ Count \/ Abandon) /\ UNCHANGED budget
       \/ (SpawnFails \/ Reaped) /\ Unexpected
    /\ UNCHANGED <<cmdVars, held, cvars, loopVars, up, node>>

Quit ==
    /\ CancelCtx /\ Surprise("quit")
    /\ UNCHANGED <<cmdVars, held, cvars, loopVars, up, node>>

NodeBecomes(n) ==
    /\ node' = n
    /\ UNCHANGED <<dvars, cmdVars, held, cvars, loopVars, up>>

LoginCompletes ==
    /\ node.backend = "NeedsLogin" /\ node.url # NoURL
    /\ node' = [node EXCEPT !.backend = "Running", !.url = NoURL]
    /\ up' = IF up # None /\ up.phase = "waiting" THEN [up EXCEPT !.phase = "through"] ELSE up
    /\ UNCHANGED <<dvars, cmdVars, held, cvars, loopVars, budget>>

KeyExpires ==
    /\ node.backend = "Running" /\ Surprise("expire")
    /\ NodeBecomes([node EXCEPT !.backend = "NeedsLogin", !.url = NoURL])

BroughtDown ==
    /\ node.backend = "Running" /\ Surprise("down")
    /\ NodeBecomes([node EXCEPT !.backend = "Stopped"])

AdminApproves ==
    \E r \in Advertised \ node.approved :
        NodeBecomes([node EXCEPT !.approved = @ \cup {r}]) /\ Surprise("approve")

\* Everything has ended; the process is about to exit.
Exited == Returned /\ cmdMu = None /\ UNCHANGED vars

Next ==
    \/ RunStarts \/ PollStep \/ RunEnds
    \/ \E a \in Clients : ClientCommand(a)
    \/ \E a \in Actors : CommandStep(a)
    \/ UpLands \/ PageOffered \/ UpSucceeds \/ UpFails
    \/ ChildProgress
    \/ Quit \/ LoginCompletes \/ KeyExpires \/ BroughtDown \/ AdminApproves
    \/ Exited

Spec == Init /\ [][Next]_vars

\* Goroutines run and CLI calls return; select picks a ready case at random, so
\* a cancelled context is noticed; a mutex is handed on (sync.Mutex starves no
\* waiter), so Run gets cmdMu.  Users, admins and crashes owe nothing.
Fairness ==
    /\ WF_vars(RunStarts) /\ WF_vars(PollStep)
    /\ SF_vars(RunEnds)
    /\ \A a \in Actors : WF_vars(CommandStep(a))
    /\ WF_vars(UpLands) /\ WF_vars(PageOffered) /\ WF_vars(UpSucceeds)
    /\ WF_vars(UpFails /\ UNCHANGED budget)
    /\ WF_vars(ChildProgress /\ (Attempt \/ Prepare \/ Spawn \/ Announce))
    /\ WF_vars(ChildProgress /\ (Count \/ Abandon))
    /\ WF_vars(ChildProgress /\ Ending)

FairSpec == Spec /\ Fairness

-----------------------------------------------------------------------------
(* What makes it correct. *)

Steps == {"setargs", "stop", "join", "start", "input", "derive", "publish", "forget"}

PollPoints == {"boot", "want", "running", "status", "store", "prev", "react", "open", "claim", "set",
               "applied", "failed", "wait", "returned"}

UpFlags == {f.up : f \in Files}
Generations == Nat \cup {Never}

Statuses == [backend : Backends, url : Nat, approved : SUBSET UNION {f.adv : f \in Files}]

TypeOK ==
    /\ session \in Sessions /\ stage \in Stages /\ args \in ArgLists /\ cargs \in ArgLists \cup {None}
    /\ restarts \in Nat /\ givenUp \in BOOLEAN /\ ctxDone \in BOOLEAN
    /\ cmdMu \in Actors \cup {None}
    /\ \A a \in Actors : todo[a] = <<>> \/ \A i \in 1 .. Len(todo[a]) : todo[a][i] \in Steps
    /\ file \in Files /\ want \in BOOLEAN
    /\ status = NoStatus \/ status \in Statuses
    /\ answer = NoAnswer \/ answer \in Statuses
    /\ view.state \in States /\ prev \in States
    /\ openedAuthURL \in Nat
    /\ appliedFor \in Generations /\ gen \in Generations
    /\ applyErr = None \/ applyErr \in [by : {"set", "up"}, args : UpFlags]
    /\ loop \in PollPoints
    /\ sent \in UpFlags \cup {None}
    /\ up = None \/ up \in [args : UpFlags, phase : {"sent", "waiting", "through"}]
    /\ node.backend \in Backends /\ node.prefs \in UpFlags \cup {None} /\ node.late \in BOOLEAN
    /\ budget \in 0 .. MaxSurprises

\* Between commands, the daemon is started exactly if the user last asked for
\* it: Start, Stop and Reload decide on `want` before they call the daemon, and
\* no order of them, of crashes and of Run's own Start and Stop parts the two.
WantIsSession == cmdMu = None => (want <=> session = "up")

\* When Run has returned, its deferred Stop has left no tailscaled behind, even
\* if a command of the menu started it again meanwhile.
NoOrphan == Returned => ~Process

\* Between commands, a tailscaled that runs, or is about to, has the flags of
\* the file as last loaded, though the supervisor reads its arguments at a
\* moment of its own (a crash in the middle of a Reload included).
FlagsCurrent ==
    cmdMu = None /\ stage \in {"prepared", "spawned", "running"} => cargs = file.td

\* Outside of applyPrefs, and but for a logout whose outcome is still to be noted:
\* a generation recorded as applied means that the node has the [up] flags of the
\* file as last loaded, whatever Reload, Start, Stop, a login or a crash did while
\* `set` ran -- or that it was last set by a `tailscale up` that was overtaken
\* (FileReachesNode is about those).
AppliedIsCurrent ==
    /\ want /\ ~ctxDone /\ appliedFor = restarts
    /\ loop \notin {"set", "applied", "failed"}
    /\ \A a \in Actors : todo[a] # <<"forget">>
    => node.prefs = file.up \/ node.late

\* A `set` failure on display is about the flags of the file as last loaded, and
\* about a session that is still wanted.
SetErrorIsCurrent ==
    applyErr # None /\ applyErr.by = "set" => want /\ applyErr.args = file.up

\* Every command returns, Stop and Reload included, which wait for tailscaled.
CommandsReturn == \A a \in Actors : []<>(todo[a] = <<>>)

\* Quit ends: the loop sees it in whatever call or wait it is.
QuitTerminates == <>[](ctxDone => Returned)

\* Once events stop, a daemon that is wanted runs.
DaemonComesUp == <>[](want /\ ~ctxDone => Running)

\* What the menu would show if it knew everything as it is now.
Truth ==
    Derive([WithDaemon(Snapshot) EXCEPT !.status = IF Running THEN NodeStatus ELSE NoStatus])

\* Once events stop, the view is the truth, though refreshes of commands and of
\* the polling loop may have been published in the wrong order before.
ViewConverges == <>[](ctxDone \/ view = Truth)

Connected == want /\ ~ctxDone /\ Running /\ node.backend = "Running"

\* Once events stop, a connected node has the [up] flags of the file, unless they
\* were last set by a `tailscale up` that was overtaken.
ConfigReachesNode ==
    <>[](Connected /\ file.up \notin Rejected => node.prefs = file.up \/ node.late)

\* Once events stop, a connected node has the [up] flags of the file, an overtaken
\* `tailscale up` or not (controller.go: Reload, and applyPrefs on old routes).
FileReachesNode == <>[](Connected /\ file.up \notin Rejected => node.prefs = file.up)

\* Once events stop, a node that needs a login has been given a login page and
\* the browser has been asked to open it (once: a browser that fails is not asked
\* again).
LoginOffered ==
    <>[](want /\ ~ctxDone /\ Running /\ node.backend = "NeedsLogin" /\ file.up \notin Rejected
         => node.url # NoURL /\ openedAuthURL = node.url)

\* Stop leaves "stopped" on display (controller_test.go, TestControllerStopIsSticky).
StopIsSticky == cmdMu = None /\ ~want /\ loop # "boot" => view.state = "stopped"

\* A transient failure to apply the file heals (controller.go, react and applyPrefs).
FailuresHeal ==
    <>[](Connected /\ file.parses /\ file.up \notin Rejected => applyErr = None)
=============================================================================
