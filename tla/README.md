# minitail, verified

minitail keeps an isolated `tailscaled` running on a Mac, logs it in, applies a config file to it, and
shows in the menu bar whether it really serves its tailnet. This directory holds TLA+ models of the parts
of it that run concurrently and of what it makes of its config file, TLC runs over small instances of them,
and proofs, for every instance, of all that is claimed of them but liveness. Paths below are relative to `src/`.

Run everything from this directory:

    tlc -workers 2 -config MCSafety.cfg MCController        # one run; the table below lists them
    tlapm ControllerProofs.tla                              # the proofs of one module; section 5 lists them

## 1. The system

| Part | Source | State | Operations |
|---|---|---|---|
| supervisor | `internal/supervisor/supervisor.go` | current goroutine (`stop`, `doneCh`), child handle (`cmd`, `running`), `restarts`, `failures`, `givenUp`, child arguments | `Start`, `Stop`, `SetArgs`, `Kill`, `Running`, `Stats`; the goroutine `supervise`/`runOnce` |
| controller | `internal/app/controller.go` | `want`, `file`, `status`, `view`, `appliedFor`, `applyErr`, `openedAuthURL`, `upInFlight`, subscribers | `Start`, `Stop`, `Reload`, `Reauthenticate`, `Subscribe`, `Poke`; `Run`'s polling loop; the goroutine of `tailscale up` |
| view | `internal/app/state.go` | none | `Derive`, pure |
| CLI client | `internal/tsctl` | none | `Status`, `Up`, `Apply`, `Logout`, each one process of the `tailscale` CLI |
| config | `internal/config` | the file on disk | parse, seed with a default, extract advertised routes |
| control socket | `internal/app/statusserver.go` | the socket file | one goroutine per request: the commands above, `quit`, the view as JSON |
| run command | `cmd/minitail/main.go` | the root context | guard against a second instance, wiring, signals |
| menu bar | `cmd/minitail/tray_darwin.go` | the last view received | issues the same commands, renders views |
| launch agent | `internal/launchagent` | a plist | install, uninstall |

How they interact. The menu goroutine, every control request and `Run` call the controller concurrently;
`cmdMu` serialises `Start`, `Stop` and `Reload` (not `Reauthenticate`), and `mu` protects the fields in
short sections that are never held across a call to the daemon or to the CLI. The controller calls the
supervisor, whose goroutine owns the child process and has its own mutex. `Run` polls: it asks the CLI for
the status, derives and publishes a view, and reacts to it by starting `tailscale up` in a goroutine, by
opening the login page, or by applying the `[up]` flags with `tailscale set`. `tailscaled` and the control
plane change by themselves: it crashes, its key expires, an admin approves a route.

What is hard. Every value read under a lock is used after it has been let go: the input of a view, the
restart generation of `applyPrefs`, `want` before the daemon is called. CLI calls last for as long as a user
takes to log in, and their results are stored in a program that has moved on. A child can end, or its
context be cancelled, between any two steps of its supervision. `PROJECT.json` lists each such place under
`hazards`, with its line and the properties that cover it.

What makes each part correct:
 * supervisor: one child at most; `Stop` is final and returns; a started child comes back; deliberate exits
   are not counted as crashes; what `Running` and `Stats` say is true of the current session;
 * controller, commands: the daemon is started exactly when it is wanted, with the flags of the file; every
   command returns; nothing is left behind when `Run` returns;
 * controller, preferences: what is recorded as applied is what the node has; a failure on display is about
   the file as it is; a connected node ends up with the flags of the file;
 * controller, view: once things settle, the view is what `Derive` says of the present; a node that needs a
   login has a login page on offer and the browser has been sent there;
 * menu bar: a view reaches the menu unless its channel was full; no send on a closed channel; a poke is
   heard; quitting ends the process, and only after tailscaled has been stopped;
 * control socket and launch agent: the minitail that runs is the one that answers, whatever crashes, refused
   starts and leftovers came before; launchd brings it back unless it was quit.

## 2. The modules

| Module | What it is |
|---|---|
| `Supervisor` | the supervisor in detail: callers, goroutines, contexts, child processes |
| `Daemon` | the abstract promise `app.Daemon`: one session, one process, no goroutines |
| `SupervisorRefinement` | the refinement mapping by which `Supervisor` implements `Daemon` |
| `SupervisorProofs` | theorems about `Supervisor`, with an inductive invariant; `Supervisor` implements `Daemon` (safety) |
| `AppState` | `Derive` and the part of `tsctl.Status` it reads, as operators |
| `Controller` | the controller, on top of `Daemon` and `AppState`, with the node as its environment |
| `UpFlags` | `ParseFile`, `setArgs`, `Redact`, `AdvertisedRoutes`, over the files a user can write |
| `ControllerProofs`, `ControllerTypeProofs` | theorems about `Controller`: its safety, the types of its variables |
| `Tray` | subscriptions, the sends of `refresh`, `Poke`, the menu goroutine, the ways the process ends |
| `TrayProofs` | theorems about `Tray` |
| `Instances` | processes of minitail on one directory: the guard, the control socket, launchd |
| `InstancesProofs` | theorems about `Instances` |
| `Backoff` | `Backoff.Delay` in integers of a fixed width, and its closed form |
| `UpFlagsProofs`, `BackoffProofs` | theorems about `UpFlags` and `Backoff`: what their recursive functions make of every file and streak |
| `Recursion` | lemmas: induction over numbers, functions defined by recursion; the two above rest on them |
| `MCSupervisor`, `MCController`, `MCUpFlags`, `MCTray`, `MCInstances` | instances for TLC |

The controller is composed with the *abstract* daemon (`EXTENDS Daemon`), which keeps its state space small;
`supervisor_refines_daemon` checks, and `Refines` proves, that the real supervisor does nothing the abstract
one does not.

### Supervisor

A caller takes `cmdMu` (`Lock`), issues `Start`, `StopBegin`/`Cancel`/`Join` or `SetArgs`, any number of them,
and lets go (`Unlock`). The order in which `Controller` issues them is left open, so the properties hold
whatever it does. `Stop` is three steps, because it has let go of `Supervisor.mu` when it cancels the context
and waits. A supervision goroutine (`loop[l]`) goes through `top`, `args`, `exec`, `spawned`, `wait`, `check`,
`account`, `backoff`: each is one section under `mu`, one look at the context, or one call to the kernel. The
child ends by itself (`ChildExits`), by `Kill`, or by the signal that follows a cancelled context
(`ChildTerminated`; `WaitDelay` escalates to SIGKILL, so it does end).

Abstracted: time (a backoff takes any time; whether a child ran for `StableAfter` is a choice), `lastErr`,
output, environment and log. `OnChange` pokes the controller and has no effect on the supervisor. A goroutine
identity is reused once nothing refers to it, which keeps the state space finite; `None` is nil. Calls that
change nothing (`Start` of a started supervisor, `Stop` of a stopped one, a failed `Kill`) are stutters.

### Daemon

`session` is `"down"`, `"up"` or `"stopping"`; `stage` is how far the one child is: `none`, `checked` (the
context has been looked at), `prepared` (the arguments have been read), `spawned` (the process exists),
`running` (`Running()` says so), `exited`. The moment a child dies is not visible to any caller until it is
reaped, so the abstract daemon has one step for both.

### Controller

An atomic step is one section under `Controller.mu`, one call into the daemon, or one CLI call. A command is
the list `todo[a]` of steps that actor `a` still has to take: `Reload` with changed `[tailscaled]` flags is
`setargs, stop, join, start, input, derive, publish`. The first section of a command is merged with taking
`cmdMu`, the last step with releasing it, and the file is read in `Reload`'s section under `mu`: nothing that
another goroutine can see happens in between. `refresh` is three steps: the controller's half of the input,
the daemon's half and `Derive`, and the publication. `Running()` and `Stats()` are two sections of the
supervisor's mutex, read here as one.

The polling loop is `loop`, one point per section or call of `pollOnce`, `react` and `applyPrefs`. The
goroutine of `tailscale up` is `up`: `sent` (tailscaled has not seen it), `waiting` (for the login), `through`.

Environment (external, modelled from how the code uses it): the node has a backend state, the preferences it
was last given, a login page and a set of approved routes. `tailscale up` and `tailscale set` give it
preferences; `up` brings a downed node up and waits for a logged-out one to be logged in. `set` may fail, and
may fail after it took effect. A key expires, the node is brought down from outside, an admin approves a
route, the user logs in. Which of these surprises an instance has is the constant `Surprises`, and at most
`MaxSurprises` of them happen; every other step is unbounded.

Left out:
 * `Poke` and the `poke` channel: the ticker may fire at any time, so a poke adds no behaviour; what a poke
   promises without the ticker, and what subscribers get, is what `Tray` is about;
 * notifications, which change nothing that anything else reads;
 * `statusErr`, `lastErr`, wording, addresses and health lines, which only reach the text of a view;
 * the log, and the `changed` flags that only decide what is logged;
 * a limit of the backoff: production uses `DefaultBackoff`, which never gives up (`CanGiveUp = FALSE`);
 * a `logout` that fails after it took effect (what the node then is, is what `KeyExpires` makes of it), and the
   moment between a logout that succeeded and the preferences it clears: both happen in `ReauthBegin`;
 * a browser that does not open: `openedAuthURL` is set before `Opener.Open` is called, so a failure changes
   nothing but the log, and is never repeated.

Nothing orders the calls of the CLI: an `up` still on its way can reach tailscaled after a `set` that was made
later. `node.late` records that the node was last given its flags by an `up` whose flags were no longer those
of the file; no action reads it. `AppliedIsCurrent` and `ConfigReachesNode` say that this is the only way for a
node to end up with other flags than the file's; that it is one is finding 4. `AppliedIsCurrent` does not speak of
the time between a logout and the section of `Reauthenticate` that resets `appliedFor` (`todo[a]` is then
`<<"forget">>`): the node has lost its preferences, and the controller does not know yet.

### UpFlags

The functions from text to arguments are operators on sequences of lines, `setArgs` and `ParseFile` as
recursive functions that go through the lines as the loops of the code do. The one variable is the file: the
user appends an entry or removes the last, so the reachable states are all files up to `MaxEntries` entries.
An entry is a section header or a setting: a flag, its value or none, one dash or two, and whether the value
stands on a line of its own. `Written` is the way from settings to lines (external: it is Tailscale's syntax,
which the code reads), the properties compare what the code makes of the lines with what the settings meant.

Text is abstracted to what is told apart: a value is the set of its comma-separated items, an item is a
prefix or not, comments and blank lines are gone. Settings are ones the `tailscale` commands accept
(`Accepts`): a flag that needs a value has one, and a value on a line of its own does not start with a dash.
`AdvertisedIsMeant` has three preconditions. A flag given twice counts once for Tailscale, the last time, and
both times for `AdvertisedRoutes`, which nothing in the repository promises otherwise; single dashes are
finding 3. And a switch is given a value that both take for the same (`SpelledOut`): Tailscale's parser also
takes `t` and `T` for true (`On`), `isTrue` only `true`, in any case, and `1`. An exit node advertised with `=t`
is not seen by the view.

### Tray

`Controller` says what a view is; `Tray` says how it travels. There a view is two numbers: how many changes of the
daemon it has seen, up to its derivation, and how many of daemon and node its status has seen (`known`), up to the
moment the poll asked for it. A command is the steps down to its `refresh` and its `Poke`; a poll is `Poll`, the
question for the status and then a refresh, so that a change can fall between the two. `refresh` takes `mu` to
compare and to send: `PublishBegin` is its section up to the loop, each `Send` one pass of the loop, because the
menu receives without a lock. `Subscribe` and `Unsubscribe` need `mu` free. The menu goroutine is one `select`
(`Deliver`, `Click`, `ClickQuit`, `MenuSeesDone`) and runs the commands itself, so it is publisher and subscriber
in one. `Run` is `unready` until `onReady` has started its goroutine, then `starting`, `wait`, `stopping`,
`returned`. The process ends by the Quit item, by `Cancel` (a signal, the socket), or by `Terminated` (the system,
through `onExit`), and in each case by `Exit`, which waits for `done`. If the app is terminated before `onReady`,
nobody ever closes `done` and `onExit` waits for ever: `QuitExits` is stated from the start of `Run` on.

Left out: `cmdMu`, so the commands of this module interleave more than those of the code; requests on the
socket, whose refreshes are no different from those of the menu; the items that open a page or copy an
address; `Running()` before the status is asked for, so that a poll here always asks. `OnChange` is merged with
the change that calls it. `due` and `missed` record what happened and guard no action: how far the loop has come
since the daemon changed (a poll is owed; the status has been asked for; nothing); the last send found no room.

### Instances

A process of minitail is `check` (up to the guard of `runCmd`), `run`, or `stop` (its context is cancelled);
beside it `ServeControl` goes through the removal of a stale socket, the bind, the service, the unlink of
`Shutdown` and the deferred removal. `sock` is who made the socket file, `tsd` whose tailscaled has
tailscaled's own socket. A crash leaves both behind; the tailscaled is then an `Orphan`, which nothing in the
code ends and the environment may. launchd starts its job when it is loaded and when it ended with an error:
a crash, a refused file, a refused start; not after a quit, which exits with 0. `Install` is a bootout of the
previous job and a bootstrap that may fail, `Uninstall` a bootout. A bootout that
finds its job before the guard ends it there, or cancels the context under the guard's question.

The guard goes by the answer to `FetchStatus`, and a minitail that is there may fail to give one in five seconds,
or give a bad one: that is an event in `Passes`. `disturbed` remembers that a start fell into another start or
into a shutdown, that a start was interrupted, or that a guard missed an answer, until no minitail runs. It is
read by no action. The two safety properties speak of the time it is false, and so does the part of `ComesBack`
that says who answers; that launchd brings minitail back does not depend on it.

### Backoff

`Delay` multiplies as the loop does, with `Wrap` the product of integers of `Width` bits (64 in the code), and
returns the cap once a product reaches it. Factors below 1 count as 1. `InRange` says which settings the
property is about: those where no product that the loop makes leaves the integers. The loop multiplies the
minimum, even one that is at the cap already, and values below the cap. A first version of it asked that the
largest product below the cap fit and forgot the minimum at the cap; the proof did not go through, and TLC shows
why at 8 bits: with a minimum and a cap of 32 and a factor of 4, the product is 128, wraps to -128, and the wait
is negative.

## 3. The runs

| Run | Instance | Question | States |
|---|---|---|---|
| `supervisor_safety` | 2 callers, 2 goroutine identities, give up after 2, 3 exits | do commands, exits, kills and cancellation ever produce two children, or leave something behind; beside it, delays of 8-bit backoffs for streaks of up to 9 | 38,580 |
| `supervisor_refines_daemon` | 1 caller, 2 identities, 2 exits | is every behaviour one of `Daemon`, and does it make progress | 52,752 |
| `controller_safety` | 2 clients, 3 files (one differs in `[tailscaled]`, one in `[up]`), 2 of start, stop, reload, re-authentication, crash, quit, failing `set`, failing `up`, `down` | do intent, session and flags stay together; is what is recorded as applied, and shown as failed, true | 1,756,087 |
| `controller_progress` | 1 client, 2 files, 2 of start, stop, reload, crash, quit; fairness | do commands return, does quit end, does the view settle | 366,000 |
| `controller_login` | 1 client, 3 files (routes, another `[up]`, an unreadable first one), node running or logged out, 2 of reload, failing `set`, re-authentication, approval, expiry, `down`, failing status; fairness | is a login offered, does the config reach the node but for a late `up`, does the view settle | 413,149 |
| `config_flags` | files of up to 4 headers and settings, one flag of each kind, an exit node spelled in five ways | are sections, `set` arguments, log and advertised routes what the file says | 1,926,221 |
| `menu_views` | 1 menu, a channel of 2, 2 changes; fairness | do views arrive, is a poke heard, does the process end and only after `Run` | 415,392 |
| `instances` | 3 processes, 5 of start by hand, install, uninstall, bad file, crash, late answer; fairness | who owns the control socket, who answers on it, does launchd bring minitail back | 200,756 |
| `up_failure_sticks` | 1 client, expiry and a failing `up` | finding 1 | violated |
| `stop_is_not_sticky` | 1 client, one stop | finding 2 | violated |
| `late_up_wins` | 1 client, 2 files that differ in `[up]`, a node to be logged in, one reload; fairness | finding 4 | violated |
| `single_dash_routes` | files of up to 3 headers and settings | finding 3 | violated |

Bounds. Two callers are enough for two commands to contend for `cmdMu`, and `Run` is a third actor of
`Controller`. Two goroutine identities let a second session start while the first winds down, which is what
`OneChild` is about; with `cmdMu` the second is never alive beside the first. Three exits with a limit of two
reach a verdict, its reset by a stable run, and its reset by `Start`. Two surprises put one event into the window
that another opens, for instance a reload while a `set` is failing, or a crash or a `quit`
inside a `Reload`, while logins, the daemon and the loop take their steps uncounted. What a third might
add to `controller_safety` is covered by the proofs: all six of its properties are theorems for any bound. The
files of an instance differ only in what its properties tell apart. Symmetry is used for interchangeable callers and goroutines, in runs without
liveness only. Four entries in a file are a header and three settings, or a section interrupted and resumed:
enough for every pair of neighbours in each position that `setArgs`, `Redact` and `AdvertisedRoutes` look at,
which is a flag and the argument after it. In `menu_views` a channel of two runs full with two changes, for
the first view is in it already; the eight of the code is the constant `Capacity` of the proofs. One
menu is what the program has; the proofs are about any number. In `instances` the third process is there to
meet what the other two have left after a disturbance, and five events are a load, a crash, a start by hand and two
more. In `supervisor_safety` 8 bits wrap within a streak of 9 and the backoffs include ones whose product
leaves the range, which `InRange` tells apart. No run turns deadlock checking off: `Exited` is the one state in
which the program stops.

### What each property says

`Supervisor`: `OneChild`, `StopIsFinal`, `OnlyOwnExitsCount`, `GivenUpIsDown`, `HandleIsCurrent`;
`StopReturns`, `KeptAlive`, `CancelIsEnough`; `ImplementsDaemon`, `ImplementsDaemonProgress`.
`Controller`: `WantIsSession`, `NoOrphan`, `FlagsCurrent`, `AppliedIsCurrent`, `SetErrorIsCurrent`;
`CommandsReturn`, `QuitTerminates`, `DaemonComesUp`, `ViewConverges`, `ConfigReachesNode`, `LoginOffered`.
`UpFlags`: `ParsedAsWritten`, `SetGetsTheRest`, `RedactHidesSecrets`, `AdvertisedIsMeant`.
`Tray`: `NoSendOnClosed`, `NothingLost`, `ExitAfterRun`; `PokeIsHeard`, `ShownCatchesUp`, `QuitExits`.
`Instances`: `Reachable`, `StatusIsOfTheWorking`; `ComesBack`. `Backoff`: `DelayIsExponential`.
The comment above each one states it. For every property of a passing run the model has a faulty form of
one of its definitions (near the head of its module) under which TLC finds it violated: no
`cmdMu`, no wait in `Stop`, arguments read once, a deferred `Stop` forgotten, a stale result stored, a login
page opened only once.

### What overlapping starts and stops do

The guard of `runCmd` asks for the status, and the bind comes later, in another goroutine; every removal of
the socket goes by its path. `Reachable` and `StatusIsOfTheWorking` are therefore stated under `~disturbed`, and
TLC finds them violated without it, in about ten steps each:
 * two minitails start together: neither answers yet, both pass the guard, the second removes the socket
   the first has bound, and the first runs with nobody able to reach it;
 * one starts while another shuts down: the listener is closed, so the guard passes, while the old tailscaled
   is still up and holds its own socket; the deferred `os.Remove` of the old one (`statusserver.go:38`) then
   takes the socket that the new one has bound;
 * one is interrupted while its guard asks: the cancelled `FetchStatus` fails like one that nobody answers
   (`main.go:132`), so it goes on to remove the socket of the minitail that runs, on its way out;
 * the minitail that runs takes more than five seconds to answer, or answers badly (`statusserver.go:91-108`).
These are races the code loses, and no property that passes says anything about them: `PROJECT.json` lists the
first two under `hazards` without one. The code says no more of them than that it refuses a second minitail
while one is running, so they are not listed as disagreements. Once no minitail runs any more, what they left
behind is no obstacle to anything the three properties say.

### Fairness

`Supervisor`: goroutines are scheduled and timers fire (weak fairness of each step), and a child whose
context is cancelled ends (SIGTERM, then SIGKILL after `WaitDelay`). Nobody is obliged to issue a command,
and a child need not fail.

`Controller`: the polling loop, a command under way, the `up` goroutine and the daemon go on (weak fairness).
`RunEnds` has strong fairness: with the context cancelled and a tick ready `select` picks at random, so the
loop cannot take the tick for ever, and the deferred `Stop` gets `cmdMu` because `sync.Mutex` hands itself to
a waiter that has starved. Users, admins and crashes owe nothing; that an answer comes from a tailscaled that
runs is part of `QueryStatus` and `ApplySucceeds`, whose failures are counted surprises. The properties of the
form `<>[]` speak about the time after the last surprise, which `MaxSurprises` makes certain to come.

`Tray`: every goroutine goes on. `Deliver` and `RunStops` have strong fairness, because `select` picks at random
among the cases that are ready: clicks cannot keep the menu from its channel for ever, nor ticks the loop from
the end of its context. The ticker has none: `PokeIsHeard` must not depend on it. Clicks, quits, changes and
the menu's own look at the context owe nothing.

`Instances`: a process goes on through its guard, its bind and its end, and launchd starts a job that is due.
Nobody owes a start by hand, and `Shutdown` and the removals after it are not owed either, for the process may
end before them.

## 4. The findings

1. **A failed `up` sticks** (`up_failure_sticks`, `FailuresHeal`). The goroutine of `startLogin` stores the
   error in `applyErr` (`internal/app/controller.go:404`) and leaves `appliedFor` alone. If the preferences
   were applied in this restart generation, `applyPrefs` returns at line 431 before the `set` whose success
   would clear the error. The node is connected with the right flags, and the view says "Config file
   rejected" until the user reloads, restarts or re-authenticates. Line 374 says "retried every poll, so a
   transient failure heals". The run: a connected node's key expires, the poll starts `up`, it fails, and
   the login is completed all the same.
2. **Stop is not sticky** (`stop_is_not_sticky`, `StopIsSticky`). The polling loop takes the input of its
   refresh, `Stop` runs and publishes "stopped", and the loop then publishes the view it had derived, which
   says "serving" with the Stop item enabled, until its next poll. `internal/app/controller_test.go:399`
   wants the state "to stay" stopped after further polls. `ViewConverges` shows that the next poll repairs it.
3. **A route with a single dash is not seen** (`single_dash_routes`, `AdvertisesTheFile`).
   `AdvertisedRoutes` compares an argument with `--advertise-routes` and `--advertise-exit-node`, dashes
   included (`internal/config/file.go:101`). `-advertise-routes=10.0.0.0/8`, which the `tailscale` commands
   take, is passed on and advertised, but the view counts it as nothing and never waits for its approval.
   `internal/config/file.go:90` says that it "returns the routes the [up] section advertises".
4. **A late `up` wins** (`late_up_wins`, `FileReachesNode`). `startLogin` takes the `[up]` flags when it starts
   the CLI (`internal/app/controller.go:399`), and nothing orders that call with the `set` of `applyPrefs` (line
   439) or makes its end undo what `appliedFor` records. The run: a poll that has read NeedsLogin starts a second
   `up` just after the first has logged the node in; a `Reload` with another `[up]` section and its `set`
   overtake it; then the `up` lands, with the old flags, and the poll finds `appliedFor` equal to the
   generation until the next reload or restart. Line 206 says of `Reload` that "the [up] flags are reapplied
   by the polling loop, as after Start". The window is the time a CLI process takes to start.

## 5. The proofs

Each proof module extends the module it is about and assumes only the named assumptions on the constants there:
nobody (`None`) is nobody, sets are disjoint, bounds are natural numbers, the first config file is one of the
files and the node's first state (`InitBackends`) a state it can be in. `FlagsAssumption` says what Tailscale's
commands are like: the flags the code names are among theirs, credentials and routes need a value, the exit node
does not. `BackoffAssumption` says that half the range of the integers is a positive number and settings are
records of numbers. A constant is otherwise arbitrary: any number of callers, clients, menus, instances, any
files, flags and settings, any bound on events. Every invariant that a run checks is stated by a theorem.

### Supervisor

`SupervisorProofs` proves, for any sets of callers, goroutine identities and argument lists and any limit,
that `Spec` keeps `TypeOK`, `OneChild`, `StopIsFinal`, `OnlyOwnExitsCount`, `GivenUpIsDown` and
`HandleIsCurrent`. The constants are constrained only by the three named assumptions of `Supervisor`: `None`
is no caller, identity or argument list, `InitArgs` is an argument list, the limits are natural numbers.

None of the safety properties is inductive. `OneChild` needs that at most one goroutine is not `gone`, which
needs that a goroutine that is not gone is either the one `doneCh` names or the one some caller is joining,
that only the holder of `cmdMu` can be joining, and that `Start` happens only with nothing to join. The
inductive invariant `IInv` is the conjunction of:
 * `TypeOK`;
 * `SessionInv`, three parts: a caller is inside a command exactly while it holds `cmdMu` (`LockInv`); a
   `Stop` under way holds the goroutine it took and `doneCh` is then empty (`JoinInv`); a goroutine that has
   not returned is the one `doneCh` names or one being joined (`KnownInv`). Lemma `OneLoop` draws from these
   that at most one goroutine has not returned;
 * `ChildInv`: a child is alive only between `exec` and the end of `Wait`, and `cmd` names exactly the
   goroutine in `Wait`;
 * `OutcomeInv`: in each point of the goroutine, which ends of a child are possible; a child that
   cancellation ended belongs to a goroutine whose context is done, a counted one does not exist;
 * `VerdictInv`: `givenUp` only with every goroutine gone.

The proof follows the disjuncts of `Next`, one lemma or step each, with the conjuncts an action disturbs
below it. The theorems of properties then follow from `IInv` by definition.

Its second half proves `Refines`: `Spec => ImplementsDaemon`, under the same assumptions. It adds
to `IInv` which contexts are cancelled (`CancelInv`): that of a session never, that of a Stop exactly from
`Cancel` on. Lemma `ViewOf` then says what the mapping makes of a state, point by point of the goroutine and
of `Stop` (`SessionIs`, `StageIs`), which needs that `CHOOSE` in `Current` picks the one goroutine there is.
From the view before and after, each step is one of `Daemon` or a stutter: `Start` is `StartSession`, `Cancel`
is `BeginStop`, `Join` is `EndStop`, the goroutine's steps are those of the child, and `Lock`, `StopBegin`,
`BackoffEnds` and the end of the process, which no caller can see, are stutters.

`NeverAbandoned` is what `KeptAlive` rests on: a started supervisor that neither gave up nor had its context
cancelled has a goroutine that has not returned. It needs `CancelInv`, for the goroutine of a session returns only
if it finds its context done.

### Controller

`ControllerProofs` proves `WantIsSession`, `NoOrphan`, `FlagsCurrent`, `SetErrorIsCurrent` and `AppliedIsCurrent`; `ControllerTypeProofs` proves `TypeOK`. The daemon is the abstract one of `Daemon`.

None of them is inductive, because a command is a list of steps and every other actor moves between two of
them. The argument has three parts.
 * Commands. `cmdMu` admits one at a time (`LockInv`): an actor without it has a refresh to do, or to forget
   what it knew after a logout. So the state of all commands comes down to `Rest`, the steps left to the one
   that holds the lock, which is one of eleven lists. `SessionInv` and `FlagsInv` say, for each of these lists,
   where `want`, the session, the daemon's arguments and the child stand; between commands `Rest` is empty and
   they are the properties. `Moves` sorts the steps of `Next`: those that leave want, file and daemon alone
   (`Calm`), the beginnings of commands, the calls of the daemon, the child and the quit.
 * The end. `EndInv`: once the loop has returned, the context is done and there is no child unless `Run`'s own
   deferred `Stop` is still at work. A `Start` of the menu that comes later starts a session whose attempts
   find the context cancelled.
 * Preferences. `ClaimInv`: while `set` runs, `appliedFor` is either the generation the loop claimed or has been
   reset, and if it is the claim, the flags sent are still those of the file, for whatever changes the file
   resets the claim too. `SetErrorIsCurrent` follows for the one place that stores a result. `AppliedInv` adds
   the node: it has the flags of the file unless an `up` brought others late (`Current`), from the moment `set`
   has succeeded, for as long as the claim stands and no logout is to be noted (`Forgetting`). An `up` may land
   at any time; it either brings the flags of the file or says that it does not (`FlagsSet`).

For `TypeOK` the point is `ViewTypes`: what an actor holds in a refresh is a snapshot when its next step derives
from it and a view when its next step publishes it, and the loop reacts to, and opens the URL of, a view. With it
comes `ViewsAgree`: the parts of the view on display never contradict each other (`Coherent`).

From the same invariant come four theorems that no run checks:
 * `KeepsTheContract` and `CallsAreLocked` are the two sides of the composition with the supervisor. Seen through
   the daemon's variables every behaviour of `Controller` is one of `Daemon`, which `Refines` shows the supervisor
   to implement; and the session and the arguments change only in steps of an actor that holds `cmdMu` before and
   after, which is what `Supervisor` takes for granted of its callers. `SetDaemonArgs` needs that a file's
   `[tailscaled]` flags are arguments the daemon knows, the calls that `Rest` says which command is under way.
 * `NoCircle`: who holds `cmdMu` has a step to take, and if that is to wait, for a daemon whose context it has
   cancelled. This is the safety half of `CommandsReturn`.
 * `StopIsComplete`: between commands, a daemon that is not wanted has no child at any stage.

### Tray

`TrayProofs` proves `TypeOK`, `NoSendOnClosed`, `NothingLost` and `ExitAfterRun`, for any number of menus and any
capacity. The invariant ties `mu` to the publication under way: `left` is empty unless an actor holds `mu`, that
actor's next step is its publication, and what is left to send to is subscribed, which `Unsubscribe` cannot
change while `mu` is held; `NothingLost` is then a matter of what the last element of a channel is after one
has been appended or the first taken (`LastOfAppend`, `LastOfTail`). `ExitAfterRun` needs that a loop that has
returned has no steps left.

Two theorems are the safety halves of liveness properties. `PokesAreKept`: while the loop goes on, a change that
`OnChange` has announced is in the channel `poke`, or the loop has yet to ask for the status in its poll, or it has
asked and has yet to derive the view. Only the loop's own question and derivation discharge it (no other actor
polls, `TodoInv`), and whatever takes the token puts a poll in its place. `MuIsReleased`: who holds `mu`
has a send to make, to a subscriber that is registered, and a send waits for nothing.

### Instances

`InstancesProofs` proves `TypeOK`, `Reachable` and `StatusIsOfTheWorking`, for any set of processes. The invariant
is `DaemonInv`, that tailscaled ends with its minitail or is an orphan, and, while nothing is disturbed, `ApartInv`:
whoever starts is the only one to start and nobody stops meanwhile (`StartInv`); at most one is past the guard
(`GuardInv`); the socket belongs to that one (`SockInv`). `NobodyElse` draws from these that whoever passes the
guard is alone; `EndStep` that the end of the last process makes them true again after any disturbance.
`JobIsWatched` needs no such condition: the process that launchd takes for its job is there, so that launchd
hears of every end.

### UpFlags

`UpFlagsProofs` proves the four properties for any flags, values and items and files of any length, and `FileType`,
that the file is a sequence of entries. The argument is an induction over files. For each operator a lemma says
what one more entry, or one more line, adds to its result: to the lines, to the two sections, to what `setArgs`
keeps, to what `Redact` shows, to the routes. What it adds depends on the line before and on nothing else, because
an entry is at most two lines and only the second, a value, needs the first; `setArgs` and `Redact` carry
exactly that, as the loops of the code do. The properties compare two ways to the same result, lines to settings
and settings to lines, and hold of a longer file if they hold of the shorter one, by the lemmas for both ways.

### Backoff

`BackoffProofs` proves `DelayIsExponential` for any width, setting in range and streak, and `NeverShrinks`: a
longer streak never waits less, and a wait is between minimum and cap. As long as the loop runs, the delay is
below the cap, so that by `InRange` the next product fits and is exact; the exact delays grow, so that the first
to reach the cap is where the closed form reaches it.

### Recursion

The induction theorems of the library take an operator as a parameter, which the provers here cannot instantiate.
In `Recursion` a property is instead the set of the numbers that have it (`Inductive`, `Induct`), and the step of
a recursion a function (`Computes`, `Recursive`, `Chain`): then each lemma is first-order. That a set of numbers
has a least element (`Least`) comes from a theorem of the library, that inclusion of finite sets is well-founded.
`Agree` says that two functions defined alike are alike, `Recursive` that a function exists whose values are each
computed from those of lower rank, which is what a recursive definition leaves open.

### Only model-checked

Everything with fairness: `StopReturns`, `KeptAlive`, `CancelIsEnough` and the progress half of the refinement,
the liveness of `Controller`, `Tray` and `Instances`. Liveness under fairness and ENABLED are beyond the prover;
the theorems named above as safety halves are the part of them that is not. The four violated properties are
violated.

## 6. Not modelled

 * Notifications: which transitions of the view are announced. A notification changes nothing that anything
   else reads; that one can be missed, when the refresh at the end of a command has published the new view
   before the poll reads `prev` (`controller.go:281`), is listed under `hazards`.
 * How long the status of a tailscaled that has gone stays on display after a restart: only the polling
   interval bounds it. `ViewConverges` shows that it does not stay.
 * The directory: seeding a default file (`internal/config/config.go:161`), paths, look-up of the binaries. A
   file of `Controller` is one that is there, and who replaces it meanwhile is outside of the program.
 * The HTTP exchange on the socket, JSON, the decoding of a status, and the text of a plist.
 * A tailscaled left behind by a crash: the code does nothing about it. In `Instances` it holds tailscaled's
   socket until the environment ends it, and meanwhile the next minitail runs without one.
 * Icons, desktop helpers, scripts, packaging, CI and the integration tests, which keep no state of their own
   or are pure I/O.
