-------------------------------- MODULE Tray --------------------------------
(***************************************************************************)
(* How views get from the controller to the menu bar and how the program   *)
(* ends: Subscribe and unsubscribe, the sends of refresh, Poke and the     *)
(* select of Run, the goroutine of the menu, the exit of the tray.         *)
(*                                                                         *)
(* What a view says is module Controller's business.  Here it is the       *)
(* number of changes each of its halves has seen: those of the daemon when *)
(* it was derived, and all of them when the status it rests on was asked   *)
(* for.  A command is the list of steps its actor has yet to take, down to *)
(* its refresh and its Poke.  refresh holds Controller.mu from the         *)
(* comparison to the last send, and one send is one step: menus receive    *)
(* without a lock.                                                         *)
(***************************************************************************)
EXTENDS Naturals, Sequences, SequencesExt

CONSTANTS
    Menus,      \* subscribers that issue commands, as the goroutine of the menu bar does
    Run,        \* the goroutine of Run
    None,       \* nobody
    Capacity,   \* of a subscriber's channel
    MaxEvents   \* bound: changes of the daemon and of the node

ASSUME TrayAssumption ==
    /\ Run \notin Menus /\ None \notin Menus \cup {Run}
    /\ Capacity \in Nat \ {0} /\ MaxEvents \in Nat

Actors == Menus \cup {Run}
Changes == 0..MaxEvents
Views == [daemon : Changes, status : Changes]

VARIABLES
    daemon,     \* changes of the daemon so far
    node,       \* changes of the node so far
    due,        \* what the daemon's last change owes to the loop: owed: a poll; asked: its
                \* derivation, now that the poll has asked for the status; or nothing
    \* Controller
    known,      \* the changes that the last status has seen
    mu,         \* the actor that is publishing, under Controller.mu
    view,       \* the current view
    subs,       \* the subscribers that are registered, their channels open
    poke,       \* the token in the channel `poke`
    \* the actors
    todo,       \* the steps each has yet to take
    held,       \* the view each has derived and not yet published
    left,       \* subscribers the publishing actor has yet to send to
    \* a subscriber
    chan,       \* its channel
    shown,      \* the view it received last
    missed,     \* the last send to it found its channel full
    \* the program
    menu,       \* where the goroutine of a subscriber is
    loop,       \* where Run is; unready: onReady has yet to start it
    ctxDone,    \* the root context is cancelled
    tray        \* up; quitting: in onExit; exited: the process is gone

envVars == <<daemon, node, due>>
subVars == <<chan, shown, missed>>
progVars == <<menu, loop, ctxDone, tray>>
vars == <<envVars, known, mu, view, subs, poke, todo, held, left, subVars, progVars>>

Alive == tray # "exited"

Refresh == <<"derive", "publish">>
Poll == <<"status", "derive", "publish">>
StartOrStop == Refresh
Reauthenticate == <<"poke">>

AtStep(a, step) == Alive /\ todo[a] # <<>> /\ Head(todo[a]) = step
Done(a) == todo' = [todo EXCEPT ![a] = Tail(@)]

Init ==
    /\ daemon = 0 /\ node = 0 /\ due = "nothing"
    /\ known = 0 /\ mu = None /\ view = [daemon |-> 0, status |-> 0] /\ subs = {} /\ poke = FALSE
    /\ todo = [a \in Actors |-> <<>>]
    /\ held = [a \in Actors |-> None] /\ left = {}
    /\ chan = [m \in Menus |-> <<>>] /\ shown = [m \in Menus |-> None]
    /\ missed = [m \in Menus |-> FALSE]
    /\ menu = [m \in Menus |-> "out"]
    /\ loop = "unready" /\ ctxDone = FALSE /\ tray = "up"

-----------------------------------------------------------------------------
(* Faulty forms, one for each way the properties below could come to fail. *)

\* refresh sends however full the channel is (for HasRoom).
NoRoomNeeded(m) == TRUE

\* The channel is closed without the lock refresh sends under (for MuFree).
NoLock == TRUE

\* Subscribe leaves the first view to the next change (for Greeting).
NoGreeting == <<>>

\* onExit does not wait for Run (for RunIsDone).
NotAwaited == TRUE

\* Poke drops its token unless Run is waiting for it (for Poked).
UnbufferedPoke == poke \/ (loop = "wait" /\ todo[Run] = <<>>)

\* The menu empties its channel and renders the first view it took (for Deliver).
DrainsToFirst(m) ==
    /\ Alive /\ menu[m] = "reading" /\ todo[m] = <<>> /\ chan[m] # <<>>
    /\ shown' = [shown EXCEPT ![m] = Head(chan[m])]
    /\ chan' = [chan EXCEPT ![m] = <<>>]
    /\ UNCHANGED <<envVars, known, mu, view, subs, poke, todo, held, left, missed, progVars>>

\* refresh waits for room in the channel (for MaySend).
WaitsForRoom(m) == Len(chan[m]) < Capacity

-----------------------------------------------------------------------------
(* Subscribe and unsubscribe *)

MuFree == mu = None

Greeting == <<view>>

\* onReady subscribes and starts the goroutine of the menu.
Subscribe(m) ==
    /\ Alive /\ menu[m] = "out" /\ MuFree
    /\ subs' = subs \cup {m}
    /\ chan' = [chan EXCEPT ![m] = Greeting]
    /\ menu' = [menu EXCEPT ![m] = "reading"]
    /\ UNCHANGED <<envVars, known, mu, view, poke, todo, held, left, shown, missed, loop, ctxDone, tray>>

\* The deferred unsubscribe: removed from the map and closed, in one section.
Unsubscribe(m) ==
    /\ Alive /\ menu[m] = "leaving" /\ MuFree
    /\ subs' = subs \ {m}
    /\ menu' = [menu EXCEPT ![m] = "gone"]
    /\ UNCHANGED <<envVars, known, mu, view, poke, todo, held, left, subVars, loop, ctxDone, tray>>

-----------------------------------------------------------------------------
(* The steps of a command *)

\* The poll asks for the status and stores it.
AskStatus(a) ==
    /\ AtStep(a, "status")
    /\ known' = daemon + node /\ Done(a)
    /\ due' = IF due = "owed" THEN "asked" ELSE due
    /\ UNCHANGED <<daemon, node, mu, view, subs, poke, held, left, subVars, progVars>>

\* A change of the daemon is dealt with when the loop derives a view from a status
\* that it has asked for since.
DeriveView(a) ==
    /\ AtStep(a, "derive")
    /\ held' = [held EXCEPT ![a] = [daemon |-> daemon, status |-> known]] /\ Done(a)
    /\ due' = IF a = Run /\ due = "asked" THEN "nothing" ELSE due
    /\ UNCHANGED <<daemon, node, known, mu, view, subs, poke, left, subVars, progVars>>

\* refresh up to its loop.  A view like the current one is not published.
PublishBegin(a) ==
    /\ AtStep(a, "publish") /\ mu = None
    /\ view' = held[a] /\ held' = [held EXCEPT ![a] = None]
    /\ IF held[a] = view \/ subs = {}
       THEN Done(a) /\ UNCHANGED <<mu, left>>
       ELSE mu' = a /\ left' = subs /\ UNCHANGED todo
    /\ UNCHANGED <<envVars, known, subs, poke, subVars, progVars>>

HasRoom(m) == Len(chan[m]) < Capacity
MaySend(m) == TRUE

\* One send of the loop, which gives up on a full channel; the last one is
\* followed by the release of the lock.
Send(a, m) ==
    /\ Alive /\ mu = a /\ m \in left /\ MaySend(m)
    /\ IF HasRoom(m)
       THEN chan' = [chan EXCEPT ![m] = Append(@, view)] /\ missed' = [missed EXCEPT ![m] = FALSE]
       ELSE missed' = [missed EXCEPT ![m] = TRUE] /\ UNCHANGED chan
    /\ left' = left \ {m}
    /\ IF left = {m} THEN mu' = None /\ Done(a) ELSE UNCHANGED <<mu, todo>>
    /\ UNCHANGED <<envVars, known, view, subs, poke, held, shown, progVars>>

\* The channel holds one token: a second Poke is dropped.
Poked == TRUE

Poke(a) ==
    /\ AtStep(a, "poke")
    /\ poke' = Poked /\ Done(a)
    /\ UNCHANGED <<envVars, known, mu, view, subs, held, left, subVars, progVars>>

Command(a) ==
    AskStatus(a) \/ DeriveView(a) \/ PublishBegin(a) \/ Poke(a) \/ \E m \in Menus : Send(a, m)

-----------------------------------------------------------------------------
(* The goroutine of the menu: one select, the commands run in it           *)

Selects(m) == Alive /\ menu[m] = "reading" /\ todo[m] = <<>>

Deliver(m) ==
    /\ Selects(m) /\ chan[m] # <<>>
    /\ shown' = [shown EXCEPT ![m] = Head(chan[m])]
    /\ chan' = [chan EXCEPT ![m] = Tail(@)]
    /\ UNCHANGED <<envVars, known, mu, view, subs, poke, todo, held, left, missed, progVars>>

\* A click on Start, Stop or Re-authenticate; the other items keep no state.
Click(m) ==
    /\ Selects(m)
    /\ \E steps \in {StartOrStop, Reauthenticate} : todo' = [todo EXCEPT ![m] = steps]
    /\ UNCHANGED <<envVars, known, mu, view, subs, poke, held, left, subVars, progVars>>

ClickQuit(m) ==
    /\ Selects(m)
    /\ ctxDone' = TRUE
    /\ menu' = [menu EXCEPT ![m] = "leaving"]
    /\ UNCHANGED <<envVars, known, mu, view, subs, poke, todo, held, left, subVars, loop, tray>>

MenuSeesDone(m) ==
    /\ Selects(m) /\ ctxDone
    /\ menu' = [menu EXCEPT ![m] = "leaving"]
    /\ UNCHANGED <<envVars, known, mu, view, subs, poke, todo, held, left, subVars, loop, ctxDone, tray>>

-----------------------------------------------------------------------------
(* Run *)

LoopAt(point) == Alive /\ loop = point /\ todo[Run] = <<>>

\* onReady starts the goroutine of Run, which begins with a Start.
Ready ==
    /\ LoopAt("unready")
    /\ loop' = "starting" /\ todo' = [todo EXCEPT ![Run] = StartOrStop]
    /\ UNCHANGED <<envVars, known, mu, view, subs, poke, held, left, subVars, menu, ctxDone, tray>>

\* pollOnce: before the loop, and after the select has taken a tick or a token.
PollOnce ==
    /\ loop' = "wait" /\ todo' = [todo EXCEPT ![Run] = Poll]
    /\ UNCHANGED <<envVars, known, mu, view, subs, held, left, subVars, menu, ctxDone, tray>>

FirstPoll == LoopAt("starting") /\ PollOnce /\ UNCHANGED poke
Tick == LoopAt("wait") /\ PollOnce /\ UNCHANGED poke
Nudged == LoopAt("wait") /\ poke /\ PollOnce /\ poke' = FALSE

\* The deferred Stop.
RunStops ==
    /\ LoopAt("wait") /\ ctxDone
    /\ loop' = "stopping" /\ todo' = [todo EXCEPT ![Run] = StartOrStop]
    /\ UNCHANGED <<envVars, known, mu, view, subs, poke, held, left, subVars, menu, ctxDone, tray>>

RunReturns ==
    /\ LoopAt("stopping")
    /\ loop' = "returned"
    /\ UNCHANGED <<envVars, known, mu, view, subs, poke, todo, held, left, subVars, menu, ctxDone, tray>>

-----------------------------------------------------------------------------
(* The tray and the end of the process *)

\* The goroutine of Run closes `done` and quits the tray, which calls onExit.
TrayQuits ==
    /\ tray = "up" /\ loop = "returned"
    /\ tray' = "quitting" /\ ctxDone' = TRUE
    /\ UNCHANGED <<envVars, known, mu, view, subs, poke, todo, held, left, subVars, menu, loop>>

\* Something other than the Quit item terminates the app: onExit comes first, maybe
\* even before onReady.
Terminated ==
    /\ tray = "up"
    /\ tray' = "quitting" /\ ctxDone' = TRUE
    /\ UNCHANGED <<envVars, known, mu, view, subs, poke, todo, held, left, subVars, menu, loop>>

RunIsDone == loop = "returned"

\* onExit has its answer from `done`; runTray, main and the process end.
Exit ==
    /\ tray = "quitting" /\ RunIsDone
    /\ tray' = "exited"
    /\ UNCHANGED <<envVars, known, mu, view, subs, poke, todo, held, left, subVars, menu, loop, ctxDone>>

\* `minitail quit`, SIGTERM or SIGINT.
Cancel ==
    /\ Alive /\ ~ctxDone
    /\ ctxDone' = TRUE
    /\ UNCHANGED <<envVars, known, mu, view, subs, poke, todo, held, left, subVars, menu, loop, tray>>

-----------------------------------------------------------------------------
(* What the views are about *)

\* tailscaled starts or ends, and OnChange pokes.  (A poll between the two is one
\* that the ticker could have caused.)
DaemonChanges ==
    /\ Alive /\ daemon + node < MaxEvents
    /\ daemon' = daemon + 1 /\ due' = "owed" /\ poke' = Poked
    /\ UNCHANGED <<node, known, mu, view, subs, todo, held, left, subVars, progVars>>

\* A login, an approval: nobody tells the controller, the next tick finds it.
NodeChanges ==
    /\ Alive /\ daemon + node < MaxEvents
    /\ node' = node + 1
    /\ UNCHANGED <<daemon, due, known, mu, view, subs, poke, todo, held, left, subVars, progVars>>

\* The process is gone.
Exited == ~Alive /\ UNCHANGED vars

Next ==
    \/ \E a \in Actors : Command(a)
    \/ \E m \in Menus :
        Subscribe(m) \/ Unsubscribe(m) \/ Deliver(m) \/ Click(m) \/ ClickQuit(m) \/ MenuSeesDone(m)
    \/ Ready \/ FirstPoll \/ Tick \/ Nudged \/ RunStops \/ RunReturns
    \/ TrayQuits \/ Terminated \/ Exit \/ Cancel
    \/ DaemonChanges \/ NodeChanges \/ Exited

Spec == Init /\ [][Next]_vars

\* onReady is called unless the app is terminated first, and every goroutine goes
\* on.  select picks at random among what is ready, so
\* neither clicks nor ticks can keep a view or the end of the context from being
\* taken for ever: strong fairness for these.  The ticker owes nothing: what a
\* Poke promises must come without it.
FairSpec ==
    /\ Spec
    /\ \A a \in Actors : WF_vars(Command(a))
    /\ \A m \in Menus : WF_vars(Subscribe(m)) /\ SF_vars(Deliver(m))
    /\ WF_vars(Ready /\ tray = "up") /\ WF_vars(FirstPoll) /\ WF_vars(Nudged) /\ SF_vars(RunStops) /\ WF_vars(RunReturns)
    /\ WF_vars(TrayQuits) /\ WF_vars(Exit)

-----------------------------------------------------------------------------
(* Properties *)

\* Every variable has its type; a channel never holds more than its capacity
\* (make(chan View, 8)).
TypeOK ==
    /\ daemon \in Changes /\ node \in Changes /\ daemon + node \in Changes
    /\ due \in {"nothing", "owed", "asked"} /\ known \in Changes
    /\ mu \in Actors \cup {None}
    /\ view \in Views /\ subs \in SUBSET Menus /\ poke \in BOOLEAN
    /\ todo \in [Actors -> Seq({"status", "derive", "publish", "poke"})]
    /\ held \in [Actors -> Views \cup {None}] /\ left \in SUBSET Menus
    /\ chan \in [Menus -> Seq(Views)] /\ \A m \in Menus : Len(chan[m]) <= Capacity
    /\ shown \in [Menus -> Views \cup {None}] /\ missed \in [Menus -> BOOLEAN]
    /\ menu \in [Menus -> {"out", "reading", "leaving", "gone"}]
    /\ loop \in {"unready", "starting", "wait", "stopping", "returned"}
    /\ ctxDone \in BOOLEAN /\ tray \in {"up", "quitting", "exited"}

\* refresh never sends on a channel that unsubscribe has closed, which would
\* panic: whatever the loop in refresh has yet to send to is registered, while
\* menus leave and actors publish in any order.
NoSendOnClosed == left \subseteq subs

\* The newest view a subscriber has received or will find in its channel.
Newest(m) == IF chan[m] = <<>> THEN shown[m] ELSE Last(chan[m])

\* A subscriber is as good as up to date: what it has or will find is the
\* current view, unless refresh is about to send it, or the last send found
\* the channel full.  Subscribe gives it "the current view immediately and
\* every change after it", and one that was slow "gets the next update".
NothingLost == \A m \in subs : m \in left \/ missed[m] \/ Newest(m) = view

\* The process never exits before Run has returned, which is after it shut
\* tailscaled down, whoever asked for the end: otherwise tailscaled outlives it.
ExitAfterRun == tray = "exited" => loop = "returned" /\ todo[Run] = <<>>

\* A Poke is heard although it may fall anywhere in the poll before it: with no
\* help from the ticker, the loop asks for the status and derives a view after the
\* change of the daemon which OnChange announced.
PokeIsHeard == <>[](ctxDone \/ due = "nothing")

\* The menu catches up: once nothing changes it shows the current view, unless
\* its channel was full when that was sent.
ShownCatchesUp == <>[](ctxDone \/ \A m \in Menus : missed[m] \/ shown[m] = view)

\* Quitting, by whatever way, ends the process.  The menu publishes into its own
\* channel when it runs Stop, and clicks may keep it busy for ever:
\* no send may keep Run from its end.  (An app that is terminated before onReady has
\* started Run has nobody to close `done`, for which onExit waits.)
QuitExits == ctxDone /\ loop # "unready" ~> tray = "exited"
=============================================================================
