------------------------ MODULE ControllerTypeProofs ------------------------
(***************************************************************************)
(* Controller's variables have their types.  What is not plain is that the *)
(* record an actor holds is a snapshot or a view exactly when its next     *)
(* step takes it for one, and that the polling loop reacts to a view only  *)
(* after its refresh is through.                                           *)
(***************************************************************************)
EXTENDS ControllerProofs

-----------------------------------------------------------------------------
(* The daemon's half *)

DaemonTypes ==
    /\ stage \in Stages /\ args \in ArgLists /\ cargs \in ArgLists \cup {None}
    /\ givenUp \in BOOLEAN /\ budget \in 0 .. MaxSurprises /\ file.td \in ArgLists

-----------------------------------------------------------------------------
(* Snapshots and views *)

IsStatus(st) == st = NoStatus \/ st \in Statuses
IsSnapshot(r) == IsStatus(r.status) /\ r.want \in BOOLEAN

\* The parts of a view agree: Stop is on offer unless it says "stopped", a login
\* page goes with a node that needs a login, routes wait for approval exactly if
\* it says so, and no config error hides behind a node that serves.
Coherent(v) ==
    /\ v.canStop <=> v.state # "stopped"
    /\ v.url # NoURL => v.state = "needs-login"
    /\ v.pending # {} <=> v.state = "not-approved"
    /\ v.state \in {"not-approved", "serving"} => ~v.badConfig
    /\ v.state = "bad-config" => v.badConfig

IsView(r) == r.state \in States /\ r.url \in Nat /\ Coherent(r)

\* The record is of the kind the next step of the list l takes.
Holds(l, r) ==
    /\ l = Derives => IsSnapshot(r)
    /\ l = Publishes => IsView(r)

ViewTypes ==
    /\ IsStatus(status) /\ IsStatus(answer)
    /\ IsView(view) /\ prev \in States /\ openedAuthURL \in Nat
    /\ held = [a \in Actors |-> held[a]]
    /\ \A a \in Actors : Holds(todo[a], held[a])
    /\ loop \in PollPoints
    /\ loop = "open" => todo[Run] = <<>>
    /\ loop \in {"react", "open"} /\ todo[Run] = <<>> => IsView(held[Run])
    /\ loop = "react" => todo[Run] \in Refreshing \cup {<<>>}

LEMMA DeriveMakesViews ==
    ASSUME NEW r, IsSnapshot(r)
    PROVE  IsView(Derive(WithDaemon(r)))
<1> DEFINE in == WithDaemon(r)
<1>1. in.status = NoStatus \/ in.status \in Statuses
  BY DEF IsSnapshot, IsStatus, WithDaemon
<1>2. \A b \in Backends : b # "Running" => Shown[b] \in States
  BY DEF Backends, Shown, States
<1> HIDE DEF in
<1>3. StateOf(in) \in States
  BY <1>1, <1>2 DEF StateOf, Statuses, States
<1>4. StateOf(in) = "needs-login" => in.status \in Statuses
  BY <1>1 DEF StateOf
<1>5. \A b \in Backends : b # "Running" => Shown[b] \notin {"stopped", "not-approved", "serving", "bad-config"}
  BY DEF Backends, Shown
<1>6. StateOf(in) = "stopped" <=> ~in.want
  BY <1>1, <1>5 DEF StateOf, Statuses
<1>7. StateOf(in) = "not-approved" => PendingRoutes(in.status, in.advertised) # {}
  BY <1>1, <1>5 DEF StateOf, Statuses
<1>8. /\ StateOf(in) \in {"not-approved", "serving"} => ~in.badConfig
      /\ StateOf(in) = "bad-config" => in.badConfig
  BY <1>1, <1>5 DEF StateOf, Statuses
<1>9. Coherent(Derive(in))
  <2>1. in.want \in BOOLEAN
    BY DEF in, IsSnapshot, WithDaemon
  <2> QED BY <1>6, <1>7, <1>8, <2>1 DEF Coherent, Derive, NoURL
<1>10. IsView(Derive(in))
  BY <1>3, <1>4, <1>9 DEF IsView, Derive, Statuses, NoURL
<1>11. QED BY <1>10 DEF in

LEMMA NodeStatusTyped == ASSUME node \in Nodes PROVE NodeStatus \in Statuses
BY DEF NodeStatus, Nodes, Statuses

\* Lists apart from the two that a refresh passes through.
LEMMA RefreshKinds ==
    /\ <<>> \notin {Derives, Publishes} /\ Forgets \notin {Derives, Publishes}
    /\ Derives # Publishes /\ Refresh \notin {Derives, Publishes}
    /\ \A l \in {Starts, Stops, SetsArgs, Restarts} : l \notin {Derives, Publishes}
    /\ \A l \in (Locked \cup Unlocked) \ {<<>>} :
        /\ First(l) = "input" => l = Refresh
        /\ First(l) = "derive" => l = Derives
        /\ First(l) = "publish" => l = Publishes
        /\ First(l) \notin {"input", "derive"} => After(l) \notin {Derives, Publishes}
<1>1. Publishes # <<>> /\ Derives # <<>> /\ Size(Forgets) = 1 /\ Size(<<>>) = 0 /\ Size(Refresh) = 3
  BY Lists
<1>2. \A l \in {Starts, Stops, SetsArgs, Restarts} : l \notin {Derives, Publishes}
  BY Lists
<1>3. \A l \in (Locked \cup Unlocked) \ {<<>>} :
        /\ First(l) = "input" => l = Refresh
        /\ First(l) = "derive" => l = Derives
        /\ First(l) = "publish" => l = Publishes
  BY Lists, <1>1 DEF Locked, Unlocked, Refreshing
<1>4. \A l \in (Locked \cup Unlocked) \ {<<>>} :
        First(l) \notin {"input", "derive"} => Size(After(l)) \notin {1, 2}
  BY Lists, <1>1 DEF Locked, Unlocked, Refreshing
<1>5. Size(Derives) = 2 /\ Size(Publishes) = 1
  BY Lists
<1>6. \A l \in (Locked \cup Unlocked) \ {<<>>} :
        First(l) \notin {"input", "derive"} => After(l) \notin {Derives, Publishes}
  BY <1>4, <1>5
<1>7. <<>> \notin {Derives, Publishes} /\ Derives # Publishes
  BY <1>1, <1>5
<1>8. Forgets \notin {Derives, Publishes} /\ Refresh \notin {Derives, Publishes}
  BY Lists
<1>9. QED BY <1>2, <1>3, <1>6, <1>7, <1>8

-----------------------------------------------------------------------------
(* One lemma for each way a step can go about the commands and the         *)
(* records.                                                                *)

\* The records stay, and what an actor turns to needs none.
LEMMA HeldAtBegin ==
    ASSUME LockInv, ViewTypes, NEW a \in Actors, NEW l,
           l \notin {Derives, Publishes}, todo' = [todo EXCEPT ![a] = l], UNCHANGED held
    PROVE  \A b \in Actors : Holds(todo'[b], held'[b])
BY DEF LockInv, ViewTypes, Holds

LEMMA HeldAtStep ==
    ASSUME LockInv, ViewTypes, NEW a \in Actors, NEW name, Step(a, name),
           NEW r, held' = [held EXCEPT ![a] = r], Holds(After(todo[a]), r)
    PROVE  \A b \in Actors : Holds(todo'[b], held'[b])
BY DEF LockInv, ViewTypes, Step, After

LEMMA HeldAtEnd ==
    ASSUME LockInv, ViewTypes, todo[Run] = <<>>, UNCHANGED todo,
           held' = [held EXCEPT ![Run] = None]
    PROVE  \A b \in Actors : Holds(todo'[b], held'[b])
BY RefreshKinds DEF LockInv, ViewTypes, Holds, Actors

LEMMA ViewsKept ==
    ASSUME ViewTypes, UNCHANGED <<status, answer, view, prev, openedAuthURL, held, todo, loop>>
    PROVE  ViewTypes'
BY DEF ViewTypes

\* Commands begin, on a client or around the polling loop.
LEMMA ViewsAtBegin ==
    ASSUME LockInv, ViewTypes, NEW a \in Actors, NEW l,
           l \notin {Derives, Publishes}, todo[a] = <<>>, todo' = [todo EXCEPT ![a] = l],
           UNCHANGED <<answer, view, prev, held>>,
           status' \in {status, NoStatus}, openedAuthURL' \in {openedAuthURL, NoURL},
           \/ a # Run /\ UNCHANGED loop
           \/ loop' \in {"want", "returned"}
    PROVE  ViewTypes'
<1>1. \A b \in Actors : Holds(todo'[b], held'[b])
  BY HeldAtBegin
<1>2. a # Run => todo'[Run] = todo[Run]
  BY DEF LockInv, Actors
<1>3. loop' \in PollPoints /\ IsStatus(status') /\ openedAuthURL' \in Nat
  BY DEF ViewTypes, PollPoints, IsStatus, NoURL
<1>4. QED BY <1>1, <1>2, <1>3 DEF ViewTypes

LEMMA ViewsAtCommand ==
    ASSUME LockInv, SessionInv, ViewTypes, NEW a \in Actors, CommandStep(a)
    PROVE  ViewTypes'
<1>1. UNCHANGED <<status, answer, prev, loop>> /\ openedAuthURL' \in {openedAuthURL, NoURL}
  BY DEF CommandStep, Forget, SetArgsStep, DaemonStart, DaemonStop, DaemonStopped, TakeInput,
         DeriveView, Publish, cvars, loopVars
<1>2. PICK name \in Steps : Step(a, name)
  BY DEF CommandStep, Forget, SetArgsStep, DaemonStart, DaemonStop, DaemonStopped, TakeInput,
         DeriveView, Publish, Steps
<1>3. todo[a] \in (Locked \cup Unlocked) \ {<<>>} /\ First(todo[a]) = name
      /\ todo' = [todo EXCEPT ![a] = After(todo[a])]
  BY <1>2 DEF LockInv, Step, First, After
<1>4. \E r : held' = [held EXCEPT ![a] = r] /\ Holds(After(todo[a]), r)
              /\ (a = Run /\ After(todo[a]) = <<>> /\ loop = "react" => IsView(r))
  <2>1. CASE TakeInput(a)
    <3>1. todo[a] = Refresh /\ After(todo[a]) = Derives
      BY <1>3, <2>1, RefreshKinds, Lists DEF TakeInput, Step, First
    <3>2. IsSnapshot(Snapshot) /\ Derives # Publishes /\ Derives # <<>>
      BY RefreshKinds DEF ViewTypes, SessionInv, IsSnapshot, Snapshot
    <3>3. QED BY <2>1, <3>1, <3>2 DEF TakeInput, Holds
  <2>2. CASE DeriveView(a)
    <3>1. todo[a] = Derives /\ After(todo[a]) = Publishes
      BY <1>3, <2>2, RefreshKinds, Lists DEF DeriveView, Step, First
    <3>2. IsView(Derive(WithDaemon(held[a]))) /\ Derives # Publishes /\ Publishes # <<>>
      BY <3>1, RefreshKinds, DeriveMakesViews DEF ViewTypes, Holds
    <3>3. QED BY <2>2, <3>1, <3>2 DEF DeriveView, Holds
  <2>3. CASE Publish(a)
    <3>1. todo[a] = Publishes /\ After(todo[a]) = <<>>
      BY <1>3, <2>3, RefreshKinds, Lists DEF Publish, Step, First
    <3>2. IsView(held[a]) /\ <<>> \notin {Derives, Publishes}
      BY <3>1, RefreshKinds DEF ViewTypes, Holds
    <3>3. QED BY <2>3, <3>1, <3>2 DEF Publish, Holds
  <2>4. CASE Forget(a) \/ SetArgsStep(a) \/ DaemonStart(a) \/ DaemonStop(a) \/ DaemonStopped(a)
    <3>1. First(todo[a]) \notin {"input", "derive", "publish"} /\ UNCHANGED held
      BY <2>4 DEF Forget, SetArgsStep, DaemonStart, DaemonStop, DaemonStopped, Step, First
    <3>2. held' = [held EXCEPT ![a] = held[a]]
      BY <3>1 DEF ViewTypes
    <3>3. After(todo[a]) \notin {Derives, Publishes}
      BY <1>3, <3>1, RefreshKinds
    <3>4. a = Run => loop # "react"
      BY <1>3, <3>1, Kinds, Lists DEF ViewTypes, Refreshing
    <3>5. QED BY <3>2, <3>3, <3>4 DEF Holds
  <2>5. QED BY <2>1, <2>2, <2>3, <2>4 DEF CommandStep
<1>5. PICK r : held' = [held EXCEPT ![a] = r] /\ Holds(After(todo[a]), r)
              /\ (a = Run /\ After(todo[a]) = <<>> /\ loop = "react" => IsView(r))
  BY <1>4
<1>6. \A b \in Actors : Holds(todo'[b], held'[b])
  BY <1>2, <1>5, HeldAtStep
<1>7. IsView(view')
  <2>1. CASE Publish(a)
    <3>1. todo[a] = Publishes
      BY <1>3, <2>1, RefreshKinds DEF Publish, Step, First
    <3>2. QED BY <2>1, <3>1 DEF Publish, ViewTypes, Holds
  <2>2. CASE ~Publish(a)
    BY <2>2 DEF ViewTypes, CommandStep, Forget, SetArgsStep, DaemonStart, DaemonStop, DaemonStopped,
                TakeInput, DeriveView, cvars
  <2>3. QED BY <2>1, <2>2
<1>8. loop = "open" => todo'[Run] = <<>> /\ UNCHANGED <<held[Run], todo[Run]>>
  BY <1>3, <1>5 DEF ViewTypes, LockInv, Actors
<1>9. loop = "react" => /\ todo'[Run] \in Refreshing \cup {<<>>}
                        /\ todo'[Run] = <<>> => IsView(held'[Run])
  <2>1. CASE a = Run
    BY <1>3, <1>5, <2>1, Kinds, Lists DEF ViewTypes, LockInv, Refreshing
  <2>2. CASE a # Run
    BY <1>3, <1>5, <2>2 DEF ViewTypes, LockInv, Actors
  <2>3. QED BY <2>1, <2>2
<1>10. openedAuthURL' \in Nat /\ held' = [b \in Actors |-> held'[b]]
  BY <1>1, <1>5 DEF ViewTypes, NoURL
<1>11. QED BY <1>1, <1>6, <1>7, <1>8, <1>9, <1>10 DEF ViewTypes

LEMMA ViewsAtPoll ==
    ASSUME LockInv, PrefTypes, ViewTypes, PollStep
    PROVE  ViewTypes'
<1> USE DEF At
<1>1. Run \in Actors
  BY DEF Actors
<1>2. CASE BeginRefresh
  <2>1. \A b \in Actors : Holds(todo'[b], held'[b])
    BY <1>1, <1>2, HeldAtBegin, RefreshKinds DEF BeginRefresh
  <2>2. todo'[Run] = Refresh /\ Refresh # <<>> /\ Refresh \in Refreshing
    BY <1>1, <1>2, Lists DEF BeginRefresh, LockInv, Refreshing
  <2>3. QED BY <1>2, <2>1, <2>2 DEF BeginRefresh, ViewTypes, IsView, cvars, PollPoints
<1>3. CASE ReadWant \/ ReadRunning \/ ClaimGeneration \/ ReadGeneration \/ ApplySucceeds \/ ApplyFails
           \/ Tick
  <2>1. UNCHANGED <<todo, status, view, openedAuthURL, answer>> /\ prev' \in {prev, "stopped"}
    BY <1>3 DEF ReadWant, ReadRunning, ClaimGeneration, ReadGeneration, ApplySucceeds, ApplyFails, Tick,
                PollEnds, cmdVars, cvars
  <2>2. loop' \in PollPoints \ {"react", "open"}
    BY <1>3 DEF ReadWant, ReadRunning, ClaimGeneration, ReadGeneration, ApplySucceeds, ApplyFails, Tick,
                PollEnds, PollPoints
  <2>3. UNCHANGED held \/ (todo[Run] = <<>> /\ held' = [held EXCEPT ![Run] = None])
    BY <1>3 DEF ReadWant, ReadRunning, ClaimGeneration, ReadGeneration, ApplySucceeds, ApplyFails, Tick,
                PollEnds
  <2>4. \A b \in Actors : Holds(todo'[b], held'[b])
    BY <2>1, <2>3, HeldAtEnd DEF ViewTypes
  <2>5. QED BY <2>1, <2>2, <2>3, <2>4 DEF ViewTypes, States
<1>4. CASE QueryStatus \/ StoreStatus
  <2>1. IsStatus(answer') /\ IsStatus(status')
    <3>1. \A st \in Statuses : [st EXCEPT !.backend = "Starting"] \in Statuses
      BY DEF Statuses, Backends
    <3>2. NodeStatus \in Statuses
      BY NodeStatusTyped DEF PrefTypes
    <3>3. answer' \in {NodeStatus, [NodeStatus EXCEPT !.backend = "Starting"], NoAnswer, answer}
      BY <1>4 DEF QueryStatus, StoreStatus
    <3>4. status' \in {status, answer}
      BY <1>4 DEF QueryStatus, StoreStatus, cvars
    <3>5. QED BY <3>1, <3>2, <3>3, <3>4 DEF ViewTypes, IsStatus, NoAnswer
  <2>2. UNCHANGED <<todo, held, view, openedAuthURL, prev>> /\ loop' \in {"store", "prev"}
    BY <1>4 DEF QueryStatus, StoreStatus, cmdVars, cvars
  <2>3. QED BY <2>1, <2>2 DEF ViewTypes, PollPoints
<1>5. CASE ReactNothing \/ StartLogin \/ OpenURL \/ StoreResult
  <2>1. UNCHANGED <<todo, status, view, answer>> /\ todo[Run] = <<>>
    BY <1>5 DEF ReactNothing, StartLogin, OpenURL, StoreResult, cmdVars, cvars
  <2>2. \/ UNCHANGED <<held, prev>> /\ loop = "react" /\ loop' = "open"
        \/ held' = [held EXCEPT ![Run] = None] /\ prev' = "stopped" /\ loop' = "wait"
    BY <1>5 DEF ReactNothing, StartLogin, OpenURL, StoreResult, PollEnds
  <2>3. openedAuthURL' = openedAuthURL \/ (loop = "open" /\ openedAuthURL' = held[Run].url)
    BY <1>5 DEF ReactNothing, StartLogin, OpenURL, StoreResult, cvars, Cur
  <2>4. \A b \in Actors : Holds(todo'[b], held'[b])
    BY <2>1, <2>2, HeldAtEnd DEF ViewTypes
  <2>5. openedAuthURL' \in Nat
    BY <2>1, <2>3 DEF ViewTypes, IsView
  <2>6. CASE UNCHANGED <<held, prev>> /\ loop = "react" /\ loop' = "open"
    BY <2>1, <2>4, <2>5, <2>6 DEF ViewTypes, PollPoints
  <2>7. CASE held' = [held EXCEPT ![Run] = None] /\ prev' = "stopped" /\ loop' = "wait"
    BY <2>1, <2>4, <2>5, <2>7 DEF ViewTypes, PollPoints, States
  <2>8. QED BY <2>2, <2>6, <2>7
<1>6. QED BY <1>2, <1>3, <1>4, <1>5 DEF PollStep

LEMMA ViewsStep ==
    ASSUME LockInv, SessionInv, PrefTypes, ViewTypes, [Next]_vars
    PROVE  ViewTypes'
<1>1. ASSUME NEW a \in Actors, StartBegin(a) \/ StopBegin(a) \/ ReloadBegin(a),
             UNCHANGED <<answer, prev>>,
             \/ a # Run /\ UNCHANGED loop
             \/ loop' \in {"want", "returned"}
      PROVE  ViewTypes'
  <2>1. PICK l \in {Starts, Refresh, Stops, SetsArgs, Restarts} : todo' = [todo EXCEPT ![a] = l]
    BY <1>1, Commands DEF StartBegin, StopBegin, ReloadBegin, Begin
  <2>2. todo[a] = <<>> /\ UNCHANGED <<view, held>>
        /\ status' \in {status, NoStatus} /\ openedAuthURL' \in {openedAuthURL, NoURL}
    BY <1>1 DEF StartBegin, StopBegin, ReloadBegin, MayCommand
  <2>3. l \notin {Derives, Publishes}
    BY RefreshKinds
  <2>4. QED BY <1>1, <2>1, <2>2, <2>3, ViewsAtBegin
<1>2. CASE RunStarts \/ RunEnds
  BY <1>1, <1>2 DEF RunStarts, RunEnds, Actors
<1>3. ASSUME NEW a \in Clients, ClientCommand(a)
      PROVE  ViewTypes'
  <2>1. a \in Actors /\ a # Run /\ UNCHANGED <<loop, answer, prev>>
    BY <1>3, ControllerAssumption DEF Actors, ClientCommand, loopVars
  <2>2. CASE ReauthBegin(a)
    <3>1. todo[a] = <<>> /\ todo' = [todo EXCEPT ![a] = Forgets]
          /\ UNCHANGED <<view, held, status, openedAuthURL>>
      BY <2>2 DEF ReauthBegin, Forgets, cvars
    <3>2. QED BY <2>1, <3>1, ViewsAtBegin, RefreshKinds
  <2>3. QED BY <1>1, <1>3, <2>1, <2>2 DEF ClientCommand
<1>4. CASE UpLands \/ PageOffered \/ UpSucceeds \/ UpFails \/ ChildProgress \/ Quit
  BY <1>4, ViewsKept DEF UpLands, PageOffered, UpSucceeds, UpFails, ChildProgress, Quit, cmdVars, cvars,
                         loopVars
<1>5. CASE LoginCompletes \/ KeyExpires \/ BroughtDown \/ AdminApproves \/ Exited \/ UNCHANGED vars
  BY <1>5, ViewsKept DEF LoginCompletes, KeyExpires, BroughtDown, AdminApproves, NodeBecomes, Exited, vars,
                         cmdVars, cvars, loopVars
<1>6. QED BY <1>2, <1>3, <1>4, <1>5, ViewsAtCommand, ViewsAtPoll DEF Next

-----------------------------------------------------------------------------
(* The daemon's half, and the bound *)

LEMMA BudgetStep ==
    ASSUME budget \in 0 .. MaxSurprises, [Next]_vars
    PROVE  budget' \in 0 .. MaxSurprises
<1>1. MaxSurprises \in Nat /\ \A kind : Surprise(kind) => budget' \in 0 .. MaxSurprises
  BY ControllerAssumption DEF Surprise
<1>2. CASE RunStarts \/ RunEnds \/ UNCHANGED vars \/ Exited
  BY <1>2 DEF RunStarts, RunEnds, Exited, vars
<1>3. CASE PollStep
  BY <1>1, <1>3 DEF PollStep, ReadWant, ReadRunning, QueryStatus, StoreStatus, BeginRefresh, ReactNothing,
       StartLogin, OpenURL, ReadGeneration, ClaimGeneration, ApplySucceeds, ApplyFails, StoreResult, Tick
<1>4. ASSUME NEW a \in Clients, ClientCommand(a)
      PROVE  budget' \in 0 .. MaxSurprises
  BY <1>1, <1>4 DEF ClientCommand
<1>5. ASSUME NEW a \in Actors, CommandStep(a)
      PROVE  UNCHANGED budget
  BY <1>5 DEF CommandStep, Forget, SetArgsStep, DaemonStart, DaemonStop, DaemonStopped, TakeInput,
              DeriveView, Publish
<1>6. CASE UpLands \/ PageOffered \/ UpSucceeds \/ UpFails \/ ChildProgress \/ Quit
  BY <1>1, <1>6 DEF UpLands, PageOffered, UpSucceeds, UpFails, ChildProgress, Unexpected, Quit
<1>7. CASE LoginCompletes \/ KeyExpires \/ BroughtDown \/ AdminApproves
  BY <1>1, <1>7 DEF LoginCompletes, KeyExpires, BroughtDown, AdminApproves
<1>8. QED BY <1>2, <1>3, <1>4, <1>5, <1>6, <1>7 DEF Next

LEMMA DaemonTypesStep ==
    ASSUME LockInv, PrefTypes, DaemonTypes, [Next]_vars
    PROVE  DaemonTypes'
<1>1. budget' \in 0 .. MaxSurprises
  BY BudgetStep DEF DaemonTypes
<1>2. file' \in Files /\ file'.td \in ArgLists
  BY PrefTypesStep, ControllerAssumption DEF PrefTypes
<1>3. CASE Calm \/ Quit
  BY <1>1, <1>2, <1>3 DEF DaemonTypes, Calm, Quit, CancelCtx, dvars
<1>4. CASE ChildProgress
  BY <1>1, <1>2, <1>4 DEF DaemonTypes, ChildProgress, Attempt, Prepare, Spawn, SpawnFails, Announce,
                          Reaped, Count, Abandon, Stages
<1>5. ASSUME NEW a \in Actors,
             \/ StartBegin(a) \/ StopBegin(a) \/ ReloadBegin(a)
             \/ SetArgsStep(a) \/ DaemonStart(a) \/ DaemonStop(a) \/ DaemonStopped(a)
      PROVE  DaemonTypes'
  <2>1. UNCHANGED <<stage, cargs>> /\ args' \in {args, file.td} /\ givenUp' \in {givenUp, FALSE}
    BY <1>5 DEF StartBegin, StopBegin, ReloadBegin, SetArgsStep, SetDaemonArgs, DaemonStart, StartSession,
                DaemonStop, BeginStop, DaemonStopped, EndStop, dvars
  <2>2. QED BY <1>1, <1>2, <2>1 DEF DaemonTypes
<1>6. QED BY <1>3, <1>4, <1>5, Moves

-----------------------------------------------------------------------------
(* Types *)

LEMMA ListsOfSteps == Locked \cup Unlocked \subseteq Seq(Steps)
<1>1. Refresh \in Seq(Steps) /\ Derives \in Seq(Steps) /\ Publishes \in Seq(Steps)
  BY DEF Refresh, Derives, Publishes, Steps
<1>2. Forgets \in Seq(Steps) /\ <<>> \in Seq(Steps) /\ <<"start">> \in Seq(Steps)
      /\ <<"join">> \in Seq(Steps) /\ <<"setargs">> \in Seq(Steps)
  BY DEF Forgets, Steps
<1>3. <<"stop", "join">> \in Seq(Steps) /\ <<"join", "start">> \in Seq(Steps)
      /\ <<"stop", "join", "start">> \in Seq(Steps)
  BY DEF Steps
<1>4. \A k, l \in Seq(Steps) : k \o l \in Seq(Steps)
  BY ConcatProperties
<1>5. QED
  BY <1>1, <1>2, <1>3, <1>4 DEF Locked, Unlocked, Refreshing, Starts, Stops, Joins, SetsArgs, Restarts,
                                StopsToStart, JoinsToStart

IInv == Inv /\ ViewTypes /\ DaemonTypes

\* The safety invariant of ControllerProofs, with what each record is: a snapshot
\* when a refresh derives from it, a view when it publishes it.
LEMMA TypesInductive == Spec => []IInv
<1> USE DEF IInv
<1>1. ASSUME Init
      PROVE  IInv
  <2>1. todo = [a \in Actors |-> <<>>] /\ held = [a \in Actors |-> None] /\ <<>> \notin {Derives, Publishes}
    BY <1>1, RefreshKinds DEF Init
  <2>2. IsView(view)
    <3>1. IsSnapshot(Snapshot)
      BY <1>1 DEF Init, IsSnapshot, IsStatus, Snapshot
    <3>2. view = Derive(WithDaemon(Snapshot))
      BY <1>1 DEF Init
    <3>3. QED BY <3>1, <3>2, DeriveMakesViews
  <2>3. ViewTypes
    BY <1>1, <2>1, <2>2 DEF Init, ViewTypes, Holds, IsStatus, NoAnswer, NoURL, States, PollPoints
  <2>4. DaemonTypes
    <3>1. stage = "none" /\ args = InitArgs /\ cargs = None /\ givenUp = FALSE
      BY <1>1 DEF Init, DaemonInit
    <3>2. file = InitFile /\ budget = MaxSurprises
      BY <1>1 DEF Init
    <3>3. budget \in 0 .. MaxSurprises
      BY <3>2, ControllerAssumption
    <3>4. QED BY <3>1, <3>2, <3>3, DaemonAssumption, ControllerAssumption DEF DaemonTypes, Stages
  <2>5. QED BY <1>1, <2>3, <2>4, InitInv
<1>2. IInv /\ [Next]_vars => IInv'
  BY SessionStep, EndStep, PrefTypesStep, ClaimStep, ErrorStep, ViewsStep, DaemonTypesStep DEF Inv
<1>3. QED BY <1>1, <1>2, PTL DEF Spec

\* Every variable of Controller has its type: the record of a refresh is a snapshot
\* when it is derived from and a view when it is published, and the loop reacts to,
\* and opens the URL of, a view.
THEOREM TypeCorrect == Spec => []TypeOK
<1> USE DEF IInv
<1>1. ASSUME IInv
      PROVE  TypeOK
  <2>1. \A a \in Actors : todo[a] = <<>> \/ \A i \in 1 .. Len(todo[a]) : todo[a][i] \in Steps
    <3>1. \A a \in Actors : todo[a] \in Seq(Steps)
      BY <1>1, ListsOfSteps DEF Inv, LockInv
    <3>2. \A l \in Seq(Steps) : \A i \in 1 .. Len(l) : l[i] \in Steps
      BY ElementOfSeq
    <3>3. QED BY <3>1, <3>2
  <2>2. session \in Sessions /\ stage \in Stages /\ args \in ArgLists /\ cargs \in ArgLists \cup {None}
        /\ restarts \in Nat /\ budget \in 0 .. MaxSurprises
    BY <1>1 DEF Inv, SessionInv, DaemonTypes, ClaimInv
  <2>3. givenUp \in BOOLEAN /\ ctxDone \in BOOLEAN /\ want \in BOOLEAN
    BY <1>1 DEF Inv, SessionInv, EndInv, DaemonTypes
  <2>4. cmdMu \in Actors \cup {None} /\ file \in Files
        /\ (applyErr = None \/ applyErr \in [by : {"set", "up"}, args : UpFlags])
        /\ sent \in UpFlags \cup {None}
        /\ (up = None \/ up \in [args : UpFlags, phase : {"sent", "waiting", "through"}])
    BY <1>1 DEF Inv, LockInv, PrefTypes
  <2>5. node.backend \in Backends /\ node.prefs \in UpFlags \cup {None} /\ node.late \in BOOLEAN
    BY <1>1 DEF Inv, PrefTypes, Nodes
  <2>6. appliedFor \in Generations /\ gen \in Generations
    BY <1>1 DEF Inv, ClaimInv, Generations
  <2>7. (status = NoStatus \/ status \in Statuses) /\ (answer = NoAnswer \/ answer \in Statuses)
        /\ view.state \in States /\ prev \in States /\ openedAuthURL \in Nat /\ loop \in PollPoints
    BY <1>1 DEF ViewTypes, IsStatus, IsView, NoAnswer
  <2>8. QED BY <2>1, <2>2, <2>3, <2>4, <2>5, <2>6, <2>7 DEF TypeOK
<1>2. QED BY <1>1, TypesInductive, PTL

\* What the menu and `minitail status` show never contradicts itself, though it
\* is put together from two halves taken at different moments and published by
\* whoever comes: never "serving" beside a rejected file or a route that waits, nor
\* a login page of a node that needs none (Derive in state.go).
THEOREM ViewsAgree == Spec => []Coherent(view)
<1>1. IInv => Coherent(view)
  BY DEF IInv, ViewTypes, IsView
<1>2. QED BY <1>1, TypesInductive, PTL
=============================================================================
