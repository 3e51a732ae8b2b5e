----------------------------- MODULE TrayProofs -----------------------------
(***************************************************************************)
(* Safety of Tray for any number of menus, any capacity of their channels  *)
(* and any bound on the events.  The argument: an actor that publishes     *)
(* holds mu until nothing is left to send, and subscribers leave only      *)
(* while nobody does; a view is current for a subscriber from the moment   *)
(* it is registered, and each new one is owed to all of them.              *)
(***************************************************************************)
EXTENDS Tray, SequenceTheorems, TLAPS

\* What is left to send is the publishing actor's.
LockInv == mu = None => left = {}

\* Commands are at one of few points, and publish what they derived, once.
TodoInv == \A a \in Actors :
    /\ todo[a] \in {<<>>, <<"poke">>, <<"publish">>, Refresh, Poll}
    /\ todo[a] = Poll => a = Run /\ loop = "wait"
    /\ mu = a => todo[a] = <<"publish">>
    /\ todo[a] = <<"publish">> /\ mu # a => held[a] \in Views

\* Run has nothing left to do once it has returned.
ReturnedInv == loop = "returned" => todo[Run] = <<>>

ExitInv == tray = "exited" => loop = "returned"

IInv ==
    /\ TypeOK /\ LockInv /\ TodoInv /\ ReturnedInv /\ ExitInv
    /\ NoSendOnClosed /\ NothingLost

-----------------------------------------------------------------------------
(* What the operators on sequences do to the newest view of a channel      *)

LEMMA LastOfAppend ==
    ASSUME NEW S, NEW s \in Seq(S), NEW x \in S
    PROVE  Append(s, x) # <<>> /\ Last(Append(s, x)) = x
BY DEF Last

LEMMA LastOfTail ==
    ASSUME NEW S, NEW s \in Seq(S), s # <<>>
    PROVE  IF Tail(s) = <<>> THEN Head(s) = Last(s) ELSE Last(Tail(s)) = Last(s)
<1>1. Len(s) \in Nat /\ Len(s) > 0
  OBVIOUS
<1>2. CASE Tail(s) = <<>>
  <2>1. Len(s) = 1
    <3> DEFINE n == Len(s)
               k == Len(Tail(s))
    <3>1. k = 0
      BY <1>2, EmptySeq
    <3>2. k = n - 1 /\ n \in Nat
      BY <1>1
    <3> HIDE DEF n, k
    <3>3. n = 1
      BY <3>1, <3>2
    <3>4. QED BY <3>3 DEF n
  <2>2. QED BY <1>2, <2>1 DEF Last
<1>3. CASE Tail(s) # <<>>
  <2>1. Len(Tail(s)) = Len(s) - 1 /\ Len(s) > 1
    BY <1>1, <1>3
  <2>2. Tail(s)[Len(Tail(s))] = s[Len(s)]
    BY <2>1
  <2>3. QED BY <1>3, <2>2 DEF Last
<1>4. QED BY <1>2, <1>3

\* The points of a command, as sequences.
LEMMA Steps ==
    /\ \A step \in {"status", "derive", "publish", "poke"} :
        /\ <<step>> \in Seq({"status", "derive", "publish", "poke"})
        /\ <<step>> # <<>> /\ Head(<<step>>) = step /\ Tail(<<step>>) = <<>>
    /\ Refresh \in Seq({"status", "derive", "publish", "poke"})
    /\ Refresh # <<>> /\ Head(Refresh) = "derive" /\ Tail(Refresh) = <<"publish">>
    /\ Poll \in Seq({"status", "derive", "publish", "poke"})
    /\ Poll # <<>> /\ Head(Poll) = "status" /\ Tail(Poll) = Refresh
    /\ <<"publish">> # <<"poke">> /\ Refresh # <<"publish">>
    /\ Poll \notin {Refresh, <<"publish">>, <<"poke">>}
BY DEF Refresh, Poll

LEMMA InitInv == Init => IInv
<1> SUFFICES ASSUME Init PROVE IInv
  OBVIOUS
<1> USE TrayAssumption DEF Init
<1>1. \A a \in Actors : todo[a] = <<>>
  OBVIOUS
<1>2. TypeOK
  <2>1. 0 \in Changes /\ 0 + 0 = 0 /\ view \in Views
    BY DEF Views, Changes
  <2>2. todo \in [Actors -> Seq({"status", "derive", "publish", "poke"})]
    OBVIOUS
  <2>3. poke \in BOOLEAN /\ ctxDone \in BOOLEAN /\ missed \in [Menus -> BOOLEAN]
    OBVIOUS
  <2>4. chan \in [Menus -> Seq(Views)] /\ \A m \in Menus : Len(chan[m]) <= Capacity
    OBVIOUS
  <2>5. QED BY <2>1, <2>2, <2>3, <2>4 DEF TypeOK
<1>3. TodoInv
  <2>1. \A a \in Actors : todo[a] # <<"publish">> /\ mu # a
    BY <1>1, Steps DEF Actors
  <2>2. QED BY <1>1, <2>1, Steps DEF TodoInv
<1>4. QED BY <1>2, <1>3 DEF IInv, LockInv, ReturnedInv, ExitInv, NoSendOnClosed, NothingLost

-----------------------------------------------------------------------------
\* The point a command is at names the steps it has yet to take.
LEMMA AtStatus ==
    ASSUME TodoInv, NEW a \in Actors, AtStep(a, "status")
    PROVE  /\ todo[a] = Poll /\ Tail(todo[a]) = Refresh /\ mu # a
           /\ a = Run /\ loop = "wait"
BY Steps DEF TodoInv, AtStep

LEMMA AtDerive ==
    ASSUME TodoInv, NEW a \in Actors, AtStep(a, "derive")
    PROVE  todo[a] = Refresh /\ Tail(todo[a]) = <<"publish">> /\ mu # a
BY Steps DEF TodoInv, AtStep

LEMMA AtPublish ==
    ASSUME TodoInv, NEW a \in Actors, AtStep(a, "publish"), mu # a
    PROVE  todo[a] = <<"publish">> /\ Tail(todo[a]) = <<>> /\ held[a] \in Views
BY Steps DEF TodoInv, AtStep

LEMMA AtPoke ==
    ASSUME TodoInv, NEW a \in Actors, AtStep(a, "poke")
    PROVE  todo[a] = <<"poke">> /\ Tail(todo[a]) = <<>> /\ mu # a
BY Steps DEF TodoInv, AtStep


\* The types, those of sequences apart.
QueueTypes ==
    /\ todo \in [Actors -> Seq({"status", "derive", "publish", "poke"})]
    /\ chan \in [Menus -> Seq(Views)]
    /\ \A m \in Menus : Len(chan[m]) <= Capacity

ViewTypes ==
    /\ daemon \in Changes /\ node \in Changes /\ daemon + node \in Changes
    /\ known \in Changes /\ view \in Views
    /\ held \in [Actors -> Views \cup {None}] /\ shown \in [Menus -> Views \cup {None}]

LockTypes == mu \in Actors \cup {None} /\ subs \in SUBSET Menus /\ left \in SUBSET Menus

FlagTypes ==
    /\ due \in {"nothing", "owed", "asked"} /\ poke \in BOOLEAN /\ missed \in [Menus -> BOOLEAN]
    /\ menu \in [Menus -> {"out", "reading", "leaving", "gone"}]
    /\ loop \in {"unready", "starting", "wait", "stopping", "returned"}
    /\ ctxDone \in BOOLEAN /\ tray \in {"up", "quitting", "exited"}

LEMMA Types == TypeOK <=> QueueTypes /\ ViewTypes /\ LockTypes /\ FlagTypes
BY DEF TypeOK, QueueTypes, ViewTypes, LockTypes, FlagTypes

LEMMA QueueStep ==
    ASSUME TypeOK, TodoInv, [Next]_vars
    PROVE  QueueTypes'
<1> USE TrayAssumption DEF QueueTypes
<1>1. QueueTypes /\ view \in Views
  BY Types DEF ViewTypes
<1>2. ASSUME NEW a \in Actors, AskStatus(a) \/ DeriveView(a) \/ PublishBegin(a) \/ Poke(a)
      PROVE  QueueTypes'
  <2>1. UNCHANGED chan /\ (UNCHANGED todo \/ Done(a))
    BY <1>2 DEF AskStatus, DeriveView, PublishBegin, Poke, subVars
  <2>2. todo[a] # <<>>
    BY <1>2 DEF AskStatus, DeriveView, PublishBegin, Poke, AtStep
  <2>3. Tail(todo[a]) \in Seq({"status", "derive", "publish", "poke"})
    BY <1>1, <2>2
  <2>4. QED BY <1>1, <2>1, <2>3 DEF Done
<1>3. ASSUME NEW a \in Actors, NEW m \in Menus, Send(a, m)
      PROVE  QueueTypes'
  <2>1. Tail(todo[a]) = <<>> /\ <<>> \in Seq({"status", "derive", "publish", "poke"})
    <3>1. todo[a] = <<"publish">>
      BY <1>3 DEF Send, TodoInv
    <3>2. QED BY <3>1, Steps, EmptySeq
  <2>2. UNCHANGED todo \/ todo' = [todo EXCEPT ![a] = Tail(todo[a])]
    BY <1>3 DEF Send, Done
  <2>3. todo' \in [Actors -> Seq({"status", "derive", "publish", "poke"})]
    BY <1>1, <2>1, <2>2
  <2>4. CASE HasRoom(m)
    <3>1. chan' = [chan EXCEPT ![m] = Append(chan[m], view)]
      BY <1>3, <2>4 DEF Send
    <3>2. Append(chan[m], view) \in Seq(Views) /\ Len(Append(chan[m], view)) = Len(chan[m]) + 1
      BY <1>1
    <3>3. Len(chan[m]) + 1 <= Capacity
      BY <1>1, <2>4 DEF HasRoom
    <3>4. QED BY <1>1, <2>3, <3>1, <3>2, <3>3
  <2>5. CASE ~HasRoom(m)
    BY <1>1, <1>3, <2>3, <2>5 DEF Send
  <2>6. QED BY <2>4, <2>5
<1>4. ASSUME NEW m \in Menus, Subscribe(m)
      PROVE  QueueTypes'
  <2>1. chan' = [chan EXCEPT ![m] = <<view>>] /\ UNCHANGED todo
    BY <1>4 DEF Subscribe, Greeting
  <2>2. <<view>> \in Seq(Views) /\ Len(<<view>>) = 1 /\ 1 <= Capacity
    BY <1>1
  <2>3. QED BY <1>1, <2>1, <2>2
<1>5. ASSUME NEW m \in Menus, Deliver(m)
      PROVE  QueueTypes'
  <2>1. chan' = [chan EXCEPT ![m] = Tail(chan[m])] /\ chan[m] # <<>> /\ UNCHANGED todo
    BY <1>5 DEF Deliver
  <2>2. Tail(chan[m]) \in Seq(Views) /\ Len(Tail(chan[m])) <= Capacity
    BY <1>1, <2>1
  <2>3. QED BY <1>1, <2>1, <2>2
<1>6. ASSUME NEW m \in Menus, Click(m)
      PROVE  QueueTypes'
  <2>1. UNCHANGED chan /\ \E steps \in {Refresh, <<"poke">>} : todo' = [todo EXCEPT ![m] = steps]
    BY <1>6 DEF Click, StartOrStop, Reauthenticate, subVars
  <2>2. Refresh \in Seq({"status", "derive", "publish", "poke"}) /\ <<"poke">> \in Seq({"status", "derive", "publish", "poke"})
    BY Steps
  <2>3. QED BY <1>1, <2>1, <2>2
<1>7. CASE Ready \/ FirstPoll \/ Tick \/ Nudged \/ RunStops
  <2>1. UNCHANGED chan /\ \E steps \in {Refresh, Poll} : todo' = [todo EXCEPT ![Run] = steps]
    BY <1>7 DEF Ready, FirstPoll, Tick, Nudged, PollOnce, RunStops, StartOrStop, subVars
  <2>2. PICK steps \in {Refresh, Poll} : todo' = [todo EXCEPT ![Run] = steps]
    BY <2>1
  <2>3. steps \in Seq({"status", "derive", "publish", "poke"})
    BY <2>2, Steps
  <2>4. QED BY <1>1, <2>1, <2>2, <2>3
<1>8. ASSUME NEW m \in Menus, Unsubscribe(m) \/ ClickQuit(m) \/ MenuSeesDone(m)
      PROVE  QueueTypes'
  <2>1. UNCHANGED <<todo, chan>>
    BY <1>8 DEF Unsubscribe, ClickQuit, MenuSeesDone, subVars
  <2>2. QED BY <1>1, <2>1
<1>9. CASE RunReturns \/ TrayQuits \/ Terminated \/ Exit \/ Cancel \/ DaemonChanges \/ NodeChanges
  <2>1. UNCHANGED <<todo, chan>>
    BY <1>9
       DEF RunReturns, TrayQuits, Terminated, Exit, Cancel, DaemonChanges, NodeChanges, subVars
  <2>2. QED BY <1>1, <2>1
<1>10. CASE Exited \/ UNCHANGED vars
  <2>1. UNCHANGED <<todo, chan>>
    BY <1>10 DEF Exited, vars, subVars
  <2>2. QED BY <1>1, <2>1
<1>11. QED
  BY <1>2, <1>3, <1>4, <1>5, <1>6, <1>7, <1>8, <1>9, <1>10 DEF Next, Command

LEMMA ViewStep ==
    ASSUME TypeOK, TodoInv, [Next]_vars
    PROVE  ViewTypes'
<1> USE TrayAssumption DEF ViewTypes
<1>1. ViewTypes /\ QueueTypes
  BY Types
<1>2. ASSUME NEW a \in Actors, AskStatus(a) \/ DeriveView(a)
      PROVE  ViewTypes'
  BY <1>1, <1>2 DEF AskStatus, DeriveView, Views, subVars
<1>3. ASSUME NEW a \in Actors, PublishBegin(a)
      PROVE  ViewTypes'
  <2>1. AtStep(a, "publish") /\ mu # a
    BY <1>3 DEF PublishBegin, Actors
  <2>2. held[a] \in Views
    BY <2>1, AtPublish
  <2>3. QED BY <1>1, <1>3, <2>2 DEF PublishBegin, envVars, subVars
<1>4. ASSUME NEW a \in Actors, Poke(a) \/ \E m \in Menus : Send(a, m)
      PROVE  ViewTypes'
  BY <1>1, <1>4 DEF Poke, Send, envVars, subVars
<1>5. ASSUME NEW m \in Menus, Deliver(m)
      PROVE  ViewTypes'
  <2>1. Head(chan[m]) \in Views
    BY <1>1, <1>5 DEF Deliver, QueueTypes
  <2>2. QED BY <1>1, <1>5, <2>1 DEF Deliver, envVars
<1>6. ASSUME NEW m \in Menus, Subscribe(m) \/ Unsubscribe(m) \/ Click(m) \/ ClickQuit(m) \/ MenuSeesDone(m)
      PROVE  ViewTypes'
  BY <1>1, <1>6 DEF Subscribe, Unsubscribe, Click, ClickQuit, MenuSeesDone, envVars, subVars
<1>7. CASE Ready \/ FirstPoll \/ Tick \/ Nudged \/ RunStops \/ RunReturns
  BY <1>1, <1>7 DEF Ready, FirstPoll, Tick, Nudged, PollOnce, RunStops, RunReturns, envVars, subVars
<1>8. CASE TrayQuits \/ Terminated \/ Exit \/ Cancel
  BY <1>1, <1>8 DEF TrayQuits, Terminated, Exit, Cancel, envVars, subVars
<1>9. CASE DaemonChanges \/ NodeChanges
  BY <1>1, <1>9 DEF DaemonChanges, NodeChanges, Changes, subVars
<1>10. CASE Exited \/ UNCHANGED vars
  BY <1>1, <1>10 DEF Exited, vars, envVars, subVars
<1>11. QED
  BY <1>2, <1>3, <1>4, <1>5, <1>6, <1>7, <1>8, <1>9, <1>10 DEF Next, Command

LEMMA LockStep ==
    ASSUME TypeOK, LockInv, NoSendOnClosed, [Next]_vars
    PROVE  LockTypes' /\ LockInv' /\ NoSendOnClosed'
<1> USE TrayAssumption DEF LockTypes, LockInv, NoSendOnClosed, Actors
<1>1. LockTypes
  BY Types
<1>2. ASSUME NEW a \in Actors, PublishBegin(a)
      PROVE  LockTypes' /\ LockInv' /\ NoSendOnClosed'
  BY <1>1, <1>2 DEF PublishBegin
<1>3. ASSUME NEW a \in Actors, NEW m \in Menus, Send(a, m)
      PROVE  LockTypes' /\ LockInv' /\ NoSendOnClosed'
  BY <1>1, <1>3 DEF Send
<1>4. ASSUME NEW m \in Menus, Subscribe(m) \/ Unsubscribe(m)
      PROVE  LockTypes' /\ LockInv' /\ NoSendOnClosed'
  BY <1>1, <1>4 DEF Subscribe, Unsubscribe, MuFree
<1>5. ASSUME NEW a \in Actors, AskStatus(a) \/ DeriveView(a) \/ Poke(a)
      PROVE  UNCHANGED <<mu, subs, left>>
  BY <1>5 DEF AskStatus, DeriveView, Poke
<1>6. ASSUME NEW m \in Menus, Deliver(m) \/ Click(m) \/ ClickQuit(m) \/ MenuSeesDone(m)
      PROVE  UNCHANGED <<mu, subs, left>>
  BY <1>6 DEF Deliver, Click, ClickQuit, MenuSeesDone
<1>7. CASE Ready \/ FirstPoll \/ Tick \/ Nudged \/ RunStops \/ RunReturns \/ TrayQuits \/ Terminated
  BY <1>1, <1>7 DEF Ready, FirstPoll, Tick, Nudged, PollOnce, RunStops, RunReturns, TrayQuits, Terminated
<1>8. CASE Exit \/ Cancel \/ DaemonChanges \/ NodeChanges
  BY <1>1, <1>8 DEF Exit, Cancel, DaemonChanges, NodeChanges
<1>9. CASE Exited \/ UNCHANGED vars
  BY <1>1, <1>9 DEF Exited, vars
<1>10. QED
  BY <1>1, <1>2, <1>3, <1>4, <1>5, <1>6, <1>7, <1>8, <1>9 DEF Next, Command

LEMMA FlagStep ==
    ASSUME TypeOK, [Next]_vars
    PROVE  FlagTypes'
<1> USE DEF FlagTypes
<1>1. FlagTypes
  BY Types
<1>2. ASSUME NEW a \in Actors, AskStatus(a) \/ DeriveView(a)
      PROVE  FlagTypes'
  BY <1>1, <1>2 DEF AskStatus, DeriveView, subVars, progVars
<1>3. ASSUME NEW a \in Actors, PublishBegin(a) \/ \E m \in Menus : Send(a, m)
      PROVE  FlagTypes'
  BY <1>1, <1>3 DEF PublishBegin, Send, envVars, subVars, progVars
<1>4. ASSUME NEW a \in Actors, Poke(a)
      PROVE  FlagTypes'
  BY <1>1, <1>4 DEF Poke, Poked, envVars, subVars, progVars
<1>5. ASSUME NEW m \in Menus, Subscribe(m) \/ Unsubscribe(m) \/ Deliver(m) \/ Click(m)
      PROVE  FlagTypes'
  BY <1>1, <1>5 DEF Subscribe, Unsubscribe, Deliver, Click, envVars, subVars, progVars
<1>6. ASSUME NEW m \in Menus, ClickQuit(m) \/ MenuSeesDone(m)
      PROVE  FlagTypes'
  BY <1>1, <1>6 DEF ClickQuit, MenuSeesDone, envVars, subVars
<1>7. CASE Ready \/ FirstPoll \/ Tick \/ Nudged \/ RunStops \/ RunReturns
  BY <1>1, <1>7 DEF Ready, FirstPoll, Tick, Nudged, PollOnce, RunStops, RunReturns, envVars, subVars
<1>8. CASE TrayQuits \/ Terminated \/ Exit \/ Cancel
  BY <1>1, <1>8 DEF TrayQuits, Terminated, Exit, Cancel, envVars, subVars
<1>9. CASE DaemonChanges \/ NodeChanges
  BY <1>1, <1>9 DEF DaemonChanges, NodeChanges, Poked, subVars, progVars
<1>10. CASE Exited \/ UNCHANGED vars
  BY <1>1, <1>10 DEF Exited, vars, envVars, subVars, progVars
<1>11. QED
  BY <1>2, <1>3, <1>4, <1>5, <1>6, <1>7, <1>8, <1>9, <1>10 DEF Next, Command

-----------------------------------------------------------------------------
LEMMA TodoStep ==
    ASSUME TypeOK, TodoInv, LockInv, [Next]_vars
    PROVE  TodoInv'
<1> USE TrayAssumption
<1>1. todo \in [Actors -> Seq({"status", "derive", "publish", "poke"})] /\ held \in [Actors -> Views \cup {None}]
      /\ [daemon |-> daemon, status |-> known] \in Views
  BY DEF TypeOK, Views
<1>0. ASSUME NEW a \in Actors, AskStatus(a)
      PROVE  TodoInv'
  <2>1. Tail(todo[a]) = Refresh /\ mu # a /\ UNCHANGED <<mu, held, loop>>
    BY <1>0, AtStatus DEF AskStatus, progVars
  <2>2. QED BY <1>0, <1>1, <2>1, Steps DEF AskStatus, Done, TodoInv
<1>2. ASSUME NEW a \in Actors, DeriveView(a)
      PROVE  TodoInv'
  <2>1. Tail(todo[a]) = <<"publish">> /\ mu # a /\ UNCHANGED <<mu, loop>>
    BY <1>2, AtDerive DEF DeriveView, progVars
  <2>2. QED BY <1>1, <1>2, <2>1, Steps DEF DeriveView, Done, TodoInv
<1>3. ASSUME NEW a \in Actors, PublishBegin(a)
      PROVE  TodoInv'
  <2>1. mu = None /\ AtStep(a, "publish") /\ UNCHANGED loop /\ \A b \in Actors : mu # b
    BY <1>3 DEF PublishBegin, Actors, progVars
  <2>2. todo[a] = <<"publish">> /\ Tail(todo[a]) = <<>>
    BY <2>1, AtPublish
  <2>3. CASE held[a] = view \/ subs = {}
    <3>1. UNCHANGED mu /\ todo' = [todo EXCEPT ![a] = <<>>] /\ held' = [held EXCEPT ![a] = None]
      BY <1>3, <2>2, <2>3 DEF PublishBegin, Done
    <3>2. QED BY <1>1, <2>1, <3>1, Steps DEF TodoInv
  <2>4. CASE ~(held[a] = view \/ subs = {})
    <3>1. mu' = a /\ UNCHANGED todo /\ held' = [held EXCEPT ![a] = None]
      BY <1>3, <2>4 DEF PublishBegin
    <3>2. QED BY <1>1, <2>1, <2>2, <3>1 DEF TodoInv
  <2>5. QED BY <2>3, <2>4
<1>4. ASSUME NEW a \in Actors, NEW m \in Menus, Send(a, m)
      PROVE  TodoInv'
  <2>1. mu = a /\ UNCHANGED <<held, loop>> /\ todo[a] = <<"publish">>
    BY <1>4 DEF Send, TodoInv, progVars
  <2>2. CASE left = {m}
    <3>1. mu' = None /\ todo' = [todo EXCEPT ![a] = <<>>]
      BY <1>4, <2>1, <2>2, Steps DEF Send, Done
    <3>2. \A b \in Actors : mu' # b
      BY <3>1 DEF Actors
    <3>3. QED BY <1>1, <2>1, <3>1, <3>2, Steps DEF TodoInv
  <2>3. CASE left # {m}
    BY <1>4, <2>1, <2>3 DEF Send, TodoInv
  <2>4. QED BY <2>2, <2>3
<1>5. ASSUME NEW a \in Actors, Poke(a)
      PROVE  TodoInv'
  <2>1. Tail(todo[a]) = <<>> /\ mu # a /\ UNCHANGED loop
    BY <1>5, AtPoke DEF Poke, progVars
  <2>2. QED BY <1>1, <1>5, <2>1, Steps DEF Poke, Done, TodoInv
<1>6. ASSUME NEW m \in Menus, Click(m)
      PROVE  TodoInv'
  <2>1. todo[m] = <<>> /\ mu # m /\ UNCHANGED <<mu, held, loop>>
    BY <1>6, Steps DEF Click, Selects, TodoInv, Actors, progVars
  <2>2. PICK steps \in {Refresh, <<"poke">>} : todo' = [todo EXCEPT ![m] = steps]
    BY <1>6 DEF Click, StartOrStop, Reauthenticate
  <2>3. QED BY <1>1, <1>6, <2>1, <2>2, Steps DEF TodoInv
<1>7. CASE Ready \/ FirstPoll \/ Tick \/ Nudged \/ RunStops
  <2>1. todo[Run] = <<>> /\ mu # Run /\ UNCHANGED <<mu, held>>
    BY <1>7, Steps
       DEF Ready, FirstPoll, Tick, Nudged, PollOnce, RunStops, LoopAt, TodoInv, Actors
  <2>2. \/ todo' = [todo EXCEPT ![Run] = Refresh]
        \/ todo' = [todo EXCEPT ![Run] = Poll] /\ loop' = "wait"
    BY <1>7 DEF Ready, FirstPoll, Tick, Nudged, PollOnce, RunStops, StartOrStop
  <2>3. \A a \in Actors \ {Run} : todo[a] # Poll
    BY DEF TodoInv
  <2>4. QED BY <1>1, <2>1, <2>2, <2>3, Steps DEF TodoInv
<1>8. ASSUME NEW m \in Menus,
             Subscribe(m) \/ Unsubscribe(m) \/ Deliver(m) \/ ClickQuit(m) \/ MenuSeesDone(m)
      PROVE  TodoInv'
  BY <1>8 DEF Subscribe, Unsubscribe, Deliver, ClickQuit, MenuSeesDone, TodoInv, progVars
<1>9. CASE TrayQuits \/ Terminated \/ Exit \/ Cancel \/ DaemonChanges \/ NodeChanges
  BY <1>9 DEF TrayQuits, Terminated, Exit, Cancel, DaemonChanges, NodeChanges, TodoInv, progVars
<1>12. CASE RunReturns
  BY <1>12, Steps DEF RunReturns, LoopAt, TodoInv
<1>10. CASE Exited \/ UNCHANGED vars
  BY <1>10 DEF Exited, vars, TodoInv, progVars
<1>11. QED
  BY <1>0, <1>2, <1>3, <1>4, <1>5, <1>6, <1>7, <1>8, <1>9, <1>10, <1>12 DEF Next, Command

-----------------------------------------------------------------------------
LEMMA LostStep ==
    ASSUME TypeOK, NothingLost, [Next]_vars
    PROVE  NothingLost'
<1> USE DEF NothingLost
<1>1. QueueTypes /\ view \in Views /\ missed \in [Menus -> BOOLEAN] /\ subs \subseteq Menus
      /\ shown \in [Menus -> Views \cup {None}] /\ left \subseteq Menus
  BY Types DEF ViewTypes, FlagTypes, LockTypes
<1>2. ASSUME NEW a \in Actors, PublishBegin(a)
      PROVE  NothingLost'
  <2>1. UNCHANGED <<subs, missed>> /\ \A m \in Menus : Newest(m)' = Newest(m)
    BY <1>2 DEF PublishBegin, subVars, Newest
  <2>2. CASE held[a] = view \/ subs = {}
    <3>1. UNCHANGED left /\ (view' = view \/ subs = {})
      BY <1>2, <2>2 DEF PublishBegin
    <3>2. QED BY <1>1, <2>1, <3>1
  <2>3. CASE ~(held[a] = view \/ subs = {})
    <3>1. left' = subs
      BY <1>2, <2>3 DEF PublishBegin
    <3>2. QED BY <2>1, <3>1
  <2>4. QED BY <2>2, <2>3
<1>3. ASSUME NEW a \in Actors, NEW m \in Menus, Send(a, m)
      PROVE  NothingLost'
  <2>1. UNCHANGED <<subs, view, shown>> /\ left' = left \ {m}
    BY <1>3 DEF Send
  <2>2. \A n \in Menus \ {m} : Newest(n)' = Newest(n) /\ missed'[n] = missed[n]
    BY <1>1, <1>3 DEF Send, Newest, QueueTypes
  <2>3. missed'[m] \/ Newest(m)' = view
    <3>1. CASE HasRoom(m)
      <4>1. chan'[m] = Append(chan[m], view)
        BY <1>1, <1>3, <3>1 DEF Send, QueueTypes
      <4>2. chan'[m] # <<>> /\ Last(chan'[m]) = view
        BY <1>1, <4>1, LastOfAppend DEF QueueTypes
      <4>3. QED BY <4>2 DEF Newest
    <3>2. CASE ~HasRoom(m)
      BY <1>1, <1>3, <3>2 DEF Send
    <3>3. QED BY <3>1, <3>2
  <2>4. QED BY <1>1, <2>1, <2>2, <2>3
<1>4. ASSUME NEW m \in Menus, Subscribe(m)
      PROVE  NothingLost'
  <2>1. UNCHANGED <<view, left, shown, missed>> /\ subs' = subs \cup {m}
        /\ chan' = [chan EXCEPT ![m] = <<view>>]
    BY <1>4 DEF Subscribe, Greeting
  <2>2. \A n \in Menus \ {m} : Newest(n)' = Newest(n)
    BY <1>1, <2>1 DEF Newest, QueueTypes
  <2>3. Newest(m)' = view
    <3>1. chan'[m] = <<view>>
      BY <1>1, <2>1 DEF QueueTypes
    <3>2. <<view>> # <<>> /\ Last(<<view>>) = view
      BY DEF Last
    <3>3. QED BY <3>1, <3>2 DEF Newest
  <2>4. QED BY <1>1, <2>1, <2>2, <2>3
<1>5. ASSUME NEW m \in Menus, Deliver(m)
      PROVE  NothingLost'
  <2>1. UNCHANGED <<view, left, subs, missed>>
    BY <1>5 DEF Deliver
  <2>2. \A n \in Menus \ {m} : Newest(n)' = Newest(n)
    BY <1>1, <1>5 DEF Deliver, Newest, QueueTypes
  <2>3. Newest(m)' = Newest(m)
    <3>1. chan[m] # <<>> /\ chan'[m] = Tail(chan[m]) /\ shown'[m] = Head(chan[m])
      BY <1>1, <1>5 DEF Deliver, QueueTypes
    <3>2. IF Tail(chan[m]) = <<>> THEN Head(chan[m]) = Last(chan[m])
          ELSE Last(Tail(chan[m])) = Last(chan[m])
      BY <1>1, <3>1, LastOfTail DEF QueueTypes
    <3>3. QED BY <3>1, <3>2 DEF Newest
  <2>4. QED BY <1>1, <2>1, <2>2, <2>3
<1>6. ASSUME NEW m \in Menus, Unsubscribe(m) \/ Click(m) \/ ClickQuit(m) \/ MenuSeesDone(m)
      PROVE  NothingLost'
  BY <1>6 DEF Unsubscribe, Click, ClickQuit, MenuSeesDone, subVars, Newest
<1>7. ASSUME NEW a \in Actors, AskStatus(a) \/ DeriveView(a) \/ Poke(a)
      PROVE  NothingLost'
  BY <1>7 DEF AskStatus, DeriveView, Poke, subVars, Newest
<1>8. CASE Ready \/ FirstPoll \/ Tick \/ Nudged \/ RunStops \/ RunReturns
  BY <1>8 DEF Ready, FirstPoll, Tick, Nudged, PollOnce, RunStops, RunReturns, subVars, Newest
<1>9. CASE TrayQuits \/ Terminated \/ Exit \/ Cancel \/ DaemonChanges \/ NodeChanges
  BY <1>9 DEF TrayQuits, Terminated, Exit, Cancel, DaemonChanges, NodeChanges, subVars, Newest
<1>10. CASE Exited \/ UNCHANGED vars
  BY <1>10 DEF Exited, vars, subVars, Newest
<1>11. QED
  BY <1>2, <1>3, <1>4, <1>5, <1>6, <1>7, <1>8, <1>9, <1>10 DEF Next, Command

\* Nobody gives Run work once it has returned.
LEMMA EndStep ==
    ASSUME TypeOK, TodoInv, ReturnedInv, ExitInv, [Next]_vars
    PROVE  ReturnedInv' /\ ExitInv'
<1> USE TrayAssumption DEF ReturnedInv, ExitInv
<1>1. todo \in [Actors -> Seq({"status", "derive", "publish", "poke"})]
  BY DEF TypeOK
<1>2. ASSUME NEW a \in Actors, Command(a)
      PROVE  ReturnedInv' /\ ExitInv'
  <2>1. UNCHANGED <<loop, tray>>
    BY <1>2 DEF Command, AskStatus, DeriveView, PublishBegin, Poke, Send, progVars
  <2>2. UNCHANGED todo \/ Done(a)
    BY <1>2 DEF Command, AskStatus, DeriveView, PublishBegin, Poke, Send
  <2>3. todo[a] # <<>>
    BY <1>2, Steps DEF Command, AskStatus, DeriveView, PublishBegin, Poke, Send, AtStep, TodoInv
  <2>4. QED BY <1>1, <2>1, <2>2, <2>3 DEF Done, Actors
<1>3. ASSUME NEW m \in Menus, Click(m)
      PROVE  ReturnedInv' /\ ExitInv'
  BY <1>1, <1>3 DEF Click, progVars, Actors
<1>4. ASSUME NEW m \in Menus,
             Subscribe(m) \/ Unsubscribe(m) \/ Deliver(m) \/ ClickQuit(m) \/ MenuSeesDone(m)
      PROVE  ReturnedInv' /\ ExitInv'
  BY <1>4 DEF Subscribe, Unsubscribe, Deliver, ClickQuit, MenuSeesDone, progVars
<1>5. CASE Ready \/ FirstPoll \/ Tick \/ Nudged \/ RunStops
  BY <1>5 DEF Ready, FirstPoll, Tick, Nudged, PollOnce, RunStops, LoopAt, Alive
<1>6. CASE RunReturns \/ TrayQuits \/ Terminated \/ Exit \/ Cancel
  BY <1>6 DEF RunReturns, LoopAt, TrayQuits, Terminated, Exit, RunIsDone, Cancel
<1>7. CASE DaemonChanges \/ NodeChanges \/ Exited \/ UNCHANGED vars
  BY <1>7 DEF DaemonChanges, NodeChanges, Exited, vars, progVars
<1>8. QED BY <1>2, <1>3, <1>4, <1>5, <1>6, <1>7 DEF Next

LEMMA Inductive == Spec => []IInv
<1>1. Init => IInv
  BY InitInv
<1>2. IInv /\ [Next]_vars => IInv'
  <2> SUFFICES ASSUME IInv, [Next]_vars PROVE IInv'
    OBVIOUS
  <2>1. TypeOK' <=> QueueTypes' /\ ViewTypes' /\ LockTypes' /\ FlagTypes'
    BY DEF TypeOK, QueueTypes, ViewTypes, LockTypes, FlagTypes
  <2>2. TypeOK'
    BY <2>1, QueueStep, ViewStep, LockStep, FlagStep DEF IInv
  <2>3. QED BY <2>2, LockStep, TodoStep, LostStep, EndStep DEF IInv
<1>3. QED BY <1>1, <1>2, PTL DEF Spec

-----------------------------------------------------------------------------
\* Type correctness: no channel ever holds more than its capacity.
THEOREM TypeCorrect == Spec => []TypeOK
<1>1. IInv => TypeOK
  BY DEF IInv
<1>2. QED BY <1>1, Inductive, PTL

\* refresh never sends on a channel that unsubscribe has closed.
THEOREM SendsAreSafe == Spec => []NoSendOnClosed
<1>1. IInv => NoSendOnClosed
  BY DEF IInv
<1>2. QED BY <1>1, Inductive, PTL

\* No subscriber is left behind: the current view is in its hands, in its
\* channel or about to be sent, unless its channel was full.
THEOREM ViewsArrive == Spec => []NothingLost
<1>1. IInv => NothingLost
  BY DEF IInv
<1>2. QED BY <1>1, Inductive, PTL

\* The process outlives Run, and with it the shutdown of tailscaled.
THEOREM ExitsLast == Spec => []ExitAfterRun
<1>1. IInv => ExitAfterRun
  BY DEF IInv, ReturnedInv, ExitInv, ExitAfterRun
<1>2. QED BY <1>1, Inductive, PTL

-----------------------------------------------------------------------------
(* What the liveness properties rest on.                                   *)

\* Whoever holds mu has a send to make, which waits for nothing (MaySend): so no
\* full channel keeps mu from being released, which QuitExits needs.
HolderSends == mu # None => left # {} /\ left \subseteq subs

\* A change that OnChange has announced is in the channel `poke`, or the poll that is
\* to see it has yet to ask for the status, and then to derive: what PokeIsHeard rests
\* on.
ChangeIsOwed ==
    /\ due = "owed" /\ loop = "wait" => poke \/ todo[Run] = Poll
    /\ due = "asked" => loop = "wait" /\ todo[Run] = Refresh

\* mu is taken with all subscribers to send to and given up with the last send; nobody
\* unsubscribes while it is held (that takes mu too).
LEMMA HolderStep ==
    ASSUME IInv, HolderSends, NoSendOnClosed', [Next]_vars
    PROVE  HolderSends'
<1> USE TrayAssumption DEF HolderSends, NoSendOnClosed
<1>1. ASSUME NEW a \in Actors, PublishBegin(a) PROVE HolderSends'
  BY <1>1 DEF PublishBegin
<1>2. ASSUME NEW a \in Actors, NEW m \in Menus, Send(a, m) PROVE HolderSends'
  BY <1>2 DEF Send
<1>3. ASSUME UNCHANGED <<mu, left>> PROVE HolderSends'
  BY <1>3
<1>4. ASSUME NEW a \in Actors, AskStatus(a) \/ DeriveView(a) \/ Poke(a) PROVE UNCHANGED <<mu, left>>
  BY <1>4 DEF AskStatus, DeriveView, Poke
<1>5. ASSUME NEW m \in Menus,
             \/ Subscribe(m) \/ Unsubscribe(m) \/ Deliver(m) \/ Click(m) \/ ClickQuit(m)
             \/ MenuSeesDone(m)
      PROVE  UNCHANGED <<mu, left>>
  BY <1>5 DEF Subscribe, Unsubscribe, Deliver, Click, ClickQuit, MenuSeesDone
<1>6. CASE Ready \/ FirstPoll \/ Tick \/ Nudged \/ RunStops \/ RunReturns
  BY <1>3, <1>6 DEF Ready, FirstPoll, Tick, Nudged, PollOnce, RunStops, RunReturns
<1>7. CASE TrayQuits \/ Terminated \/ Exit \/ Cancel
  BY <1>3, <1>7 DEF TrayQuits, Terminated, Exit, Cancel
<1>8. CASE DaemonChanges \/ NodeChanges \/ Exited \/ UNCHANGED vars
  BY <1>3, <1>8 DEF DaemonChanges, NodeChanges, Exited, vars
<1> QED BY <1>1, <1>2, <1>3, <1>4, <1>5, <1>6, <1>7, <1>8 DEF Next, Command

\* Only the loop's own derivation discharges what is owed to it: whatever it does
\* before takes the token and puts a poll in its place.
LEMMA OwedStep ==
    ASSUME IInv, ChangeIsOwed, [Next]_vars
    PROVE  ChangeIsOwed'
<1> USE TrayAssumption DEF ChangeIsOwed
<1>1. Run \in Actors /\ TodoInv /\ todo \in [Actors -> Seq({"status", "derive", "publish", "poke"})]
  BY DEF Actors, IInv, TypeOK
<1>2. ASSUME NEW a \in Actors, AskStatus(a) PROVE ChangeIsOwed'
  <2>1. a = Run /\ loop = "wait" /\ todo[Run] = Poll /\ Tail(todo[Run]) = Refresh
    BY <1>1, <1>2, AtStatus DEF AskStatus
  <2>2. todo'[Run] = Refresh /\ due # "asked" /\ UNCHANGED <<loop, poke>>
    BY <1>1, <1>2, <2>1, Steps DEF AskStatus, Done, progVars
  <2>3. due' # "owed"
    BY <1>2 DEF AskStatus
  <2> QED BY <2>1, <2>2, <2>3
<1>3. ASSUME NEW a \in Actors, DeriveView(a) PROVE ChangeIsOwed'
  <2>1. UNCHANGED <<loop, poke>>
    BY <1>3 DEF DeriveView, progVars
  <2>2. CASE a = Run
    <3>1. todo[Run] # Poll
      BY <1>1, <1>3, <2>2, AtDerive, Steps DEF DeriveView
    <3>2. due' # "asked" /\ (due' = "owed" => due = "owed")
      BY <1>3, <2>2 DEF DeriveView
    <3> QED BY <2>1, <3>1, <3>2
  <2>3. CASE a # Run
    BY <1>1, <1>3, <2>1, <2>3 DEF DeriveView, Done
  <2> QED BY <2>2, <2>3
<1>4. ASSUME NEW a \in Actors, PublishBegin(a) \/ \E m \in Menus : Send(a, m)
      PROVE  ChangeIsOwed'
  <2>1. todo[a] = <<"publish">>
    BY <1>1, <1>4, Steps DEF PublishBegin, Send, AtStep, TodoInv
  <2>2. UNCHANGED todo \/ Done(a)
    BY <1>4 DEF PublishBegin, Send
  <2>3. todo'[Run] = todo[Run] \/ todo[Run] \notin {Refresh, Poll}
    BY <1>1, <2>1, <2>2, Steps DEF Done
  <2>4. UNCHANGED <<loop, poke, due>>
    BY <1>4 DEF PublishBegin, Send, progVars, envVars
  <2> QED BY <2>3, <2>4
<1>5. ASSUME NEW a \in Actors, Poke(a) PROVE ChangeIsOwed'
  <2>1. todo'[Run] = todo[Run] \/ todo[Run] \notin {Refresh, Poll}
    BY <1>1, <1>5, AtPoke, Steps DEF Poke, Done
  <2>2. poke' /\ UNCHANGED <<loop, due>>
    BY <1>5 DEF Poke, Poked, progVars, envVars
  <2> QED BY <2>1, <2>2
<1>6. ASSUME NEW m \in Menus, Click(m) PROVE ChangeIsOwed'
  <2>1. todo'[Run] = todo[Run]
    BY <1>1, <1>6 DEF Click
  <2>2. UNCHANGED <<loop, poke, due>>
    BY <1>6 DEF Click, progVars, envVars
  <2> QED BY <2>1, <2>2
<1>7. ASSUME NEW m \in Menus,
             Subscribe(m) \/ Unsubscribe(m) \/ Deliver(m) \/ ClickQuit(m) \/ MenuSeesDone(m)
      PROVE  ChangeIsOwed'
  BY <1>7 DEF Subscribe, Unsubscribe, Deliver, ClickQuit, MenuSeesDone, progVars, envVars
<1>8. CASE FirstPoll \/ Tick \/ Nudged
  <2>1. todo'[Run] = Poll /\ UNCHANGED due
    BY <1>1, <1>8 DEF FirstPoll, Tick, Nudged, PollOnce, envVars
  <2>2. due # "asked"
    BY <1>8, Steps DEF FirstPoll, Tick, Nudged, LoopAt
  <2> QED BY <2>1, <2>2
<1>9. CASE Ready \/ RunStops \/ RunReturns
  <2>1. due # "asked" /\ UNCHANGED due
    BY <1>9, Steps DEF Ready, RunStops, RunReturns, LoopAt, envVars
  <2>2. loop' # "wait"
    BY <1>9 DEF Ready, RunStops, RunReturns
  <2> QED BY <2>1, <2>2
<1>10. CASE TrayQuits \/ Terminated \/ Exit \/ Cancel
  BY <1>10 DEF TrayQuits, Terminated, Exit, Cancel, envVars
<1>11. CASE DaemonChanges \/ NodeChanges
  BY <1>11 DEF DaemonChanges, NodeChanges, Poked, progVars
<1>12. CASE Exited \/ UNCHANGED vars
  BY <1>12 DEF Exited, vars, envVars, progVars
<1> QED
  BY <1>2, <1>3, <1>4, <1>5, <1>6, <1>7, <1>8, <1>9, <1>10, <1>11, <1>12 DEF Next, Command

\* Controller.mu is held by no one without a send to make to a menu that is
\* registered, however full the channels (refresh in controller.go).
THEOREM MuIsReleased == Spec => []HolderSends
<1>1. Init => HolderSends
  BY DEF Init, HolderSends
<1>2. IInv => NoSendOnClosed
  BY DEF IInv
<1>3. IInv /\ HolderSends /\ NoSendOnClosed' /\ [Next]_vars => HolderSends'
  BY HolderStep
<1> QED BY <1>1, <1>2, <1>3, Inductive, PTL DEF Spec

\* No Poke is lost, wherever in its poll the loop is when OnChange calls it, and
\* though the channel holds only one.
THEOREM PokesAreKept == Spec => []ChangeIsOwed
<1>1. Init => ChangeIsOwed
  BY DEF Init, ChangeIsOwed
<1>2. IInv /\ ChangeIsOwed /\ [Next]_vars => ChangeIsOwed'
  BY OwedStep
<1> QED BY <1>1, <1>2, Inductive, PTL DEF Spec
=============================================================================
