-------------------------- MODULE ControllerProofs --------------------------
(***************************************************************************)
(* Safety of Controller for any number of clients, any files, any events   *)
(* and any bound on them.  The argument: cmdMu admits one command at a     *)
(* time, so all that counts of the commands under way is the rest of that  *)
(* one; that rest says where want, the session and the flags stand; and a  *)
(* result of `set` counts only if nothing has reset the claim it ran       *)
(* under.                                                                  *)
(***************************************************************************)
EXTENDS Controller, SequenceTheorems, TLAPS

\* The steps of the commands from each point on.
Derives == <<"derive", "publish">>
Publishes == <<"publish">>
Forgets == <<"forget">>
Starts == <<"start">> \o Refresh
Stops == <<"stop", "join">> \o Refresh
Joins == <<"join">> \o Refresh
SetsArgs == <<"setargs">> \o <<>> \o Refresh
Restarts == <<"setargs">> \o <<"stop", "join", "start">> \o Refresh
StopsToStart == <<"stop", "join", "start">> \o Refresh
JoinsToStart == <<"join", "start">> \o Refresh

Refreshing == {Refresh, Derives, Publishes}
Unlocked == {<<>>, Forgets} \cup Refreshing
Locked == Refreshing \cup {Starts, Stops, Joins, SetsArgs, Restarts, StopsToStart, JoinsToStart}

\* What is left of the command that holds cmdMu.
Rest == IF cmdMu = None THEN <<>> ELSE todo[cmdMu]

\* Without cmdMu an actor refreshes, or forgets what it knew, and no more.
LockInv ==
    /\ todo \in [Actors -> Unlocked \cup Locked]
    /\ cmdMu \in Actors \cup {None}
    /\ \A a \in Actors : IF cmdMu = a THEN todo[a] \in Locked ELSE todo[a] \in Unlocked

\* The session follows want, once the command under way is through.
SessionInv ==
    /\ want \in BOOLEAN /\ session \in Sessions
    /\ Rest \in {<<>>, SetsArgs} \cup Refreshing => session = IF want THEN "up" ELSE "down"
    /\ Rest = Starts => want /\ session = "down"
    /\ Rest = Stops => ~want /\ session = "up"
    /\ Rest = Joins => ~want /\ session = "stopping"
    /\ Rest \in {Restarts, StopsToStart} => want /\ session = "up"
    /\ Rest = JoinsToStart => want /\ session = "stopping"

\* A restart is due: the flags in use need not be those of the file.
RestartDue == Rest \in {Restarts, StopsToStart, JoinsToStart}

FlagsInv ==
    /\ session = "down" => stage = "none"
    /\ Rest \notin {SetsArgs, Restarts} => args = file.td
    /\ Rest = SetsArgs => session = "down" \/ args = file.td
    /\ ~RestartDue /\ stage \in {"prepared", "spawned", "running"} => cargs = file.td

\* Run returns behind a Stop, after which its context admits no other child.
EndInv ==
    /\ ctxDone \in BOOLEAN
    /\ loop = "returned" =>
        ctxDone /\ (stage = "none" \/ (cmdMu = Run /\ Rest \in {Stops, Joins}))

-----------------------------------------------------------------------------
(* Commands *)

\* Operators on sequences, closed to the provers where only the lemmas about
\* them count.
First(l) == Head(l)
After(l) == Tail(l)
Size(l) == Len(l)

LEMMA Cons ==
    ASSUME NEW step \in Steps
    PROVE  /\ Len(<<step>> \o Refresh) = 4 /\ Head(<<step>> \o Refresh) = step
           /\ Tail(<<step>> \o Refresh) = Refresh
<1> DEFINE t == Tail(<<step>> \o Refresh)
<1>1. t \in Seq(Steps) /\ Len(t) = 3
  BY DEF Refresh, Steps
<1>2. t[1] = "input" /\ t[2] = "derive" /\ t[3] = "publish"
  BY DEF Refresh
<1>3. Len(<<step>> \o Refresh) = 4 /\ Head(<<step>> \o Refresh) = step
  BY DEF Refresh
<1> HIDE DEF t
<1>4. t = Refresh
  <2>1. Refresh \in Seq(Steps) /\ Len(Refresh) = 3
    BY DEF Refresh, Steps
  <2>2. \A i \in 1..3 : t[i] = Refresh[i]
    BY <1>2 DEF Refresh
  <2>3. QED BY <1>1, <2>1, <2>2, SeqEqual
<1>5. QED BY <1>3, <1>4 DEF t

LEMMA Lists ==
    /\ Size(Refresh) = 3 /\ First(Refresh) = "input" /\ After(Refresh) = Derives
    /\ Size(Derives) = 2 /\ First(Derives) = "derive" /\ After(Derives) = Publishes
    /\ Size(Publishes) = 1 /\ First(Publishes) = "publish" /\ After(Publishes) = <<>>
    /\ Size(Forgets) = 1 /\ First(Forgets) = "forget" /\ After(Forgets) = <<>>
    /\ Size(Starts) = 4 /\ First(Starts) = "start" /\ After(Starts) = Refresh
    /\ Size(Stops) = 5 /\ First(Stops) = "stop" /\ After(Stops) = Joins
    /\ Size(Joins) = 4 /\ First(Joins) = "join" /\ After(Joins) = Refresh
    /\ Size(SetsArgs) = 4 /\ First(SetsArgs) = "setargs" /\ After(SetsArgs) = Refresh
    /\ Size(Restarts) = 7 /\ First(Restarts) = "setargs" /\ After(Restarts) = StopsToStart
    /\ Size(StopsToStart) = 6 /\ First(StopsToStart) = "stop" /\ After(StopsToStart) = JoinsToStart
    /\ Size(JoinsToStart) = 5 /\ First(JoinsToStart) = "join" /\ After(JoinsToStart) = Starts
    /\ Size(<<>>) = 0 /\ <<>> \o Refresh = Refresh
<1>1. Size(Refresh) = 3 /\ First(Refresh) = "input" /\ After(Refresh) = Derives
  BY DEF First, After, Size, Refresh, Derives
<1>2. Size(Derives) = 2 /\ First(Derives) = "derive" /\ After(Derives) = Publishes
  BY DEF First, After, Size, Derives, Publishes, Refresh
<1>3. Size(Publishes) = 1 /\ First(Publishes) = "publish" /\ After(Publishes) = <<>>
  BY DEF First, After, Size, Publishes, Refresh
<1>4. Size(Forgets) = 1 /\ First(Forgets) = "forget" /\ After(Forgets) = <<>>
  BY DEF First, After, Size, Forgets, Refresh
<1>5. Size(Starts) = 4 /\ First(Starts) = "start" /\ After(Starts) = Refresh
  BY Cons DEF First, After, Size, Starts, Steps
<1>6. Size(Stops) = 5 /\ First(Stops) = "stop" /\ After(Stops) = Joins
  BY DEF First, After, Size, Stops, Joins, Refresh
<1>7. Size(Joins) = 4 /\ First(Joins) = "join" /\ After(Joins) = Refresh
  BY Cons DEF First, After, Size, Joins, Steps
<1>8. Size(SetsArgs) = 4 /\ First(SetsArgs) = "setargs" /\ After(SetsArgs) = Refresh
  <2>1. SetsArgs = <<"setargs">> \o Refresh
    <3>1. Refresh \in Seq(Steps) /\ <<"setargs">> \in Seq(Steps)
      BY DEF Refresh, Steps
    <3>2. QED BY <3>1, ConcatEmptySeq DEF SetsArgs
  <2>2. QED BY <2>1, Cons DEF First, After, Size, Steps
<1>9. Size(Restarts) = 7 /\ First(Restarts) = "setargs" /\ After(Restarts) = StopsToStart
  BY DEF First, After, Size, Restarts, StopsToStart, Refresh
<1>10. Size(StopsToStart) = 6 /\ First(StopsToStart) = "stop" /\ After(StopsToStart) = JoinsToStart
  BY DEF First, After, Size, StopsToStart, JoinsToStart, Refresh
<1>11. Size(JoinsToStart) = 5 /\ First(JoinsToStart) = "join" /\ After(JoinsToStart) = Starts
  BY DEF First, After, Size, JoinsToStart, Starts, Refresh
<1>12. Size(<<>>) = 0 /\ <<>> \o Refresh = Refresh
  BY DEF First, After, Size, Refresh
<1>13. QED BY <1>1, <1>2, <1>3, <1>4, <1>5, <1>6, <1>7, <1>8, <1>9, <1>10, <1>11, <1>12

LEMMA NoneApart == None \notin Actors
BY ControllerAssumption DEF Actors

\* Commands end, and only by their last step.
LEMMA Ends ==
    \A l \in Locked : l # <<>> /\ IF l = Publishes THEN Size(l) = 1 /\ After(l) = <<>>
                                  ELSE Size(l) # 1 /\ After(l) \in Locked
<1>1. \A l \in Locked : Size(l) # 0
  BY Lists DEF Locked, Refreshing
<1>2. <<>> \notin Locked
  BY <1>1, Lists
<1>3. ASSUME NEW l \in Locked, l # Publishes
      PROVE  Size(l) # 1 /\ After(l) \in Locked
  BY <1>3, Lists DEF Locked, Refreshing
<1>4. QED BY <1>2, <1>3, Lists

\* A step takes the first of the rest, under cmdMu; one without cmdMu leaves the
\* rest of the command that holds it alone.
LEMMA StepTaken ==
    ASSUME LockInv, NEW a \in Actors, NEW name, Step(a, name)
    PROVE  /\ LockInv'
           /\ IF cmdMu = a
              THEN /\ Rest \in Locked /\ First(Rest) = name /\ Rest' = After(Rest)
                   /\ Rest' # <<>> => cmdMu' = a
              ELSE /\ Rest' = Rest /\ UNCHANGED cmdMu
                   /\ name \in {"input", "derive", "publish", "forget"}
<1> USE Lists, NoneApart
<1>1. CASE cmdMu = a
  <2>1. todo[a] \in Locked /\ First(todo[a]) = name /\ Rest = todo[a]
    BY <1>1 DEF LockInv, Step, Rest, First
  <2>2. After(todo[a]) \in Locked \cup {<<>>} /\ (After(todo[a]) = <<>> <=> Size(todo[a]) = 1)
    BY <2>1, Ends
  <2>3. todo' = [todo EXCEPT ![a] = After(todo[a])]
        /\ cmdMu' = IF Size(todo[a]) = 1 THEN None ELSE a
    BY <1>1 DEF Step, After, Size
  <2>4. todo'[a] = After(todo[a]) /\ \A b \in Actors \ {a} : todo'[b] = todo[b]
    BY <2>3 DEF LockInv
  <2>5. Rest' = After(Rest)
    BY <2>1, <2>2, <2>3, <2>4 DEF Rest
  <2>6. LockInv'
    BY <1>1, <2>2, <2>3, <2>4 DEF LockInv, Unlocked
  <2>7. Rest' # <<>> => cmdMu' = a
    BY <2>1, <2>2, <2>3, <2>5
  <2>8. QED BY <1>1, <2>1, <2>5, <2>6, <2>7
<1>2. CASE cmdMu # a
  <2>1. todo[a] \in Unlocked \ {<<>>} /\ First(todo[a]) = name
    BY <1>2 DEF LockInv, Step, First
  <2>2. After(todo[a]) \in Unlocked /\ name \in {"input", "derive", "publish", "forget"}
    BY <2>1 DEF Unlocked, Refreshing
  <2>3. todo' = [todo EXCEPT ![a] = After(todo[a])] /\ cmdMu' = cmdMu
    BY <1>2 DEF Step, After, Size
  <2>4. todo'[a] = After(todo[a]) /\ \A b \in Actors \ {a} : todo'[b] = todo[b]
    BY <2>3 DEF LockInv
  <2>5. Rest' = Rest
    BY <1>2, <2>3, <2>4 DEF Rest, LockInv
  <2>6. LockInv'
    BY <1>2, <2>2, <2>3, <2>4 DEF LockInv
  <2>7. QED BY <1>2, <2>2, <2>3, <2>5, <2>6
<1>3. QED BY <1>1, <1>2

LEMMA Begun ==
    ASSUME LockInv, NEW a \in Actors, MayCommand(a), NEW steps \in Locked, Begin(a, steps)
    PROVE  LockInv' /\ Rest = <<>> /\ Rest' = steps /\ cmdMu' = a
BY NoneApart DEF LockInv, MayCommand, Begin, Rest, Unlocked

\* Without cmdMu an actor turns to a refresh, or to forgetting.
LEMMA BegunUnlocked ==
    ASSUME LockInv, NEW a \in Actors, todo[a] = <<>>, NEW steps \in Unlocked,
           todo' = [todo EXCEPT ![a] = steps], UNCHANGED cmdMu
    PROVE  LockInv' /\ Rest' = Rest
<1>1. cmdMu # a
  BY Ends DEF LockInv
<1>2. QED BY <1>1, NoneApart DEF LockInv, Rest

\* The lists the commands begin with.
LEMMA Commands ==
    /\ (IF want THEN <<>> ELSE <<"start">>) \o Refresh = IF want THEN Refresh ELSE Starts
    /\ (IF want THEN <<"stop", "join">> ELSE <<>>) \o Refresh = IF want THEN Stops ELSE Refresh
    /\ \A f \in Files :
        <<"setargs">> \o (IF NeedsRestart(f) THEN <<"stop", "join", "start">> ELSE <<>>) \o Refresh
            = IF NeedsRestart(f) THEN Restarts ELSE SetsArgs
BY Lists DEF Starts, Stops, SetsArgs, Restarts

\* Which command takes a step of its own.
LEMMA Kinds ==
    /\ \A l \in Locked :
        /\ First(l) = "setargs" => l \in {SetsArgs, Restarts}
        /\ First(l) = "start" => l = Starts
        /\ First(l) = "stop" => l \in {Stops, StopsToStart}
        /\ First(l) = "join" => l \in {Joins, JoinsToStart}
        /\ First(l) \in {"input", "derive", "publish"} =>
            l \in Refreshing /\ After(l) \in Refreshing \cup {<<>>}
        /\ First(l) # "forget"
    /\ \A l \in Refreshing \cup {<<>>} :
        l \notin {SetsArgs, Restarts, Starts, Stops, Joins, StopsToStart, JoinsToStart}
    /\ SetsArgs \notin {Restarts, Starts, Stops, Joins, StopsToStart, JoinsToStart}
    /\ Restarts \notin {Starts, Stops, Joins, StopsToStart, JoinsToStart}
    /\ Starts \notin {Stops, Joins, StopsToStart, JoinsToStart}
    /\ Stops \notin {Joins, StopsToStart, JoinsToStart}
    /\ Joins \notin {StopsToStart, JoinsToStart} /\ StopsToStart # JoinsToStart
<1>1. \A l \in Refreshing \cup {<<>>} : Size(l) <= 3
  BY Lists DEF Refreshing
<1>2. QED BY <1>1, Lists DEF Locked, Refreshing

\* A step that leaves the daemon, want and the file alone, and no command but a
\* refresh further than it was.
Calm ==
    /\ UNCHANGED <<dvars, file, want>>
    /\ \/ Rest' = Rest /\ UNCHANGED cmdMu
       \/ Rest \in Refreshing /\ Rest' \in Refreshing \cup {<<>>}

LEMMA Moves ==
    ASSUME LockInv, [Next]_vars
    PROVE  /\ LockInv'
           /\ \/ Calm \/ Quit \/ ChildProgress
              \/ \E a \in Actors :
                  \/ StartBegin(a) \/ StopBegin(a) \/ ReloadBegin(a)
                  \/ SetArgsStep(a) \/ DaemonStart(a) \/ DaemonStop(a) \/ DaemonStopped(a)
<1>1. ASSUME UNCHANGED cmdVars
      PROVE  LockInv' /\ Rest' = Rest /\ UNCHANGED cmdMu
  BY <1>1 DEF cmdVars, LockInv, Rest
<1>2. ASSUME NEW a \in Actors, StartBegin(a) \/ StopBegin(a) \/ ReloadBegin(a)
      PROVE  LockInv'
  <2>1. MayCommand(a) /\ \E steps \in Locked : Begin(a, steps)
    BY <1>2, Commands DEF StartBegin, StopBegin, ReloadBegin, Locked, Refreshing
  <2>2. QED BY <2>1, Begun
<1>3. ASSUME NEW a \in Actors, ReauthBegin(a)
      PROVE  LockInv' /\ Calm
  <2>1. todo[a] = <<>> /\ todo' = [todo EXCEPT ![a] = Forgets] /\ UNCHANGED cmdMu
    BY <1>3 DEF ReauthBegin, Forgets
  <2>2. Forgets \in Unlocked
    BY DEF Unlocked
  <2>3. LockInv' /\ Rest' = Rest
    BY <2>1, <2>2, BegunUnlocked
  <2>4. QED BY <1>3, <2>1, <2>3 DEF ReauthBegin, Calm, cvars
<1>4. ASSUME NEW a \in Actors, TakeInput(a) \/ DeriveView(a) \/ Publish(a) \/ Forget(a)
      PROVE  LockInv' /\ Calm
  <2>1. PICK name \in {"input", "derive", "publish", "forget"} : Step(a, name)
    BY <1>4 DEF TakeInput, DeriveView, Publish, Forget
  <2>2. LockInv' /\ \/ Rest' = Rest /\ UNCHANGED cmdMu
                    \/ Rest \in Refreshing /\ Rest' \in Refreshing \cup {<<>>}
    BY <2>1, StepTaken, Kinds
  <2>3. UNCHANGED <<dvars, file, want>>
    BY <1>4 DEF TakeInput, DeriveView, Publish, Forget, cvars
  <2>4. QED BY <2>2, <2>3 DEF Calm
<1>5. ASSUME NEW a \in Actors, SetArgsStep(a) \/ DaemonStart(a) \/ DaemonStop(a) \/ DaemonStopped(a)
      PROVE  LockInv'
  <2>1. PICK name \in {"setargs", "start", "stop", "join"} : Step(a, name)
    BY <1>5 DEF SetArgsStep, DaemonStart, DaemonStop, DaemonStopped
  <2>2. QED BY <2>1, StepTaken
<1>6. CASE BeginRefresh
  <2>1. todo[Run] = <<>> /\ todo' = [todo EXCEPT ![Run] = Refresh] /\ UNCHANGED cmdMu
    BY <1>6 DEF BeginRefresh, At
  <2>2. Refresh \in Unlocked /\ Run \in Actors
    BY DEF Unlocked, Refreshing, Actors
  <2>3. LockInv' /\ Rest' = Rest
    BY <2>1, <2>2, BegunUnlocked
  <2>4. QED BY <1>6, <2>1, <2>3 DEF BeginRefresh, Calm, cvars
<1>7. CASE ReadWant \/ ReadRunning \/ QueryStatus \/ StoreStatus \/ ReactNothing \/ StartLogin \/ OpenURL
  <2>1. UNCHANGED <<cmdVars, dvars, file, want>>
    BY <1>7 DEF ReadWant, ReadRunning, QueryStatus, StoreStatus, ReactNothing, StartLogin, OpenURL, cvars
  <2>2. QED BY <1>1, <2>1 DEF Calm
<1>8. CASE ReadGeneration \/ ClaimGeneration \/ ApplySucceeds \/ ApplyFails \/ StoreResult \/ Tick
  <2>1. UNCHANGED <<cmdVars, dvars, file, want>>
    BY <1>8 DEF ReadGeneration, ClaimGeneration, ApplySucceeds, ApplyFails, StoreResult, Tick, cvars
  <2>2. QED BY <1>1, <2>1 DEF Calm
<1>9. CASE UpLands \/ PageOffered \/ UpSucceeds \/ UpFails
  <2>1. UNCHANGED <<cmdVars, dvars, file, want>>
    BY <1>9 DEF UpLands, PageOffered, UpSucceeds, UpFails, cvars
  <2>2. QED BY <1>1, <2>1 DEF Calm
<1>10. CASE LoginCompletes \/ KeyExpires \/ BroughtDown \/ AdminApproves
  <2>1. UNCHANGED <<cmdVars, dvars, file, want>>
    BY <1>10 DEF LoginCompletes, KeyExpires, BroughtDown, AdminApproves, NodeBecomes, cvars
  <2>2. QED BY <1>1, <2>1 DEF Calm
<1>11. CASE Exited \/ UNCHANGED vars
  <2>1. UNCHANGED <<cmdVars, dvars, file, want>>
    BY <1>11 DEF Exited, vars, cvars
  <2>2. QED BY <1>1, <2>1 DEF Calm
<1>12. CASE ChildProgress \/ Quit
  BY <1>1, <1>12 DEF ChildProgress, Quit
<1>13. CASE RunStarts \/ RunEnds
  BY <1>2, <1>13 DEF RunStarts, RunEnds, Actors
<1>14. ASSUME NEW a \in Clients, ClientCommand(a)
       PROVE  LockInv' /\ (Calm \/ StartBegin(a) \/ StopBegin(a) \/ ReloadBegin(a)) /\ a \in Actors
  BY <1>2, <1>3, <1>14 DEF ClientCommand, Actors
<1>15. ASSUME NEW a \in Actors, CommandStep(a)
       PROVE  LockInv' /\ (Calm \/ SetArgsStep(a) \/ DaemonStart(a) \/ DaemonStop(a) \/ DaemonStopped(a))
  BY <1>4, <1>5, <1>15 DEF CommandStep
<1>16. CASE PollStep
  BY <1>6, <1>7, <1>8, <1>16 DEF PollStep
<1>17. Run \in Actors
  BY DEF Actors
<1>18. QED
  BY <1>9, <1>10, <1>11, <1>12, <1>13, <1>14, <1>15, <1>16, <1>17 DEF Next, RunStarts, RunEnds

-----------------------------------------------------------------------------
(* The session *)

LEMMA CalmStep ==
    ASSUME SessionInv, FlagsInv, Calm
    PROVE  SessionInv' /\ FlagsInv'
<1>1. UNCHANGED <<session, stage, args, cargs, file, want>>
  BY DEF Calm, dvars
<1>2. CASE Rest' = Rest
  BY <1>1, <1>2 DEF SessionInv, FlagsInv, RestartDue
<1>3. CASE Rest \in Refreshing /\ Rest' \in Refreshing \cup {<<>>}
  BY <1>1, <1>3, Kinds DEF SessionInv, FlagsInv, RestartDue
<1>4. QED BY <1>2, <1>3 DEF Calm

LEMMA StartBegins ==
    ASSUME LockInv, NEW a \in Actors, StartBegin(a)
    PROVE  Rest = <<>> /\ Rest' = IF want THEN Refresh ELSE Starts
<1> DEFINE steps == IF want THEN Refresh ELSE Starts
<1>1. MayCommand(a) /\ Begin(a, steps)
  BY Commands DEF StartBegin
<1>2. steps \in Locked
  BY DEF Locked, Refreshing
<1> HIDE DEF steps
<1>3. Rest = <<>> /\ Rest' = steps
  BY <1>1, <1>2, Begun
<1>4. QED BY <1>3 DEF steps

LEMMA StopBegins ==
    ASSUME LockInv, NEW a \in Actors, StopBegin(a)
    PROVE  Rest = <<>> /\ Rest' = IF want THEN Stops ELSE Refresh
<1> DEFINE steps == IF want THEN Stops ELSE Refresh
<1>1. MayCommand(a) /\ Begin(a, steps)
  BY Commands DEF StopBegin
<1>2. steps \in Locked
  BY DEF Locked, Refreshing
<1> HIDE DEF steps
<1>3. Rest = <<>> /\ Rest' = steps
  BY <1>1, <1>2, Begun
<1>4. QED BY <1>3 DEF steps

LEMMA ReloadBegins ==
    ASSUME LockInv, NEW a \in Actors, ReloadBegin(a)
    PROVE  Rest = <<>> /\ \E f \in Files :
               file' = f /\ Rest' = IF NeedsRestart(f) THEN Restarts ELSE SetsArgs
<1> DEFINE steps(f) == IF NeedsRestart(f) THEN Restarts ELSE SetsArgs
<1>1. PICK f \in Files :
        file' = f /\ Begin(a, <<"setargs">> \o
          (IF NeedsRestart(f) THEN <<"stop", "join", "start">> ELSE <<>>) \o Refresh)
  BY DEF ReloadBegin
<1>2. MayCommand(a) /\ Begin(a, steps(f))
  BY <1>1, Commands DEF ReloadBegin
<1>3. steps(f) \in Locked
  BY DEF Locked
<1> HIDE DEF steps
<1>4. Rest = <<>> /\ Rest' = steps(f)
  BY <1>2, <1>3, Begun
<1>5. QED BY <1>1, <1>4 DEF steps

LEMMA BeginStep ==
    ASSUME LockInv, SessionInv, FlagsInv, NEW a \in Actors,
           StartBegin(a) \/ StopBegin(a) \/ ReloadBegin(a)
    PROVE  SessionInv' /\ FlagsInv'
<1> USE Kinds DEF SessionInv, FlagsInv, RestartDue
<1>1. MayCommand(a) /\ UNCHANGED <<session, stage, args, cargs>>
  BY DEF StartBegin, StopBegin, ReloadBegin, dvars
<1>2. Refresh \in Refreshing
  BY DEF Refreshing
<1>3. CASE StartBegin(a)
  <2>1. Rest = <<>> /\ Rest' = IF want THEN Refresh ELSE Starts
    BY <1>3, StartBegins
  <2>2. want' = TRUE /\ UNCHANGED file
    BY <1>3 DEF StartBegin
  <2>3. QED BY <1>1, <1>2, <2>1, <2>2
<1>4. CASE StopBegin(a)
  <2>1. Rest = <<>> /\ Rest' = IF want THEN Stops ELSE Refresh
    BY <1>4, StopBegins
  <2>2. want' = FALSE /\ UNCHANGED file
    BY <1>4 DEF StopBegin
  <2>3. QED BY <1>1, <1>2, <2>1, <2>2
<1>5. CASE ReloadBegin(a)
  <2>1. PICK f \in Files :
          file' = f /\ Rest' = IF NeedsRestart(f) THEN Restarts ELSE SetsArgs
    BY <1>5, ReloadBegins
  <2>2. Rest = <<>>
    BY <1>5, ReloadBegins
  <2>3. UNCHANGED want
    BY <1>5 DEF ReloadBegin
  <2>4. CASE NeedsRestart(f)
    <3>1. Rest' = Restarts /\ want
      BY <2>1, <2>4 DEF NeedsRestart
    <3>2. QED BY <1>1, <2>2, <2>3, <3>1
  <2>5. CASE ~NeedsRestart(f)
    <3>1. Rest' = SetsArgs
      BY <2>1, <2>5
    <3>2. session = "down" \/ file'.td = file.td
      BY <2>1, <2>2, <2>5 DEF NeedsRestart
    <3>3. SessionInv'
      BY <1>1, <2>2, <2>3, <3>1
    <3>4. FlagsInv'
      BY <1>1, <2>2, <3>1, <3>2
    <3>5. QED BY <3>3, <3>4
  <2>6. QED BY <2>4, <2>5
<1>6. QED BY <1>3, <1>4, <1>5

\* The calls into the daemon find the session as the command left it.
LEMMA DaemonCallStep ==
    ASSUME LockInv, SessionInv, FlagsInv, NEW a \in Actors,
           SetArgsStep(a) \/ DaemonStart(a) \/ DaemonStop(a) \/ DaemonStopped(a)
    PROVE  SessionInv' /\ FlagsInv'
<1> USE Kinds DEF SessionInv, FlagsInv, RestartDue
<1>1. UNCHANGED <<want, file>>
  BY DEF SetArgsStep, DaemonStart, DaemonStop, DaemonStopped, cvars
<1>2. ASSUME NEW name \in {"setargs", "start", "stop", "join"}, Step(a, name)
      PROVE  Rest \in Locked /\ First(Rest) = name /\ Rest' = After(Rest)
  BY <1>2, StepTaken
<1>3. Refresh \in Refreshing
  BY DEF Refreshing
<1>4. CASE SetArgsStep(a)
  <2>1. Rest \in {SetsArgs, Restarts} /\ Rest' = After(Rest)
    BY <1>2, <1>4 DEF SetArgsStep
  <2>2. args' = file.td /\ UNCHANGED <<session, stage, cargs>>
    BY <1>4 DEF SetArgsStep, SetDaemonArgs
  <2>3. CASE Rest = SetsArgs
    <3>1. Rest' = Refresh
      BY <2>1, <2>3, Lists
    <3>2. QED BY <1>1, <1>3, <2>2, <2>3, <3>1
  <2>4. CASE Rest = Restarts
    <3>1. Rest' = StopsToStart
      BY <2>1, <2>4, Lists
    <3>2. QED BY <1>1, <2>2, <2>4, <3>1
  <2>5. QED BY <2>1, <2>3, <2>4
<1>5. CASE DaemonStart(a)
  <2>1. Rest = Starts /\ Rest' = Refresh
    BY <1>2, <1>5, Lists DEF DaemonStart
  <2>2. session' = "up" /\ UNCHANGED <<stage, args, cargs>>
    BY <1>5, <2>1 DEF DaemonStart, StartSession
  <2>3. QED BY <1>1, <1>3, <2>1, <2>2 DEF Sessions
<1>6. CASE DaemonStop(a)
  <2>1. Rest \in {Stops, StopsToStart} /\ Rest' = After(Rest)
    BY <1>2, <1>6 DEF DaemonStop
  <2>2. session' = "stopping" /\ UNCHANGED <<stage, args, cargs>>
    BY <1>6, <2>1 DEF DaemonStop, BeginStop
  <2>3. Rest' = IF Rest = Stops THEN Joins ELSE JoinsToStart
    BY <2>1, Lists
  <2>4. QED BY <1>1, <2>1, <2>2, <2>3 DEF Sessions
<1>7. CASE DaemonStopped(a)
  <2>1. Rest \in {Joins, JoinsToStart} /\ Rest' = After(Rest)
    BY <1>2, <1>7 DEF DaemonStopped
  <2>2. session' = "down" /\ stage = "none" /\ UNCHANGED <<stage, args, cargs>>
    BY <1>7 DEF DaemonStopped, EndStop
  <2>3. Rest' = IF Rest = Joins THEN Refresh ELSE Starts
    BY <2>1, Lists
  <2>4. QED BY <1>1, <1>3, <2>1, <2>2, <2>3 DEF Sessions
<1>8. QED BY <1>4, <1>5, <1>6, <1>7

\* A child is prepared only in a session, where the arguments are the file's
\* unless a restart is due.
LEMMA ChildStepKeeps ==
    ASSUME LockInv, SessionInv, FlagsInv, ChildProgress \/ Quit
    PROVE  SessionInv' /\ FlagsInv'
<1>1. UNCHANGED <<want, file, session, args>> /\ Rest' = Rest
  BY DEF ChildProgress, Quit, CancelCtx, Attempt, Prepare, Spawn, SpawnFails, Announce, Reaped,
         Count, Abandon, cvars, cmdVars, Rest
<1>2. SessionInv'
  BY <1>1 DEF SessionInv
<1>3. ASSUME ~RestartDue, session # "down"
      PROVE  args = file.td
  BY <1>3 DEF FlagsInv, RestartDue
<1>4. CASE Quit
  BY <1>1, <1>2, <1>4 DEF Quit, CancelCtx, FlagsInv, RestartDue
<1>5. CASE Attempt \/ SpawnFails \/ Reaped \/ Count \/ Abandon
  BY <1>1, <1>2, <1>5 DEF Attempt, SpawnFails, Reaped, Count, Abandon, FlagsInv, RestartDue
<1>6. CASE Prepare
  BY <1>1, <1>2, <1>3, <1>6 DEF Prepare, FlagsInv, RestartDue
<1>7. CASE Spawn \/ Announce
  BY <1>1, <1>2, <1>7 DEF Spawn, Announce, FlagsInv, RestartDue
<1>8. QED BY <1>4, <1>5, <1>6, <1>7 DEF ChildProgress

LEMMA SessionStep ==
    ASSUME LockInv, SessionInv, FlagsInv, [Next]_vars
    PROVE  LockInv' /\ SessionInv' /\ FlagsInv'
BY Moves, CalmStep, BeginStep, DaemonCallStep, ChildStepKeeps

-----------------------------------------------------------------------------
(* The end of Run *)

LEMMA OnlyRunEnds ==
    ASSUME [Next]_vars, loop' = "returned", ~RunEnds
    PROVE  loop = "returned"
<1>1. ASSUME NEW a \in Actors, CommandStep(a)
      PROVE  UNCHANGED loop
  BY <1>1 DEF CommandStep, Forget, SetArgsStep, DaemonStart, DaemonStop, DaemonStopped, TakeInput,
              DeriveView, Publish, loopVars
<1>2. ASSUME NEW a \in Clients, ClientCommand(a)
      PROVE  UNCHANGED loop
  BY <1>2 DEF ClientCommand, loopVars
<1>3. CASE RunStarts
  BY <1>3 DEF RunStarts
<1>4. CASE PollStep
  BY <1>4 DEF PollStep, ReadWant, ReadRunning, QueryStatus, StoreStatus, BeginRefresh, ReactNothing,
              StartLogin, OpenURL, ReadGeneration, ClaimGeneration, ApplySucceeds, ApplyFails,
              StoreResult, Tick, PollEnds, At
<1>5. CASE UpLands \/ PageOffered \/ UpSucceeds \/ UpFails \/ ChildProgress \/ Quit
  BY <1>5 DEF UpLands, PageOffered, UpSucceeds, UpFails, ChildProgress, Quit, loopVars
<1>6. CASE LoginCompletes \/ KeyExpires \/ BroughtDown \/ AdminApproves
  BY <1>6 DEF LoginCompletes, KeyExpires, BroughtDown, AdminApproves, NodeBecomes, loopVars
<1>7. CASE Exited \/ UNCHANGED vars
  BY <1>7 DEF Exited, vars, loopVars
<1>8. QED BY <1>1, <1>2, <1>3, <1>4, <1>5, <1>6, <1>7 DEF Next

\* Once the context is done, a daemon without a child stays so.
LEMMA NoChildReturns ==
    ASSUME ctxDone, stage = "none", ChildProgress \/ Quit
    PROVE  UNCHANGED <<stage, ctxDone>>
BY DEF ChildProgress, Quit, CancelCtx, Attempt, Prepare, Spawn, SpawnFails, Announce, Reaped, Count,
       Abandon

LEMMA EndStep ==
    ASSUME LockInv, SessionInv, FlagsInv, EndInv, [Next]_vars
    PROVE  EndInv'
<1> USE DEF EndInv
<1>1. ctxDone' \in BOOLEAN /\ (ctxDone => ctxDone')
  <2>1. CASE Calm \/ ChildProgress \/ Quit
    BY <2>1 DEF Calm, dvars, ChildProgress, Quit, CancelCtx, Attempt, Prepare, Spawn, SpawnFails,
                Announce, Reaped, Count, Abandon
  <2>2. ASSUME NEW a \in Actors,
               \/ StartBegin(a) \/ StopBegin(a) \/ ReloadBegin(a)
               \/ SetArgsStep(a) \/ DaemonStart(a) \/ DaemonStop(a) \/ DaemonStopped(a)
        PROVE  UNCHANGED ctxDone
    BY <2>2 DEF StartBegin, StopBegin, ReloadBegin, SetArgsStep, DaemonStart, DaemonStop,
                DaemonStopped, SetDaemonArgs, StartSession, BeginStop, EndStop, dvars
  <2>3. QED BY <2>1, <2>2, Moves
<1>2. CASE RunEnds
  <2>1. ctxDone /\ StopBegin(Run) /\ UNCHANGED stage /\ Run \in Actors
    BY <1>2 DEF RunEnds, StopBegin, dvars, Actors
  <2>2. Rest = <<>> /\ Rest' = IF want THEN Stops ELSE Refresh
    BY <2>1, StopBegins
  <2>3. cmdMu' = Run
    BY <2>1 DEF StopBegin, Begin
  <2>4. ~want => stage = "none"
    BY <2>2 DEF SessionInv, FlagsInv
  <2>5. QED BY <1>1, <2>1, <2>2, <2>3, <2>4
<1>3. ASSUME ~RunEnds, loop' = "returned"
      PROVE  stage' = "none" \/ (cmdMu' = Run /\ Rest' \in {Stops, Joins})
  <2>1. ctxDone /\ (stage = "none" \/ (cmdMu = Run /\ Rest \in {Stops, Joins}))
    BY <1>3, OnlyRunEnds
  <2>2. CASE Calm
    BY <2>1, <2>2, Kinds DEF Calm, dvars
  <2>3. CASE ChildProgress \/ Quit
    <3>1. UNCHANGED <<cmdMu, Rest>>
      BY <2>3 DEF ChildProgress, Quit, cmdVars, Rest
    <3>2. QED BY <2>1, <2>3, <3>1, NoChildReturns
  <2>4. ASSUME NEW a \in Actors, StartBegin(a) \/ StopBegin(a) \/ ReloadBegin(a)
        PROVE  stage' = "none"
    <3>1. cmdMu = None /\ UNCHANGED stage
      BY <2>4 DEF StartBegin, StopBegin, ReloadBegin, MayCommand, dvars
    <3>2. QED BY <2>1, <3>1, NoneApart DEF Actors
  <2>5. ASSUME NEW a \in Actors, SetArgsStep(a) \/ DaemonStart(a)
        PROVE  stage' = "none"
    <3>1. PICK name \in {"setargs", "start"} : Step(a, name)
      BY <2>5 DEF SetArgsStep, DaemonStart
    <3>2. Rest \in {SetsArgs, Restarts, Starts}
      BY <3>1, StepTaken, Kinds
    <3>3. UNCHANGED stage
      BY <2>5 DEF SetArgsStep, DaemonStart, SetDaemonArgs, StartSession, dvars
    <3>4. QED BY <2>1, <3>2, <3>3, Kinds
  <2>6. ASSUME NEW a \in Actors, DaemonStop(a), stage # "none"
        PROVE  cmdMu' = Run /\ Rest' = Joins
    <3>1. Step(a, "stop")
      BY <2>6 DEF DaemonStop
    <3>2. cmdMu = a /\ Rest' = After(Rest) /\ (Rest' # <<>> => cmdMu' = a) /\ Rest \in Locked
          /\ First(Rest) = "stop"
      BY <3>1, StepTaken
    <3>3. Rest = Stops /\ cmdMu = Run
      BY <2>1, <2>6, <3>2, Kinds
    <3>4. Rest' = Joins
      BY <3>2, <3>3, Lists
    <3>5. Joins # <<>>
      BY Kinds
    <3>6. QED BY <3>2, <3>3, <3>4, <3>5
  <2>7. ASSUME NEW a \in Actors, DaemonStop(a), stage = "none"
        PROVE  stage' = "none"
    BY <2>7 DEF DaemonStop, BeginStop, dvars
  <2>8. ASSUME NEW a \in Actors, DaemonStopped(a)
        PROVE  stage' = "none"
    BY <2>8 DEF DaemonStopped, EndStop
  <2>9. QED BY <2>2, <2>3, <2>4, <2>5, <2>6, <2>7, <2>8, Moves
<1>4. loop' = "returned" => ctxDone'
  BY <1>1, OnlyRunEnds DEF RunEnds
<1>5. QED BY <1>1, <1>2, <1>3, <1>4

-----------------------------------------------------------------------------
(* The preferences *)

Applying == {"set", "applied", "failed"}

Nodes == [backend : Backends, prefs : UpFlags \cup {None}, late : BOOLEAN, url : Nat, logins : Nat,
          approved : SUBSET UNION {f.adv : f \in Files}]

PrefTypes ==
    /\ file \in Files
    /\ applyErr = None \/ applyErr \in [by : {"set", "up"}, args : UpFlags]
    /\ sent \in UpFlags \cup {None} /\ (loop \in Applying => sent \in UpFlags)
    /\ up = None \/ up \in [args : UpFlags, phase : {"sent", "waiting", "through"}]
    /\ node \in Nodes

\* A claim is for a generation there was; one still held by the `set` under way
\* is for the flags that were sent, and these are the file's.
ClaimInv ==
    /\ restarts \in Nat /\ appliedFor \in 0..restarts \cup {Never}
    /\ gen \in 0..restarts \cup {Never}
    /\ loop \in Applying \cup {"claim"} => gen # Never
    /\ loop \in Applying => appliedFor \in {gen, Never}
    /\ loop \in Applying /\ appliedFor = gen => sent = file.up

\* The node's flags are the file's, or an `up` that was overtaken has set them.
Current == node.prefs = file.up \/ node.late

\* An actor has logged the node out and has yet to forget what was applied.
Forgetting == \E a \in Actors : todo[a] = Forgets

\* What a claim is worth, once `set` has succeeded and after.
AppliedInv ==
    /\ loop = "applied" /\ appliedFor = gen => Current \/ Forgetting
    /\ want /\ ~ctxDone /\ appliedFor = restarts /\ loop \notin Applying => Current \/ Forgetting

\* The loop stays at its point in applying preferences, or is at none.
LoopAside ==
    \/ UNCHANGED <<loop, gen, sent>>
    \/ /\ {loop, loop'} \cap (Applying \cup {"claim"}) = {}
       /\ gen' \in {gen, Never} /\ sent' \in {sent, None}

\* A step that touches neither the flags, nor what is known of them, nor the node.
Aside ==
    /\ UNCHANGED <<file, want, prefVars, up, node>> /\ LoopAside
    /\ restarts' \in {restarts, restarts + 1} /\ (ctxDone => ctxDone')

\* What leaves the daemon's counters and context alone.
Still == UNCHANGED <<restarts, ctxDone>> /\ LoopAside

PrefMoves(a) ==
    \/ Still /\ (StartBegin(a) \/ StopBegin(a) \/ ReloadBegin(a) \/ ReauthBegin(a) \/ Forget(a))
    \/ Still /\ (StartLogin \/ UpLands \/ PageOffered \/ UpSucceeds \/ UpFails)
    \/ Still /\ (LoginCompletes \/ KeyExpires \/ BroughtDown \/ AdminApproves)
    \/ ReadGeneration \/ ClaimGeneration \/ ApplySucceeds \/ ApplyFails \/ StoreResult

LEMMA AsideMoves ==
    ASSUME [Next]_vars
    PROVE  Aside \/ \E a \in Actors : PrefMoves(a)
<1> USE DEF LoopAside, Applying
<1>1. Run \in Actors /\ Clients \subseteq Actors
  BY DEF Actors
<1>2. CASE RunStarts
  <2>1. StartBegin(Run) /\ Still
    BY <1>2 DEF RunStarts, StartBegin, Still, dvars
  <2>2. QED BY <1>1, <2>1 DEF PrefMoves
<1>3. CASE RunEnds
  <2>1. StopBegin(Run) /\ Still
    BY <1>3 DEF RunEnds, StopBegin, Still, At, dvars
  <2>2. QED BY <1>1, <2>1 DEF PrefMoves
<1>4. ASSUME NEW a \in Clients, ClientCommand(a)
      PROVE  \E b \in Actors : PrefMoves(b)
  <2>1. Still /\ (StartBegin(a) \/ StopBegin(a) \/ ReloadBegin(a) \/ ReauthBegin(a))
    BY <1>4 DEF ClientCommand, StartBegin, StopBegin, ReloadBegin, ReauthBegin, Still, dvars, loopVars
  <2>2. QED BY <1>1, <2>1 DEF PrefMoves
<1>5. ASSUME NEW a \in Actors, Forget(a)
      PROVE  PrefMoves(a)
  BY <1>5 DEF Forget, PrefMoves, Still, dvars, loopVars
<1>6. ASSUME NEW a \in Actors, CommandStep(a), ~Forget(a)
      PROVE  Aside
  <2>1. CASE SetArgsStep(a) \/ DaemonStart(a) \/ DaemonStop(a) \/ DaemonStopped(a)
    BY <2>1 DEF SetArgsStep, DaemonStart, DaemonStop, DaemonStopped, SetDaemonArgs, StartSession,
                BeginStop, EndStop, Aside, dvars, cvars, prefVars, loopVars
  <2>2. CASE TakeInput(a) \/ DeriveView(a) \/ Publish(a)
    BY <2>2 DEF TakeInput, DeriveView, Publish, Aside, dvars, cvars, prefVars, loopVars
  <2>3. QED BY <1>6, <2>1, <2>2 DEF CommandStep
<1>7. CASE ReadWant \/ ReadRunning \/ QueryStatus \/ StoreStatus \/ BeginRefresh \/ Tick
  BY <1>7 DEF ReadWant, ReadRunning, QueryStatus, StoreStatus, BeginRefresh, Tick, At, Aside, dvars,
              cvars, prefVars
<1>8. CASE ReactNothing \/ OpenURL
  BY <1>8 DEF ReactNothing, OpenURL, PollEnds, At, Aside, dvars, cvars, prefVars
<1>9. CASE StartLogin
  <2>1. Still
    BY <1>9 DEF StartLogin, PollEnds, At, Still, dvars
  <2>2. QED BY <1>1, <1>9, <2>1 DEF PrefMoves
<1>10. CASE ReadGeneration \/ ClaimGeneration \/ ApplySucceeds \/ ApplyFails \/ StoreResult
  BY <1>1, <1>10 DEF PrefMoves
<1>11. CASE UpLands \/ PageOffered \/ UpSucceeds \/ UpFails
  <2>1. Still
    BY <1>11 DEF UpLands, PageOffered, UpSucceeds, UpFails, Still, dvars, loopVars
  <2>2. QED BY <1>1, <1>11, <2>1 DEF PrefMoves
<1>12. CASE LoginCompletes \/ KeyExpires \/ BroughtDown \/ AdminApproves
  <2>1. Still
    BY <1>12 DEF LoginCompletes, KeyExpires, BroughtDown, AdminApproves, NodeBecomes, Still, dvars,
                 loopVars
  <2>2. QED BY <1>1, <1>12, <2>1 DEF PrefMoves
<1>13. CASE ChildProgress \/ Quit
  BY <1>13 DEF ChildProgress, Quit, CancelCtx, Attempt, Prepare, Spawn, SpawnFails, Announce, Reaped,
               Count, Abandon, Aside, cvars, prefVars, loopVars
<1>14. CASE Exited \/ UNCHANGED vars
  BY <1>14 DEF Exited, vars, Aside, dvars, cvars, prefVars, loopVars
<1>15. QED
  BY <1>2, <1>3, <1>4, <1>5, <1>6, <1>7, <1>8, <1>9, <1>10, <1>11, <1>12, <1>13, <1>14
     DEF Next, PollStep

LEMMA NodeFields ==
    ASSUME node \in Nodes, NEW b \in Backends, NEW u \in Nat
    PROVE  /\ [node EXCEPT !.backend = b] \in Nodes
           /\ [node EXCEPT !.backend = b, !.url = u] \in Nodes
           /\ [node EXCEPT !.backend = b, !.prefs = None, !.late = FALSE, !.url = u] \in Nodes
BY DEF Nodes

\* What the CLI's two ways of setting the flags make of a node.
LEMMA FlagsSet ==
    ASSUME node \in Nodes, NEW flags \in UpFlags, NEW late \in BOOLEAN
    PROVE  /\ [node EXCEPT !.prefs = flags, !.late = late] \in Nodes
           /\ [node EXCEPT !.prefs = flags, !.late = late].prefs = flags
           /\ [node EXCEPT !.prefs = flags, !.late = late].late = late
BY DEF Nodes

LEMMA PrefTypesStep ==
    ASSUME PrefTypes, [Next]_vars
    PROVE  PrefTypes'
<1> USE DEF PrefTypes, Applying
<1>1. CASE Aside
  BY <1>1 DEF Aside, LoopAside, prefVars
<1>2. ASSUME NEW a \in Actors, PrefMoves(a)
      PROVE  PrefTypes'
  <2>1. file.up \in UpFlags
    BY DEF UpFlags
  <2>2. CASE Still /\ (StartBegin(a) \/ StopBegin(a) \/ Forget(a))
    BY <2>2 DEF Still, LoopAside, StartBegin, StopBegin, Forget
  <2>3. CASE Still /\ ReloadBegin(a)
    BY <2>3 DEF Still, LoopAside, ReloadBegin
  <2>4. CASE Still /\ (ReauthBegin(a) \/ PageOffered \/ LoginCompletes)
    <3>1. UNCHANGED <<file, applyErr>>
      BY <2>4 DEF ReauthBegin, PageOffered, LoginCompletes, cvars, prefVars
    <3>2. up' = up \/ (up # None /\ up' = [up EXCEPT !.phase = "through"])
      BY <2>4 DEF ReauthBegin, PageOffered, LoginCompletes
    <3>3. node' \in Nodes
      <4>1. "NeedsLogin" \in Backends /\ "Running" \in Backends /\ NoURL \in Nat
        BY DEF Backends, NoURL
      <4>2. CASE PageOffered
        <5>1. node.logins + 1 \in Nat
          BY DEF Nodes
        <5>2. node' = [node EXCEPT !.logins = node.logins + 1, !.url = node.logins + 1]
          BY <4>2 DEF PageOffered
        <5>3. QED BY <5>1, <5>2 DEF Nodes
      <4>3. CASE ReauthBegin(a)
        BY <4>1, <4>3, NodeFields DEF ReauthBegin
      <4>4. CASE LoginCompletes
        BY <4>1, <4>4, NodeFields DEF LoginCompletes
      <4>5. QED BY <2>4, <4>2, <4>3, <4>4
    <3>4. QED BY <2>4, <3>1, <3>2, <3>3 DEF Still, LoopAside
  <2>5. CASE Still /\ (KeyExpires \/ BroughtDown \/ AdminApproves)
    <3>1. UNCHANGED <<file, applyErr, up>>
      BY <2>5 DEF KeyExpires, BroughtDown, AdminApproves, NodeBecomes, cvars, prefVars
    <3>2. CASE KeyExpires \/ BroughtDown
      <4>1. node' \in Nodes
        <5>1. "NeedsLogin" \in Backends /\ "Stopped" \in Backends /\ NoURL \in Nat
          BY DEF Backends, NoURL
        <5>2. CASE KeyExpires
          BY <5>1, <5>2, NodeFields DEF KeyExpires, NodeBecomes
        <5>3. CASE BroughtDown
          BY <5>1, <5>3, NodeFields DEF BroughtDown, NodeBecomes
        <5>4. QED BY <3>2, <5>2, <5>3
      <4>2. QED BY <2>5, <3>1, <4>1 DEF Still, LoopAside
    <3>3. CASE AdminApproves
      <4>1. PICK r \in Advertised : node' = [node EXCEPT !.approved = @ \cup {r}]
        BY <3>3 DEF AdminApproves, NodeBecomes
      <4>2. r \in UNION {f.adv : f \in Files}
        BY <4>1 DEF Advertised
      <4>3. node' \in Nodes
        BY <4>1, <4>2 DEF Nodes
      <4>4. QED BY <2>5, <3>1, <4>3 DEF Still, LoopAside
    <3>4. QED BY <2>5, <3>2, <3>3
  <2>6. CASE Still /\ StartLogin
    BY <2>1, <2>6 DEF Still, LoopAside, StartLogin, cvars, prefVars
  <2>7. CASE Still /\ UpLands
    <3>1. UNCHANGED <<file, applyErr>> /\ up \in [args : UpFlags, phase : {"sent", "waiting", "through"}]
      BY <2>7 DEF UpLands, cvars, prefVars
    <3>2. up' \in [args : UpFlags, phase : {"sent", "waiting", "through"}]
      BY <2>7, <3>1 DEF UpLands
    <3> DEFINE late == up.args # file.up
               back == IF node.backend = "Stopped" THEN "Running" ELSE node.backend
    <3>3. node' = [[node EXCEPT !.prefs = up.args, !.late = late] EXCEPT !.backend = back]
      BY <2>7 DEF UpLands, Nodes
    <3>4. back \in Backends /\ late \in BOOLEAN
      BY DEF Nodes, Backends
    <3> HIDE DEF late, back
    <3>5. [node EXCEPT !.prefs = up.args, !.late = late] \in Nodes
      BY <3>1, <3>4, FlagsSet
    <3>6. node' \in Nodes
      BY <3>3, <3>4, <3>5 DEF Nodes
    <3>7. QED BY <2>7, <3>1, <3>2, <3>6 DEF Still, LoopAside
  <2>8. CASE Still /\ (UpSucceeds \/ UpFails)
    <3>1. UNCHANGED <<file, node>> /\ up' = None /\ up # None
      BY <2>8 DEF UpSucceeds, UpFails
    <3>2. applyErr' \in {None, applyErr} \/ applyErr' = [by |-> "up", args |-> up.args]
      BY <2>8 DEF UpSucceeds, UpFails
    <3>3. applyErr' = None \/ applyErr' \in [by : {"set", "up"}, args : UpFlags]
      BY <3>1, <3>2
    <3>4. QED BY <2>8, <3>1, <3>3 DEF Still, LoopAside
  <2>9. CASE ReadGeneration \/ ClaimGeneration
    BY <2>1, <2>9 DEF ReadGeneration, ClaimGeneration, PollEnds, At, cvars, prefVars
  <2>10. CASE ApplySucceeds \/ ApplyFails
    <3>1. UNCHANGED <<file, applyErr, sent, up>> /\ loop \in Applying
      BY <2>10 DEF ApplySucceeds, ApplyFails, At, cvars, prefVars
    <3>2. node' = node \/ node' = [node EXCEPT !.prefs = sent, !.late = FALSE]
      BY <2>10 DEF ApplySucceeds, ApplyFails
    <3>3. node' \in Nodes
      BY <3>1, <3>2, FlagsSet
    <3>4. QED BY <3>1, <3>3
  <2>11. CASE StoreResult
    BY <2>11 DEF StoreResult, PollEnds, At, prefVars
  <2>12. QED
    BY <1>2, <2>2, <2>3, <2>4, <2>5, <2>6, <2>7, <2>8, <2>9, <2>10, <2>11 DEF PrefMoves
<1>3. QED BY <1>1, <1>2, AsideMoves

LEMMA ClaimStep ==
    ASSUME ClaimInv, [Next]_vars
    PROVE  ClaimInv'
<1> USE DEF ClaimInv, Applying, Never
<1>1. CASE Aside
  <2>1. UNCHANGED <<file, appliedFor>> /\ gen' \in {gen, Never}
    BY <1>1 DEF Aside, LoopAside, prefVars
  <2>2. restarts' \in Nat /\ \A g \in 0..restarts : g \in 0..restarts'
    BY <1>1 DEF Aside
  <2>3. appliedFor' \in 0..restarts' \cup {Never} /\ gen' \in 0..restarts' \cup {Never}
    BY <2>1, <2>2
  <2>4. QED BY <1>1, <2>1, <2>2, <2>3 DEF Aside, LoopAside
<1>2. ASSUME NEW a \in Actors, PrefMoves(a)
      PROVE  ClaimInv'
  <2>1. CASE Still /\ (StartBegin(a) \/ ReloadBegin(a) \/ Forget(a))
    BY <2>1 DEF Still, LoopAside, StartBegin, ReloadBegin, Forget
  <2>2. CASE Still /\ (StopBegin(a) \/ ReauthBegin(a) \/ StartLogin)
    BY <2>2 DEF Still, LoopAside, StopBegin, ReauthBegin, StartLogin, cvars, prefVars
  <2>3. CASE Still /\ (UpLands \/ PageOffered \/ UpSucceeds \/ UpFails)
    BY <2>3 DEF Still, LoopAside, UpLands, PageOffered, UpSucceeds, UpFails, cvars, prefVars
  <2>4. CASE Still /\ (LoginCompletes \/ KeyExpires \/ BroughtDown \/ AdminApproves)
    BY <2>4 DEF Still, LoopAside, LoginCompletes, KeyExpires, BroughtDown, AdminApproves, NodeBecomes,
                cvars, prefVars
  <2>5. CASE ReadGeneration
    BY <2>5 DEF ReadGeneration, At, dvars, cvars, prefVars
  <2>6. CASE ClaimGeneration
    BY <2>6 DEF ClaimGeneration, PollEnds, At, dvars
  <2>7. CASE ApplySucceeds \/ ApplyFails
    BY <2>7 DEF ApplySucceeds, ApplyFails, At, dvars, cvars, prefVars
  <2>8. CASE StoreResult
    BY <2>8 DEF StoreResult, PollEnds, dvars, prefVars
  <2>9. QED BY <1>2, <2>1, <2>2, <2>3, <2>4, <2>5, <2>6, <2>7, <2>8 DEF PrefMoves
<1>3. QED BY <1>1, <1>2, AsideMoves

LEMMA ErrorStep ==
    ASSUME PrefTypes, ClaimInv, SetErrorIsCurrent, [Next]_vars
    PROVE  SetErrorIsCurrent'
<1> USE DEF SetErrorIsCurrent
<1>1. CASE Aside
  BY <1>1 DEF Aside, prefVars
<1>2. ASSUME NEW a \in Actors, PrefMoves(a)
      PROVE  SetErrorIsCurrent'
  <2>1. CASE StartBegin(a) \/ StopBegin(a) \/ ReloadBegin(a) \/ Forget(a) \/ UpSucceeds
    BY <2>1 DEF StartBegin, StopBegin, ReloadBegin, Forget, UpSucceeds
  <2>2. CASE ReauthBegin(a) \/ StartLogin \/ UpLands \/ PageOffered \/ ReadGeneration
    BY <2>2 DEF ReauthBegin, StartLogin, UpLands, PageOffered, ReadGeneration, cvars, prefVars
  <2>3. CASE LoginCompletes \/ KeyExpires \/ BroughtDown \/ AdminApproves
    BY <2>3 DEF LoginCompletes, KeyExpires, BroughtDown, AdminApproves, NodeBecomes, cvars, prefVars
  <2>4. CASE ClaimGeneration \/ ApplySucceeds \/ ApplyFails
    BY <2>4 DEF ClaimGeneration, ApplySucceeds, ApplyFails, cvars, prefVars
  <2>5. CASE UpFails
    <3>1. UNCHANGED <<want, file>>
      BY <2>5 DEF UpFails
    <3>2. applyErr' = applyErr \/ applyErr' = [by |-> "up", args |-> up.args]
      BY <2>5 DEF UpFails
    <3>3. QED BY <3>1, <3>2
  <2>6. CASE StoreResult
    <3>1. UNCHANGED <<want, file>>
      BY <2>6 DEF StoreResult
    <3>2. CASE ResultIsStale
      BY <2>6, <3>1, <3>2 DEF StoreResult, prefVars
    <3>3. CASE ~ResultIsStale
      <4>1. want /\ sent = file.up
        BY <2>6, <3>3 DEF StoreResult, ResultIsStale, At, ClaimInv, Applying
      <4>2. applyErr' = None \/ applyErr' = [by |-> "set", args |-> sent]
        BY <2>6, <3>3 DEF StoreResult
      <4>3. QED BY <3>1, <4>1, <4>2
    <3>4. QED BY <3>2, <3>3
  <2>7. QED BY <1>2, <2>1, <2>2, <2>3, <2>4, <2>5, <2>6 DEF PrefMoves
<1>3. QED BY <1>1, <1>2, AsideMoves

\* A logout is not over until what was applied has been forgotten.
LEMMA ForgettingLasts ==
    ASSUME LockInv, Forgetting, [Next]_vars
    PROVE  Forgetting' \/ \E a \in Actors : Forget(a)
<1>1. PICK c \in Actors : todo[c] = Forgets
  BY DEF Forgetting
<1>2. Forgets # <<>> /\ First(Forgets) = "forget" /\ Run \in Actors /\ Clients \subseteq Actors
  BY Lists DEF Actors
<1>3. ASSUME NEW a \in Actors, todo[a] = <<>>, NEW steps, todo' = [todo EXCEPT ![a] = steps]
      PROVE  todo'[c] = Forgets
  BY <1>1, <1>2, <1>3 DEF LockInv
<1>4. ASSUME NEW a \in Actors, NEW name, name # "forget", Step(a, name)
      PROVE  todo'[c] = Forgets
  <2>1. todo' = [todo EXCEPT ![a] = Tail(@)] /\ First(todo[a]) = name
    BY <1>4 DEF Step, First
  <2>2. QED BY <1>1, <1>2, <1>4, <2>1 DEF LockInv
<1>5. ASSUME UNCHANGED todo
      PROVE  todo'[c] = Forgets
  BY <1>1, <1>5
<1>6. ASSUME NEW a \in Actors, StartBegin(a) \/ StopBegin(a) \/ ReloadBegin(a) \/ ReauthBegin(a)
      PROVE  todo'[c] = Forgets
  BY <1>3, <1>6 DEF StartBegin, StopBegin, ReloadBegin, ReauthBegin, MayCommand, Begin
<1>7. ASSUME NEW a \in Actors, CommandStep(a), ~Forget(a)
      PROVE  todo'[c] = Forgets
  <2>1. \E name \in {"setargs", "start", "stop", "join", "input", "derive", "publish"} : Step(a, name)
    BY <1>7 DEF CommandStep, SetArgsStep, DaemonStart, DaemonStop, DaemonStopped, TakeInput, DeriveView,
                Publish
  <2>2. QED BY <1>4, <2>1
<1>8. ASSUME PollStep
      PROVE  todo'[c] = Forgets
  <2>1. CASE BeginRefresh
    BY <1>2, <1>3, <2>1 DEF BeginRefresh, At
  <2>2. CASE ~BeginRefresh
    BY <1>5, <1>8, <2>2 DEF PollStep, ReadWant, ReadRunning, QueryStatus, StoreStatus, ReactNothing,
       StartLogin, OpenURL, ReadGeneration, ClaimGeneration, ApplySucceeds, ApplyFails, StoreResult,
       Tick, cmdVars
  <2>3. QED BY <2>1, <2>2
<1>9. ASSUME \/ UpLands \/ PageOffered \/ UpSucceeds \/ UpFails \/ ChildProgress \/ Quit
             \/ LoginCompletes \/ KeyExpires \/ BroughtDown \/ AdminApproves
             \/ Exited \/ UNCHANGED vars
      PROVE  todo'[c] = Forgets
  BY <1>5, <1>9 DEF UpLands, PageOffered, UpSucceeds, UpFails, ChildProgress, Quit, LoginCompletes,
     KeyExpires, BroughtDown, AdminApproves, NodeBecomes, Exited, cmdVars, vars
<1>10. ASSUME RunStarts \/ RunEnds
       PROVE  todo'[c] = Forgets
  BY <1>2, <1>6, <1>10 DEF RunStarts, RunEnds
<1>11. ASSUME NEW a \in Clients, ClientCommand(a)
       PROVE  todo'[c] = Forgets
  BY <1>2, <1>6, <1>11 DEF ClientCommand
<1>12. QED
  BY <1>7, <1>8, <1>9, <1>10, <1>11, <1>2 DEF Next, Forgetting

LEMMA AppliedStep ==
    ASSUME LockInv, PrefTypes, ClaimInv, AppliedInv, [Next]_vars
    PROVE  AppliedInv'
<1> USE DEF AppliedInv, Current, Applying
<1>1. Never \notin 0..restarts /\ Never \notin 0..restarts' /\ Never # restarts
      /\ (gen # Never => gen \in 0..restarts)
  BY ClaimStep DEF Never, ClaimInv
<1>2. SUFFICES ASSUME ~Forgetting', ~Forgetting \/ \E a \in Actors : Forget(a)
               PROVE  AppliedInv'
  BY ForgettingLasts
<1>3. ASSUME NEW a \in Actors, Forget(a)
      PROVE  AppliedInv'
  <2>1. appliedFor' = Never /\ UNCHANGED <<loop, gen, restarts>>
    BY <1>3 DEF Forget, dvars, loopVars
  <2>2. QED BY <1>1, <2>1 DEF ClaimInv
<1>4. CASE ~Forgetting /\ Aside
  <2>1. UNCHANGED <<want, file, node, appliedFor>> /\ LoopAside /\ (ctxDone => ctxDone')
    BY <1>4 DEF Aside, prefVars
  <2>2. appliedFor = restarts' => restarts' = restarts
    BY <1>1, <1>4 DEF Aside, ClaimInv
  <2>3. QED BY <1>4, <2>1, <2>2 DEF LoopAside
<1>5. ASSUME ~Forgetting, NEW a \in Actors, PrefMoves(a), ~Forget(a)
      PROVE  AppliedInv'
  <2> USE <1>5
  <2>1. CASE Still /\ (StartBegin(a) \/ ReloadBegin(a))
    <3>1. appliedFor' = Never
      BY <2>1 DEF StartBegin, ReloadBegin
    <3>2. restarts' = restarts /\ (loop' = "applied" => gen' = gen /\ loop = "applied")
      BY <2>1 DEF Still, LoopAside
    <3>3. QED BY <1>1, <3>1, <3>2 DEF ClaimInv
  <2>2. CASE Still /\ StopBegin(a)
    BY <2>2 DEF Still, LoopAside, StopBegin
  <2>3. CASE ReauthBegin(a)
    <3>1. todo'[a] = Forgets
      BY <2>3 DEF ReauthBegin, LockInv, Forgets
    <3>2. QED BY <1>2, <3>1 DEF Forgetting
  <2>4. CASE Still /\ StartLogin
    BY <2>4 DEF Still, LoopAside, StartLogin, cvars, prefVars
  <2>5. CASE Still /\ UpLands
    <3>1. UNCHANGED <<want, file, appliedFor>>
      BY <2>5 DEF UpLands, cvars, prefVars
    <3>2. node'.prefs = up.args /\ node'.late = (up.args # file.up)
      BY <2>5 DEF UpLands, PrefTypes, Nodes
    <3>3. Current'
      BY <3>1, <3>2
    <3>4. QED BY <2>5, <3>1, <3>3 DEF Still, LoopAside
  <2>6. CASE Still /\ (UpSucceeds \/ UpFails \/ PageOffered)
    <3>1. UNCHANGED <<want, file, appliedFor>> /\ node'.prefs = node.prefs /\ node'.late = node.late
      BY <2>6 DEF UpSucceeds, UpFails, PageOffered, cvars, prefVars, PrefTypes, Nodes
    <3>2. QED BY <2>6, <3>1 DEF Still, LoopAside
  <2>7. CASE Still /\ (LoginCompletes \/ KeyExpires \/ BroughtDown \/ AdminApproves)
    <3>1. UNCHANGED <<want, file, appliedFor>>
      BY <2>7 DEF LoginCompletes, KeyExpires, BroughtDown, AdminApproves, NodeBecomes, cvars, prefVars
    <3>2. node'.prefs = node.prefs /\ node'.late = node.late
      BY <2>7 DEF LoginCompletes, KeyExpires, BroughtDown, AdminApproves, NodeBecomes, PrefTypes, Nodes
    <3>3. QED BY <2>7, <3>1, <3>2 DEF Still, LoopAside
  <2>8. CASE ReadGeneration
    BY <2>8 DEF ReadGeneration, At, dvars, cvars, prefVars
  <2>9. CASE ClaimGeneration
    BY <2>9 DEF ClaimGeneration, PollEnds, At, dvars
  <2>10. CASE ApplySucceeds
    <3>1. node'.prefs = sent
      BY <2>10 DEF ApplySucceeds, PrefTypes, Nodes
    <3>2. UNCHANGED <<file, appliedFor, gen>> /\ loop = "set" /\ loop' = "applied"
      BY <2>10 DEF ApplySucceeds, At, cvars, prefVars
    <3>3. QED BY <3>1, <3>2 DEF ClaimInv
  <2>11. CASE ApplyFails
    BY <2>11 DEF ApplyFails, At
  <2>12. CASE StoreResult
    <3>1. UNCHANGED <<want, file, node, restarts, ctxDone>> /\ loop \in {"applied", "failed"}
          /\ loop' = "wait"
      BY <2>12 DEF StoreResult, PollEnds, At, dvars
    <3>2. CASE loop = "applied"
      <4>1. appliedFor' = appliedFor
        BY <2>12, <3>2 DEF StoreResult, prefVars
      <4>2. appliedFor = restarts => appliedFor = gen
        BY <1>1, <3>2 DEF ClaimInv
      <4>3. QED BY <3>1, <3>2, <4>1, <4>2
    <3>3. CASE loop = "failed"
      <4>1. ctxDone \/ ~want \/ appliedFor' = Never
        BY <2>12, <3>3 DEF StoreResult, ResultIsStale, ClaimInv, prefVars
      <4>2. QED BY <1>1, <3>1, <4>1
    <3>4. QED BY <3>1, <3>2, <3>3
  <2>13. QED
    BY <2>1, <2>2, <2>3, <2>4, <2>5, <2>6, <2>7, <2>8, <2>9, <2>10, <2>11, <2>12 DEF PrefMoves
<1>6. QED BY <1>2, <1>3, <1>4, <1>5, AsideMoves

-----------------------------------------------------------------------------
(* The theorems *)

Inv ==
    /\ LockInv /\ SessionInv /\ FlagsInv /\ EndInv
    /\ PrefTypes /\ ClaimInv /\ SetErrorIsCurrent

LEMMA InitInv ==
    ASSUME Init
    PROVE  Inv /\ AppliedInv
<1>1. cmdMu = None /\ todo = [a \in Actors |-> <<>>] /\ Rest = <<>>
  BY DEF Init, Rest
<1>2. LockInv
  BY <1>1, NoneApart DEF LockInv, Unlocked
<1>3. session = "down" /\ stage = "none" /\ cargs = None /\ restarts = 0 /\ ctxDone = FALSE
      /\ want = FALSE /\ file = InitFile /\ args = file.td /\ file \in Files
  BY ControllerAssumption DEF Init, DaemonInit
<1>4. SessionInv
  <2>1. <<>> \notin {Starts, Stops, Joins, Restarts, StopsToStart, JoinsToStart}
    BY Kinds
  <2>2. QED BY <1>1, <1>3, <2>1 DEF SessionInv, Sessions
<1>5. FlagsInv
  BY <1>1, <1>3, Kinds DEF FlagsInv
<1>6. EndInv
  BY <1>3 DEF Init, EndInv
<1>7. loop = "boot" /\ sent = None /\ gen = Never /\ appliedFor = Never /\ applyErr = None /\ up = None
  BY DEF Init
<1>8. PrefTypes
  <2>1. node \in Nodes
    BY ControllerAssumption DEF Init, Nodes, NoURL
  <2>2. QED BY <1>3, <1>7, <2>1 DEF PrefTypes, Applying
<1>9. ClaimInv /\ SetErrorIsCurrent /\ AppliedInv
  BY <1>3, <1>7 DEF ClaimInv, SetErrorIsCurrent, AppliedInv, Applying
<1>10. QED BY <1>2, <1>4, <1>5, <1>6, <1>8, <1>9 DEF Inv

LEMMA Inductive == Spec => []Inv
<1>1. Init => Inv
  BY InitInv
<1>2. Inv /\ [Next]_vars => Inv'
  BY SessionStep, EndStep, PrefTypesStep, ClaimStep, ErrorStep DEF Inv
<1>3. QED BY <1>1, <1>2, PTL DEF Spec

LEMMA NoLock ==
    ASSUME LockInv, cmdMu = None
    PROVE  Rest = <<>> /\ ~RestartDue /\ Rest # SetsArgs
BY Kinds DEF Rest, RestartDue

\* Between commands the daemon is started exactly if the user last asked for it,
\* whatever commands, crashes and Run's own Start and Stop came in which order.
THEOREM WantIsFollowed == Spec => []WantIsSession
<1>1. Inv => WantIsSession
  BY NoLock DEF Inv, SessionInv, WantIsSession
<1>2. QED BY <1>1, Inductive, PTL

\* Between commands a tailscaled that runs, or is about to, has the flags of the
\* file as last loaded, a crash in the middle of a Reload included.
THEOREM FlagsAreTheFiles == Spec => []FlagsCurrent
<1>1. Inv => FlagsCurrent
  BY NoLock DEF Inv, FlagsInv, FlagsCurrent
<1>2. QED BY <1>1, Inductive, PTL

\* When Run has returned no tailscaled is left, though the menu may start one
\* again between the cancelled context and the deferred Stop, or after it.
THEOREM NoneLeftBehind == Spec => []NoOrphan
<1>1. ASSUME Inv, Returned
      PROVE  ~Process
  <2>1. cmdMu # Run
    <3>1. Run \in Actors /\ todo[Run] = <<>> /\ <<>> \notin Locked
      BY <1>1, Ends DEF Actors, Returned, At
    <3>2. QED BY <1>1, <3>1 DEF Inv, LockInv
  <2>2. stage = "none"
    BY <1>1, <2>1 DEF Inv, EndInv, Returned, At
  <2>3. QED BY <2>2 DEF Process
<1>2. Inv => NoOrphan
  BY <1>1 DEF NoOrphan
<1>3. QED BY <1>2, Inductive, PTL

\* A failed `set` on display is about the flags of the file as last loaded and a
\* session still wanted, for any Reload, Start or Stop while it ran.
THEOREM ErrorsAreCurrent == Spec => []SetErrorIsCurrent
<1>1. Inv => SetErrorIsCurrent
  BY DEF Inv
<1>2. QED BY <1>1, Inductive, PTL

\* A generation recorded as applied means that the node has the file's [up] flags,
\* whatever Reload, Start, Stop, a login, a logout or a crash came between the claim
\* and the end of `set`; only a `tailscale up` that was overtaken takes them from it.
THEOREM AppliedIsTheFiles == Spec => []AppliedIsCurrent
<1>1. Init => Inv /\ AppliedInv
  BY InitInv
<1>2. Inv /\ AppliedInv /\ [Next]_vars => (Inv /\ AppliedInv)'
  BY SessionStep, EndStep, PrefTypesStep, ClaimStep, ErrorStep, AppliedStep DEF Inv
<1>3. AppliedInv => AppliedIsCurrent
  BY DEF AppliedInv, AppliedIsCurrent, Applying, Current, Forgetting, Forgets
<1>4. QED BY <1>1, <1>2, <1>3, PTL DEF Spec

-----------------------------------------------------------------------------
(* The controller and its daemon.  Supervisor implements Daemon for        *)
(* callers that hold cmdMu (SupervisorProofs); the controller is such a    *)
(* caller, and asks no more of its daemon than that.                       *)

\* Every step of the controller and its world is one of the daemon's, or the
\* daemon has no part in it.
LEMMA DaemonMoves ==
    ASSUME Inv, [Next]_vars
    PROVE  [DaemonNext]_dvars
<1>1. CASE Calm
  BY <1>1 DEF Calm
<1>2. CASE Quit
  BY <1>2 DEF Quit, DaemonNext
<1>3. CASE ChildProgress
  BY <1>3 DEF ChildProgress, DaemonNext, ChildStep
<1>4. ASSUME NEW a \in Actors, StartBegin(a) \/ StopBegin(a) \/ ReloadBegin(a)
      PROVE  UNCHANGED dvars
  BY <1>4 DEF StartBegin, StopBegin, ReloadBegin
<1>5. ASSUME NEW a \in Actors, SetArgsStep(a)
      PROVE  DaemonNext
  <2>1. file.td \in ArgLists /\ SetDaemonArgs(file.td)
    BY <1>5, ControllerAssumption DEF Inv, PrefTypes, SetArgsStep
  <2> QED BY <2>1 DEF DaemonNext
<1>6. ASSUME NEW a \in Actors, DaemonStart(a) \/ DaemonStop(a) \/ DaemonStopped(a)
      PROVE  [DaemonNext]_dvars
  BY <1>6 DEF DaemonStart, DaemonStop, DaemonStopped, DaemonNext
<1> QED BY <1>1, <1>2, <1>3, <1>4, <1>5, <1>6, Moves DEF Inv

\* What the controller does to the daemon is what the contract has: it stops a
\* session before it starts another, waits for no session but one it has
\* cancelled, and gives it the arguments of a file.
THEOREM KeepsTheContract == Spec => DaemonSpec
<1>1. Init => DaemonInit
  BY DEF Init
<1>2. Inv /\ [Next]_vars => [DaemonNext]_dvars
  BY DaemonMoves
<1> QED BY <1>1, <1>2, Inductive, PTL DEF Spec, DaemonSpec

\* The daemon's session and arguments change only at the hands of the actor that
\* holds cmdMu, and goes on holding it.
UnderLock ==
    session' # session \/ args' # args =>
        \E a \in Actors : cmdMu = a /\ cmdMu' = a

LEMMA LockedMoves ==
    ASSUME Inv, [Next]_vars
    PROVE  UnderLock
<1> USE DEF UnderLock
<1>1. CASE Calm
  BY <1>1 DEF Calm, dvars
<1>2. CASE Quit \/ ChildProgress
  BY <1>2 DEF Quit, CancelCtx, ChildProgress, Attempt, Prepare, Spawn, SpawnFails, Announce, Reaped,
              Count, Abandon
<1>3. ASSUME NEW a \in Actors, StartBegin(a) \/ StopBegin(a) \/ ReloadBegin(a)
      PROVE  UnderLock
  BY <1>3 DEF StartBegin, StopBegin, ReloadBegin, dvars
<1>4. ASSUME NEW a \in Actors, SetArgsStep(a) \/ DaemonStart(a) \/ DaemonStop(a) \/ DaemonStopped(a)
      PROVE  UnderLock
  <2>1. PICK name \in {"setargs", "start", "stop", "join"} : Step(a, name)
    BY <1>4 DEF SetArgsStep, DaemonStart, DaemonStop, DaemonStopped
  <2>2. cmdMu = a /\ Rest \in Locked /\ First(Rest) = name /\ Rest' = After(Rest)
        /\ (Rest' # <<>> => cmdMu' = a)
    BY <2>1, StepTaken DEF Inv
  <2>3. Rest \in {SetsArgs, Restarts, Starts, Stops, StopsToStart, Joins, JoinsToStart}
    BY <2>2, Kinds
  <2>4. Rest # Publishes
    BY <2>3, Lists
  <2>5. Rest' # <<>>
    BY <2>2, <2>4, Ends
  <2> QED BY <2>2, <2>5
<1> QED BY <1>1, <1>2, <1>3, <1>4, Moves DEF Inv

\* Start, Stop and SetArgs of the supervisor are called under cmdMu only: what
\* Supervisor takes for granted of its callers, whatever menu, requests and Run
\* do at once.
THEOREM CallsAreLocked == Spec => [][UnderLock]_vars
<1>1. Inv /\ [Next]_vars => UnderLock
  BY LockedMoves
<1> QED BY <1>1, Inductive, PTL DEF Spec

\* Whoever holds cmdMu has a step to take, and waits for the daemon only where it
\* has itself cancelled the daemon's context: no one waits for anyone in a circle.
HolderGoesOn ==
    cmdMu # None => /\ todo[cmdMu] # <<>>
                    /\ Head(todo[cmdMu]) = "join" => session = "stopping"

\* Between commands, a daemon that is not wanted is not there, not even on its way
\* up or down.
StoppedIsDown == cmdMu = None /\ ~want => stage = "none"

\* No command keeps cmdMu from the next but by a Stop that is under way: the
\* safety half of CommandsReturn.
THEOREM NoCircle == Spec => []HolderGoesOn
<1>1. ASSUME Inv, cmdMu # None
      PROVE  /\ todo[cmdMu] # <<>>
             /\ Head(todo[cmdMu]) = "join" => session = "stopping"
  <2>1. todo[cmdMu] \in Locked /\ Rest = todo[cmdMu]
    BY <1>1 DEF Inv, LockInv, Rest
  <2>2. Head(todo[cmdMu]) = "join" => Rest \in {Joins, JoinsToStart}
    BY <2>1, Kinds DEF First
  <2> QED BY <1>1, <2>1, <2>2, Ends DEF Inv, SessionInv
<1>2. Inv => HolderGoesOn
  BY <1>1 DEF HolderGoesOn
<1> QED BY <1>2, Inductive, PTL

\* Stop is complete when it returns: between commands there is no tailscaled
\* unless it is wanted, and none is about to come.
THEOREM StopIsComplete == Spec => []StoppedIsDown
<1>1. Inv => StoppedIsDown
  BY NoLock DEF Inv, SessionInv, FlagsInv, StoppedIsDown
<1> QED BY <1>1, Inductive, PTL
=============================================================================
