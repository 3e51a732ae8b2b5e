-------------------------- MODULE InstancesProofs --------------------------
(***************************************************************************)
(* Safety of Instances for any number of processes and any bound on the    *)
(* events.  The argument: while nothing is disturbed, whoever starts is    *)
(* the only one to start and nobody stops; so the others past the guard    *)
(* serve, and the guard has an answer; so at most one is past the guard,   *)
(* and it is the only one to touch the socket.                             *)
(***************************************************************************)
EXTENDS Instances, TLAPS

PastGuard(i) == pc[i] \in {"run", "stop"}

\* tailscaled ends with its minitail, or is an orphan.
DaemonInv == \A i \in Instances : tsd = i => PastGuard(i)

\* One starts, and nobody stops meanwhile.
StartInv == \A i, j \in Instances :
    i # j /\ Starting(i) => ~Starting(j) /\ pc[j] # "stop"

\* The guard admits one.
GuardInv == \A i, j \in Instances : i # j => ~(PastGuard(i) /\ PastGuard(j))

\* The socket belongs to the one past the guard, which never fails to bind it.
SockInv == \A i \in Instances :
    /\ pc[i] = "run" => srv[i] \in {"remove", "listen", "serving"}
    /\ srv[i] = "listen" => sock = None
    /\ pc[i] = "run" /\ srv[i] = "serving" => sock = i

ApartInv == StartInv /\ GuardInv /\ SockInv

IInv == TypeOK /\ DaemonInv /\ (~disturbed => ApartInv)

-----------------------------------------------------------------------------
LEMMA InitInv == Init => IInv
<1> SUFFICES ASSUME Init PROVE IInv
  OBVIOUS
<1>1. TypeOK
  <2>1. budget \in 0..MaxEvents
    BY InstancesAssumption DEF Init
  <2>2. disturbed \in BOOLEAN
    BY DEF Init
  <2>3. QED BY <2>1, <2>2 DEF Init, TypeOK
<1>2. DaemonInv
  BY InstancesAssumption DEF Init, DaemonInv
<1>3. ApartInv
  BY DEF Init, ApartInv, StartInv, GuardInv, SockInv, Starting, PastGuard
<1>4. QED BY <1>1, <1>2, <1>3 DEF IInv

\* Every step keeps the types.
LEMMA TypeStep ==
    ASSUME TypeOK, [Next]_vars
    PROVE  TypeOK'
<1> USE InstancesAssumption DEF TypeOK
<1>1. ASSUME NEW i \in Instances, LoadFails(i) \/ Refused(i) \/ Exits(i) \/ Crashes(i)
      PROVE  TypeOK'
  <2>1. budget' \in 0..MaxEvents
    <3>1. budget' = budget \/ Event
      BY <1>1 DEF LoadFails, Refused, Exits, Crashes
    <3>2. QED BY <3>1 DEF Event
  <2>2. PICK success \in BOOLEAN : Ends(i, success)
    BY <1>1 DEF LoadFails, Refused, Exits, Crashes
  <2>3. disturbed' \in BOOLEAN
    BY <2>2 DEF Ends, Leaves
  <2>4. sock' \in Instances \cup {None} /\ tsd' \in Instances \cup {None, Orphan}
    BY <1>1 DEF LoadFails, Refused, Exits, Crashes, SocketAfterRefusal
  <2>5. QED BY <2>1, <2>2, <2>3, <2>4 DEF Ends, Leaves, AgentAfter
<1>2. ASSUME NEW i \in Instances, Passes(i) \/ Cancelled(i)
      PROVE  TypeOK'
  <2>1. budget' \in 0..MaxEvents
    BY <1>2 DEF Passes, Cancelled, Event
  <2>2. disturbed' \in BOOLEAN
    BY <1>2 DEF Passes, GoesOnCancelled, Cancelled, Cancel
  <2>3. QED BY <1>2, <2>1, <2>2 DEF Passes, GoesOnCancelled, GoesOn, Cancelled, Cancel
<1>3. ASSUME NEW i \in Instances, DaemonUp(i) \/ DaemonDies(i)
      PROVE  TypeOK'
  BY <1>3 DEF DaemonUp, DaemonDies
<1>4. ASSUME NEW i \in Instances, RemoveStale(i) \/ Listen(i) \/ Shutdown(i) \/ RemoveAgain(i)
      PROVE  TypeOK'
  BY <1>4 DEF RemoveStale, Removed, Listen, ListenAt, Shutdown, RemoveAgain
<1>5. ASSUME NEW i \in Instances, RunByHand(i) \/ LaunchAgentStarts(i)
      PROVE  TypeOK'
  <2>1. budget' \in 0..MaxEvents
    BY <1>5 DEF RunByHand, LaunchAgentStarts, Event
  <2>2. disturbed' \in BOOLEAN
    BY <1>5 DEF RunByHand, LaunchAgentStarts, Starts
  <2>3. QED BY <1>5, <2>1, <2>2 DEF RunByHand, LaunchAgentStarts, Starts
<1>6. CASE Install \/ Uninstall
  <2>1. budget' \in 0..MaxEvents
    BY <1>6 DEF Install, Uninstall, Event
  <2>2. Bootout /\ UNCHANGED <<sock, tsd>> /\ agent' \in {"due", "absent"}
    BY <1>6 DEF Install, Uninstall
  <2>3. disturbed' \in BOOLEAN
    BY <2>2 DEF Bootout, Cancel, Leaves, GoesOnCancelled
  <2>4. /\ pc' \in [Instances -> {"out", "check", "run", "stop"}]
        /\ srv' \in [Instances -> {"none", "remove", "listen", "serving", "closing", "ended"}]
        /\ \A i \in Instances : srv'[i] = "none" <=> pc'[i] \in {"out", "check"}
    BY <2>2 DEF Bootout, Cancel, Leaves, GoesOnCancelled, GoesOn
  <2>5. QED BY <2>1, <2>2, <2>3, <2>4
<1>7. CASE OrphanEnds
  BY <1>7 DEF OrphanEnds
<1>8. CASE Quiet \/ UNCHANGED vars
  BY <1>8 DEF Quiet, vars
<1>9. QED BY <1>1, <1>2, <1>3, <1>4, <1>5, <1>6, <1>7, <1>8 DEF Next, Process

LEMMA DaemonStep ==
    ASSUME TypeOK, DaemonInv, [Next]_vars
    PROVE  DaemonInv'
<1> USE InstancesAssumption DEF TypeOK, DaemonInv, PastGuard
<1>1. ASSUME NEW i \in Instances, LoadFails(i) \/ Refused(i) \/ Exits(i) \/ Crashes(i)
      PROVE  DaemonInv'
  BY <1>1 DEF LoadFails, Refused, Exits, Crashes, Ends, Leaves
<1>2. ASSUME NEW i \in Instances, Passes(i) \/ Cancelled(i)
      PROVE  DaemonInv'
  BY <1>2 DEF Passes, GoesOnCancelled, GoesOn, Cancelled, Cancel
<1>3. ASSUME NEW i \in Instances, DaemonUp(i) \/ DaemonDies(i)
      PROVE  DaemonInv'
  BY <1>3 DEF DaemonUp, DaemonDies
<1>4. ASSUME NEW i \in Instances, RemoveStale(i) \/ Listen(i) \/ Shutdown(i) \/ RemoveAgain(i)
      PROVE  DaemonInv'
  BY <1>4 DEF RemoveStale, Listen, Shutdown, RemoveAgain
<1>5. ASSUME NEW i \in Instances, RunByHand(i) \/ LaunchAgentStarts(i)
      PROVE  DaemonInv'
  BY <1>5 DEF RunByHand, LaunchAgentStarts, Starts
<1>6. CASE Install \/ Uninstall
  BY <1>6 DEF Install, Uninstall, Bootout, Cancel, Leaves, GoesOnCancelled, GoesOn
<1>7. CASE OrphanEnds \/ Quiet \/ UNCHANGED vars
  BY <1>7 DEF OrphanEnds, Quiet, vars
<1>8. QED BY <1>1, <1>2, <1>3, <1>4, <1>5, <1>6, <1>7 DEF Next, Process

-----------------------------------------------------------------------------
\* The guard admits nobody beside one that serves.
LEMMA NobodyElse ==
    ASSUME TypeOK, ApartInv, NEW i \in Instances, pc[i] = "check", MayPass,
           NEW j \in Instances, j # i
    PROVE  pc[j] = "out"
<1>1. Starting(i) /\ ~Starting(j) /\ pc[j] # "stop" /\ pc[j] # "check"
  BY DEF ApartInv, StartInv, Starting
<1>2. ASSUME pc[j] = "run" PROVE FALSE
  <2>1. srv[j] = "serving"
    BY <1>1, <1>2 DEF ApartInv, SockInv, Starting
  <2>2. sock = j
    BY <1>2, <2>1 DEF ApartInv, SockInv
  <2>3. QED BY <2>1, <2>2, InstancesAssumption DEF MayPass, Answered
<1>3. QED BY <1>1, <1>2 DEF TypeOK

\* An end keeps what holds of the others; and the end of the last one settles
\* everything, whatever had overlapped.
LEMMA EndStep ==
    ASSUME TypeOK, ~disturbed => ApartInv, NEW i \in Instances,
           Leaves(i), UNCHANGED sock, ~disturbed'
    PROVE  ApartInv'
<1> USE DEF TypeOK, Leaves, ApartInv, StartInv, GuardInv, SockInv, Starting, PastGuard
<1>1. CASE disturbed
  <2>1. \A j \in Instances : pc'[j] = "out"
    BY <1>1
  <2>2. \A j \in Instances : srv'[j] \notin {"listen", "serving"}
    BY <1>1
  <2>3. QED BY <2>1, <2>2
<1>2. CASE ~disturbed
  <2>1. \A j \in Instances : pc'[j] = IF j = i THEN "out" ELSE pc[j]
    OBVIOUS
  <2>2. \A j \in Instances : srv'[j] = IF j = i THEN "none" ELSE srv[j]
    OBVIOUS
  <2>3. QED BY <1>2, <2>1, <2>2
<1>3. QED BY <1>1, <1>2

LEMMA StartStep ==
    ASSUME TypeOK, ~disturbed => ApartInv, NEW i \in Instances, Starts(i),
           UNCHANGED <<srv, sock>>, ~disturbed'
    PROVE  ApartInv'
<1>1. ApartInv /\ ~StartOverlaps
  BY DEF Starts, TypeOK
<1>2. \A j \in Instances : pc'[j] = IF j = i THEN "check" ELSE pc[j]
  BY DEF TypeOK, Starts
<1>3. QED
  BY <1>1, <1>2 DEF TypeOK, StartOverlaps, ApartInv, StartInv, GuardInv, SockInv, Starting, PastGuard

\* The requests to stop that disturbed with nothing.
LEMMA StopStep ==
    ASSUME TypeOK, ApartInv, UNCHANGED <<srv, sock>>, NEW i \in Instances, ~StopOverlaps(i),
           PastGuard(i), \A j \in Instances : pc'[j] = IF j = i THEN "stop" ELSE pc[j]
    PROVE  ApartInv'
BY DEF TypeOK, StopOverlaps, ApartInv, StartInv, GuardInv, SockInv, Starting, PastGuard

LEMMA ApartStep ==
    ASSUME TypeOK, ~disturbed => ApartInv, [Next]_vars, ~disturbed'
    PROVE  ApartInv'
<1> USE InstancesAssumption
<1>1. ASSUME NEW i \in Instances, LoadFails(i) \/ Refused(i) \/ Exits(i) \/ Crashes(i)
      PROVE  ApartInv'
  <2>1. Leaves(i) /\ UNCHANGED sock
    BY <1>1 DEF LoadFails, Refused, Exits, Crashes, Ends, SocketAfterRefusal
  <2>2. QED BY <2>1, EndStep
<1>2. ASSUME NEW i \in Instances, Passes(i)
      PROVE  ApartInv'
  <2>1. MayPass /\ pc[i] = "check" /\ ApartInv /\ pc' = [pc EXCEPT ![i] = "run"]
    BY <1>2 DEF Passes, GoesOnCancelled, GoesOn
  <2>2. \A j \in Instances \ {i} : pc[j] = "out"
    BY <2>1, NobodyElse
  <2>3. \A j \in Instances : pc'[j] = IF j = i THEN "run" ELSE "out"
    BY <2>1, <2>2 DEF TypeOK
  <2>4. \A j \in Instances : srv'[j] = IF j = i THEN "remove" ELSE "none"
    BY <1>2, <2>2 DEF TypeOK, Passes, GoesOnCancelled, GoesOn
  <2>5. QED BY <2>3, <2>4 DEF ApartInv, StartInv, GuardInv, SockInv, Starting, PastGuard
<1>3. ASSUME NEW i \in Instances, Cancelled(i)
      PROVE  ApartInv'
  <2>1. ApartInv /\ ~StopOverlaps(i) /\ PastGuard(i)
    BY <1>3 DEF Cancelled, Cancel, TypeOK, StopOverlaps, PastGuard
  <2>2. \A j \in Instances : pc'[j] = IF j = i THEN "stop" ELSE pc[j]
    BY <1>3 DEF Cancelled, Cancel, TypeOK
  <2>3. QED BY <1>3, <2>1, <2>2, StopStep DEF Cancelled, Cancel
<1>4. ASSUME NEW i \in Instances, DaemonUp(i) \/ DaemonDies(i) \/ OrphanEnds \/ Quiet
      PROVE  ApartInv'
  <2>1. UNCHANGED <<pc, srv, sock, disturbed>>
    BY <1>4 DEF DaemonUp, DaemonDies, OrphanEnds, Quiet, vars
  <2>2. QED BY <2>1 DEF ApartInv, StartInv, GuardInv, SockInv, Starting, PastGuard
<1>5. ASSUME NEW i \in Instances, RemoveStale(i) \/ Listen(i) \/ Shutdown(i) \/ RemoveAgain(i)
      PROVE  ApartInv'
  <2>1. ApartInv /\ UNCHANGED pc
    BY <1>5 DEF RemoveStale, Listen, Shutdown, RemoveAgain
  <2>2. PastGuard(i)
    BY <1>5 DEF RemoveStale, Listen, Shutdown, RemoveAgain, TypeOK, PastGuard
  <2>3. \A j \in Instances \ {i} : pc[j] \in {"out", "check"} /\ srv[j] = "none"
    BY <2>1, <2>2 DEF ApartInv, GuardInv, TypeOK, PastGuard
  <2>4. \A j \in Instances \ {i} : srv'[j] = "none"
    BY <1>5, <2>3 DEF RemoveStale, Listen, Shutdown, RemoveAgain, TypeOK
  <2>5. StartInv'
    BY <1>5, <2>1, <2>2, <2>3, <2>4
       DEF RemoveStale, Listen, ListenAt, Shutdown, RemoveAgain, TypeOK, ApartInv, StartInv, SockInv, Starting, PastGuard
  <2>6. GuardInv'
    BY <2>1 DEF ApartInv, GuardInv, PastGuard
  <2>7. SockInv'
    BY <1>5, <2>1, <2>2, <2>3, <2>4
       DEF RemoveStale, Removed, Listen, ListenAt, Shutdown, RemoveAgain, TypeOK, ApartInv, SockInv, PastGuard
  <2>8. QED BY <2>5, <2>6, <2>7 DEF ApartInv
<1>6. ASSUME NEW i \in Instances, RunByHand(i) \/ LaunchAgentStarts(i)
      PROVE  ApartInv'
  <2>1. Starts(i) /\ UNCHANGED <<srv, sock>>
    BY <1>6 DEF RunByHand, LaunchAgentStarts
  <2>2. QED BY <2>1, StartStep
<1>7. CASE Install \/ Uninstall
  <2>1. Bootout /\ UNCHANGED sock
    BY <1>7 DEF Install, Uninstall
  <2>2. CASE UNCHANGED <<pc, srv, disturbed>>
    BY <2>1, <2>2 DEF ApartInv, StartInv, GuardInv, SockInv, Starting, PastGuard
  <2>3. ASSUME NEW i \in Instances, Leaves(i)
        PROVE  ApartInv'
    BY <2>1, <2>3, EndStep
  <2>4. ASSUME NEW i \in Instances, Cancel(i)
        PROVE  ApartInv'
    <3>1. ApartInv /\ ~StopOverlaps(i) /\ PastGuard(i) /\ UNCHANGED <<srv, sock>>
      BY <2>1, <2>4 DEF Cancel, TypeOK, StopOverlaps, PastGuard
    <3>2. \A j \in Instances : pc'[j] = IF j = i THEN "stop" ELSE pc[j]
      BY <2>4 DEF Cancel, TypeOK
    <3>3. QED BY <3>1, <3>2, StopStep
  <2>5. QED BY <2>1, <2>2, <2>3, <2>4 DEF Bootout, GoesOnCancelled
<1>8. CASE OrphanEnds \/ Quiet \/ UNCHANGED vars
  <2>1. UNCHANGED <<pc, srv, sock, disturbed>>
    BY <1>8 DEF OrphanEnds, Quiet, vars
  <2>2. QED BY <2>1 DEF ApartInv, StartInv, GuardInv, SockInv, Starting, PastGuard
<1>9. QED BY <1>1, <1>2, <1>3, <1>4, <1>5, <1>6, <1>7, <1>8 DEF Next, Process

LEMMA Inductive == Spec => []IInv
<1>1. Init => IInv
  BY InitInv
<1>2. IInv /\ [Next]_vars => IInv'
  BY TypeStep, DaemonStep, ApartStep DEF IInv
<1>3. QED BY <1>1, <1>2, PTL DEF Spec

-----------------------------------------------------------------------------
\* Type correctness: ServeControl goes on only in a process that is past the
\* guard and has not ended.
THEOREM TypeCorrect == Spec => []TypeOK
<1>1. IInv => TypeOK
  BY DEF IInv
<1>2. QED BY <1>1, Inductive, PTL

\* `minitail status`, stop and quit reach the minitail that runs, unless a start
\* met another's start or stop, or a guard missed an answer.
THEOREM SocketIsOurs == Spec => []Reachable
<1>1. IInv => Reachable
  BY DEF IInv, ApartInv, SockInv, Reachable
<1>2. QED BY <1>1, Inductive, PTL

\* The minitail that answers on the socket is the one that may have tailscaled,
\* under the same condition.
THEOREM WorkingAnswers == Spec => []StatusIsOfTheWorking
<1>1. IInv => StatusIsOfTheWorking
  BY InstancesAssumption
     DEF IInv, TypeOK, DaemonInv, ApartInv, GuardInv, PastGuard, Answered, StatusIsOfTheWorking
<1>2. QED BY <1>1, Inductive, PTL

-----------------------------------------------------------------------------
(* What ComesBack rests on.                                                *)

\* The job that launchd takes to be running does run: none ends unnoticed.
JobRuns == agent \in Instances => pc[agent] # "out"

\* launchd hears of every end of its job, a crash and a refused start included,
\* so that KeepAlive can act on it (Plist in launchagent.go).
THEOREM JobIsWatched == Spec => []JobRuns
<1> USE InstancesAssumption DEF JobRuns
<1>1. Init => JobRuns
  BY DEF Init
<1>2. ASSUME TypeOK, JobRuns, [Next]_vars PROVE JobRuns'
  <2> USE <1>2 DEF TypeOK
  <2>1. ASSUME NEW i \in Instances, NEW success \in BOOLEAN, Ends(i, success) PROVE JobRuns'
    BY <2>1 DEF Ends, Leaves, AgentAfter
  <2>2. ASSUME NEW i \in Instances, Refused(i) \/ LoadFails(i) \/ Exits(i) \/ Crashes(i)
        PROVE  JobRuns'
    BY <2>1, <2>2 DEF Refused, LoadFails, Exits, Crashes
  <2>3. ASSUME NEW i \in Instances, Passes(i) \/ Cancelled(i) \/ RunByHand(i)
        PROVE  JobRuns'
    BY <2>3 DEF Passes, GoesOnCancelled, GoesOn, Cancelled, Cancel, RunByHand, Starts
  <2>4. ASSUME NEW i \in Instances, LaunchAgentStarts(i) PROVE JobRuns'
    BY <2>4 DEF LaunchAgentStarts, Starts
  <2>5. ASSUME NEW i \in Instances,
               \/ DaemonUp(i) \/ DaemonDies(i) \/ RemoveStale(i) \/ Listen(i) \/ Shutdown(i)
               \/ RemoveAgain(i)
        PROVE  JobRuns'
    BY <2>5 DEF DaemonUp, DaemonDies, RemoveStale, Listen, Shutdown, RemoveAgain
  <2>6. CASE Install \/ Uninstall
    BY <2>6 DEF Install, Uninstall
  <2>7. CASE OrphanEnds \/ Quiet \/ UNCHANGED vars
    BY <2>7 DEF OrphanEnds, Quiet, vars
  <2> QED BY <1>2, <2>2, <2>3, <2>4, <2>5, <2>6, <2>7 DEF Next, Process
<1>3. TypeOK /\ JobRuns /\ [Next]_vars => JobRuns'
  BY <1>2
<1> QED BY <1>1, <1>3, TypeCorrect, PTL DEF Spec
=============================================================================
