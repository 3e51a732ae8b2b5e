-------------------------- MODULE SupervisorProofs --------------------------
(***************************************************************************)
(* Safety of Supervisor for any number of callers, goroutine identities,   *)
(* argument lists, exits and failures, by one inductive invariant.  The    *)
(* argument: cmdMu admits one caller into Start and Stop; so a goroutine   *)
(* that has not returned is the one doneCh names, or the one being joined, *)
(* never both; so there is at most one; and a child lives only inside one. *)
(***************************************************************************)
EXTENDS SupervisorRefinement, TLAPS

\* A caller is inside a command exactly while it holds cmdMu.
LockInv == \A c \in Callers : pc[c] # "idle" <=> cmdMu = c

\* A Stop under way holds the goroutine it took, and doneCh is then empty.
JoinInv == \A c \in Callers :
    /\ joining[c] # None <=> pc[c] \in {"cancel", "join"}
    /\ joining[c] # None => doneCh = None

\* A goroutine that has not returned is known to the session or to its Stop.
KnownInv == \A l \in Loops :
    loop[l] # "gone" => doneCh = l \/ \E c \in Callers : joining[c] = l

\* A child lives only between exec and Wait, and the handle is set during Wait.
ChildInv == \A l \in Loops :
    /\ child[l] = "alive" => loop[l] \in {"spawned", "wait"}
    /\ cmd = l <=> loop[l] = "wait"

\* How the child ended, while that still matters, and that "cancelled" means so.
OutcomeInv == \A l \in Loops :
    /\ loop[l] \in {"spawned", "wait"} => child[l] \in {"alive", "exited", "cancelled"}
    /\ loop[l] = "check" => child[l] \in {"exited", "refused", "cancelled"}
    /\ loop[l] \in {"spawned", "wait", "check"} /\ child[l] = "cancelled" => Cancelled(l)
    /\ loop[l] = "account" => child[l] \in {"exited", "refused"}

VerdictInv == givenUp => \A l \in Loops : loop[l] = "gone"

SessionInv == LockInv /\ JoinInv /\ KnownInv

IInv == TypeOK /\ SessionInv /\ ChildInv /\ OutcomeInv /\ VerdictInv

-----------------------------------------------------------------------------
\* Two goroutines that have not returned are the same one.
LEMMA OneLoop ==
    ASSUME TypeOK, SessionInv, NEW k \in Loops, NEW l \in Loops, loop[k] # "gone", loop[l] # "gone"
    PROVE  k = l
<1>1. \A c, d \in Callers : joining[c] # None /\ joining[d] # None => c = d
  BY DEF TypeOK, SessionInv, LockInv, JoinInv
<1>2. CASE doneCh # None
  <2>1. \A c \in Callers : joining[c] = None
    BY <1>2 DEF SessionInv, JoinInv
  <2>2. QED BY <2>1, NoneAssumption DEF SessionInv, KnownInv
<1>3. CASE doneCh = None
  <2>1. PICK c \in Callers : joining[c] = k
    BY <1>3, NoneAssumption DEF SessionInv, KnownInv
  <2>2. PICK d \in Callers : joining[d] = l
    BY <1>3, NoneAssumption DEF SessionInv, KnownInv
  <2>3. QED BY <1>1, <2>1, <2>2, NoneAssumption
<1>4. QED BY <1>2, <1>3

LEMMA InitInv == Init => IInv
<1> SUFFICES ASSUME Init PROVE IInv
  OBVIOUS
<1>1. TypeOK
  BY ArgsAssumption DEF Init, TypeOK, CallerStates, LoopStates, ChildStates
<1>2. SessionInv
  BY NoneAssumption DEF Init, SessionInv, LockInv, JoinInv, KnownInv
<1>3. ChildInv
  BY NoneAssumption DEF Init, ChildInv
<1>4. OutcomeInv
  BY DEF Init, OutcomeInv
<1>5. VerdictInv
  BY DEF Init, VerdictInv
<1>6. QED BY <1>1, <1>2, <1>3, <1>4, <1>5 DEF IInv

-----------------------------------------------------------------------------
\* Every step keeps the types.
LEMMA TypeStep ==
    ASSUME TypeOK, JoinInv, [Next]_vars
    PROVE  TypeOK'
<1> USE DEF TypeOK, CallerStates, LoopStates, ChildStates
<1>1. ASSUME NEW c \in Callers, Lock(c) PROVE TypeOK'
  BY <1>1 DEF Lock, counterVars, loopVars
<1>2. ASSUME NEW c \in Callers, Unlock(c) PROVE TypeOK'
  BY <1>2 DEF Unlock, counterVars, loopVars
<1>3. ASSUME NEW c \in Callers, Start(c) PROVE TypeOK'
  BY <1>3 DEF Start, callerVars
<1>4. ASSUME NEW c \in Callers, StopBegin(c) PROVE TypeOK'
  BY <1>4 DEF StopBegin, counterVars, loopVars
<1>5. ASSUME NEW c \in Callers, Cancel(c) PROVE TypeOK'
  <2>1. joining[c] \in Loops
    BY <1>5 DEF Cancel, JoinInv
  <2>2. QED BY <1>5, <2>1 DEF Cancel, counterVars, loopVars
<1>6. ASSUME NEW c \in Callers, Join(c) PROVE TypeOK'
  BY <1>6 DEF Join, counterVars, loopVars
<1>7. ASSUME NEW c \in Callers, SetArgs(c) PROVE TypeOK'
  BY <1>7 DEF SetArgs, callerVars, counterVars, loopVars
<1>8. CASE CancelParent
  BY <1>8 DEF CancelParent, callerVars, counterVars, loopVars
<1>9. ASSUME NEW l \in Loops, LoopStep(l) PROVE TypeOK'
  <2>1. CASE Account(l) 
    <3>1. failures' \in Nat /\ restarts' \in Nat
      BY <2>1 DEF Account
    <3>2. givenUp' \in BOOLEAN /\ loop' \in [Loops -> LoopStates]
      BY <2>1 DEF Account, ShouldGiveUp
    <3>3. QED BY <2>1, <3>1, <3>2 DEF Account, callerVars
  <2>2. CASE Top(l) \/ ReadArgs(l) \/ Check(l) \/ BackoffEnds(l)
    BY <2>2 DEF Top, ReadArgs, Check, BackoffEnds, callerVars, counterVars
  <2>3. CASE Exec(l) \/ ExecFails(l)
    BY <2>3 DEF Exec, ExecFails, callerVars, counterVars
  <2>4. CASE Publish(l) \/ Reap(l)
    BY <2>4 DEF Publish, Reap, callerVars, counterVars
  <2>5. QED BY <1>9, <2>1, <2>2, <2>3, <2>4 DEF LoopStep
<1>10. ASSUME NEW l \in Loops, ChildExits(l) PROVE TypeOK'
  BY <1>10 DEF ChildExits, callerVars, counterVars
<1>11. ASSUME NEW l \in Loops, ChildTerminated(l) PROVE TypeOK'
  BY <1>11 DEF ChildTerminated, callerVars, counterVars
<1>12. CASE Kill
  BY <1>12, <1>10 DEF Kill
<1>13. CASE UNCHANGED vars
  BY <1>13 DEF vars, callerVars, counterVars, loopVars
<1>14. QED
  BY <1>1, <1>2, <1>3, <1>4, <1>5, <1>6, <1>7, <1>8, <1>9, <1>10, <1>11, <1>12, <1>13
  DEF Next, Command

-----------------------------------------------------------------------------
\* What a step of a goroutine, or of its child, leaves alone, in one place.
LEMMA LoopFrame ==
    ASSUME TypeOK, NEW l \in Loops, LoopStep(l) \/ ChildExits(l) \/ ChildTerminated(l)
    PROVE  /\ UNCHANGED <<cmdMu, pc, joining, doneCh, args, ctxDone, cancelled>>
           /\ \A k \in Loops \ {l} : loop'[k] = loop[k] /\ child'[k] = child[k]
           /\ loop[l] = "gone" => loop'[l] = "gone"
<1> USE DEF TypeOK, callerVars
<1>1. CASE Top(l) \/ ReadArgs(l) \/ Check(l) \/ BackoffEnds(l) \/ Account(l)
  BY <1>1 DEF Top, ReadArgs, Check, BackoffEnds, Account
<1>2. CASE Exec(l) \/ ExecFails(l) \/ Publish(l) \/ Reap(l)
  BY <1>2 DEF Exec, ExecFails, Publish, Reap
<1>3. CASE ChildExits(l) \/ ChildTerminated(l)
  BY <1>3 DEF ChildExits, ChildTerminated
<1>4. QED BY <1>1, <1>2, <1>3 DEF LoopStep

\* Every step keeps the account of who is inside a command and which goroutine
\* the session has.
LEMMA SessionStep ==
    ASSUME TypeOK, ChildInv, SessionInv, [Next]_vars
    PROVE  SessionInv'
<1> USE NoneAssumption DEF TypeOK, SessionInv, LockInv, JoinInv, KnownInv, loopVars
<1>1. ASSUME NEW c \in Callers, Lock(c) PROVE SessionInv'
  BY <1>1 DEF Lock, LockFree
<1>2. ASSUME NEW c \in Callers, Unlock(c) PROVE SessionInv'
  BY <1>2 DEF Unlock
<1>3. ASSUME NEW c \in Callers, Start(c) PROVE SessionInv'
  <2>1. PICK l \in Loops : doneCh' = l /\ loop' = [loop EXCEPT ![l] = "top"]
    BY <1>3 DEF Start
  <2>2. \A d \in Callers : d # c => pc[d] = "idle"
    BY <1>3 DEF Start
  <2>3. \A d \in Callers : joining[d] = None
    BY <1>3, <2>2 DEF Start
  <2>4. UNCHANGED <<cmdMu, pc, joining>>
    BY <1>3 DEF Start, callerVars
  <2>5. doneCh = None
    BY <1>3 DEF Start
  <2>6. LockInv' /\ JoinInv'
    BY <2>3, <2>4
  <2>7. KnownInv'
    BY <2>1, <2>3, <2>4, <2>5
  <2>8. QED BY <2>6, <2>7
<1>4. ASSUME NEW c \in Callers, StopBegin(c) PROVE SessionInv'
  <2>1. \A d \in Callers : joining[d] = None
    BY <1>4 DEF StopBegin
  <2>2. LockInv' /\ JoinInv'
    BY <1>4, <2>1 DEF StopBegin
  <2>3. KnownInv'
    BY <1>4, <2>1 DEF StopBegin
  <2>4. QED BY <2>2, <2>3
<1>5. ASSUME NEW c \in Callers, Cancel(c) PROVE SessionInv'
  BY <1>5 DEF Cancel
<1>6. ASSUME NEW c \in Callers, Join(c) PROVE SessionInv'
  <2>1. LockInv' /\ JoinInv'
    BY <1>6 DEF Join
  <2>2. KnownInv'
    BY <1>6 DEF Join, Finished
  <2>3. QED BY <2>1, <2>2
<1>7. ASSUME NEW c \in Callers, SetArgs(c) PROVE SessionInv'
  BY <1>7 DEF SetArgs, callerVars
<1>8. CASE CancelParent
  BY <1>8 DEF CancelParent, callerVars
<1>9. ASSUME NEW l \in Loops, LoopStep(l) \/ ChildExits(l) \/ ChildTerminated(l)
      PROVE  SessionInv'
  BY <1>9, LoopFrame
<1>10. CASE Kill
  BY <1>9, <1>10 DEF Kill
<1>11. CASE UNCHANGED vars
  BY <1>11 DEF vars, callerVars
<1>12. QED
  BY <1>1, <1>2, <1>3, <1>4, <1>5, <1>6, <1>7, <1>8, <1>9, <1>10, <1>11 DEF Next, Command

\* Commands leave children and handles alone, and only Start moves a goroutine,
\* one that has returned.
LEMMA CommandFrame ==
    ASSUME TypeOK, NEW c \in Callers, Command(c)
    PROVE  /\ UNCHANGED <<child, cmd, ctxDone>>
           /\ \A l \in Loops : loop[l] # "gone" => loop'[l] = loop[l]
           /\ \A l \in Loops : loop'[l] \in {loop[l], "top"}
           /\ \A l \in Loops : loop[l] # "gone" /\ l \in cancelled => l \in cancelled'
<1> USE DEF TypeOK, loopVars
<1>1. CASE Lock(c) \/ Unlock(c) \/ SetArgs(c)
  BY <1>1 DEF Lock, Unlock, SetArgs
<1>2. CASE Start(c)
  BY <1>2 DEF Start, Free
<1>3. CASE StopBegin(c) \/ Cancel(c) \/ Join(c)
  BY <1>3 DEF StopBegin, Cancel, Join
<1>4. QED BY <1>1, <1>2, <1>3 DEF Command

-----------------------------------------------------------------------------
\* Every step keeps children inside their goroutine and the handle on Wait.
LEMMA ChildStep ==
    ASSUME TypeOK, SessionInv, ChildInv, [Next]_vars
    PROVE  ChildInv'
<1> USE NoneAssumption DEF TypeOK, ChildInv
<1>1. ASSUME NEW c \in Callers, Command(c) PROVE ChildInv'
  BY <1>1, CommandFrame
<1>2. CASE CancelParent
  BY <1>2 DEF CancelParent, loopVars
<1>3. ASSUME NEW l \in Loops, LoopStep(l) PROVE ChildInv'
  <2>1. CASE Top(l) \/ ReadArgs(l) \/ Check(l) \/ BackoffEnds(l) \/ Account(l)
    BY <1>3, <2>1 DEF Top, ReadArgs, Check, BackoffEnds, Account
  <2>2. CASE Exec(l)
    BY <1>3, <2>2 DEF Exec
  <2>3. CASE ExecFails(l)
    BY <1>3, <2>3 DEF ExecFails
  <2>4. CASE Publish(l)
    <3>1. \A k \in Loops \ {l} : loop[k] = "gone"
      BY <2>4, OneLoop DEF Publish
    <3>2. QED BY <2>4, <3>1 DEF Publish
  <2>5. CASE Reap(l)
    BY <1>3, <2>5 DEF Reap
  <2>6. QED BY <1>3, <2>1, <2>2, <2>3, <2>4, <2>5 DEF LoopStep
<1>4. ASSUME NEW l \in Loops, ChildExits(l) \/ ChildTerminated(l) PROVE ChildInv'
  BY <1>4 DEF ChildExits, ChildTerminated
<1>5. CASE Kill
  BY <1>4, <1>5 DEF Kill
<1>6. CASE UNCHANGED vars
  BY <1>6 DEF vars, loopVars
<1>7. QED BY <1>1, <1>2, <1>3, <1>4, <1>5, <1>6 DEF Next

\* Every step keeps what is known of how a child ended.  Start reuses only the
\* identity of a goroutine that has returned, so no context in use is revived.
LEMMA OutcomeStep ==
    ASSUME TypeOK, ChildInv, OutcomeInv, [Next]_vars
    PROVE  OutcomeInv'
<1> USE DEF TypeOK, OutcomeInv, Cancelled
<1>1. ASSUME NEW c \in Callers, Command(c) PROVE OutcomeInv'
  BY <1>1, CommandFrame
<1>2. CASE CancelParent
  BY <1>2 DEF CancelParent, loopVars
<1>3. ASSUME NEW l \in Loops, LoopStep(l) PROVE OutcomeInv'
  <2> USE <1>3, LoopFrame
  <2>1. CASE Top(l) \/ ReadArgs(l) \/ BackoffEnds(l) \/ Account(l)
    BY <2>1 DEF Top, ReadArgs, BackoffEnds, Account
  <2>2. CASE Check(l)
    BY <2>2 DEF Check
  <2>3. CASE Exec(l) \/ ExecFails(l)
    BY <2>3 DEF Exec, ExecFails
  <2>4. CASE Publish(l) \/ Reap(l)
    BY <2>4 DEF Publish, Reap
  <2>5. QED BY <2>1, <2>2, <2>3, <2>4 DEF LoopStep
<1>4. ASSUME NEW l \in Loops, ChildExits(l) \/ ChildTerminated(l) PROVE OutcomeInv'
  BY <1>4, LoopFrame DEF ChildExits, ChildTerminated, ChildInv
<1>5. CASE Kill
  BY <1>4, <1>5 DEF Kill
<1>6. CASE UNCHANGED vars
  BY <1>6 DEF vars, loopVars
<1>7. QED BY <1>1, <1>2, <1>3, <1>4, <1>5, <1>6 DEF Next

\* Every step keeps the verdict: only Account gives it, ending the one goroutine
\* there was, and Start takes it back.
LEMMA VerdictStep ==
    ASSUME TypeOK, SessionInv, VerdictInv, ChildInv, [Next]_vars
    PROVE  VerdictInv'
<1> USE NoneAssumption DEF TypeOK, VerdictInv
<1>1. ASSUME NEW c \in Callers, Command(c) PROVE VerdictInv'
  <2>1. CASE Start(c)
    BY <2>1 DEF Start
  <2>2. CASE Lock(c) \/ Unlock(c) \/ StopBegin(c) \/ Cancel(c) \/ Join(c) \/ SetArgs(c)
    BY <2>2 DEF Lock, Unlock, StopBegin, Cancel, Join, SetArgs, counterVars, loopVars
  <2>3. QED BY <1>1, <2>1, <2>2 DEF Command
<1>2. CASE CancelParent
  BY <1>2 DEF CancelParent, loopVars, counterVars
<1>3. ASSUME NEW l \in Loops, LoopStep(l) PROVE VerdictInv'
  <2>1. \A k \in Loops \ {l} : loop[l] # "gone" => loop[k] = "gone"
    BY OneLoop
  <2>2. \A k \in Loops \ {l} : loop'[k] = loop[k]
    BY <1>3, LoopFrame
  <2>3. loop[l] # "gone"
    BY <1>3 DEF LoopStep, Top, ReadArgs, Exec, ExecFails, Publish, Reap, Check, Account, BackoffEnds
  <2>4. CASE Account(l)
    <3>1. givenUp' => loop'[l] = "gone"
      BY <2>4 DEF Account
    <3>2. QED BY <2>1, <2>2, <2>3, <3>1
  <2>5. CASE ~Account(l)
    <3>1. givenUp' = givenUp
      BY <1>3, <2>5 DEF LoopStep, Top, ReadArgs, Exec, ExecFails, Publish, Reap, Check, BackoffEnds,
         counterVars
    <3>2. QED BY <2>3, <3>1
  <2>6. QED BY <2>4, <2>5
<1>4. ASSUME NEW l \in Loops, ChildExits(l) \/ ChildTerminated(l) PROVE VerdictInv'
  BY <1>4 DEF ChildExits, ChildTerminated, counterVars
<1>5. CASE Kill
  BY <1>4, <1>5 DEF Kill
<1>6. CASE UNCHANGED vars
  BY <1>6 DEF vars, loopVars, counterVars
<1>7. QED BY <1>1, <1>2, <1>3, <1>4, <1>5, <1>6 DEF Next

-----------------------------------------------------------------------------
\* The inductive invariant, from which every safety property follows: the
\* commands, the goroutines and the processes of the supervisor stay in step.
THEOREM Inductive == Spec => []IInv
<1>1. IInv /\ [Next]_vars => IInv'
  BY TypeStep, SessionStep, ChildStep, OutcomeStep, VerdictStep DEF IInv, SessionInv
<1>2. QED BY InitInv, <1>1, PTL DEF Spec

\* The supervisor's state always has the shape its declarations give it.
THEOREM TypeCorrect == Spec => []TypeOK
BY Inductive, PTL DEF IInv

\* There is never a second process: supervise and runOnce live inside one
\* session, and Start, Stop and Reload hold cmdMu for all of it.
THEOREM AtMostOneChild == Spec => []OneChild
<1>1. IInv => OneChild
  BY OneLoop DEF IInv, ChildInv, OneChild, Alive
<1>2. QED BY Inductive, <1>1, PTL

\* After Stop has returned nothing it should have ended is left: no goroutine,
\* no process, no handle.
THEOREM StopLeavesNothing == Spec => []StopIsFinal
<1>1. IInv => StopIsFinal
  <2> SUFFICES ASSUME IInv, doneCh = None, ~Stopping PROVE cmd = None /\ \A l \in Loops : loop[l] = "gone" /\ ~Alive(l)
    BY DEF StopIsFinal
  <2>1. \A c \in Callers : joining[c] = None
    BY DEF IInv, SessionInv, JoinInv, Stopping
  <2>2. \A l \in Loops : loop[l] = "gone"
    BY <2>1, NoneAssumption DEF IInv, SessionInv, KnownInv
  <2>3. QED BY <2>2 DEF IInv, TypeOK, ChildInv, Alive
<1>2. QED BY Inductive, <1>1, PTL

\* The restart counter counts crashes and failed starts, never a requested end,
\* which Check tells apart before Account counts.
THEOREM CountsAreOfCrashes == Spec => []OnlyOwnExitsCount
<1>1. IInv => OnlyOwnExitsCount
  BY DEF IInv, OutcomeInv, OnlyOwnExitsCount
<1>2. QED BY Inductive, <1>1, PTL

\* A supervisor that reports it gave up has nothing running.
THEOREM VerdictIsTrue == Spec => []GivenUpIsDown
<1>1. IInv => GivenUpIsDown
  BY DEF IInv, VerdictInv, ChildInv, GivenUpIsDown, Alive
<1>2. QED BY Inductive, <1>1, PTL

\* The published handle, hence Running(), is that of the session's own child.
THEOREM HandleIsTrue == Spec => []HandleIsCurrent
<1>1. IInv => HandleIsCurrent
  BY DEF IInv, TypeOK, SessionInv, KnownInv, ChildInv, HandleIsCurrent
<1>2. QED BY Inductive, <1>1, PTL

-----------------------------------------------------------------------------
(* Supervisor implements Daemon.  The view that the refinement mapping     *)
(* takes of a state is characterised once (View), by what it is at each    *)
(* point of the goroutine and of Stop; then every step is one of Daemon,   *)
(* or a stutter, by the view before and after.                             *)


\* A goroutine's own context is cancelled exactly from Cancel on.
CancelInv ==
    /\ doneCh # None => doneCh \notin cancelled
    /\ \A c \in Callers :
        /\ pc[c] = "cancel" => joining[c] \notin cancelled
        /\ pc[c] = "join" => joining[c] \in cancelled

RInv == IInv /\ CancelInv

\* Every step keeps it: only the holder of cmdMu touches contexts, and Start
\* takes a goroutine identity that no Stop is waiting for.
LEMMA CancelStep ==
    ASSUME IInv, CancelInv, [Next]_vars
    PROVE  CancelInv'
<1> USE NoneAssumption DEF IInv, TypeOK, SessionInv, LockInv, JoinInv, CancelInv, loopVars
<1>1. ASSUME NEW c \in Callers, Lock(c) \/ Unlock(c) \/ SetArgs(c) PROVE CancelInv'
  BY <1>1 DEF Lock, Unlock, SetArgs, callerVars
<1>2. ASSUME NEW c \in Callers, Start(c) PROVE CancelInv'
  <2>1. \A d \in Callers : pc[d] \notin {"cancel", "join"}
    BY <1>2 DEF Start
  <2>2. pc' = pc /\ doneCh' \notin cancelled'
    BY <1>2 DEF Start, callerVars
  <2>3. QED BY <2>1, <2>2
<1>3. ASSUME NEW c \in Callers, StopBegin(c) PROVE CancelInv'
  BY <1>3 DEF StopBegin
<1>4. ASSUME NEW c \in Callers, Cancel(c) PROVE CancelInv'
  BY <1>4 DEF Cancel
<1>5. ASSUME NEW c \in Callers, Join(c) PROVE CancelInv'
  BY <1>5 DEF Join
<1>6. CASE CancelParent
  BY <1>6 DEF CancelParent, callerVars
<1>7. ASSUME NEW l \in Loops, LoopStep(l) \/ ChildExits(l) \/ ChildTerminated(l)
      PROVE  CancelInv'
  <2>1. UNCHANGED <<pc, joining, doneCh, cancelled>>
    BY <1>7, LoopFrame
  <2>2. QED BY <2>1
<1>8. CASE Kill
  BY <1>7, <1>8 DEF Kill
<1>9. CASE UNCHANGED vars
  BY <1>9 DEF vars, callerVars
<1>10. QED
  BY <1>1, <1>2, <1>3, <1>4, <1>5, <1>6, <1>7, <1>8, <1>9 DEF Next, Command

\* The invariant the refinement rests on: that of the safety theorems, and
\* which contexts are cancelled.
THEOREM RefinementInvariant == Spec => []RInv
<1>1. Init => CancelInv
  BY NoneAssumption DEF Init, CancelInv
<1>2. IInv /\ CancelInv /\ [Next]_vars => CancelInv'
  BY CancelStep
<1>3. QED BY <1>1, <1>2, Inductive, PTL DEF Spec, RInv

\* A started supervisor has a goroutine at work, as long as it neither gave up
\* nor had its context cancelled: what KeptAlive rests on.
Supervised == doneCh # None /\ ~givenUp /\ ~ctxDone => loop[doneCh] # "gone"

\* Every step keeps it: a goroutine returns on a cancelled context, and that of
\* a session has only the parent's to see, or with a verdict.
LEMMA SupervisedStep ==
    ASSUME RInv, Supervised, [Next]_vars
    PROVE  Supervised'
<1> USE NoneAssumption DEF RInv, IInv, TypeOK, CancelInv, Supervised, loopVars, counterVars
<1>1. ASSUME NEW c \in Callers, Start(c) PROVE Supervised'
  BY <1>1 DEF Start
<1>2. ASSUME NEW c \in Callers, StopBegin(c) PROVE Supervised'
  BY <1>2 DEF StopBegin
<1>3. ASSUME NEW c \in Callers, Lock(c) \/ Unlock(c) \/ Cancel(c) \/ Join(c) \/ SetArgs(c)
      PROVE  Supervised'
  BY <1>3 DEF Lock, Unlock, Cancel, Join, SetArgs
<1>4. CASE CancelParent
  BY <1>4 DEF CancelParent
<1>5. ASSUME NEW l \in Loops, LoopStep(l) PROVE Supervised'
  <2>1. UNCHANGED <<doneCh, cancelled, ctxDone>> /\ \A k \in Loops \ {l} : loop'[k] = loop[k]
    BY <1>5, LoopFrame DEF LoopStep, Top, ReadArgs, Exec, ExecFails, Publish, Reap, Check, Account, BackoffEnds
  <2>2. CASE doneCh # l
    <3>1. loop[l] # "gone"
      BY <1>5 DEF LoopStep, Top, ReadArgs, Exec, ExecFails, Publish, Reap, Check, Account, BackoffEnds
    <3>2. doneCh = None
      <4>1. loop[l] # "gone" => doneCh = l \/ \E c \in Callers : joining[c] = l
        BY DEF SessionInv, KnownInv
      <4>2. QED BY <2>2, <3>1, <4>1 DEF SessionInv, JoinInv
    <3> QED BY <2>1, <3>2
  <2>3. CASE doneCh = l
    <3>1. l \notin cancelled
      BY <2>3
    <3>2. CASE Account(l)
      <4>1. loop' = [loop EXCEPT ![l] = IF givenUp' THEN "gone" ELSE "backoff"]
        BY <3>2 DEF Account
      <4>2. givenUp' \/ loop'[l] # "gone"
        BY <4>1
      <4> QED BY <2>1, <2>3, <4>2
    <3>3. CASE Top(l) \/ Check(l) \/ BackoffEnds(l)
      BY <2>1, <3>1, <3>3 DEF Top, Check, BackoffEnds, Cancelled
    <3>4. CASE ReadArgs(l) \/ Exec(l) \/ ExecFails(l) \/ Publish(l) \/ Reap(l)
      BY <2>1, <3>4 DEF ReadArgs, Exec, ExecFails, Publish, Reap
    <3> QED BY <1>5, <3>2, <3>3, <3>4 DEF LoopStep
  <2> QED BY <2>2, <2>3
<1>6. ASSUME NEW l \in Loops, ChildExits(l) \/ ChildTerminated(l) PROVE Supervised'
  BY <1>6 DEF ChildExits, ChildTerminated
<1>7. CASE Kill
  BY <1>6, <1>7 DEF Kill
<1>8. CASE UNCHANGED vars
  BY <1>8 DEF vars
<1> QED BY <1>1, <1>2, <1>3, <1>4, <1>5, <1>6, <1>7, <1>8 DEF Next, Command

\* No started supervisor is left without a goroutine that brings the child back,
\* whatever exits, kills, backoffs and Stops of others came before.
THEOREM NeverAbandoned == Spec => []Supervised
<1>1. Init => Supervised
  BY DEF Init, Supervised
<1>2. RInv /\ Supervised /\ [Next]_vars => Supervised'
  BY SupervisedStep
<1> QED BY <1>1, <1>2, RefinementInvariant, PTL DEF Spec

-----------------------------------------------------------------------------
AllGone == \A l \in Loops : loop[l] = "gone"

\* The session, at each point of Stop, and when a goroutine's context is done.
SessionIs ==
    /\ doneCh # None => SessionView = "up"
    /\ \A c \in Callers : pc[c] = "cancel" => SessionView = "up"
    /\ \A c \in Callers : pc[c] = "join" => SessionView = "stopping"
    /\ doneCh = None /\ (\A c \in Callers : pc[c] \notin {"cancel", "join"}) => SessionView = "down"
    /\ \A l \in Loops : loop[l] # "gone" =>
        /\ Cancelled(l) <=> SessionView = "stopping" \/ ctxDone
        /\ SessionView # "down"

\* The stage and the arguments, at each point of the goroutine.
StageIs ==
    /\ AllGone => StageView = "none" /\ ArgsView = None
    /\ \A l \in Loops :
        /\ loop[l] \in {"top", "backoff"} => StageView = "none" /\ ArgsView = None
        /\ loop[l] = "args" => StageView = "checked" /\ ArgsView = None
        /\ loop[l] = "exec" => StageView = "prepared" /\ ArgsView = argv[l]
        /\ loop[l] = "spawned" => StageView = "spawned" /\ ArgsView = argv[l]
        /\ loop[l] = "wait" => StageView = "running" /\ ArgsView = argv[l]
        /\ loop[l] \in {"check", "account"} => StageView = "exited" /\ ArgsView = None

View == SessionIs /\ StageIs

\* The goroutine that has not returned is the current one.
LEMMA CurrentLoop ==
    ASSUME IInv, NEW l \in Loops, loop[l] # "gone"
    PROVE  Current = l
<1> USE NoneAssumption DEF IInv, TypeOK, SessionInv, LockInv, JoinInv, KnownInv
<1>1. CASE doneCh # None
  <2>1. \A c \in Callers : joining[c] = None
    BY <1>1
  <2>2. doneCh = l
    BY <2>1
  <2>3. QED BY <1>1, <2>2 DEF Current
<1>2. CASE doneCh = None
  <2>1. PICK c \in Callers : joining[c] = l
    BY <1>2
  <2>2. \A d \in Callers : joining[d] # None => d = c
    BY <2>1
  <2>3. (CHOOSE d \in Callers : joining[d] # None) = c
    BY <2>1, <2>2
  <2>4. QED BY <1>2, <2>1, <2>3 DEF Current
<1>3. QED BY <1>1, <1>2

\* What the mapping makes of a state that satisfies the invariant.
LEMMA ViewOf == RInv => View
<1> SUFFICES ASSUME RInv PROVE View
  OBVIOUS
<1> USE NoneAssumption DEF RInv, IInv, TypeOK
<1>1. SessionIs
  <2> USE DEF SessionInv, LockInv, JoinInv
  <2>1. doneCh # None => SessionView = "up"
    BY DEF SessionView
  <2>2. \A c \in Callers : pc[c] = "cancel" => SessionView = "up"
    BY DEF SessionView
  <2>3. \A c \in Callers : pc[c] = "join" => SessionView = "stopping"
    BY DEF SessionView
  <2>4. doneCh = None /\ (\A c \in Callers : pc[c] \notin {"cancel", "join"}) => SessionView = "down"
    BY DEF SessionView
  <2>5. ASSUME NEW l \in Loops, loop[l] # "gone"
        PROVE  (Cancelled(l) <=> SessionView = "stopping" \/ ctxDone) /\ SessionView # "down"
    <3>1. CASE doneCh = l
      BY <3>1, <2>1 DEF CancelInv, Cancelled
    <3>2. ASSUME NEW c \in Callers, joining[c] = l
          PROVE  (Cancelled(l) <=> SessionView = "stopping" \/ ctxDone) /\ SessionView # "down"
      <4>1. pc[c] \in {"cancel", "join"}
        BY <3>2
      <4>2. QED BY <3>2, <4>1, <2>2, <2>3 DEF CancelInv, Cancelled
    <3>3. QED BY <2>5, <3>1, <3>2 DEF KnownInv
  <2>6. QED BY <2>1, <2>2, <2>3, <2>4, <2>5 DEF SessionIs
<1>2. StageIs
  <2>1. ASSUME AllGone PROVE StageView = "none" /\ ArgsView = None
    <3>1. Current \in Loops \cup {None}
      BY DEF Current
    <3>2. StageView = "none"
      BY <2>1, <3>1 DEF StageView, StageOf, AllGone
    <3>3. QED BY <3>2 DEF ArgsView
  <2>2. ASSUME NEW l \in Loops, loop[l] # "gone"
        PROVE  StageView = StageOf(loop[l]) /\ (StageView \in {"prepared", "spawned", "running"} => ArgsView = argv[l])
    <3>1. Current = l
      BY <2>2, CurrentLoop
    <3>2. QED BY <3>1 DEF StageView, ArgsView
  <2>3. StageView \notin {"prepared", "spawned", "running"} => ArgsView = None
    BY DEF ArgsView
  <2>4. QED BY <2>1, <2>2, <2>3 DEF StageIs, StageOf
<1>3. QED BY <1>1, <1>2 DEF View

-----------------------------------------------------------------------------
\* A step that moves no goroutine and reads no arguments does not move the child.
LEMMA SameStage ==
    ASSUME IInv, StageIs, StageIs', UNCHANGED <<loop, argv>>
    PROVE  UNCHANGED <<StageView, ArgsView>>
<1>1. CASE AllGone
  BY <1>1 DEF StageIs, AllGone
<1>2. ASSUME NEW l \in Loops, loop[l] # "gone" PROVE UNCHANGED <<StageView, ArgsView>>
  BY <1>2 DEF StageIs, IInv, TypeOK, LoopStates
<1>3. QED BY <1>1, <1>2 DEF AllGone

\* A goroutine and its child do not change the session.
LEMMA SameSession ==
    ASSUME UNCHANGED <<doneCh, pc>>
    PROVE  UNCHANGED SessionView
BY DEF SessionView

\* The commands: Start and SetArgs as they are; Stop begins when it cancels the
\* context and ends when it has joined the goroutine.
LEMMA CommandRefines ==
    ASSUME RInv, View, View', NEW c \in Callers, Command(c)
    PROVE  [Promise!DaemonNext]_(Promise!dvars)
<1> USE DEF RInv, View, Promise!dvars
<1>1. CASE Lock(c) \/ Unlock(c)
  <2>1. UNCHANGED <<doneCh, joining, args, loop, argv, restarts, givenUp, ctxDone>>
    BY <1>1 DEF Lock, Unlock, counterVars, loopVars
  <2>2. \A d \in Callers : pc'[d] \in {"cancel", "join"} <=> pc[d] \in {"cancel", "join"}
    BY <1>1 DEF Lock, Unlock, IInv, TypeOK
  <2>3. \A d \in Callers : pc'[d] = "cancel" <=> pc[d] = "cancel"
    BY <1>1 DEF Lock, Unlock, IInv, TypeOK
  <2>4. \A d \in Callers : pc'[d] = "join" <=> pc[d] = "join"
    BY <2>2, <2>3
  <2>5. UNCHANGED SessionView
    BY <2>1, <2>3, <2>4 DEF SessionView
  <2>6. QED BY <2>1, <2>5, SameStage
<1>2. CASE Start(c)
  <2>1. doneCh = None /\ doneCh' # None
    BY <1>2, NoneAssumption DEF Start
  <2>2. \A d \in Callers : pc[d] \notin {"cancel", "join"}
    BY <1>2 DEF Start, IInv, TypeOK, SessionInv, LockInv
  <2>3. SessionView = "down" /\ SessionView' = "up"
    BY <2>1, <2>2 DEF SessionIs
  <2>4. AllGone
    BY <2>3 DEF SessionIs, AllGone
  <2>5. PICK l \in Loops : loop'[l] = "top"
    BY <1>2 DEF Start, IInv, TypeOK
  <2>6. UNCHANGED <<StageView, ArgsView>>
    BY <2>4, <2>5 DEF StageIs
  <2>7. StageView = "none" /\ givenUp' = FALSE /\ UNCHANGED <<args, restarts, ctxDone>>
    BY <2>4, <1>2 DEF StageIs, Start
  <2>8. Promise!StartSession
    BY <2>3, <2>6, <2>7 DEF Promise!StartSession
  <2>9. QED BY <2>8 DEF Promise!DaemonNext
<1>3. CASE StopBegin(c)
  <2>1. UNCHANGED <<args, loop, argv, restarts, givenUp, ctxDone>>
    BY <1>3 DEF StopBegin, counterVars, loopVars
  <2>2. SessionView = "up"
    BY <1>3 DEF StopBegin, SessionIs
  <2>3. pc'[c] = "cancel"
    BY <1>3 DEF StopBegin, IInv, TypeOK
  <2>4. SessionView' = "up"
    BY <2>3 DEF SessionIs
  <2>5. QED BY <2>1, <2>2, <2>4, SameStage
<1>4. CASE Cancel(c)
  <2>1. UNCHANGED <<args, loop, argv, restarts, givenUp, ctxDone>>
    BY <1>4 DEF Cancel, counterVars, loopVars
  <2>2. SessionView = "up"
    BY <1>4 DEF Cancel, SessionIs
  <2>3. pc'[c] = "join"
    BY <1>4 DEF Cancel, IInv, TypeOK
  <2>4. SessionView' = "stopping"
    BY <2>3 DEF SessionIs
  <2>5. Promise!BeginStop
    BY <2>1, <2>2, <2>4, SameStage DEF Promise!BeginStop
  <2>6. QED BY <2>5 DEF Promise!DaemonNext
<1>5. CASE Join(c)
  <2>1. UNCHANGED <<args, loop, argv, restarts, givenUp, ctxDone>>
    BY <1>5 DEF Join, counterVars, loopVars
  <2>2. SessionView = "stopping"
    BY <1>5 DEF Join, SessionIs
  <2>3. doneCh' = None /\ \A d \in Callers : pc'[d] \notin {"cancel", "join"}
    BY <1>5 DEF Join, IInv, TypeOK, SessionInv, LockInv, JoinInv
  <2>4. SessionView' = "down"
    BY <2>3 DEF SessionIs
  <2>5. AllGone
    BY <2>1, <2>4 DEF SessionIs, AllGone
  <2>6. StageView = "none"
    BY <2>5 DEF StageIs
  <2>7. Promise!EndStop
    BY <2>1, <2>2, <2>4, <2>6, SameStage DEF Promise!EndStop
  <2>8. QED BY <2>7 DEF Promise!DaemonNext
<1>6. CASE SetArgs(c)
  <2>1. PICK a \in ArgLists : args' = a
    BY <1>6 DEF SetArgs
  <2>2. UNCHANGED <<doneCh, pc, loop, argv, restarts, givenUp, ctxDone>>
    BY <1>6 DEF SetArgs, callerVars, counterVars, loopVars
  <2>3. Promise!SetDaemonArgs(a)
    BY <2>1, <2>2, SameStage, SameSession DEF Promise!SetDaemonArgs
  <2>4. QED BY <2>3 DEF Promise!DaemonNext
<1>7. QED BY <1>1, <1>2, <1>3, <1>4, <1>5, <1>6 DEF Command

-----------------------------------------------------------------------------
\* A step of a goroutine leaves the session alone; when it returns, no stage is left.
LEMMA Moves ==
    ASSUME RInv, View', NEW l \in Loops, LoopStep(l)
    PROVE  /\ UNCHANGED <<SessionView, args, ctxDone>>
           /\ loop[l] # "gone"
           /\ loop'[l] = "gone" => StageView' = "none" /\ ArgsView' = None
<1> USE DEF RInv, IInv
<1>1. UNCHANGED <<doneCh, pc, args, ctxDone>> /\ \A k \in Loops \ {l} : loop'[k] = loop[k]
  BY LoopFrame
<1>2. loop[l] # "gone"
  BY DEF LoopStep, Top, ReadArgs, Exec, ExecFails, Publish, Reap, Check, Account, BackoffEnds
<1>3. \A k \in Loops \ {l} : loop[k] = "gone"
  BY <1>2, OneLoop
<1>4. loop'[l] = "gone" => AllGone'
  BY <1>1, <1>3 DEF AllGone
<1>5. QED BY <1>1, <1>2, <1>4, SameSession DEF View, StageIs

\* The goroutine: its points are the stages of the child, those without a child
\* being one stage, and those between the end of a child and its account another.
LEMMA LoopRefines ==
    ASSUME RInv, View, View', NEW l \in Loops, LoopStep(l)
    PROVE  [Promise!DaemonNext]_(Promise!dvars)
<1> USE DEF RInv, IInv, TypeOK, Promise!dvars, Promise!Ending, counterVars
<1>1. /\ UNCHANGED <<SessionView, args, ctxDone>>
      /\ loop[l] # "gone"
      /\ loop'[l] = "gone" => StageView' = "none" /\ ArgsView' = None
  BY Moves
<1>2. Cancelled(l) <=> SessionView = "stopping" \/ ctxDone
  BY <1>1 DEF View, SessionIs
<1>3. SessionView \in {"up", "stopping"}
  BY <1>1 DEF SessionView, View, SessionIs
<1>4. CASE Top(l)
  <2>1. loop[l] = "top" /\ loop'[l] = IF Cancelled(l) THEN "gone" ELSE "args"
    BY <1>4 DEF Top
  <2>2. StageView = "none" /\ ArgsView = None /\ UNCHANGED <<restarts, givenUp>>
    BY <1>4, <2>1 DEF Top, View, StageIs
  <2>3. ~givenUp
    BY <2>1 DEF VerdictInv
  <2>4. CASE Cancelled(l)
    BY <1>1, <2>1, <2>2, <2>4
  <2>5. CASE ~Cancelled(l)
    <3>1. StageView' = "checked" /\ ArgsView' = None
      BY <2>1, <2>5 DEF View, StageIs
    <3>2. Promise!Attempt
      BY <1>1, <1>2, <1>3, <2>2, <2>3, <2>5, <3>1 DEF Promise!Attempt
    <3>3. QED BY <3>2 DEF Promise!DaemonNext, Promise!ChildStep
  <2>6. QED BY <2>4, <2>5
<1>5. CASE ReadArgs(l)
  <2>1. loop[l] = "args" /\ loop'[l] = "exec" /\ argv'[l] = args /\ UNCHANGED <<restarts, givenUp>>
    BY <1>5 DEF ReadArgs
  <2>2. StageView = "checked" /\ StageView' = "prepared" /\ ArgsView' = args
    BY <2>1 DEF View, StageIs
  <2>3. Promise!Prepare
    BY <1>1, <2>1, <2>2 DEF Promise!Prepare
  <2>4. QED BY <2>3 DEF Promise!DaemonNext, Promise!ChildStep
<1>6. CASE Exec(l)
  <2>1. loop[l] = "exec" /\ loop'[l] = "spawned" /\ UNCHANGED <<argv, restarts, givenUp>>
    BY <1>6 DEF Exec
  <2>2. StageView = "prepared" /\ StageView' = "spawned" /\ UNCHANGED ArgsView
    BY <2>1 DEF View, StageIs
  <2>3. ~Promise!Ending
    BY <1>2, <1>6 DEF Exec
  <2>4. Promise!Spawn
    BY <1>1, <2>1, <2>2, <2>3 DEF Promise!Spawn
  <2>5. QED BY <2>4 DEF Promise!DaemonNext, Promise!ChildStep
<1>7. CASE ExecFails(l)
  <2>1. loop[l] = "exec" /\ loop'[l] = "check" /\ UNCHANGED <<restarts, givenUp>>
    BY <1>7 DEF ExecFails
  <2>2. StageView = "prepared" /\ StageView' = "exited" /\ ArgsView' = None
    BY <2>1 DEF View, StageIs
  <2>3. Promise!SpawnFails
    BY <1>1, <2>1, <2>2 DEF Promise!SpawnFails
  <2>4. QED BY <2>3 DEF Promise!DaemonNext, Promise!ChildStep
<1>8. CASE Publish(l)
  <2>1. loop[l] = "spawned" /\ loop'[l] = "wait" /\ UNCHANGED <<argv, restarts, givenUp>>
    BY <1>8 DEF Publish
  <2>2. StageView = "spawned" /\ StageView' = "running" /\ UNCHANGED ArgsView
    BY <2>1 DEF View, StageIs
  <2>3. Promise!Announce
    BY <1>1, <2>1, <2>2 DEF Promise!Announce
  <2>4. QED BY <2>3 DEF Promise!DaemonNext, Promise!ChildStep
<1>9. CASE Reap(l)
  <2>1. loop[l] = "wait" /\ loop'[l] = "check" /\ UNCHANGED <<restarts, givenUp>>
    BY <1>9 DEF Reap
  <2>2. StageView = "running" /\ StageView' = "exited" /\ ArgsView' = None
    BY <2>1 DEF View, StageIs
  <2>3. Promise!Reaped
    BY <1>1, <2>1, <2>2 DEF Promise!Reaped
  <2>4. QED BY <2>3 DEF Promise!DaemonNext, Promise!ChildStep
<1>10. CASE Check(l)
  <2>1. loop[l] = "check" /\ loop'[l] = IF Cancelled(l) THEN "gone" ELSE "account"
    BY <1>10 DEF Check
  <2>2. StageView = "exited" /\ ArgsView = None /\ UNCHANGED <<restarts, givenUp>>
    BY <1>10, <2>1 DEF Check, View, StageIs
  <2>3. CASE Cancelled(l)
    <3>1. Promise!Abandon
      BY <1>1, <1>2, <2>1, <2>2, <2>3 DEF Promise!Abandon
    <3>2. QED BY <3>1 DEF Promise!DaemonNext, Promise!ChildStep
  <2>4. CASE ~Cancelled(l)
    <3>1. StageView' = "exited" /\ ArgsView' = None
      BY <2>1, <2>4 DEF View, StageIs
    <3>2. QED BY <1>1, <2>2, <3>1
  <2>5. QED BY <2>3, <2>4
<1>11. CASE Account(l)
  <2>1. loop[l] = "account" /\ loop'[l] \in {"gone", "backoff"} /\ restarts' = restarts + 1
    BY <1>11 DEF Account
  <2>2. givenUp' \in BOOLEAN /\ (givenUp' => GiveUpAfter > 0)
    BY <1>11 DEF Account, ShouldGiveUp
  <2>3. StageView = "exited" /\ ArgsView = None
    BY <2>1 DEF View, StageIs
  <2>4. StageView' = "none" /\ ArgsView' = None
    BY <1>1, <2>1 DEF View, StageIs
  <2>5. Promise!Count
    BY <1>1, <2>1, <2>2, <2>3, <2>4 DEF Promise!Count
  <2>6. QED BY <2>5 DEF Promise!DaemonNext, Promise!ChildStep
<1>12. CASE BackoffEnds(l)
  <2>1. loop[l] = "backoff" /\ loop'[l] \in {"top", "gone"} /\ UNCHANGED <<restarts, givenUp>>
    BY <1>12 DEF BackoffEnds
  <2>2. StageView = "none" /\ ArgsView = None
    BY <2>1 DEF View, StageIs
  <2>3. StageView' = "none" /\ ArgsView' = None
    BY <1>1, <2>1 DEF View, StageIs
  <2>4. QED BY <1>1, <2>1, <2>2, <2>3
<1>13. QED
  BY <1>4, <1>5, <1>6, <1>7, <1>8, <1>9, <1>10, <1>11, <1>12 DEF LoopStep

-----------------------------------------------------------------------------
\* Initially there is no session, in either.
LEMMA InitRefines == Init => Promise!DaemonInit
<1> SUFFICES ASSUME Init PROVE Promise!DaemonInit
  OBVIOUS
<1>1. SessionView = "down"
  BY DEF Init, SessionView
<1>2. Current = None
  BY DEF Init, Current
<1>3. StageView = "none" /\ ArgsView = None
  BY <1>2 DEF StageView, ArgsView
<1>4. QED BY <1>1, <1>3 DEF Init, Promise!DaemonInit

\* The supervisor does nothing that its contract, on which the controller is
\* built, does not allow: for all callers, goroutines, arguments and limits.
THEOREM Refines == Spec => ImplementsDaemon
<1>1. RInv /\ View /\ View' /\ [Next]_vars => [Promise!DaemonNext]_(Promise!dvars)
  <2> SUFFICES ASSUME RInv, View, View', [Next]_vars PROVE [Promise!DaemonNext]_(Promise!dvars)
    OBVIOUS
  <2>1. ASSUME NEW c \in Callers, Command(c) PROVE [Promise!DaemonNext]_(Promise!dvars)
    BY <2>1, CommandRefines
  <2>2. CASE CancelParent
    <3>1. UNCHANGED <<StageView, ArgsView, SessionView>>
      BY <2>2, SameStage, SameSession DEF CancelParent, callerVars, loopVars, RInv, View
    <3>2. Promise!CancelCtx
      BY <2>2, <3>1 DEF CancelParent, counterVars, Promise!CancelCtx
    <3>3. QED BY <3>2 DEF Promise!DaemonNext
  <2>3. ASSUME NEW l \in Loops, LoopStep(l) PROVE [Promise!DaemonNext]_(Promise!dvars)
    BY <2>3, LoopRefines
  <2>4. ASSUME UNCHANGED <<loop, argv, doneCh, pc, args, restarts, givenUp, ctxDone>>
        PROVE  UNCHANGED Promise!dvars
    BY <2>4, SameStage, SameSession DEF RInv, View, Promise!dvars
  <2>5. ASSUME NEW l \in Loops, ChildExits(l) \/ ChildTerminated(l) PROVE UNCHANGED Promise!dvars
    BY <2>4, <2>5 DEF ChildExits, ChildTerminated, callerVars, counterVars
  <2>6. CASE Kill
    <3>1. cmd \in Loops /\ ChildExits(cmd)
      BY <2>6 DEF Kill, RInv, IInv, TypeOK
    <3>2. QED BY <2>5, <3>1
  <2>7. CASE UNCHANGED vars
    BY <2>4, <2>7 DEF vars, callerVars, counterVars, loopVars
  <2>8. QED BY <2>1, <2>2, <2>3, <2>5, <2>6, <2>7 DEF Next
<1>2. QED
  BY <1>1, InitRefines, RefinementInvariant, ViewOf, PTL DEF Spec, ImplementsDaemon, Promise!DaemonSpec
=============================================================================
