--------------------------- MODULE RoadmapProofs ---------------------------
(***************************************************************************)
(* What becomes of a roadmap, for any number of tasks and operators.       *)
(*                                                                         *)
(* The planner never loses one from sight whose dependencies have no       *)
(* cycle.  The argument looks at the first task that is neither completed  *)
(* nor in trouble: what it needs comes before it and is completed, so it   *)
(* is ready itself, or what it needs is a task after which an advance is   *)
(* due.                                                                    *)
(*                                                                         *)
(* One that is retired is retired for good, as long as nobody undoes a     *)
(* clear (no recover-clear).                                               *)
(***************************************************************************)
EXTENDS IssueSafetyProofs, Planning, WellFoundedInduction

\* No task needs itself, directly or through others: the tasks can be numbered so that
\* each one comes after what it needs.
NeedsComeFirst == \A i \in Issues : \A d \in Needs[i] : d < i

LEMMA Smallest ==
  ASSUME NEW set, set \subseteq Nat, set # {}
  PROVE  \E i \in set : \A j \in set : i <= j
<1> DEFINE below == OpToRel(<, Nat)
<1>1. PICK i \in set : \A j \in set : <<j, i>> \notin below
  <2> HIDE DEF below
  <2>1. IsWellFoundedOn(below, Nat)
    BY NatLessThanWellFounded DEF below
  <2>2. QED
    BY <2>1, WFMin
<1>2. \A j \in set : ~(j < i)
  BY <1>1 DEF OpToRel
<1>3. QED
  BY <1>2

\* A task that can be worked on is offered, or another one that goes before it.
LEMMA ReadyTaskOffered ==
  ASSUME NEW seen, DependencyReady(seen) # {}
  PROVE  NextTask(seen) # {}
<1> DEFINE ready == DependencyReady(seen)
           candidates == IF ready \cap SideTasks # {} THEN ready \cap SideTasks ELSE ready
<1>1. candidates # {} /\ candidates \subseteq Issues
  BY DEF DependencyReady
<1>2. candidates \subseteq Nat
  BY <1>1, IssuesAssumption
<1>3. PICK i \in candidates : \A j \in candidates : i <= j
  BY <1>1, <1>2, Smallest
<1>4. i \in NextTask(seen)
  BY <1>1, <1>3 DEF NextTask, First
<1>5. QED
  BY <1>4

\* A task that has no label yet, and that nothing is missing for, is seen from every task
\* it needs, unless one of them is in trouble.
LEMMA OpenTaskNoticed ==
  ASSUME NEW seen \in [Issues -> Sightings], NEW i \in Issues, seen[i] = "open",
         \A d \in Needs[i] : Completed(seen, d),
         NEW d \in Needs[i],
         \A j \in Issues : seen[j] # "state:failed"
  PROVE  AdvanceCandidates(seen) \cup LeftToReconcile(seen) # {}
<1>1. d \in Issues /\ Completed(seen, d)
  BY NeedsAssumption
<1>2. i \in Downstream(d) /\ i \in Advanceable(seen, d) /\ i \in AdvanceTargets(seen, d)
  BY DEF Downstream, Advanceable, AdvanceTargets
<1>3. Decision(seen, d) \in {"requires_reconcile", "advance_mainline"}
  <2>1. ~\E j \in Downstream(d) : seen[j] = "state:failed"
    BY DEF Downstream
  <2>2. QED
    BY <1>2, <2>1 DEF Decision
<1>4. d \in AdvanceCandidates(seen) \cup LeftToReconcile(seen)
  BY <1>1, <1>2, <1>3 DEF AdvanceCandidates, LeftToReconcile
<1>5. QED
  BY <1>4

\* Whatever has been read of the tasks, the planner has something to say.
LEMMA SomethingIsSaid ==
  ASSUME NeedsComeFirst, NEW snapshot \in Snapshots
  PROVE  LET seen == Known(snapshot)
         IN  \/ \A i \in Issues : CountedAs(seen, i) = "completed"
             \/ \E i \in Issues : seen[i] \in {"state:active", "state:failed", "stale"}
             \/ NextTask(seen) # {}
             \/ AdvanceCandidates(seen) \cup LeftToReconcile(seen) # {}
<1> DEFINE seen == Known(snapshot)
           troubled == {"state:active", "state:failed", "stale"}
           left == {i \in Issues : seen[i] \in {"state:ready", "open"}}
<1> SUFFICES ASSUME \A i \in Issues : seen[i] \notin troubled,
                    ~\A i \in Issues : CountedAs(seen, i) = "completed"
             PROVE  NextTask(seen) # {} \/ AdvanceCandidates(seen) \cup LeftToReconcile(seen) # {}
  OBVIOUS
<1>1. \A i \in Issues : snapshot[i] \in StateLabels \cup {"open", "closed", "stale"}
  BY DEF Snapshots, TaskStates
<1>2. \A i \in Issues : /\ seen[i] \in StateLabels \cup {"open", "closed", "stale"}
                        /\ seen[i] = "open" => Needs[i] # {}
  BY <1>1 DEF Known, StateLabels
<1>3. \A i \in Issues : Completed(seen, i) \/ i \in left
  BY <1>2 DEF Completed, CompletedPlannerStates, StateLabels
<1>4. seen \in [Issues -> Sightings]
  <2>1. seen = [i \in Issues |-> seen[i]]
    BY DEF Known
  <2>2. QED
    BY <1>2, <2>1 DEF Sightings
<1> HIDE DEF seen
<1>5. \A i \in Issues : Completed(seen, i) => CountedAs(seen, i) = "completed"
  BY DEF CountedAs, Completed, CompletedPlannerStates
<1>6. left # {}
  BY <1>3, <1>5
<1>7. PICK i \in left : \A j \in left : i <= j
  <2>1. left \subseteq Nat
    BY IssuesAssumption
  <2>2. QED
    BY <1>6, <2>1, Smallest
<1>8. i \in Issues /\ Needs[i] \subseteq Issues
  BY NeedsAssumption
<1>9. \A d \in Needs[i] : Completed(seen, d)
  <2>1. \A d \in Needs[i] : d < i /\ d \in Nat /\ i \in Nat
    BY <1>8, IssuesAssumption DEF NeedsComeFirst
  <2>2. \A d \in Needs[i] : d \notin left
    BY <1>7, <2>1
  <2>3. QED
    BY <1>3, <1>8, <2>2
<1>10. CASE seen[i] = "state:ready"
  <2>1. i \in DependencyReady(seen)
    BY <1>8, <1>9, <1>10 DEF DependencyReady, MissingNeeds
  <2>2. QED
    BY <2>1, ReadyTaskOffered
<1>11. CASE seen[i] = "open"
  <2>1. PICK d \in Needs[i] : TRUE
    BY <1>2, <1>8, <1>11
  <2>2. \A j \in Issues : seen[j] # "state:failed"
    OBVIOUS
  <2>3. QED
    BY <1>4, <1>8, <1>9, <1>11, <2>1, <2>2, OpenTaskNoticed
<1>12. QED
  BY <1>7, <1>10, <1>11

\* A roadmap whose dependencies have no cycle never comes to rest unnoticed.
THEOREM RoadmapIsNotForgotten ==
  ASSUME NeedsComeFirst
  PROVE  Spec => []RoadmapGoesOn
<1>1. RoadmapGoesOn
  BY SomethingIsSaid DEF RoadmapGoesOn
<1>2. QED
  BY <1>1, PTL

-----------------------------------------------------------------------------
(* Clearing.                                                               *)

NoRecovery == "recover" \notin Used

\* Only recover-clear reopens: what is closed or finished stays so.
LEMMA RetiredKept ==
  ASSUME NoRecovery, TypeOK, NEW p \in Operators, CommandStep(p),
         command[p].name \in Used \cup {"none"}, NEW i \in Issues, Retired(i)
  PROVE  Retired(i)'
<1>0. TrackerTypeOK /\ command[p].todo \subseteq Issues
  BY DEF TypeOK, CommandTypeOK, Command
<1>1. Finished(i) => Finished(i)'
  BY LabelsKept
<1>2. issueState[i] # "open" => issueState'[i] # "open"
  <2>1. CASE UNCHANGED issueState
    BY <2>1
  <2>2. CASE IntegrationClose(p) \/ ClearClose(p) \/ RecoverClose(p)
    <3>1. PICK j \in Issues, outcome \in Outcomes("close"),
               reason \in {"completed", "not planned"} : Close(j, outcome, reason)
      BY <1>0, <2>2 DEF IntegrationClose, ClearClose, RecoverClose
    <3>2. QED
      BY <1>0, <3>1 DEF Close, TrackerTypeOK
  <2>3. ~RecoverReopen(p)
    BY DEF RecoverReopen, Running, NoRecovery
  <2>4. \/ UNCHANGED issueState
        \/ IntegrationClose(p) \/ ClearClose(p) \/ RecoverClose(p) \/ RecoverReopen(p)
    BY DEF CommandStep, ClaimStep, ClaimList, ClaimCheck, ClaimSelect, RunIssue, ClaimEdit,
         TransitionStep, PlanTransition, EvaluateGateForComplete, TransitionEdit,
         IntegrationStep, PlanIntegration, MayIntegrate, PlanNoopIntegration, MayIntegrateNoop, IntegrationEdit,
         Stop, RoadmapStep, StartAdvance, StartClear, StartRecover, StartReading,
         ReadTask, PlanAdvance, AdvanceEdit, PlanClear,
         ClearArchive, ClearRewrite, PlanRecover, RecoverEdit, Edit, tracker
  <2>5. QED
    BY <2>1, <2>2, <2>3, <2>4
<1>3. QED
  BY <1>1, <1>2 DEF Retired

\* What every step but those of a clear and of a reader makes of a command: it
\* goes on under its name, or ends, or another one starts, and none of them has
\* seen more or is a clear past its reading.
GoesOn(p) ==
  /\ command'[p].name \in Used \cup {"none"}
  /\ command'[p].seen \in {NothingSeen, command[p].seen}
  /\ command'[p].name = "clear" => command'[p].step = "read"

LEMMA EndedGoesOn ==
  ASSUME CommandTypeOK, NEW p \in Operators, command'[p] = NoCommand
  PROVE  GoesOn(p)
BY Bookkeeping DEF GoesOn

LEMMA ContinuedGoesOn ==
  ASSUME CommandTypeOK, NEW p \in Operators,
         command[p].name \in Used \cup {"none"}, command[p].name # "clear",
         \/ Finish(p)
         \/ \E step : GoTo(p, step)
         \/ \E i, step : Advance(p, i, step)
         \/ \E name \in Used \ {"clear"} : \E step, todo : Start(p, name, step, todo)
         \/ \E name \in Used : \E todo, picked : StartReading(p, name, todo, picked)
  PROVE  GoesOn(p)
<1>1. CASE Finish(p)
  BY <1>1, Bookkeeping, EndedGoesOn
<1>2. CASE \E step : GoTo(p, step)
  BY <1>2, Bookkeeping DEF GoesOn
<1>3. CASE \E i, step : Advance(p, i, step)
  <2>1. \/ command'[p] = NoCommand
        \/ command'[p].name = command[p].name /\ command'[p].seen = command[p].seen
    BY <1>3, Bookkeeping
  <2>2. QED
    BY <2>1, EndedGoesOn DEF GoesOn
<1>4. CASE \E name \in Used \ {"clear"} : \E step, todo : Start(p, name, step, todo)
  <2>1. command'[p].name \in Used \ {"clear"} /\ command'[p].seen = NothingSeen
    BY <1>4, Bookkeeping
  <2>2. QED
    BY <2>1 DEF GoesOn
<1>5. CASE \E name \in Used : \E todo, picked : StartReading(p, name, todo, picked)
  <2>1. /\ command'[p].name \in Used /\ command'[p].seen = NothingSeen
        /\ command'[p].step = "read"
    BY <1>5, ReadingBookkeeping
  <2>2. QED
    BY <2>1 DEF GoesOn
<1>6. QED
  BY <1>1, <1>2, <1>3, <1>4, <1>5

LEMMA OtherStepsGoOn ==
  ASSUME TypeOK, NEW p \in Operators, command[p].name \in Used \cup {"none"},
         CommandStep(p), command[p].name # "clear", ~ReadTask(p)
  PROVE  GoesOn(p)
<1>0. CommandTypeOK /\ command \in [Operators -> Command] /\ command[p] \in Command
  BY DEF TypeOK, CommandTypeOK
<1>1. CASE ClaimStep(p)
  <2>1. CASE ClaimList(p) \/ ClaimSelect(p) \/ \E i \in Issues : RunIssue(p, i)
    <3>1. CASE ClaimList(p)
      <4>1. "claim" \in Used \ {"clear"} /\ \E todo : Start(p, "claim", "check", todo)
        BY <3>1 DEF ClaimList, MayStart
      <4>2. QED
        BY <1>0, <4>1, ContinuedGoesOn
    <3>2. CASE ClaimSelect(p)
      <4>1. command[p].name = "claim"
        BY <3>2 DEF ClaimSelect, Running
      <4>2. Finish(p) \/ \E todo : Start(p, "claim", "edit", todo)
        BY <3>2 DEF ClaimSelect
      <4>3. QED
        BY <1>0, <4>1, <4>2, ContinuedGoesOn
    <3>3. CASE \E i \in Issues : RunIssue(p, i)
      <4>1. "run" \in Used \ {"clear"} /\ \E todo : Start(p, "run", "edit", todo)
        BY <3>3 DEF RunIssue, MayStart
      <4>2. QED
        BY <1>0, <4>1, ContinuedGoesOn
    <3>4. QED
      BY <2>1, <3>1, <3>2, <3>3
  <2>2. CASE ClaimCheck(p)
    <3>1. PICK next :
            /\ command' = [command EXCEPT ![p] = next]
            /\ next.name = command[p].name /\ next.seen = command[p].seen
      BY <1>0, <2>2 DEF ClaimCheck, Command
    <3>2. command'[p] = next
      BY <1>0, <3>1
    <3>3. QED
      BY <3>1, <3>2 DEF GoesOn
  <2>3. CASE ClaimEdit(p)
    <3>1. Finish(p) \/ \E i \in command[p].todo : Advance(p, i, "edit")
      BY <2>3 DEF ClaimEdit
    <3>2. QED
      BY <1>0, <3>1, ContinuedGoesOn
  <2>4. QED
    BY <1>1, <2>1, <2>2, <2>3 DEF ClaimStep
<1>2. CASE TransitionStep(p)
  <2>1. ASSUME NEW name \in TransitionNames, NEW i \in Issues, PlanTransition(p, name, i)
        PROVE  GoesOn(p)
    <3>1. command'[p].name = name /\ command'[p].seen = NothingSeen /\ name \in Used
      BY <1>0, <2>1 DEF PlanTransition, MayStart
    <3>2. QED
      BY <3>1 DEF GoesOn, TransitionNames
  <2>2. CASE EvaluateGateForComplete(p) \/ TransitionEdit(p)
    <3>1. GoTo(p, "edit") \/ Finish(p)
      BY <2>2 DEF EvaluateGateForComplete, TransitionEdit
    <3>2. QED
      BY <1>0, <3>1, ContinuedGoesOn
  <2>3. QED
    BY <1>2, <2>1, <2>2 DEF TransitionStep
<1>3. CASE IntegrationStep(p)
  <2>1. CASE \E i \in Issues : PlanIntegration(p, i) \/ PlanNoopIntegration(p, i)
    <3>1. \E name \in Used \ {"clear"} : \E step, todo : Start(p, name, step, todo)
      <4>1. CASE \E i \in Issues : PlanIntegration(p, i)
        BY <4>1, Zenon DEF PlanIntegration, MayIntegrate, MayStart
      <4>2. CASE \E i \in Issues : PlanNoopIntegration(p, i)
        BY <4>2, Zenon DEF PlanNoopIntegration, MayIntegrateNoop, MayStart
      <4>3. QED
        BY <2>1, <4>1, <4>2
    <3>2. QED
      BY <1>0, <3>1, ContinuedGoesOn
  <2>2. CASE IntegrationEdit(p) \/ IntegrationClose(p)
    <3>1. GoTo(p, "close") \/ Finish(p)
      BY <2>2 DEF IntegrationEdit, IntegrationClose
    <3>2. QED
      BY <1>0, <3>1, ContinuedGoesOn
  <2>3. QED
    BY <1>3, <2>1, <2>2 DEF IntegrationStep
<1>4. CASE Stop(p)
  BY <1>0, <1>4, ContinuedGoesOn DEF Stop
<1>5. CASE RoadmapStep(p)
  <2>1. CASE (\E source \in Issues : StartAdvance(p, source)) \/ StartClear(p) \/ StartRecover(p)
    <3>1. \E name \in {"advance", "clear", "recover"} : \E todo, picked :
            StartReading(p, name, todo, picked) /\ name \in Used
      BY <2>1 DEF StartAdvance, StartClear, StartRecover, StartReading, MayStart
    <3>2. QED
      BY <1>0, <3>1, ContinuedGoesOn
  <2>2. CASE PlanAdvance(p) \/ PlanRecover(p)
    <3>1. command[p].name \in {"advance", "recover"}
      BY <2>2 DEF PlanAdvance, PlanRecover, HasRead, Running
    <3>2. Finish(p) \/ \E step, todo : Start(p, command[p].name, step, todo)
      BY <2>2 DEF PlanAdvance, PlanRecover, HasRead, Running
    <3>3. QED
      BY <1>0, <3>1, <3>2, ContinuedGoesOn
  <2>3. CASE AdvanceEdit(p) \/ RecoverReopen(p) \/ RecoverEdit(p) \/ RecoverClose(p)
    <3>1. \/ Finish(p)
          \/ \E step : GoTo(p, step)
          \/ \E i, step : Advance(p, i, step)
      BY <2>3 DEF AdvanceEdit, RecoverReopen, RecoverEdit, RecoverClose
    <3>2. QED
      BY <1>0, <3>1, ContinuedGoesOn
  <2>4. ~PlanClear(p) /\ ~ClearClose(p) /\ ~ClearArchive(p) /\ ~ClearRewrite(p)
    BY DEF PlanClear, HasRead, ClearClose, ClearArchive, ClearRewrite, Running
  <2>5. QED
    BY <1>5, <2>1, <2>2, <2>3, <2>4 DEF RoadmapStep
<1>6. QED
  BY <1>1, <1>2, <1>3, <1>4, <1>5 DEF CommandStep

LEMMA GoingOnRetiresNothing ==
  ASSUME NEW p \in Operators, RetiresWhatIsClosed(p), GoesOn(p),
         \A i \in Issues : Retired(i) => Retired(i)'
  PROVE  RetiresWhatIsClosed(p)'
<1>1. \A i \in Issues : ~Completed(NothingSeen, i)
  BY DEF Completed, NothingSeen, CompletedPlannerStates
<1>2. \A i \in Issues : Completed(command'[p].seen, i) => Retired(i)'
  BY <1>1 DEF GoesOn, RetiresWhatIsClosed
<1>3. QED
  BY <1>2 DEF GoesOn, RetiresWhatIsClosed, Running, Completed

\* A task that is read as completed is closed or finished.
LEMMA ReadingSeesTheTruth ==
  ASSUME TypeOK, NEW p \in Operators, RetiresWhatIsClosed(p), ReadTask(p),
         \A i \in Issues : Retired(i) => Retired(i)'
  PROVE  RetiresWhatIsClosed(p)'
<1>0. /\ CommandTypeOK /\ command \in [Operators -> Command] /\ command[p] \in Command
      /\ command[p].todo \subseteq Issues /\ command[p].seen \in [Issues -> Sightings]
  BY DEF TypeOK, CommandTypeOK, Command
<1>1. PICK i \in command[p].todo : \E state \in TaskStates(i) :
        command' = [command EXCEPT ![p].todo = @ \ {i}, ![p].seen[i] = state]
  BY DEF ReadTask
<1>2. PICK state \in TaskStates(i) :
        command' = [command EXCEPT ![p] =
          [command[p] EXCEPT !.todo = @ \ {i}, !.seen = [@ EXCEPT ![i] = state]]]
  BY <1>0, <1>1 DEF Command
<1>3. command'[p].seen = [command[p].seen EXCEPT ![i] = state]
  BY <1>0, <1>2 DEF Command
<1>4. state \in CompletedPlannerStates => Retired(i)
  BY <1>0, <1>2 DEF TaskStates, CompletedPlannerStates, Retired, Finished, StateLabels
<1>5. \A j \in Issues : Completed(command'[p].seen, j) => Retired(j)'
  <2> SUFFICES ASSUME NEW j \in Issues, Completed(command'[p].seen, j) PROVE Retired(j)
    OBVIOUS
  <2>1. CASE j = i
    BY <1>0, <1>3, <1>4, <2>1 DEF Completed
  <2>2. CASE j # i
    BY <1>0, <1>3, <2>2 DEF Completed, RetiresWhatIsClosed
  <2>3. QED
    BY <2>1, <2>2
<1>6. command'[p].name = command[p].name /\ command'[p].step = "read"
  BY <1>0, ReadingBookkeeping
<1>7. command[p].name \in Used \cup {"none"}
  BY DEF RetiresWhatIsClosed
<1>8. QED
  BY <1>5, <1>6, <1>7 DEF RetiresWhatIsClosed, Running, Completed

\* A clear closes what it has not seen completed, and then everything is retired.
LEMMA ClearRetiresWhatIsClosed ==
  ASSUME TypeOK, NEW p \in Operators, RetiresWhatIsClosed(p),
         \/ PlanClear(p) \/ ClearClose(p) \/ ClearArchive(p) \/ ClearRewrite(p),
         \A i \in Issues : Retired(i) => Retired(i)'
  PROVE  RetiresWhatIsClosed(p)'
<1>0. /\ CommandTypeOK /\ command \in [Operators -> Command] /\ command[p] \in Command
      /\ TrackerTypeOK /\ command[p].todo \subseteq Issues
  BY DEF TypeOK, CommandTypeOK, Command
<1>a. \A i \in Issues : ~Completed(NothingSeen, i)
  BY DEF Completed, NothingSeen, CompletedPlannerStates
<1>b. command[p].name = "clear" /\ "clear" \in Used
  <2>1. command[p].name = "clear"
    BY DEF PlanClear, HasRead, ClearClose, ClearArchive, ClearRewrite, Running
  <2>2. QED
    BY <2>1 DEF RetiresWhatIsClosed
<1>c. CASE command'[p] = NoCommand
  BY <1>0, <1>a, <1>c, Bookkeeping DEF RetiresWhatIsClosed, Running, Completed
<1>1. CASE PlanClear(p) /\ command'[p] # NoCommand
  <2> DEFINE targets == {i \in Issues : ~Completed(command[p].seen, i)}
  <2>1. PICK step \in {"archive", "close"} :
          /\ Start(p, "clear", step, targets)
          /\ step = IF targets = {} THEN "archive" ELSE "close"
    <3>1. \/ Finish(p)
          \/ Start(p, "clear", IF targets = {} THEN "archive" ELSE "close", targets)
      BY <1>1 DEF PlanClear
    <3>2. ~Finish(p)
      BY <1>0, <1>1, Bookkeeping
    <3>3. QED
      BY <3>1, <3>2
  <2>2. /\ command'[p].name = "clear" /\ command'[p].step = step
        /\ command'[p].todo = targets /\ command'[p].seen = NothingSeen
    BY <1>0, <2>1, Bookkeeping
  <2>3. \A i \in Issues \ targets : Retired(i)'
    BY DEF RetiresWhatIsClosed
  <2>4. \A i \in Issues : Completed(command'[p].seen, i) => Retired(i)'
    BY <1>a, <2>2
  <2> HIDE DEF targets
  <2>5. QED
    BY <1>b, <2>1, <2>2, <2>3, <2>4 DEF RetiresWhatIsClosed, Running, Completed
<1>2. CASE ClearClose(p) /\ command'[p] # NoCommand
  <2>1. PICK i \in command[p].todo, outcome \in Outcomes("close") :
          /\ Close(i, outcome, "not planned")
          /\ outcome = "ok"
          /\ command' = [command EXCEPT ![p].todo = @ \ {i},
               ![p].step = IF command[p].todo = {i} THEN "archive" ELSE "close"]
    <3>1. ~Finish(p)
      BY <1>0, <1>2, Bookkeeping
    <3>2. QED
      BY <1>2, <3>1 DEF ClearClose
  <2>2. /\ command'[p].name = "clear" /\ command'[p].todo = command[p].todo \ {i}
        /\ command'[p].seen = command[p].seen
        /\ command'[p].step = IF command[p].todo = {i} THEN "archive" ELSE "close"
    <3> DEFINE step == IF command[p].todo = {i} THEN "archive" ELSE "close"
    <3>1. command' = [command EXCEPT ![p] =
            [command[p] EXCEPT !.todo = @ \ {i}, !.step = step]]
      BY <2>1
    <3> HIDE DEF step
    <3>2. /\ command'[p].name = command[p].name
          /\ command'[p].todo = command[p].todo \ {i}
          /\ command'[p].seen = command[p].seen /\ command'[p].step = step
      BY <1>0, <3>1 DEF Command
    <3>3. QED
      BY <1>b, <3>2 DEF step
  <2>3. Retired(i)'
    BY <1>0, <2>1 DEF Close, TrackerTypeOK, Retired
  <2>4. \A j \in Issues \ command[p].todo : Retired(j)'
    BY <1>2 DEF ClearClose, Running, RetiresWhatIsClosed
  <2>5. \A j \in Issues \ command'[p].todo : Retired(j)'
    BY <2>2, <2>3, <2>4
  <2>6. \A j \in Issues : Completed(command'[p].seen, j) => Retired(j)'
    BY <2>2 DEF RetiresWhatIsClosed
  <2>7. command'[p].step = "archive" => command'[p].todo = {}
    BY <2>2
  <2>8. QED
    BY <1>b, <2>2, <2>5, <2>6, <2>7 DEF RetiresWhatIsClosed, Running, Completed
<1>3. CASE ClearArchive(p)
  <2>1. /\ command'[p].name = "clear" /\ command'[p].step = "rewrite"
        /\ command'[p].seen = command[p].seen
    BY <1>0, <1>b, <1>3, Bookkeeping DEF ClearArchive
  <2>2. \A i \in Issues : Retired(i)'
    BY <1>3 DEF ClearArchive, RetiresWhatIsClosed
  <2>3. QED
    BY <1>b, <2>1, <2>2 DEF RetiresWhatIsClosed, Running, Completed
<1>4. CASE ClearRewrite(p)
  <2>1. command'[p] = NoCommand
    BY <1>0, <1>4, Bookkeeping DEF ClearRewrite
  <2>2. QED
    BY <1>c, <2>1
<1>5. QED
  BY <1>c, <1>1, <1>2, <1>3, <1>4

LEMMA OthersKeepRetiring ==
  ASSUME NEW q \in Operators, RetiresWhatIsClosed(q), command'[q] = command[q],
         \A i \in Issues : Retired(i) => Retired(i)'
  PROVE  RetiresWhatIsClosed(q)'
BY DEF RetiresWhatIsClosed, Running, Completed

\* The manifest is written by a clear that has everything closed.
LEMMA RetiredMeansClosedKept ==
  ASSUME RetireInv, NEW p \in Operators, CommandStep(p),
         \A i \in Issues : Retired(i) => Retired(i)'
  PROVE  RetiredMeansClosed'
<1>0. RetiredMeansClosed /\ RetiresWhatIsClosed(p)
  BY DEF RetireInv
<1>1. CASE ClearArchive(p) \/ ClearRewrite(p)
  BY <1>0, <1>1 DEF ClearArchive, ClearRewrite, RetiresWhatIsClosed, RetiredMeansClosed
<1>2. CASE UNCHANGED manifest
  BY <1>0, <1>2 DEF RetiredMeansClosed
<1>3. QED
  BY <1>1, <1>2
     DEF CommandStep, RoadmapStep, StartAdvance, StartClear, StartRecover, StartReading,
         ReadTask, PlanAdvance, AdvanceEdit, PlanClear, ClearClose, PlanRecover,
         RecoverReopen, RecoverEdit, RecoverClose

LEMMA RetireInvKept ==
  ASSUME NoRecovery, RetireInv, TypeOK', [Next]_vars
  PROVE  RetireInv'
<1>0. TypeOK /\ RetiredMeansClosed /\ \A p \in Operators : RetiresWhatIsClosed(p)
  BY DEF RetireInv
<1>1. ASSUME NEW p \in Operators, CommandStep(p) PROVE RetireInv'
  <2>1. RetiresWhatIsClosed(p) /\ command[p].name \in Used \cup {"none"}
    BY <1>0 DEF RetiresWhatIsClosed
  <2>2. \A i \in Issues : Retired(i) => Retired(i)'
    BY <1>0, <1>1, <2>1, RetiredKept
  <2>3. RetiresWhatIsClosed(p)'
    <3>1. CASE ReadTask(p)
      BY <1>0, <2>1, <2>2, <3>1, ReadingSeesTheTruth
    <3>2. CASE PlanClear(p) \/ ClearClose(p) \/ ClearArchive(p) \/ ClearRewrite(p)
      BY <1>0, <2>1, <2>2, <3>2, ClearRetiresWhatIsClosed
    <3>3. CASE command[p].name # "clear" /\ ~ReadTask(p)
      BY <1>0, <1>1, <2>1, <2>2, <3>3, OtherStepsGoOn, GoingOnRetiresNothing
    <3>4. CASE command[p].name = "clear" /\ Stop(p)
      <4>1. CommandTypeOK /\ command'[p] = NoCommand
        BY <1>0, <3>4, Bookkeeping DEF Stop, TypeOK
      <4>2. QED
        BY <2>1, <2>2, <4>1, EndedGoesOn, GoingOnRetiresNothing
    <3>5. ASSUME command[p].name = "clear"
          PROVE  \/ ReadTask(p) \/ PlanClear(p) \/ ClearClose(p) \/ ClearArchive(p)
                 \/ ClearRewrite(p) \/ Stop(p)
      <4>0. \A name : ~MayStart(p, name)
        BY <3>5 DEF MayStart, NoCommand
      <4>1. ~ClaimStep(p)
        BY <3>5, <4>0 DEF ClaimStep, ClaimList, ClaimCheck, ClaimSelect, RunIssue,
             ClaimEdit, Running
      <4>2. ~TransitionStep(p)
        BY <3>5, <4>0 DEF TransitionStep, TransitionNames, PlanTransition,
             EvaluateGateForComplete, TransitionEdit, Running
      <4>3. ~IntegrationStep(p)
        BY <3>5, <4>0 DEF IntegrationStep, PlanIntegration, MayIntegrate, PlanNoopIntegration, MayIntegrateNoop,
             IntegrationEdit, IntegrationClose, Running
      <4>4. ~(\E source \in Issues : StartAdvance(p, source)) /\ ~StartClear(p) /\ ~StartRecover(p)
        BY <4>0 DEF StartAdvance, StartClear, StartRecover, StartReading
      <4>5. /\ ~PlanAdvance(p) /\ ~AdvanceEdit(p) /\ ~PlanRecover(p)
            /\ ~RecoverReopen(p) /\ ~RecoverEdit(p) /\ ~RecoverClose(p)
        BY <3>5 DEF PlanAdvance, AdvanceEdit, PlanRecover, RecoverReopen, RecoverEdit,
             RecoverClose, HasRead, Running
      <4>6. QED
        BY <1>1, <4>1, <4>2, <4>3, <4>4, <4>5 DEF CommandStep, RoadmapStep
    <3>6. QED
      BY <3>1, <3>2, <3>3, <3>4, <3>5
  <2>4. ASSUME NEW q \in Operators \ {p} PROVE RetiresWhatIsClosed(q)'
    <3>1. command'[q] = command[q]
      BY <1>0, <1>1, OthersKept
    <3>2. QED
      BY <1>0, <2>2, <3>1, OthersKeepRetiring
  <2>5. RetiredMeansClosed'
    BY <1>1, <2>2, RetiredMeansClosedKept
  <2>6. QED
    BY <2>3, <2>4, <2>5 DEF RetireInv
<1>2. CASE EvidenceStep \/ UNCHANGED vars
  <2>1. UNCHANGED <<labels, issueState, command, manifest>>
    BY <1>2 DEF EvidenceStep, PullRequestAdvances, SummaryPasses, NoopGatePasses,
                tracker, vars
  <2>2. \A i \in Issues : Retired(i) => Retired(i)'
    BY <2>1 DEF Retired, Finished
  <2>3. \A q \in Operators : RetiresWhatIsClosed(q)'
    BY <1>0, <2>1, <2>2, OthersKeepRetiring
  <2>4. QED
    BY <1>0, <2>1, <2>2, <2>3 DEF RetireInv, RetiredMeansClosed
<1>3. QED
  BY <1>1, <1>2 DEF Next

\* While nobody runs recover-clear, a roadmap that was retired has no task left
\* that is open and unfinished, even if several clears ran at once, failed half
\* way and were run again.
THEOREM RetiredRoadmapsAreClosed ==
  ASSUME NoRecovery
  PROVE  Spec => []RetiredMeansClosed
<1>1. Init /\ TypeOK => RetireInv
  <2> SUFFICES ASSUME Init, TypeOK PROVE RetireInv
    OBVIOUS
  <2>1. manifest = "active" /\ command = [p \in Operators |-> NoCommand]
    BY DEF Init
  <2>2. \A i \in Issues : ~Completed(NothingSeen, i)
    BY DEF Completed, NothingSeen, CompletedPlannerStates
  <2>3. ASSUME NEW p \in Operators PROVE RetiresWhatIsClosed(p)
    <3>1. /\ command[p].name = "none" /\ command[p].step = "idle"
          /\ command[p].seen = NothingSeen
      BY <2>1 DEF NoCommand
    <3>2. QED
      BY <2>2, <3>1 DEF RetiresWhatIsClosed, Running
  <2>4. QED
    BY <2>1, <2>3 DEF RetireInv, RetiredMeansClosed
<1>2. RetireInv /\ TypeOK' /\ [Next]_vars => RetireInv'
  BY RetireInvKept
<1>3. RetireInv => RetiredMeansClosed
  BY DEF RetireInv
<1>4. QED
  BY <1>1, <1>2, <1>3, TypeCorrect, PTL DEF Spec
=============================================================================
