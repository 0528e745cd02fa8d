--------------------------- MODULE WorkOrderProofs ---------------------------
(***************************************************************************)
(* The order of the work, for any dependency relations and any number of   *)
(* operators.  What an issue depends on comes first when issues are        *)
(* claimed through the planner only (no `run --issue N --claim`) and their *)
(* bodies can always be read.  The order of a roadmap is kept as long as   *)
(* it is not cleared: claims do not check it, so the argument is about     *)
(* state:ready.  A task has no state until what it needs is finished, and  *)
(* a finished task stays finished.                                         *)
(***************************************************************************)
EXTENDS IssueSafetyProofs

-----------------------------------------------------------------------------
(* Dependencies come first.                                                *)

PlannerClaimsOnly == "run" \notin Used
BodiesReadable == <<"view", "fail">> \notin Faults

\* What the dependency check of a claim has seen stays so.
LEMMA DependenciesKept ==
  ASSUME TypeOK, NEW p \in Operators, CommandStep(p), NEW i \in Issues,
         DependenciesFinished(i)
  PROVE  DependenciesFinished(i)'
<1>1. Deps[i] \subseteq Issues
  BY DepsAssumption
<1>2. \A d \in Issues : Finished(d) => Finished(d)'
  BY LabelsKept
<1>3. QED
  BY <1>1, <1>2 DEF DependenciesFinished

\* Commands that neither claim nor make a transition have nothing to respect.
LEMMA NothingToOrder ==
  ASSUME NEW p \in Operators, command'[p].name \in Used \cup {"none"},
         command'[p].name # "claim", command'[p].name \notin TransitionNames
  PROVE  WorksInOrder(p)'
BY DEF WorksInOrder, Running

LEMMA FinishedCommandsAreInOrder ==
  ASSUME TypeOK, NEW p \in Operators, command'[p] = NoCommand
  PROVE  WorksInOrder(p)'
<1>1. command'[p].name = "none"
  BY DEF NoCommand
<1>2. QED
  BY <1>1, NothingToOrder DEF TransitionNames

LEMMA ClaimWorksInOrder ==
  ASSUME PlannerClaimsOnly, BodiesReadable, OrderInv, NEW p \in Operators,
         CommandStep(p), ClaimStep(p)
  PROVE  WorksInOrder(p)'
<1>0. /\ TypeOK /\ CommandTypeOK /\ WorksInOrder(p)
      /\ command \in [Operators -> Command] /\ command[p] \in Command
      /\ command[p].todo \subseteq Issues /\ command[p].picked \subseteq Issues
  BY DEF OrderInv, TypeOK, CommandTypeOK, Command
<1>1. \A i \in Issues : DependenciesFinished(i) => DependenciesFinished(i)'
  BY <1>0, DependenciesKept
<1>2. CASE ClaimList(p)
  <2>1. PICK todo : Start(p, "claim", "check", todo) /\ "claim" \in Used
    BY <1>2 DEF ClaimList, MayStart
  <2>2. /\ command'[p].name = "claim" /\ command'[p].step = "check"
        /\ command'[p].picked = {}
    BY <1>0, <2>1, Bookkeeping
  <2>3. QED
    BY <2>1, <2>2 DEF WorksInOrder, Running, TransitionNames
<1>3. CASE ClaimCheck(p)
  <2>1. PICK i \in command[p].todo :
          \/ /\ DependenciesClear(i)
             /\ command' = [command EXCEPT ![p] =
                  [command[p] EXCEPT !.todo = @ \ {i}, !.picked = @ \cup {i}]]
          \/ command' = [command EXCEPT ![p] = [command[p] EXCEPT !.todo = @ \ {i}]]
    BY <1>0, <1>3 DEF ClaimCheck, BodiesReadable
  <2>2. /\ command'[p].name = command[p].name /\ command'[p].step = command[p].step
        /\ \/ DependenciesClear(i) /\ command'[p].picked = command[p].picked \cup {i}
           \/ command'[p].picked = command[p].picked
    <3>1. PICK next :
            /\ command' = [command EXCEPT ![p] = next]
            /\ next.name = command[p].name /\ next.step = command[p].step
            /\ \/ DependenciesClear(i) /\ next.picked = command[p].picked \cup {i}
               \/ next.picked = command[p].picked
      BY <1>0, <2>1 DEF Command
    <3>2. command'[p] = next
      BY <1>0, <3>1
    <3>3. QED
      BY <3>1, <3>2
  <2>3. DependenciesClear(i) => DependenciesFinished(i)
    BY DEF DependenciesClear, DependenciesFinished, CompletedDependencyStates, Finished
  <2>4. command[p].name = "claim" /\ command[p].step = "check"
    BY <1>3 DEF ClaimCheck, Running
  <2>5. /\ command[p].name \in Used \cup {"none"}
        /\ \A j \in command[p].picked : DependenciesFinished(j)
    BY <1>0, <2>4 DEF WorksInOrder
  <2>6. \A j \in command'[p].picked : DependenciesFinished(j)'
    BY <1>0, <1>1, <2>2, <2>3, <2>5
  <2>7. QED
    BY <2>2, <2>4, <2>5, <2>6 DEF WorksInOrder, Running, TransitionNames
<1>4. CASE ClaimSelect(p)
  <2>1. PICK chosen \in SUBSET command[p].picked :
          Finish(p) \/ Start(p, "claim", "edit", chosen)
    BY <1>4 DEF ClaimSelect
  <2>2. command[p].name = "claim"
    BY <1>4 DEF ClaimSelect, Running
  <2>3. "claim" \in Used /\ \A i \in chosen : DependenciesFinished(i)'
    BY <1>0, <1>1, <2>2 DEF WorksInOrder
  <2>4. CASE Finish(p)
    BY <1>0, <2>4, Bookkeeping, FinishedCommandsAreInOrder
  <2>5. CASE Start(p, "claim", "edit", chosen)
    <3>1. /\ command'[p].name = "claim" /\ command'[p].step = "edit"
          /\ command'[p].todo = chosen /\ command'[p].picked = {}
      BY <1>0, <2>5, Bookkeeping
    <3>2. QED
      BY <2>3, <3>1 DEF WorksInOrder, Running, TransitionNames
  <2>6. QED
    BY <2>1, <2>4, <2>5
<1>5. ASSUME NEW i \in Issues, RunIssue(p, i) PROVE FALSE
  BY <1>5 DEF RunIssue, MayStart, PlannerClaimsOnly
<1>6. CASE ClaimEdit(p)
  <2>1. Running(p, {"claim"}, "edit")
    BY <1>0, <1>6 DEF ClaimEdit, WorksInOrder, Running, PlannerClaimsOnly
  <2>2. /\ "claim" \in Used
        /\ \A i \in command[p].picked \cup command[p].todo : DependenciesFinished(i)'
    BY <1>0, <1>1, <2>1 DEF WorksInOrder, Running
  <2>3. \/ command'[p] = NoCommand
        \/ /\ command'[p].name = command[p].name /\ command'[p].step = "edit"
           /\ command'[p].todo \subseteq command[p].todo
           /\ command'[p].picked = command[p].picked
    <3>1. \E i \in command[p].todo : Advance(p, i, "edit") \/ Finish(p)
      BY <1>6 DEF ClaimEdit
    <3>2. QED
      BY <1>0, <3>1, Bookkeeping
  <2>4. CASE command'[p] = NoCommand
    BY <1>0, <2>4, FinishedCommandsAreInOrder
  <2>5. CASE command'[p] # NoCommand
    BY <2>1, <2>2, <2>3, <2>5 DEF WorksInOrder, Running, TransitionNames
  <2>6. QED
    BY <2>4, <2>5
<1>7. QED
  BY <1>2, <1>3, <1>4, <1>5, <1>6 DEF ClaimStep

\* A transition has seen its issue active, and an active issue is in order.
LEMMA TransitionWorksInOrder ==
  ASSUME OrderInv, NEW p \in Operators, CommandStep(p), TransitionStep(p)
  PROVE  WorksInOrder(p)'
<1>0. /\ TypeOK /\ CommandTypeOK /\ WorksInOrder(p) /\ DependenciesFirst
      /\ command \in [Operators -> Command] /\ command[p] \in Command
      /\ command[p].todo \subseteq Issues
  BY DEF OrderInv, TypeOK, CommandTypeOK, Command
<1>1. \A i \in Issues : DependenciesFinished(i) => DependenciesFinished(i)'
  BY <1>0, DependenciesKept
<1>2. ASSUME NEW name \in TransitionNames, NEW i \in Issues, PlanTransition(p, name, i)
      PROVE  WorksInOrder(p)'
  <2>1. "state:active" \in labels[i]
    BY <1>2 DEF PlanTransition, Observed
  <2>2. DependenciesFinished(i)'
    BY <1>0, <1>1, <2>1 DEF DependenciesFirst, DependenciesFinished
  <2>3. /\ command'[p].name = name /\ command'[p].todo = {i}
        /\ name \in Used
    BY <1>0, <1>2 DEF PlanTransition, MayStart
  <2>4. QED
    BY <2>2, <2>3 DEF WorksInOrder, Running, TransitionNames
<1>3. CASE EvaluateGateForComplete(p)
  <2>1. command[p].name = "complete" /\ (GoTo(p, "edit") \/ Finish(p))
    BY <1>3 DEF EvaluateGateForComplete, Running
  <2>2. /\ "complete" \in Used \cup {"none"}
        /\ \A i \in command[p].todo : DependenciesFinished(i)'
    BY <1>0, <1>1, <2>1 DEF WorksInOrder, TransitionNames
  <2>3. CASE GoTo(p, "edit")
    <3>1. command'[p].name = "complete" /\ command'[p].todo = command[p].todo
      BY <1>0, <2>1, <2>3, Bookkeeping
    <3>2. QED
      BY <2>2, <3>1 DEF WorksInOrder, Running
  <2>4. CASE Finish(p)
    BY <1>0, <2>4, Bookkeeping, FinishedCommandsAreInOrder
  <2>5. QED
    BY <2>1, <2>3, <2>4
<1>4. CASE TransitionEdit(p)
  BY <1>0, <1>4, Bookkeeping, FinishedCommandsAreInOrder DEF TransitionEdit
<1>5. QED
  BY <1>2, <1>3, <1>4 DEF TransitionStep

\* Integrations and roadmap commands neither claim nor make a transition.
OtherNames == {"integrate", "integrate noop", "advance", "clear", "recover"}

LEMMA OtherCommandsGoOn ==
  ASSUME TypeOK, NEW p \in Operators, IntegrationStep(p) \/ RoadmapStep(p) \/ Stop(p)
  PROVE  \/ command'[p] = NoCommand
         \/ command'[p].name = command[p].name /\ command[p].name \in OtherNames
         \/ command'[p].name \in OtherNames \cap Used
<1> USE DEF OtherNames
<1>0. /\ CommandTypeOK
      /\ command \in [Operators -> Command] /\ command[p] \in Command
  BY DEF TypeOK, CommandTypeOK
<1>2. CASE \E i \in Issues : PlanIntegration(p, i) \/ PlanNoopIntegration(p, i)
  <2>1. PICK name \in {"integrate", "integrate noop"} :
          name \in Used /\ \E step, todo : Start(p, name, step, todo)
    <3>1. CASE \E i \in Issues : PlanIntegration(p, i)
      BY <3>1, Zenon DEF PlanIntegration, MayIntegrate, MayStart
    <3>2. CASE \E i \in Issues : PlanNoopIntegration(p, i)
      BY <3>2, Zenon DEF PlanNoopIntegration, MayIntegrateNoop, MayStart
    <3>3. QED
      BY <1>2, <3>1, <3>2
  <2>2. command'[p].name = name
    BY <1>0, <2>1, Bookkeeping
  <2>3. QED
    BY <2>1, <2>2
<1>a. CASE (\E source \in Issues : StartAdvance(p, source)) \/ StartClear(p) \/ StartRecover(p)
  <2>1. PICK name \in {"advance", "clear", "recover"} :
          \E todo, picked : StartReading(p, name, todo, picked)
    BY <1>a DEF StartAdvance, StartClear, StartRecover
  <2>2. command'[p].name = name /\ name \in Used
    BY <1>0, <2>1, ReadingBookkeeping DEF StartReading, MayStart
  <2>3. QED
    BY <2>1, <2>2
<1>b. CASE ReadTask(p)
  BY <1>0, <1>b, ReadingBookkeeping DEF ReadTask, Running
<1>c. CASE PlanAdvance(p) \/ PlanClear(p) \/ PlanRecover(p)
  <2>1. command[p].name \in OtherNames
    BY <1>c DEF PlanAdvance, PlanClear, PlanRecover, HasRead, Running
  <2>2. Finish(p) \/ \E step, todo : Start(p, command[p].name, step, todo)
    BY <1>c DEF PlanAdvance, PlanClear, PlanRecover, HasRead, Running
  <2>3. command'[p] = NoCommand \/ command'[p].name = command[p].name
    BY <1>0, <2>2, Bookkeeping
  <2>4. QED
    BY <2>1, <2>3
<1>3. CASE IntegrationEdit(p)
  <2>1. command[p].name \in OtherNames /\ (GoTo(p, "close") \/ Finish(p))
    BY <1>3 DEF IntegrationEdit, Running
  <2>2. QED
    BY <1>0, <2>1, Bookkeeping
<1>4. CASE IntegrationClose(p) \/ ClearRewrite(p) \/ Stop(p)
  BY <1>0, <1>4, Bookkeeping DEF IntegrationClose, ClearRewrite, Stop
<1>5. CASE AdvanceEdit(p) \/ RecoverReopen(p) \/ RecoverEdit(p) \/ RecoverClose(p)
           \/ ClearArchive(p)
  <2>1. /\ command[p].name \in OtherNames
        /\ \/ Finish(p)
           \/ \E step : GoTo(p, step)
           \/ \E i, step : Advance(p, i, step)
    <3>1. CASE AdvanceEdit(p)
      BY <3>1 DEF AdvanceEdit, Running
    <3>2. CASE RecoverReopen(p)
      BY <3>2 DEF RecoverReopen, Running
    <3>3. CASE RecoverEdit(p)
      BY <3>3 DEF RecoverEdit, Running
    <3>4. CASE RecoverClose(p)
      BY <3>4 DEF RecoverClose, Running
    <3>5. CASE ClearArchive(p)
      BY <3>5 DEF ClearArchive, Running
    <3>6. QED
      BY <1>5, <3>1, <3>2, <3>3, <3>4, <3>5
  <2>2. QED
    BY <1>0, <2>1, Bookkeeping
<1>6. CASE ClearClose(p)
  <2>1. PICK i \in command[p].todo, step \in {"archive", "close"} :
          \/ Finish(p)
          \/ command' = [command EXCEPT ![p] =
               [command[p] EXCEPT !.todo = @ \ {i}, !.step = step]]
    BY <1>6 DEF ClearClose
  <2>2. CASE Finish(p)
    BY <1>0, <2>2, Bookkeeping
  <2>3. CASE command' = [command EXCEPT ![p] =
               [command[p] EXCEPT !.todo = @ \ {i}, !.step = step]]
    <3>1. command'[p].name = command[p].name
      BY <1>0, <2>3 DEF Command
    <3>2. QED
      BY <1>6, <3>1 DEF ClearClose, Running
  <2>4. QED
    BY <2>1, <2>2, <2>3
<1>7. QED
  BY <1>2, <1>a, <1>b, <1>c, <1>3, <1>4, <1>5, <1>6 DEF IntegrationStep, RoadmapStep

LEMMA OtherCommandsAreInOrder ==
  ASSUME OrderInv, NEW p \in Operators,
         IntegrationStep(p) \/ RoadmapStep(p) \/ Stop(p)
  PROVE  WorksInOrder(p)'
<1>1. TypeOK /\ command[p].name \in Used \cup {"none"}
  BY DEF OrderInv, WorksInOrder
<1>2. CASE command'[p] = NoCommand
  BY <1>1, <1>2, FinishedCommandsAreInOrder
<1>3. CASE command'[p] # NoCommand
  BY <1>1, <1>3, OtherCommandsGoOn, NothingToOrder DEF OtherNames, TransitionNames
<1>4. QED
  BY <1>2, <1>3

LEMMA OthersStayInOrder ==
  ASSUME TypeOK, NEW q \in Operators, WorksInOrder(q), command'[q] = command[q],
         \A i \in Issues : DependenciesFinished(i) => DependenciesFinished(i)'
  PROVE  WorksInOrder(q)'
<1>1. command[q].todo \subseteq Issues /\ command[q].picked \subseteq Issues
  BY DEF TypeOK, CommandTypeOK, Command
<1>2. QED
  BY <1>1 DEF WorksInOrder, Running

\* Only a claim and a transition label an issue active, done or failed.
LEMMA DependenciesFirstKept ==
  ASSUME PlannerClaimsOnly, OrderInv, NEW p \in Operators, CommandStep(p)
  PROVE  DependenciesFirst'
<1> DEFINE worked == {"state:active", "state:done", "state:failed"}
<1>0. /\ TypeOK /\ TrackerTypeOK /\ DependenciesFirst /\ WorksInOrder(p)
      /\ command[p].todo \subseteq Issues
  BY DEF OrderInv, TypeOK, CommandTypeOK, Command
<1>1. \A i \in Issues : DependenciesFinished(i) => DependenciesFinished(i)'
  BY <1>0, DependenciesKept
<1>2. SUFFICES \A i \in Issues : labels'[i] \cap worked # {} =>
                 labels[i] \cap worked # {} \/ DependenciesFinished(i)
  BY <1>0, <1>1 DEF DependenciesFirst, DependenciesFinished
<1>3. CASE ClaimEdit(p) \/ TransitionEdit(p)
  <2>1. PICK i \in command[p].todo, outcome \in Outcomes("edit") :
          \E remove, add : Edit(i, outcome, remove, add)
    <3>1. CASE ClaimEdit(p)
      BY <3>1 DEF ClaimEdit
    <3>2. CASE TransitionEdit(p)
      BY <3>2 DEF TransitionEdit
    <3>3. QED
      BY <1>3, <3>1, <3>2
  <2>2. DependenciesFinished(i)
    <3>1. CASE ClaimEdit(p)
      <4>1. Running(p, {"claim", "run"}, "edit")
        BY <3>1 DEF ClaimEdit
      <4>2. QED
        BY <1>0, <4>1 DEF Running, WorksInOrder, PlannerClaimsOnly
    <3>2. CASE TransitionEdit(p)
      <4>1. Running(p, TransitionNames, "edit")
        BY <3>2 DEF TransitionEdit
      <4>2. QED
        BY <1>0, <4>1 DEF Running, WorksInOrder
    <3>3. QED
      BY <1>3, <3>1, <3>2
  <2>3. \A j \in Issues : j # i => labels'[j] = labels[j]
    BY <1>0, <2>1 DEF Edit, TrackerTypeOK
  <2>4. QED
    BY <2>2, <2>3
<1>4. CASE IntegrationEdit(p) \/ AdvanceEdit(p) \/ RecoverEdit(p)
  <2>1. PICK i \in Issues, outcome \in Outcomes("edit"),
             add \in {{"state:merged"}, {"state:ready"}} :
          \E remove : Edit(i, outcome, remove, add)
    <3>1. CASE IntegrationEdit(p)
      BY <3>1 DEF IntegrationEdit
    <3>2. CASE AdvanceEdit(p) \/ RecoverEdit(p)
      BY <1>0, <3>2 DEF AdvanceEdit, RecoverEdit
    <3>3. QED
      BY <1>4, <3>1, <3>2
  <2>2. QED
    BY <1>0, <2>1 DEF Edit, TrackerTypeOK
<1>5. UNCHANGED labels \/ ClaimEdit(p) \/ TransitionEdit(p) \/ IntegrationEdit(p)
        \/ AdvanceEdit(p) \/ RecoverEdit(p)
  BY DEF CommandStep, ClaimStep, ClaimList, ClaimCheck, ClaimSelect, RunIssue,
         TransitionStep, PlanTransition, EvaluateGateForComplete,
         IntegrationStep, PlanIntegration, MayIntegrate, PlanNoopIntegration, MayIntegrateNoop, IntegrationClose,
         Stop, RoadmapStep, StartAdvance, StartClear, StartRecover, StartReading,
         ReadTask, PlanAdvance, PlanClear, ClearClose, ClearArchive,
         ClearRewrite, PlanRecover, RecoverReopen, RecoverClose,
         Close, Reopen, tracker
<1>6. QED
  BY <1>3, <1>4, <1>5

LEMMA OrderInvKept ==
  ASSUME PlannerClaimsOnly, BodiesReadable, OrderInv, TypeOK', [Next]_vars
  PROVE  OrderInv'
<1>0. TypeOK /\ DependenciesFirst /\ \A p \in Operators : WorksInOrder(p)
  BY DEF OrderInv
<1>1. ASSUME NEW p \in Operators, CommandStep(p) PROVE OrderInv'
  <2>1. WorksInOrder(p)'
    BY <1>1, ClaimWorksInOrder, TransitionWorksInOrder, OtherCommandsAreInOrder
       DEF CommandStep
  <2>2. ASSUME NEW q \in Operators \ {p} PROVE WorksInOrder(q)'
    <3>1. command'[q] = command[q]
      BY <1>0, <1>1, OthersKept
    <3>2. \A i \in Issues : DependenciesFinished(i) => DependenciesFinished(i)'
      BY <1>0, <1>1, DependenciesKept
    <3>3. QED
      BY <1>0, <3>1, <3>2, OthersStayInOrder
  <2>3. QED
    BY <1>1, <2>1, <2>2, DependenciesFirstKept DEF OrderInv
<1>2. CASE EvidenceStep \/ UNCHANGED vars
  <2>1. UNCHANGED <<labels, command>>
    BY <1>2 DEF EvidenceStep, PullRequestAdvances, SummaryPasses, NoopGatePasses,
                tracker, vars
  <2>2. \A i \in Issues : DependenciesFinished(i) => DependenciesFinished(i)'
    BY <2>1 DEF DependenciesFinished, Finished
  <2>3. DependenciesFirst'
    BY <1>0, <2>1 DEF DependenciesFirst, Finished
  <2>4. \A q \in Operators : WorksInOrder(q)'
    BY <1>0, <2>1, <2>2, OthersStayInOrder
  <2>5. QED
    BY <2>3, <2>4 DEF OrderInv
<1>3. QED
  BY <1>1, <1>2 DEF Next

LEMMA OrderInvHolds ==
  ASSUME PlannerClaimsOnly, BodiesReadable
  PROVE  Spec => []OrderInv
<1>1. Init /\ TypeOK => OrderInv
  <2> SUFFICES ASSUME Init, TypeOK PROVE OrderInv
    OBVIOUS
  <2>1. ASSUME NEW i \in Issues
        PROVE  labels[i] \cap {"state:active", "state:done", "state:failed"} = {}
    <3>1. labels[i] \in {{}, {"state:ready"}}
      BY DEF Init
    <3>2. QED
      BY <3>1
  <2>2. \A p \in Operators : command[p].name = "none"
    BY DEF Init, NoCommand
  <2>3. QED
    BY <2>1, <2>2 DEF OrderInv, DependenciesFirst, WorksInOrder, Running, TransitionNames
<1>2. OrderInv /\ TypeOK' /\ [Next]_vars => OrderInv'
  BY OrderInvKept
<1>3. QED
  BY <1>1, <1>2, TypeCorrect, PTL DEF Spec

\* No issue is worked on before its dependencies are finished: the check of the
\* claim planner holds until its last edit, however many claims, transitions and
\* integrations run meanwhile.  Without the two hypotheses it does not hold.
THEOREM DependenciesComeFirst ==
  ASSUME PlannerClaimsOnly, BodiesReadable
  PROVE  Spec => []DependenciesFirst
<1>1. OrderInv => DependenciesFirst
  BY DEF OrderInv
<1>2. QED
  BY <1>1, OrderInvHolds, PTL

-----------------------------------------------------------------------------
(* The order of a roadmap.                                                 *)

NoClear == "clear" \notin Used

\* What a finished task allows, it allows for good.
LEMMA NeedsKept ==
  ASSUME TypeOK, NEW p \in Operators, CommandStep(p), NEW i \in Issues, NeedsFinished(i)
  PROVE  NeedsFinished(i)'
<1>1. Needs[i] \subseteq Issues
  BY NeedsAssumption
<1>2. \A d \in Issues : Finished(d) => Finished(d)'
  BY LabelsKept
<1>3. QED
  BY <1>1, <1>2 DEF NeedsFinished

-----------------------------------------------------------------------------
(* What a step makes of the command that takes it.                         *)

\* The command has seen no more than before, and what it works on next is in order.
StaysReady(p) ==
  /\ command'[p].name \in (Used \ {"recover"}) \cup {"none"}
  /\ command'[p].step # "read" =>
       \A i \in command'[p].todo \cup command'[p].picked :
         NeedsFinished(i) /\ (command'[p].name = "advance" => Needs[i] # {})
  /\ command'[p].seen \in {NothingSeen, command[p].seen}

LEMMA StayingReadyIsEnough ==
  ASSUME TypeOK, TypeOK', NEW p \in Operators, CommandStep(p), WorksOnWhatIsReady(p),
         StaysReady(p)
  PROVE  WorksOnWhatIsReady(p)'
<1>1. command'[p].todo \subseteq Issues /\ command'[p].picked \subseteq Issues
  BY DEF TypeOK, CommandTypeOK, Command
<1>2. \A i \in Issues : NeedsFinished(i) => NeedsFinished(i)'
  BY NeedsKept
<1>3. \A i \in Issues : Finished(i) => Finished(i)'
  BY LabelsKept
<1>4. \A i \in Issues : ~Completed(NothingSeen, i)
  BY DEF Completed, NothingSeen, CompletedPlannerStates
<1>5. \A i \in Issues : Completed(command'[p].seen, i) => Finished(i)'
  BY <1>3, <1>4 DEF StaysReady, WorksOnWhatIsReady
<1>6. \A i \in Issues : Completed(command[p].seen, i)' => Finished(i)'
  BY <1>5 DEF Completed
<1>7. QED
  BY <1>1, <1>2, <1>6 DEF StaysReady, WorksOnWhatIsReady

LEMMA EndedStaysReady ==
  ASSUME CommandTypeOK, NEW p \in Operators, command'[p] = NoCommand
  PROVE  StaysReady(p)
BY Bookkeeping DEF StaysReady

\* A command that starts to work on issues in order.
LEMMA StartedStaysReady ==
  ASSUME CommandTypeOK, NEW p \in Operators,
         NEW name \in Used \ {"recover"}, NEW step, NEW todo, Start(p, name, step, todo),
         \A i \in todo : NeedsFinished(i) /\ (name = "advance" => Needs[i] # {})
  PROVE  StaysReady(p)
BY Bookkeeping DEF StaysReady

\* A command that works on goes on with what it has.
LEMMA ContinuedStaysReady ==
  ASSUME CommandTypeOK, NEW p \in Operators, WorksOnWhatIsReady(p),
         command[p].step # "read",
         \/ Finish(p)
         \/ \E step : GoTo(p, step)
         \/ \E i, step : Advance(p, i, step)
  PROVE  StaysReady(p)
<1>1. CASE Finish(p)
  BY <1>1, Bookkeeping, EndedStaysReady
<1>2. CASE \E step : GoTo(p, step)
  BY <1>2, Bookkeeping DEF StaysReady, WorksOnWhatIsReady
<1>3. CASE \E i, step : Advance(p, i, step)
  <2>1. \/ command'[p] = NoCommand
        \/ /\ command'[p].name = command[p].name /\ command'[p].seen = command[p].seen
           /\ command'[p].todo \subseteq command[p].todo
           /\ command'[p].picked = command[p].picked
    BY <1>3, Bookkeeping
  <2>2. QED
    BY <2>1, EndedStaysReady DEF StaysReady, WorksOnWhatIsReady
<1>4. QED
  BY <1>1, <1>2, <1>3

\* An issue that is seen in a state is in order.
LEMMA SeenInOrder ==
  ASSUME RoadmapOrder, NEW i \in Issues, NEW s \in StateLabels, s \in Observed(i)
  PROVE  NeedsFinished(i)
<1>1. s # "none"
  BY DEF StateLabels
<1>2. s \in labels[i] \cap StateLabels
  BY <1>1 DEF Observed
<1>3. QED
  BY <1>2 DEF RoadmapOrder, NeedsFinished

LEMMA ClaimStaysReady ==
  ASSUME TypeOK, RoadmapOrder, NEW p \in Operators, WorksOnWhatIsReady(p), ClaimStep(p)
  PROVE  StaysReady(p)
<1>0. /\ CommandTypeOK /\ command \in [Operators -> Command] /\ command[p] \in Command
  BY DEF TypeOK, CommandTypeOK
<1>1. CASE ClaimList(p)
  <2>1. PICK seen \in Readings :
          Start(p, "claim", "check",
                {i \in Issues : issueState[i] = "open" /\ seen[i] = "state:ready"})
    BY <1>1 DEF ClaimList
  <2>2. ASSUME NEW i \in Issues, seen[i] = "state:ready" PROVE NeedsFinished(i)
    <3>1. "state:ready" \in Observed(i) /\ "state:ready" \in StateLabels
      BY <2>2 DEF Readings, StateLabels
    <3>2. QED
      BY <3>1, SeenInOrder
  <2>3. "claim" \in Used \ {"recover"}
    BY <1>1 DEF ClaimList, MayStart
  <2>4. QED
    BY <1>0, <2>1, <2>2, <2>3, "claim" # "advance", StartedStaysReady
<1>2. CASE ClaimCheck(p)
  <2>1. PICK i \in command[p].todo :
          \/ command' = [command EXCEPT ![p] =
               [command[p] EXCEPT !.todo = @ \ {i}, !.picked = @ \cup {i}]]
          \/ command' = [command EXCEPT ![p] = [command[p] EXCEPT !.todo = @ \ {i}]]
    BY <1>0, <1>2 DEF ClaimCheck
  <2>2. PICK next :
          /\ command' = [command EXCEPT ![p] = next]
          /\ next.name = command[p].name /\ next.step = command[p].step
          /\ next.seen = command[p].seen
          /\ next.todo \subseteq command[p].todo
          /\ next.picked \subseteq command[p].picked \cup {i}
    BY <1>0, <2>1 DEF Command
  <2>3. command'[p] = next
    BY <1>0, <2>2
  <2>4. command[p].step # "read"
    BY <1>2 DEF ClaimCheck, Running
  <2>5. command[p].name # "advance"
    BY <1>2 DEF ClaimCheck, Running
  <2>6. QED
    BY <2>2, <2>3, <2>4, <2>5 DEF StaysReady, WorksOnWhatIsReady
<1>3. CASE ClaimSelect(p)
  <2>1. PICK chosen \in SUBSET command[p].picked :
          Finish(p) \/ Start(p, "claim", "edit", chosen)
    BY <1>3 DEF ClaimSelect
  <2>2. command[p].name = "claim" /\ command[p].step = "check"
    BY <1>3 DEF ClaimSelect, Running
  <2>3. "claim" \in Used \ {"recover"} /\ \A i \in chosen : NeedsFinished(i)
    BY <2>2 DEF WorksOnWhatIsReady
  <2>4. QED
    BY <1>0, <2>1, <2>2, <2>3, StartedStaysReady, ContinuedStaysReady
<1>4. ASSUME NEW i \in Issues, RunIssue(p, i) PROVE StaysReady(p)
  <2>1. /\ Start(p, "run", "edit", {i}) /\ "run" \in Used \ {"recover"}
        /\ "state:ready" \in Observed(i) /\ "state:ready" \in StateLabels
    BY <1>4 DEF RunIssue, MayStart, StateLabels
  <2>2. NeedsFinished(i)
    BY <2>1, SeenInOrder
  <2>3. QED
    BY <1>0, <2>1, <2>2, StartedStaysReady
<1>5. CASE ClaimEdit(p)
  <2>1. command[p].step # "read" /\ (Finish(p) \/ \E i \in command[p].todo : Advance(p, i, "edit"))
    BY <1>5 DEF ClaimEdit, Running
  <2>2. QED
    BY <1>0, <2>1, ContinuedStaysReady
<1>6. QED
  BY <1>1, <1>2, <1>3, <1>4, <1>5 DEF ClaimStep

LEMMA TransitionStaysReady ==
  ASSUME TypeOK, RoadmapOrder, NEW p \in Operators, WorksOnWhatIsReady(p),
         TransitionStep(p) \/ IntegrationStep(p) \/ Stop(p)
  PROVE  StaysReady(p)
<1>0. /\ CommandTypeOK /\ command \in [Operators -> Command] /\ command[p] \in Command
  BY DEF TypeOK, CommandTypeOK
<1>1. ASSUME NEW name \in TransitionNames, NEW i \in Issues, PlanTransition(p, name, i)
      PROVE  StaysReady(p)
  <2>1. /\ command'[p].name = name /\ command'[p].todo = {i} /\ command'[p].picked = {}
        /\ command'[p].seen = NothingSeen /\ name \in Used
        /\ "state:active" \in Observed(i) /\ "state:active" \in StateLabels
    BY <1>0, <1>1 DEF PlanTransition, MayStart, StateLabels
  <2>2. NeedsFinished(i)
    BY <2>1, SeenInOrder
  <2>3. QED
    BY <2>1, <2>2 DEF StaysReady, TransitionNames
<1>2. ASSUME NEW i \in Issues, PlanIntegration(p, i) \/ PlanNoopIntegration(p, i)
      PROVE  StaysReady(p)
  <2>1. /\ "state:done" \in Observed(i) /\ "state:done" \in StateLabels
    BY <1>2, Zenon DEF PlanIntegration, MayIntegrate, PlanNoopIntegration, MayIntegrateNoop, StateLabels
  <2>2. \E name \in Used \ {"recover", "advance"} : Start(p, name, "edit", {i})
    <3>1. CASE PlanIntegration(p, i)
      <4>1. Start(p, "integrate", "edit", {i}) /\ "integrate" \in Used
        BY <3>1, Zenon DEF PlanIntegration, MayIntegrate, MayStart
      <4>2. QED
        BY <4>1
    <3>2. CASE PlanNoopIntegration(p, i)
      <4>1. Start(p, "integrate noop", "edit", {i}) /\ "integrate noop" \in Used
        BY <3>2, Zenon DEF PlanNoopIntegration, MayIntegrateNoop, MayStart
      <4>2. QED
        BY <4>1
    <3>3. QED
      BY <1>2, <3>1, <3>2
  <2>3. NeedsFinished(i)
    BY <2>1, SeenInOrder
  <2>4. QED
    BY <1>0, <2>2, <2>3, StartedStaysReady
<1>3. CASE EvaluateGateForComplete(p) \/ TransitionEdit(p)
           \/ IntegrationEdit(p) \/ IntegrationClose(p)
  <2>1. command[p].step # "read" /\ (Finish(p) \/ \E step : GoTo(p, step))
    BY <1>3 DEF EvaluateGateForComplete, TransitionEdit, IntegrationEdit,
                IntegrationClose, Running
  <2>2. QED
    BY <1>0, <2>1, ContinuedStaysReady
<1>4. CASE Stop(p)
  BY <1>0, <1>4, Bookkeeping, EndedStaysReady DEF Stop
<1>5. QED
  BY <1>1, <1>2, <1>3, <1>4 DEF TransitionStep, IntegrationStep

LEMMA AdvanceStaysReady ==
  ASSUME TypeOK, NEW p \in Operators, WorksOnWhatIsReady(p),
         \/ (\E source \in Issues : StartAdvance(p, source))
         \/ PlanAdvance(p) \/ AdvanceEdit(p)
  PROVE  StaysReady(p)
<1>0. /\ CommandTypeOK /\ command \in [Operators -> Command] /\ command[p] \in Command
  BY DEF TypeOK, CommandTypeOK
<1>1. CASE \E source \in Issues : StartAdvance(p, source)
  <2>1. "advance" \in Used /\ \E todo, picked : StartReading(p, "advance", todo, picked)
    BY <1>1 DEF StartAdvance, StartReading, MayStart
  <2>2. QED
    BY <1>0, <2>1, ReadingBookkeeping DEF StaysReady
<1>2. CASE PlanAdvance(p)
  <2>1. PICK source \in command[p].picked :
          Finish(p) \/ Start(p, "advance", "edit", AdvanceTargets(command[p].seen, source))
    BY <1>2 DEF PlanAdvance
  <2>2. command[p].name = "advance"
    BY <1>2 DEF PlanAdvance, HasRead, Running
  <2>3. "advance" \in Used \ {"recover"}
    BY <2>2 DEF WorksOnWhatIsReady
  <2>4. ASSUME NEW i \in AdvanceTargets(command[p].seen, source)
        PROVE  NeedsFinished(i) /\ Needs[i] # {}
    <3>1. i \in Issues /\ source \in Needs[i] /\ \A d \in Needs[i] : Completed(command[p].seen, d)
      BY DEF AdvanceTargets
    <3>2. Needs[i] \subseteq Issues
      BY <3>1, NeedsAssumption
    <3>3. QED
      BY <3>1, <3>2 DEF WorksOnWhatIsReady, NeedsFinished
  <2>5. CASE Finish(p)
    BY <1>0, <2>5, Bookkeeping, EndedStaysReady
  <2>6. CASE Start(p, "advance", "edit", AdvanceTargets(command[p].seen, source))
    BY <1>0, <2>3, <2>4, <2>6, StartedStaysReady
  <2>7. QED
    BY <2>1, <2>5, <2>6
<1>3. CASE AdvanceEdit(p)
  <2>1. command[p].step # "read" /\ (Finish(p) \/ \E i \in command[p].todo : Advance(p, i, "edit"))
    BY <1>3 DEF AdvanceEdit, Running
  <2>2. QED
    BY <1>0, <2>1, ContinuedStaysReady
<1>4. QED
  BY <1>1, <1>2, <1>3

\* A task that is read as completed is finished: one that was closed without a state
\* would have been closed by a clear.
LEMMA ReadingSeesFinished ==
  ASSUME TypeOK, CompletedMeansMerged, PromotionInv, NEW p \in Operators, ReadTask(p),
         CommandStep(p)
  PROVE  WorksOnWhatIsReady(p)'
<1>0. /\ CommandTypeOK /\ command \in [Operators -> Command] /\ command[p] \in Command
      /\ TrackerTypeOK /\ WorksOnWhatIsReady(p)
      /\ command[p].todo \subseteq Issues /\ command[p].seen \in [Issues -> Sightings]
  BY DEF TypeOK, CommandTypeOK, Command, PromotionInv
<1>1. PICK i \in command[p].todo : \E state \in TaskStates(i) :
        command' = [command EXCEPT ![p].todo = @ \ {i}, ![p].seen[i] = state]
  BY DEF ReadTask
<1>2. PICK state \in TaskStates(i) :
        command' = [command EXCEPT ![p] =
          [command[p] EXCEPT !.todo = @ \ {i}, !.seen = [@ EXCEPT ![i] = state]]]
  BY <1>0, <1>1 DEF Command
<1>3. command'[p].seen = [command[p].seen EXCEPT ![i] = state]
  BY <1>0, <1>2 DEF Command
<1>4. ASSUME state \in CompletedPlannerStates PROVE Finished(i)
  <2>1. CASE labels[i] \cap StateLabels # {}
    BY <1>0, <1>2, <1>4, <2>1 DEF TaskStates, CompletedPlannerStates, Finished, StateLabels
  <2>2. CASE labels[i] \cap StateLabels = {}
    <3>1. issueState[i] # "open"
      BY <1>2, <1>4, <2>2 DEF TaskStates, CompletedPlannerStates
    <3>2. issueState[i] = "completed"
      BY <1>0, <3>1 DEF TrackerTypeOK, PromotionInv
    <3>3. QED
      BY <1>0, <3>2 DEF CompletedMeansMerged, Finished
  <2>3. QED
    BY <2>1, <2>2
<1>5. ASSUME NEW j \in Issues, Completed(command'[p].seen, j) PROVE Finished(j)'
  <2>1. Finished(j)
    <3>1. CASE j = i
      BY <1>0, <1>3, <1>4, <1>5, <3>1 DEF Completed
    <3>2. CASE j # i
      BY <1>0, <1>3, <1>5, <3>2 DEF Completed, WorksOnWhatIsReady
    <3>3. QED
      BY <3>1, <3>2
  <2>2. QED
    BY <2>1, LabelsKept
<1>6. command'[p].name = command[p].name /\ command'[p].step = "read"
  BY <1>0, ReadingBookkeeping
<1>7. command[p].name \in (Used \ {"recover"}) \cup {"none"}
  BY <1>0 DEF WorksOnWhatIsReady
<1>8. QED
  BY <1>5, <1>6, <1>7 DEF WorksOnWhatIsReady, Completed

-----------------------------------------------------------------------------
(* The invariant.                                                          *)

\* Without a clear there is neither a clear nor a recovery to take a step.
LEMMA NothingCleared ==
  ASSUME NoClear, PromotionInv, NEW p \in Operators
  PROVE  /\ ~StartClear(p) /\ ~PlanClear(p) /\ ~ClearClose(p)
         /\ ~ClearArchive(p) /\ ~ClearRewrite(p)
         /\ ~StartRecover(p) /\ ~PlanRecover(p) /\ ~RecoverReopen(p)
         /\ ~RecoverEdit(p) /\ ~RecoverClose(p)
<1>1. manifest = "active" /\ command[p].name \notin {"clear", "recover"}
  BY DEF PromotionInv, WorksOnWhatIsReady, NoClear
<1>2. ~StartClear(p) /\ ~StartRecover(p)
  BY <1>1 DEF StartClear, StartRecover, StartReading, MayStart, NoClear
<1>3. /\ ~PlanClear(p) /\ ~ClearClose(p) /\ ~ClearArchive(p) /\ ~ClearRewrite(p)
      /\ ~PlanRecover(p) /\ ~RecoverReopen(p) /\ ~RecoverEdit(p) /\ ~RecoverClose(p)
  BY <1>1 DEF PlanClear, ClearClose, ClearArchive, ClearRewrite, PlanRecover,
              RecoverReopen, RecoverEdit, RecoverClose, HasRead, Running
<1>4. QED
  BY <1>2, <1>3

\* Only the edits of commands that work on issues in order change labels.
LEMMA RoadmapOrderKept ==
  ASSUME NoClear, TypeOK, PromotionInv, NEW p \in Operators, CommandStep(p)
  PROVE  RoadmapOrder'
<1>0. /\ TrackerTypeOK /\ RoadmapOrder /\ WorksOnWhatIsReady(p)
      /\ command[p].todo \subseteq Issues
  BY DEF PromotionInv, TypeOK, CommandTypeOK, Command
<1>1. \A i \in Issues : NeedsFinished(i) => NeedsFinished(i)'
  BY NeedsKept
<1>2. SUFFICES \A i \in Issues : labels'[i] = labels[i] \/ NeedsFinished(i)
  BY <1>0, <1>1 DEF RoadmapOrder, NeedsFinished
<1>3. CASE UNCHANGED labels
  BY <1>3
<1>4. CASE \/ ClaimEdit(p) \/ TransitionEdit(p) \/ IntegrationEdit(p) \/ AdvanceEdit(p)
  <2>1. PICK i \in command[p].todo, outcome \in Outcomes("edit") :
          \E remove, add : Edit(i, outcome, remove, add)
    <3>1. CASE ClaimEdit(p)
      BY <3>1 DEF ClaimEdit
    <3>2. CASE TransitionEdit(p)
      BY <3>2 DEF TransitionEdit
    <3>3. CASE IntegrationEdit(p)
      BY <3>3 DEF IntegrationEdit
    <3>4. CASE AdvanceEdit(p)
      BY <3>4 DEF AdvanceEdit
    <3>5. QED
      BY <1>4, <3>1, <3>2, <3>3, <3>4
  <2>2. command[p].step # "read"
    BY <1>4 DEF ClaimEdit, TransitionEdit, IntegrationEdit, AdvanceEdit, Running
  <2>3. NeedsFinished(i)
    BY <1>0, <2>2 DEF WorksOnWhatIsReady
  <2>4. \A j \in Issues : j # i => labels'[j] = labels[j]
    BY <1>0, <2>1 DEF Edit, TrackerTypeOK
  <2>5. QED
    BY <2>3, <2>4
<1>5. UNCHANGED labels \/ ClaimEdit(p) \/ TransitionEdit(p) \/ IntegrationEdit(p)
        \/ AdvanceEdit(p)
  BY NothingCleared
     DEF CommandStep, ClaimStep, ClaimList, ClaimCheck, ClaimSelect, RunIssue,
         TransitionStep, PlanTransition, EvaluateGateForComplete,
         IntegrationStep, PlanIntegration, MayIntegrate, PlanNoopIntegration, MayIntegrateNoop, IntegrationClose,
         Stop, RoadmapStep, StartAdvance, StartReading, ReadTask, PlanAdvance,
         Close, tracker
<1>6. QED
  BY <1>3, <1>4, <1>5

LEMMA NothingRetired ==
  ASSUME NoClear, TypeOK, PromotionInv, NEW p \in Operators, CommandStep(p)
  PROVE  /\ manifest' = "active" /\ \A i \in Issues : issueState'[i] # "not planned"
         /\ \A i \in Issues : issueState[i] = "completed" => issueState'[i] = "completed"
<1>0. /\ TrackerTypeOK /\ manifest = "active"
      /\ \A i \in Issues : issueState[i] # "not planned"
  BY DEF PromotionInv, TypeOK
<1>1. UNCHANGED manifest
  BY NothingCleared
     DEF CommandStep, RoadmapStep, StartAdvance, StartReading, ReadTask, PlanAdvance,
         AdvanceEdit
<1>2. UNCHANGED issueState \/ IntegrationClose(p)
  BY NothingCleared
     DEF CommandStep, ClaimStep, ClaimList, ClaimCheck, ClaimSelect, RunIssue, ClaimEdit,
         TransitionStep, PlanTransition, EvaluateGateForComplete, TransitionEdit,
         IntegrationStep, PlanIntegration, MayIntegrate, PlanNoopIntegration, MayIntegrateNoop, IntegrationEdit,
         Stop, RoadmapStep, StartAdvance, StartReading, ReadTask, PlanAdvance,
         AdvanceEdit, Edit, tracker
<1>3. CASE IntegrationClose(p)
  <2>1. PICK i \in Issues, outcome \in Outcomes("close") : Close(i, outcome, "completed")
    BY <1>3 DEF IntegrationClose
  <2>2. QED
    BY <1>0, <1>1, <2>1 DEF Close, TrackerTypeOK
<1>4. QED
  BY <1>0, <1>1, <1>2, <1>3

LEMMA PromotionInvKept ==
  ASSUME NoClear, TypeOK, TypeOK', CompletedMeansMerged, PromotionInv, [Next]_vars
  PROVE  PromotionInv'
<1>0. RoadmapOrder /\ \A p \in Operators : WorksOnWhatIsReady(p)
  BY DEF PromotionInv
<1>1. ASSUME NEW p \in Operators, CommandStep(p) PROVE PromotionInv'
  <2>1. WorksOnWhatIsReady(p)'
    <3>1. CASE ReadTask(p)
      BY <1>1, <3>1, ReadingSeesFinished
    <3>2. CASE ~ReadTask(p)
      <4>1. StaysReady(p)
        BY <1>0, <1>1, <3>2, NothingCleared, ClaimStaysReady, TransitionStaysReady,
           AdvanceStaysReady DEF CommandStep, RoadmapStep
      <4>2. QED
        BY <1>0, <1>1, <4>1, StayingReadyIsEnough
    <3>3. QED
      BY <3>1, <3>2
  <2>2. ASSUME NEW q \in Operators \ {p} PROVE WorksOnWhatIsReady(q)'
    <3>1. command'[q] = command[q]
      BY <1>1, OthersKept
    <3>2. /\ \A i \in Issues : NeedsFinished(i) => NeedsFinished(i)'
          /\ \A i \in Issues : Finished(i) => Finished(i)'
      BY <1>1, NeedsKept, LabelsKept
    <3>3. command[q].todo \subseteq Issues /\ command[q].picked \subseteq Issues
      BY DEF TypeOK, CommandTypeOK, Command
    <3>4. QED
      BY <1>0, <3>1, <3>2, <3>3 DEF WorksOnWhatIsReady, Completed
  <2>3. QED
    <3>1. manifest' = "active" /\ \A i \in Issues : issueState'[i] # "not planned"
      BY <1>1, NothingRetired
    <3>2. RoadmapOrder'
      BY <1>1, RoadmapOrderKept
    <3>3. QED
      BY <2>1, <2>2, <3>1, <3>2 DEF PromotionInv
<1>2. CASE EvidenceStep \/ UNCHANGED vars
  <2>1. UNCHANGED <<labels, issueState, command, manifest>>
    BY <1>2 DEF EvidenceStep, PullRequestAdvances, SummaryPasses, NoopGatePasses,
                tracker, vars
  <2>2. QED
    BY <2>1 DEF PromotionInv, RoadmapOrder, WorksOnWhatIsReady, NeedsFinished, Finished,
                Completed
<1>3. QED
  BY <1>1, <1>2 DEF Next

LEMMA PromotionInvHolds ==
  ASSUME NoClear
  PROVE  Spec => []PromotionInv
<1>1. Init => PromotionInv
  <2> SUFFICES ASSUME Init PROVE PromotionInv
    OBVIOUS
  <2>1. RoadmapOrder
    BY DEF Init, RoadmapOrder
  <2>2. \A p \in Operators : command[p] = NoCommand
    BY DEF Init
  <2>3. \A i \in Issues : ~Completed(NothingSeen, i)
    BY DEF Completed, NothingSeen, CompletedPlannerStates
  <2>4. \A p \in Operators : WorksOnWhatIsReady(p)
    BY <2>2, <2>3 DEF WorksOnWhatIsReady, NoCommand
  <2>5. QED
    BY <2>1, <2>4 DEF PromotionInv, Init
<1>2. /\ TypeOK /\ TypeOK' /\ CompletedMeansMerged /\ PromotionInv /\ [Next]_vars
      => PromotionInv'
  BY PromotionInvKept
<1>3. QED
  BY <1>1, <1>2, TypeCorrect, OnlyMergedWorkIsCompleted, PTL DEF Spec

\* As long as the roadmap is not cleared, no task of it has a state, and so none is
\* worked on, before the tasks it needs are finished: whoever claims it, with or
\* without the claim planner, and whatever fails.
THEOREM RoadmapsAreWorkedInOrder ==
  ASSUME NoClear
  PROVE  Spec => []RoadmapOrder
<1>1. PromotionInv => RoadmapOrder
  BY DEF PromotionInv
<1>2. QED
  BY <1>1, PromotionInvHolds, PTL

-----------------------------------------------------------------------------
(* What is ready may be claimed.                                           *)

\* A seeded task names what it needs in the manifest only, an issue that was created by
\* hand in its body only; a task that names more there names nothing that it does not need.
OneSortOfDependency == \A i \in Issues : Needs[i] # {} => Deps[i] \subseteq Needs[i]
NothingDependsOn == \A i \in Issues : Deps[i] = {}

\* Only a release and an advance make an issue ready.
LEMMA ReadyAgain ==
  ASSUME NoClear, TypeOK, PromotionInv, NEW p \in Operators, CommandStep(p),
         NEW i \in Issues, "state:ready" \in labels'[i] \ labels[i]
  PROVE  /\ i \in command[p].todo /\ NeedsFinished(i)
         /\ command[p].name = "release" \/ (command[p].name = "advance" /\ Needs[i] # {})
<1>0. TrackerTypeOK /\ WorksOnWhatIsReady(p) /\ command[p].todo \subseteq Issues
  BY DEF PromotionInv, TypeOK, CommandTypeOK, Command
<1>1. ASSUME NEW j \in Issues, NEW outcome, NEW remove, NEW add, Edit(j, outcome, remove, add)
      PROVE  j = i /\ "state:ready" \in add
  BY <1>0, <1>1 DEF Edit, TrackerTypeOK
<1>2. CASE ClaimEdit(p)
  <2>1. PICK j \in command[p].todo, outcome \in Outcomes("edit") :
          Edit(j, outcome, {"state:ready"}, {"state:active"} \cup ProposedGate(j))
    BY <1>2 DEF ClaimEdit
  <2>2. "state:ready" \notin {"state:active"} \cup ProposedGate(j)
    BY DEF ProposedGate
  <2>3. QED
    BY <1>0, <1>1, <2>1, <2>2
<1>3. CASE TransitionEdit(p)
  <2>1. PICK j \in Issues, outcome \in Outcomes("edit") :
          /\ command[p].todo = {j}
          /\ Edit(j, outcome, {"state:active"} \cup command[p].gates, {NewState(command[p].name)})
    BY <1>3 DEF TransitionEdit
  <2>2. command[p].name \in TransitionNames /\ command[p].step # "read"
    BY <1>3 DEF TransitionEdit, Running
  <2>3. j = i /\ NewState(command[p].name) = "state:ready"
    BY <1>1, <2>1
  <2>4. command[p].name = "release"
    BY <2>2, <2>3 DEF TransitionNames, NewState
  <2>5. QED
    BY <1>0, <2>1, <2>2, <2>3, <2>4 DEF WorksOnWhatIsReady
<1>4. CASE IntegrationEdit(p)
  <2>1. PICK j \in Issues, outcome \in Outcomes("edit") :
          Edit(j, outcome, {"state:done"}, {"state:merged"})
    BY <1>4 DEF IntegrationEdit
  <2>2. QED
    BY <1>1, <2>1
<1>5. CASE AdvanceEdit(p)
  <2>1. PICK j \in command[p].todo, outcome \in Outcomes("edit") :
          Edit(j, outcome, {}, {"state:ready"})
    BY <1>5 DEF AdvanceEdit
  <2>2. command[p].name = "advance" /\ command[p].step # "read"
    BY <1>5 DEF AdvanceEdit, Running
  <2>3. QED
    BY <1>0, <1>1, <2>1, <2>2 DEF WorksOnWhatIsReady
<1>6. UNCHANGED labels \/ ClaimEdit(p) \/ TransitionEdit(p) \/ IntegrationEdit(p)
        \/ AdvanceEdit(p)
  BY NothingCleared
     DEF CommandStep, ClaimStep, ClaimList, ClaimCheck, ClaimSelect, RunIssue,
         TransitionStep, PlanTransition, EvaluateGateForComplete,
         IntegrationStep, PlanIntegration, MayIntegrate, PlanNoopIntegration,
         MayIntegrateNoop, IntegrationClose,
         Stop, RoadmapStep, StartAdvance, StartReading, ReadTask, PlanAdvance,
         Close, tracker
<1>7. QED
  BY <1>2, <1>3, <1>4, <1>5, <1>6

LEMMA ReadyIsClaimable ==
  ASSUME NoClear, OneSortOfDependency, TypeOK, PromotionInv, OrderInv \/ NothingDependsOn,
         [Next]_vars, NEW i \in Issues, "state:ready" \in labels'[i] \ labels[i]
  PROVE  \A d \in Deps[i] \cup Needs[i] : Finished(d)
<1>1. PICK p \in Operators : CommandStep(p)
  BY DEF Next, EvidenceStep, PullRequestAdvances, SummaryPasses, NoopGatePasses, tracker, vars
<1>2. /\ i \in command[p].todo /\ NeedsFinished(i)
      /\ command[p].name = "release" \/ (command[p].name = "advance" /\ Needs[i] # {})
  BY <1>1, ReadyAgain
<1>3. \A d \in Deps[i] : Finished(d)
  <2>1. CASE command[p].name = "advance"
    BY <1>2, <2>1 DEF OneSortOfDependency, NeedsFinished
  <2>2. CASE command[p].name = "release" /\ OrderInv
    BY <1>2, <2>2 DEF OrderInv, WorksInOrder, TransitionNames, DependenciesFinished
  <2>3. CASE NothingDependsOn
    BY <2>3 DEF NothingDependsOn
  <2>4. QED
    BY <1>2, <2>1, <2>2, <2>3
<1>4. QED
  BY <1>2, <1>3 DEF NeedsFinished

\* As long as the roadmap is not cleared, and no task of it has dependencies in its body
\* that the manifest does not know, an issue that is made ready, by an advance or by a
\* release, may be claimed at once: all its dependencies are finished.  A release gives back
\* what was claimed in order, so that issues that do depend on others have to be claimed
\* through the planner, and to be readable.
THEOREM ReadyIssuesMayBeClaimed ==
  ASSUME NoClear, OneSortOfDependency, (PlannerClaimsOnly /\ BodiesReadable) \/ NothingDependsOn
  PROVE  Spec => ReadyMeansClaimable
<1> DEFINE Kept == OrderInv \/ NothingDependsOn
           Claimable == \A i \in Issues :
                          "state:ready" \in labels'[i] \ labels[i] =>
                            \A d \in Deps[i] \cup Needs[i] : Finished(d)
<1>1. TypeOK /\ PromotionInv /\ Kept /\ [Next]_vars => [Claimable]_vars
  <2> SUFFICES ASSUME TypeOK, PromotionInv, Kept, [Next]_vars PROVE Claimable
    OBVIOUS
  <2>1. QED
    BY ReadyIsClaimable
<1>2. Spec => []Kept
  <2>1. CASE PlannerClaimsOnly /\ BodiesReadable
    BY <2>1, OrderInvHolds, PTL
  <2>2. CASE NothingDependsOn
    BY <2>2, PTL
  <2>3. QED
    BY <2>1, <2>2
<1>3. QED
  BY <1>1, <1>2, PromotionInvHolds, TypeCorrect, PTL DEF Spec, ReadyMeansClaimable
=============================================================================
