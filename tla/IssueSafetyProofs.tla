------------------------- MODULE IssueSafetyProofs -------------------------
(***************************************************************************)
(* Safety of IssueWorkflow, for any number of operators.                   *)
(*                                                                         *)
(* Nothing is locked, so the argument is the same for every invariant:     *)
(* what a command relied on when it planned is stable under the steps of   *)
(* all the others (state:merged is never taken off, a finished issue stays *)
(* finished, evidence is never withdrawn), and what it has established by  *)
(* its own earlier mutations is stable too.                                *)
(***************************************************************************)
EXTENDS IssueWorkflowProofs

-----------------------------------------------------------------------------
(* What a step of one command leaves alone.                                *)

\* A label edit that takes off no completed state, or only state:done while it
\* puts on state:merged, leaves what is merged merged and what is finished
\* finished.
LEMMA EditKeeps ==
  ASSUME TrackerTypeOK, NEW j \in Issues, NEW outcome, NEW remove, NEW add,
         Edit(j, outcome, remove, add),
         "state:merged" \notin remove,
         "state:done" \notin remove \/ "state:merged" \in add,
         NEW i \in Issues
  PROVE  /\ "state:merged" \in labels[i] => "state:merged" \in labels'[i]
         /\ Finished(i) => Finished(i)'
BY DEF TrackerTypeOK, Edit, Finished

\* The steps of a command keep merged and finished issues so.
LEMMA LabelsKept ==
  ASSUME TypeOK, NEW p \in Operators, CommandStep(p), NEW i \in Issues
  PROVE  /\ "state:merged" \in labels[i] => "state:merged" \in labels'[i]
         /\ Finished(i) => Finished(i)'
<1> DEFINE Kept == /\ "state:merged" \in labels[i] => "state:merged" \in labels'[i]
                   /\ Finished(i) => Finished(i)'
<1>0. /\ TrackerTypeOK /\ command[p].todo \subseteq Issues
      /\ command[p].gates \subseteq GateLabels
  BY DEF TypeOK, CommandTypeOK, Command
<1>1. CASE UNCHANGED labels
  BY <1>1 DEF Finished
<1>2. CASE ClaimEdit(p)
  <2>1. PICK j \in Issues, outcome \in Outcomes("edit") :
          Edit(j, outcome, {"state:ready"}, {"state:active"} \cup ProposedGate(j))
    BY <1>0, <1>2 DEF ClaimEdit
  <2>2. QED
    BY <1>0, <2>1, EditKeeps
<1>3. CASE TransitionEdit(p)
  <2>1. PICK j \in Issues, outcome \in Outcomes("edit") :
          Edit(j, outcome, {"state:active"} \cup command[p].gates,
               {NewState(command[p].name)})
    BY <1>3 DEF TransitionEdit
  <2>2. /\ "state:merged" \notin {"state:active"} \cup command[p].gates
        /\ "state:done" \notin {"state:active"} \cup command[p].gates
    BY <1>0 DEF GateLabels
  <2>3. QED
    BY <1>0, <2>1, <2>2, EditKeeps
<1>4. CASE IntegrationEdit(p)
  <2>1. PICK j \in Issues, outcome \in Outcomes("edit") :
          Edit(j, outcome, {"state:done"}, {"state:merged"})
    BY <1>4 DEF IntegrationEdit
  <2>2. QED
    BY <1>0, <2>1, EditKeeps
<1>5. CASE AdvanceEdit(p) \/ RecoverEdit(p)
  <2>1. PICK j \in Issues, outcome \in Outcomes("edit"),
             add \in {{"state:ready"}, {"state:merged"}} :
          Edit(j, outcome, {}, add)
    BY <1>0, <1>5 DEF AdvanceEdit, RecoverEdit
  <2>2. QED
    BY <1>0, <2>1, EditKeeps
<1>6. UNCHANGED labels \/ ClaimEdit(p) \/ TransitionEdit(p) \/ IntegrationEdit(p)
        \/ AdvanceEdit(p) \/ RecoverEdit(p)
  BY DEF CommandStep, ClaimStep, ClaimList, ClaimCheck, ClaimSelect, RunIssue,
         TransitionStep, PlanTransition, EvaluateGateForComplete,
         IntegrationStep, PlanIntegration, MayIntegrate, PlanNoopIntegration, MayIntegrateNoop, IntegrationClose,
         Stop, RoadmapStep, StartAdvance, StartClear, StartRecover, StartReading,
         ReadTask, PlanAdvance, PlanClear, ClearClose, ClearArchive,
         ClearRewrite, PlanRecover, RecoverReopen, RecoverClose,
         Close, Reopen, tracker
<1>7. QED
  BY <1>1, <1>2, <1>3, <1>4, <1>5, <1>6

\* A step of one operator touches neither the evidence nor the other commands.
LEMMA OthersKept ==
  ASSUME TypeOK, NEW p \in Operators, CommandStep(p)
  PROVE  /\ UNCHANGED evidence
         /\ \A q \in Operators \ {p} : command'[q] = command[q]
<1>0. command \in [Operators -> Command]
  BY DEF TypeOK, CommandTypeOK
<1>1. UNCHANGED evidence
  BY DEF CommandStep, ClaimStep, ClaimList, ClaimCheck, ClaimSelect, RunIssue, ClaimEdit,
         TransitionStep, PlanTransition, EvaluateGateForComplete, TransitionEdit,
         IntegrationStep, PlanIntegration, MayIntegrate, PlanNoopIntegration, MayIntegrateNoop, IntegrationEdit,
         IntegrationClose, Stop, RoadmapStep, StartAdvance, StartClear, StartRecover,
         StartReading, ReadTask, PlanAdvance, AdvanceEdit, PlanClear,
         ClearClose, ClearArchive, ClearRewrite, PlanRecover, RecoverReopen,
         RecoverEdit, RecoverClose
<1>2. ASSUME NEW q \in Operators \ {p} PROVE command'[q] = command[q]
  <2>1. CASE ClaimStep(p)
    BY <1>0, <2>1 DEF ClaimStep, ClaimList, ClaimCheck, ClaimSelect, RunIssue, ClaimEdit,
                Start, Advance, Finish
  <2>2. CASE TransitionStep(p) \/ IntegrationStep(p) \/ Stop(p)
    BY <1>0, <2>2 DEF TransitionStep, PlanTransition, EvaluateGateForComplete,
                TransitionEdit, IntegrationStep, PlanIntegration, MayIntegrate, PlanNoopIntegration, MayIntegrateNoop,
                IntegrationEdit, IntegrationClose, Stop, Start, GoTo, Finish
  <2>3. CASE RoadmapStep(p)
    BY <1>0, <2>3 DEF RoadmapStep, StartAdvance, StartClear, StartRecover,
         StartReading, ReadTask, PlanAdvance, AdvanceEdit, PlanClear, ClearClose,
                ClearArchive, ClearRewrite, PlanRecover, RecoverReopen, RecoverEdit,
                RecoverClose, Start, GoTo, Advance, Finish
  <2>4. QED
    BY <2>1, <2>2, <2>3 DEF CommandStep
<1>3. QED
  BY <1>1, <1>2

\* A finished issue stays finished: the dependency check of a claim cannot go
\* stale.
THEOREM FinishedIsStable == Spec => FinishedStaysFinished
<1>1. TypeOK /\ [Next]_vars => [\A i \in Issues : Finished(i) => Finished(i)']_vars
  <2> SUFFICES ASSUME TypeOK, [Next]_vars, NEW i \in Issues, Finished(i)
               PROVE  Finished(i)'
    OBVIOUS
  <2>1. CASE UNCHANGED vars
    BY <2>1 DEF vars, Finished
  <2>2. CASE EvidenceStep
    BY <2>2 DEF EvidenceStep, PullRequestAdvances, SummaryPasses, NoopGatePasses,
                tracker, Finished
  <2>3. CASE \E p \in Operators : CommandStep(p)
    BY <2>3, LabelsKept
  <2>4. QED
    BY <2>1, <2>2, <2>3 DEF Next
<1>2. QED
  BY <1>1, TypeCorrect, PTL DEF Spec, FinishedStaysFinished

-----------------------------------------------------------------------------
(* Only shipped work is merged and only merged work is completed.          *)

\* Evidence is never withdrawn.
LEMMA EvidenceKept ==
  ASSUME TypeOK, Next \/ UNCHANGED vars, NEW i \in Issues
  PROVE  /\ pr[i] = "green" => pr'[i] = "green"
         /\ Shipped(i) => Shipped(i)'
         /\ noopGate[i] => noopGate'[i]
<1>1. CASE EvidenceStep
  BY <1>1 DEF EvidenceStep, PullRequestAdvances, SummaryPasses, NoopGatePasses,
              Shipped, TypeOK, EvidenceTypeOK
<1>2. CASE \E p \in Operators : CommandStep(p)
  BY <1>2, OthersKept DEF evidence, Shipped
<1>3. CASE UNCHANGED vars
  BY <1>3 DEF vars, Shipped
<1>4. QED
  BY <1>1, <1>2, <1>3 DEF Next

\* What a command relies on stays true while others take their steps.
LEMMA DueWhileOthersStep ==
  ASSUME TypeOK, Next \/ UNCHANGED vars, NEW q \in Operators, ShipsWhatIsDue(q),
         command'[q] = command[q],
         \A i \in Issues : "state:merged" \in labels[i] => "state:merged" \in labels'[i]
  PROVE  ShipsWhatIsDue(q)'
<1>1. command[q].todo \subseteq Issues /\ command[q].picked \subseteq Issues
  BY DEF TypeOK, CommandTypeOK, Command
<1>2. \A i \in Issues : /\ pr[i] = "green" => pr'[i] = "green"
                        /\ Shipped(i) => Shipped(i)'
                        /\ noopGate[i] => noopGate'[i]
  BY EvidenceKept
<1>3. QED
  BY <1>1, <1>2 DEF ShipsWhatIsDue, Running, First

\* The commands that neither integrate nor recover have nothing to ship.
LEMMA NothingDue ==
  ASSUME NEW p \in Operators,
         command'[p].name \notin {"integrate", "integrate noop", "recover"}
  PROVE  ShipsWhatIsDue(p)'
BY DEF ShipsWhatIsDue, Running

\* What the bookkeeping of a command makes of its record.
LEMMA Bookkeeping ==
  ASSUME CommandTypeOK, NEW p \in Operators
  PROVE
    /\ \A name, step, todo : Start(p, name, step, todo) =>
         /\ command'[p].name = name /\ command'[p].step = step
         /\ command'[p].todo = todo /\ command'[p].picked = {}
         /\ command'[p].seen = NothingSeen
    /\ \A step : GoTo(p, step) =>
         /\ command'[p].name = command[p].name /\ command'[p].step = step
         /\ command'[p].todo = command[p].todo
         /\ command'[p].picked = command[p].picked
         /\ command'[p].seen = command[p].seen
    /\ \A i, step : Advance(p, i, step) =>
         \/ command'[p] = NoCommand
         \/ /\ command'[p].name = command[p].name /\ command'[p].step = step
            /\ command'[p].todo = command[p].todo \ {i}
            /\ command'[p].picked = command[p].picked
            /\ command'[p].seen = command[p].seen
    /\ Finish(p) => command'[p] = NoCommand
    /\ NoCommand.name = "none" /\ NoCommand.step = "idle"
    /\ NoCommand.todo = {} /\ NoCommand.picked = {} /\ NoCommand.seen = NothingSeen
<1>0. command \in [Operators -> Command] /\ command[p] \in Command
  BY DEF CommandTypeOK
<1>1. ASSUME NEW name, NEW step, NEW todo, Start(p, name, step, todo)
      PROVE  /\ command'[p].name = name /\ command'[p].step = step
             /\ command'[p].todo = todo /\ command'[p].picked = {}
             /\ command'[p].seen = NothingSeen
  BY <1>0, <1>1 DEF Start
<1>2. ASSUME NEW step, GoTo(p, step)
      PROVE  /\ command'[p].name = command[p].name /\ command'[p].step = step
             /\ command'[p].todo = command[p].todo
             /\ command'[p].picked = command[p].picked
             /\ command'[p].seen = command[p].seen
  <2>1. command'[p] = [command[p] EXCEPT !.step = step]
    BY <1>0, <1>2 DEF GoTo
  <2>2. QED
    BY <1>0, <2>1 DEF Command
<1>3. ASSUME NEW i, NEW step, Advance(p, i, step), command'[p] # NoCommand
      PROVE  /\ command'[p].name = command[p].name /\ command'[p].step = step
             /\ command'[p].todo = command[p].todo \ {i}
             /\ command'[p].picked = command[p].picked
             /\ command'[p].seen = command[p].seen
  <2>1. command[p].todo # {i}
    BY <1>0, <1>3 DEF Advance, Finish
  <2>2. command'[p] = [command[p] EXCEPT !.todo = @ \ {i}, !.step = step]
    BY <1>0, <1>3, <2>1 DEF Advance
  <2>3. QED
    BY <1>0, <2>2 DEF Command
<1>4. Finish(p) => command'[p] = NoCommand
  BY <1>0 DEF Finish
<1>5. /\ NoCommand.name = "none" /\ NoCommand.step = "idle"
      /\ NoCommand.todo = {} /\ NoCommand.picked = {} /\ NoCommand.seen = NothingSeen
  BY DEF NoCommand
<1>6. QED
  BY <1>1, <1>2, <1>3, <1>4, <1>5

\* The same for the reading of the planner commands.
LEMMA ReadingBookkeeping ==
  ASSUME CommandTypeOK, NEW p \in Operators
  PROVE
    /\ \A name, todo, picked : StartReading(p, name, todo, picked) =>
         /\ command'[p].name = name /\ command'[p].step = "read"
         /\ command'[p].picked = picked /\ command'[p].seen = NothingSeen
    /\ ReadTask(p) =>
         /\ command'[p].name = command[p].name /\ command'[p].step = "read"
         /\ command'[p].picked = command[p].picked
<1>0. command \in [Operators -> Command] /\ command[p] \in Command
  BY DEF CommandTypeOK
<1>1. ASSUME NEW name, NEW todo, NEW picked, StartReading(p, name, todo, picked)
      PROVE  /\ command'[p].name = name /\ command'[p].step = "read"
             /\ command'[p].picked = picked /\ command'[p].seen = NothingSeen
  BY <1>0, <1>1 DEF StartReading
<1>2. ASSUME ReadTask(p)
      PROVE  /\ command'[p].name = command[p].name /\ command'[p].step = "read"
             /\ command'[p].picked = command[p].picked
  <2>1. PICK i \in command[p].todo : \E state \in TaskStates(i) :
          command' = [command EXCEPT ![p].todo = @ \ {i}, ![p].seen[i] = state]
    BY <1>2 DEF ReadTask
  <2>2. PICK state \in TaskStates(i) :
          command' = [command EXCEPT ![p] =
            [command[p] EXCEPT !.todo = @ \ {i}, !.seen = [@ EXCEPT ![i] = state]]]
    BY <1>0, <2>1 DEF Command
  <2>3. command[p].step = "read"
    BY <1>2 DEF ReadTask, Running
  <2>4. QED
    BY <1>0, <2>2, <2>3 DEF Command
<1>3. QED
  BY <1>1, <1>2

LEMMA OtherCommandsShipNothing ==
  ASSUME TypeOK, NEW p \in Operators,
         \/ ClaimStep(p) \/ TransitionStep(p) \/ Stop(p)
         \/ (\E source \in Issues : StartAdvance(p, source)) \/ StartClear(p)
         \/ Running(p, {"advance", "clear"}, "read") /\ ReadTask(p)
         \/ PlanAdvance(p) \/ AdvanceEdit(p) \/ PlanClear(p)
         \/ ClearClose(p) \/ ClearArchive(p) \/ ClearRewrite(p)
  PROVE  ShipsWhatIsDue(p)'
<1> SUFFICES command'[p].name \notin {"integrate", "integrate noop", "recover"}
  BY NothingDue
<1>0. CommandTypeOK /\ command \in [Operators -> Command] /\ command[p] \in Command
  BY DEF TypeOK, CommandTypeOK
<1>1. CASE ClaimList(p) \/ ClaimSelect(p) \/ \E i \in Issues : RunIssue(p, i)
  <2>1. \/ command'[p].name \in {"claim", "run"}
        \/ command'[p] = NoCommand
    <3>1. CASE ClaimList(p)
      BY <1>0, <3>1, Bookkeeping DEF ClaimList
    <3>2. CASE ClaimSelect(p)
      BY <1>0, <3>2, Bookkeeping DEF ClaimSelect
    <3>3. CASE \E i \in Issues : RunIssue(p, i)
      BY <1>0, <3>3, Bookkeeping DEF RunIssue
    <3>4. QED
      BY <1>1, <3>1, <3>2, <3>3
  <2>2. QED
    BY <1>0, <2>1, Bookkeeping
<1>2. CASE ClaimCheck(p)
  <2>1. PICK i \in command[p].todo :
          \/ command' = [command EXCEPT ![p] =
               [command[p] EXCEPT !.todo = @ \ {i}, !.picked = @ \cup {i}]]
          \/ command' = [command EXCEPT ![p] = [command[p] EXCEPT !.todo = @ \ {i}]]
    BY <1>0, <1>2 DEF ClaimCheck
  <2>2. \E next : /\ command' = [command EXCEPT ![p] = next]
                  /\ next.name = command[p].name
    BY <1>0, <2>1 DEF Command
  <2>3. command'[p].name = command[p].name
    BY <1>0, <2>2
  <2>4. QED
    BY <1>2, <2>3 DEF ClaimCheck, Running
<1>3. CASE ClaimEdit(p)
  <2>1. command[p].name \in {"claim", "run"}
          /\ \E i \in command[p].todo : Advance(p, i, "edit") \/ Finish(p)
    BY <1>3 DEF ClaimEdit, Running
  <2>2. QED
    BY <1>0, <2>1, Bookkeeping
<1>4. CASE Stop(p) \/ TransitionEdit(p) \/ ClearRewrite(p)
  BY <1>0, <1>4, Bookkeeping DEF Stop, TransitionEdit, ClearRewrite
<1>5. ASSUME NEW name \in TransitionNames, NEW i \in Issues, PlanTransition(p, name, i)
      PROVE  command'[p].name \notin {"integrate", "integrate noop", "recover"}
  <2>1. command'[p].name = name
    BY <1>0, <1>5 DEF PlanTransition
  <2>2. QED
    BY <2>1 DEF TransitionNames
<1>6. CASE EvaluateGateForComplete(p)
  <2>1. command[p].name = "complete" /\ (GoTo(p, "edit") \/ Finish(p))
    BY <1>6 DEF EvaluateGateForComplete, Running
  <2>2. QED
    BY <1>0, <2>1, Bookkeeping
<1>7. CASE PlanAdvance(p) \/ AdvanceEdit(p)
  <2>1. CASE PlanAdvance(p)
    <3>1. Finish(p) \/ \E todo : Start(p, "advance", "edit", todo)
      BY <2>1 DEF PlanAdvance
    <3>2. command'[p] = NoCommand \/ command'[p].name = "advance"
      BY <1>0, <3>1, Bookkeeping
    <3>3. QED
      BY <1>0, <3>2, Bookkeeping
  <2>2. CASE AdvanceEdit(p)
    <3>1. command[p].name = "advance"
            /\ \E i \in command[p].todo : Advance(p, i, "edit") \/ Finish(p)
      BY <2>2 DEF AdvanceEdit, Running
    <3>2. QED
      BY <1>0, <3>1, Bookkeeping
  <2>3. QED
    BY <1>7, <2>1, <2>2
<1>8. CASE PlanClear(p)
  <2>1. Finish(p) \/ \E step, todo : Start(p, "clear", step, todo)
    BY <1>8 DEF PlanClear
  <2>2. command'[p] = NoCommand \/ command'[p].name = "clear"
    BY <1>0, <2>1, Bookkeeping
  <2>3. QED
    BY <1>0, <2>2, Bookkeeping
<1>9. CASE ClearClose(p)
  <2>1. PICK i \in command[p].todo, step \in {"archive", "close"} :
          \/ Finish(p)
          \/ command' = [command EXCEPT ![p] =
               [command[p] EXCEPT !.todo = @ \ {i}, !.step = step]]
    BY <1>9 DEF ClearClose
  <2>2. command'[p].name = command[p].name \/ command'[p] = NoCommand
    <3>1. CASE Finish(p)
      BY <1>0, <3>1, Bookkeeping
    <3>2. CASE command' = [command EXCEPT ![p] =
                 [command[p] EXCEPT !.todo = @ \ {i}, !.step = step]]
      BY <1>0, <3>2 DEF Command
    <3>3. QED
      BY <2>1, <3>1, <3>2
  <2>3. QED
    BY <1>0, <1>9, <2>2, Bookkeeping DEF ClearClose, Running
<1>10. CASE ClearArchive(p)
  <2>1. command[p].name = "clear" /\ GoTo(p, "rewrite")
    BY <1>10 DEF ClearArchive, Running
  <2>2. QED
    BY <1>0, <2>1, Bookkeeping
<1>11. CASE (\E source \in Issues : StartAdvance(p, source)) \/ StartClear(p)
  <2>1. \E name \in {"advance", "clear"} : \E todo, picked : StartReading(p, name, todo, picked)
    BY <1>11 DEF StartAdvance, StartClear
  <2>2. command'[p].name \in {"advance", "clear"}
    BY <1>0, <2>1, ReadingBookkeeping
  <2>3. QED
    BY <2>2
<1>12. CASE Running(p, {"advance", "clear"}, "read") /\ ReadTask(p)
  BY <1>0, <1>12, ReadingBookkeeping DEF Running
<1>13. QED
  BY <1>1, <1>2, <1>3, <1>4, <1>5, <1>6, <1>7, <1>8, <1>9, <1>10, <1>11, <1>12
     DEF ClaimStep, TransitionStep

LEMMA IntegrationShipsWhatIsDue ==
  ASSUME TypeOK, NEW p \in Operators, ShipsWhatIsDue(p), IntegrationStep(p)
  PROVE  ShipsWhatIsDue(p)'
<1>0. CommandTypeOK /\ TrackerTypeOK
  BY DEF TypeOK
<1>1. ASSUME NEW i \in Issues, PlanIntegration(p, i) PROVE ShipsWhatIsDue(p)'
  <2>1. /\ command'[p].name = "integrate" /\ command'[p].step = "edit"
        /\ command'[p].todo = {i} /\ pr'[i] = "green"
    BY <1>0, <1>1, Bookkeeping DEF PlanIntegration, MayIntegrate, evidence
  <2>2. QED
    BY <2>1 DEF ShipsWhatIsDue, Running
<1>2. ASSUME NEW i \in Issues, PlanNoopIntegration(p, i) PROVE ShipsWhatIsDue(p)'
  <2>1. /\ command'[p].name = "integrate noop" /\ command'[p].step = "edit"
        /\ command'[p].todo = {i}
    <3>1. Start(p, "integrate noop", "edit", {i})
      BY <1>2, Zenon DEF PlanNoopIntegration, MayIntegrateNoop
    <3>2. QED
      BY <1>0, <3>1 DEF Start, CommandTypeOK
  <2>2. noopGate[i] /\ noopGate' = noopGate
    BY <1>2 DEF PlanNoopIntegration, MayIntegrateNoop, evidence
  <2>3. noopGate'[i]
    BY <2>2, Zenon
  <2>4. QED
    BY <2>1, <2>3 DEF ShipsWhatIsDue, Running
<1>3. CASE IntegrationEdit(p)
  <2>1. PICK i \in Issues, outcome \in Outcomes("edit") :
          /\ command[p].todo = {i}
          /\ Edit(i, outcome, {"state:done"}, {"state:merged"})
          /\ IF outcome = "ok" THEN GoTo(p, "close") ELSE Finish(p)
    BY <1>3 DEF IntegrationEdit
  <2>2. CASE outcome = "ok"
    <3>1. "state:merged" \in labels'[i]
      BY <1>0, <2>1, <2>2 DEF Edit, TrackerTypeOK
    <3>2. command'[p].todo = {i} /\ command'[p].name = command[p].name
      BY <1>0, <2>1, <2>2, Bookkeeping
    <3>3. UNCHANGED <<pr, noopGate>> /\ command[p].name \in {"integrate", "integrate noop"}
      BY <1>3 DEF IntegrationEdit, Running, evidence
    <3>4. QED
      BY <3>1, <3>2, <3>3, <2>1 DEF ShipsWhatIsDue, Running
  <2>3. CASE outcome # "ok"
    BY <1>0, <2>1, <2>3, NothingDue, Bookkeeping
  <2>4. QED
    BY <2>2, <2>3
<1>4. CASE IntegrationClose(p)
  BY <1>0, <1>4, NothingDue, Bookkeeping DEF IntegrationClose
<1>5. QED
  BY <1>1, <1>2, <1>3, <1>4 DEF IntegrationStep

LEMMA RecoveryShipsWhatIsDue ==
  ASSUME TypeOK, NEW p \in Operators, ShipsWhatIsDue(p),
         \/ StartRecover(p) \/ (Running(p, {"recover"}, "read") /\ ReadTask(p))
         \/ PlanRecover(p) \/ RecoverReopen(p) \/ RecoverEdit(p) \/ RecoverClose(p)
  PROVE  ShipsWhatIsDue(p)'
<1>0. CommandTypeOK /\ TrackerTypeOK /\ command[p].todo \subseteq Issues
  BY DEF TypeOK, CommandTypeOK, Command
<1>1. CASE PlanRecover(p)
  <2>1. command[p].name = "recover" /\ pr' = pr
    BY <1>1 DEF PlanRecover, HasRead, Running, evidence
  <2>2. Finish(p)
        \/ \E todo \in SUBSET command[p].picked : Start(p, "recover", "reopen", todo)
    BY <1>1 DEF PlanRecover
  <2>3. \/ command'[p] = NoCommand
        \/ /\ command'[p].name = "recover" /\ command'[p].step = "reopen"
           /\ command'[p].todo \subseteq command[p].picked /\ command'[p].picked = {}
    BY <1>0, <2>2, Bookkeeping
  <2>4. QED
    BY <1>0, <2>1, <2>3, Bookkeeping DEF ShipsWhatIsDue, Running, Shipped
<1>2. CASE RecoverReopen(p) \/ RecoverClose(p)
  <2>1. /\ command[p].name = "recover" /\ command[p].step # "read"
        /\ pr' = pr
    BY <1>2 DEF RecoverReopen, RecoverClose, Running, evidence
  <2>2. \/ command'[p] = NoCommand
        \/ /\ command'[p].name = "recover" /\ command'[p].step # "close"
           /\ command'[p].todo \subseteq command[p].todo
           /\ command'[p].picked = command[p].picked
    <3>1. \/ GoTo(p, "edit") \/ Finish(p)
          \/ \E i \in command[p].todo : Advance(p, i, "reopen")
      BY <1>2 DEF RecoverReopen, RecoverClose
    <3>2. QED
      BY <1>0, <2>1, <3>1, Bookkeeping
  <2>3. QED
    BY <2>1, <2>2, Bookkeeping, <1>0 DEF ShipsWhatIsDue, Running, Shipped
<1>3. CASE RecoverEdit(p)
  <2>1. PICK i \in Issues, outcome \in Outcomes("edit") :
          /\ First(i, command[p].todo)
          /\ Edit(i, outcome, {}, {"state:merged"})
          /\ IF outcome = "ok" THEN GoTo(p, "close") ELSE Finish(p)
    BY <1>0, <1>3 DEF RecoverEdit
  <2>2. CASE outcome = "ok"
    <3>1. "state:merged" \in labels'[i]
      BY <1>0, <2>1, <2>2 DEF Edit, TrackerTypeOK
    <3>2. /\ command[p].name = "recover" /\ command[p].step # "read"
          /\ pr' = pr
      BY <1>3 DEF RecoverEdit, Running, evidence
    <3>3. /\ command'[p].todo = command[p].todo /\ command'[p].name = "recover"
          /\ command'[p].picked = command[p].picked
      <4>1. GoTo(p, "close")
        BY <2>1, <2>2
      <4>2. QED
        BY <1>0, <3>2, <4>1, Bookkeeping
    <3>4. \A j \in command[p].todo : First(j, command[p].todo) => j = i
      BY <1>0, <2>1, IssuesAssumption DEF First
    <3>5. QED
      BY <3>1, <3>2, <3>3, <3>4 DEF ShipsWhatIsDue, Running, Shipped, First
  <2>3. CASE outcome # "ok"
    BY <1>0, <2>1, <2>3, NothingDue, Bookkeeping
  <2>4. QED
    BY <2>2, <2>3
<1>4. CASE StartRecover(p)
  <2>1. \E todo : StartReading(p, "recover", todo, {i \in Issues : Shipped(i)})
    BY <1>4 DEF StartRecover
  <2>2. /\ command'[p].name = "recover" /\ command'[p].step = "read"
        /\ command'[p].picked = {i \in Issues : Shipped(i)}
    BY <1>0, <2>1, ReadingBookkeeping
  <2>3. "recover" \in Used /\ pr' = pr
    BY <2>1 DEF StartReading, MayStart, evidence
  <2>4. QED
    BY <2>2, <2>3 DEF ShipsWhatIsDue, Running, Shipped
<1>5. CASE Running(p, {"recover"}, "read") /\ ReadTask(p)
  <2>1. command[p].name = "recover" /\ pr' = pr
    BY <1>5 DEF ReadTask, Running, evidence
  <2>2. /\ command'[p].name = "recover" /\ command'[p].step = "read"
        /\ command'[p].picked = command[p].picked
    BY <1>0, <1>5, <2>1, ReadingBookkeeping
  <2>3. QED
    BY <2>1, <2>2 DEF ShipsWhatIsDue, Running, Shipped
<1>6. QED
  BY <1>1, <1>2, <1>3, <1>4, <1>5

\* Closing as completed: only what is labelled state:merged, now and later.
LEMMA CompletedMeansMergedKept ==
  ASSUME ShippingInv, NEW p \in Operators, CommandStep(p)
  PROVE  CompletedMeansMerged'
<1>0. /\ TypeOK /\ TrackerTypeOK /\ command[p].todo \subseteq Issues
      /\ CompletedMeansMerged /\ ShipsWhatIsDue(p)
  BY DEF ShippingInv, TypeOK, CommandTypeOK, Command
<1>1. \A i \in Issues : "state:merged" \in labels[i] => "state:merged" \in labels'[i]
  BY <1>0, LabelsKept
<1>2. CASE \A i \in Issues : issueState'[i] = "completed" => issueState[i] = "completed"
  BY <1>0, <1>1, <1>2 DEF CompletedMeansMerged
<1>3. CASE IntegrationClose(p) \/ RecoverClose(p)
  <2>1. PICK i \in Issues, outcome \in Outcomes("close") :
          Close(i, outcome, "completed") /\ i \in command[p].todo
            /\ First(i, command[p].todo)
    <3>1. CASE IntegrationClose(p)
      <4>1. PICK i \in Issues, outcome \in Outcomes("close") :
              Close(i, outcome, "completed") /\ command[p].todo = {i}
        BY <3>1 DEF IntegrationClose
      <4>2. First(i, {i})
        BY IssuesAssumption DEF First
      <4>3. QED
        BY <4>1, <4>2
    <3>2. CASE RecoverClose(p)
      BY <1>0, <3>2 DEF RecoverClose
    <3>3. QED
      BY <1>3, <3>1, <3>2
  <2>2. Running(p, {"integrate", "integrate noop", "recover"}, "close")
    BY <1>3 DEF IntegrationClose, RecoverClose, Running
  <2>3. "state:merged" \in labels[i]
    BY <1>0, <2>1, <2>2 DEF ShipsWhatIsDue
  <2>4. \A j \in Issues : issueState'[j] = "completed" => issueState[j] = "completed" \/ j = i
    BY <1>0, <2>1 DEF Close, TrackerTypeOK
  <2>5. QED
    BY <1>0, <1>1, <2>3, <2>4 DEF CompletedMeansMerged
<1>4. CASE ClearClose(p)
  <2>1. PICK i \in Issues, outcome \in Outcomes("close") : Close(i, outcome, "not planned")
    BY <1>0, <1>4 DEF ClearClose
  <2>2. QED
    BY <1>0, <1>2, <2>1 DEF Close, TrackerTypeOK
<1>5. CASE RecoverReopen(p)
  <2>1. PICK i \in Issues, outcome \in Outcomes("reopen") : Reopen(i, outcome)
    BY <1>0, <1>5 DEF RecoverReopen
  <2>2. QED
    BY <1>0, <1>2, <2>1 DEF Reopen, TrackerTypeOK
<1>6. \/ IntegrationClose(p) \/ RecoverClose(p) \/ ClearClose(p) \/ RecoverReopen(p)
      \/ UNCHANGED issueState
  BY DEF CommandStep, ClaimStep, ClaimList, ClaimCheck, ClaimSelect, RunIssue, ClaimEdit,
         TransitionStep, PlanTransition, EvaluateGateForComplete, TransitionEdit,
         IntegrationStep, PlanIntegration, MayIntegrate, PlanNoopIntegration, MayIntegrateNoop, IntegrationEdit,
         Stop, RoadmapStep, StartAdvance, StartClear, StartRecover,
         StartReading, ReadTask, PlanAdvance, AdvanceEdit, PlanClear,
         ClearArchive, ClearRewrite, PlanRecover, RecoverEdit, Edit, tracker
<1>7. QED
  BY <1>2, <1>3, <1>4, <1>5, <1>6

\* Labelling state:merged: only what is due.
LEMMA MergedMeansShippedKept ==
  ASSUME ShippingInv, NEW p \in Operators, CommandStep(p)
  PROVE  MergedMeansShipped'
<1>0. /\ TypeOK /\ TrackerTypeOK /\ command[p].todo \subseteq Issues
      /\ command[p].gates \subseteq GateLabels
      /\ MergedMeansShipped /\ ShipsWhatIsDue(p)
  BY DEF ShippingInv, TypeOK, CommandTypeOK, Command
<1>1. pr' = pr /\ noopGate' = noopGate
  BY <1>0, OthersKept DEF evidence
<1> DEFINE Due(i) == pr[i] = "green" \/ noopGate[i] \/ (Shipped(i) /\ "recover" \in Used)
<1>2. SUFFICES \A i \in Issues :
        "state:merged" \in labels'[i] => "state:merged" \in labels[i] \/ Due(i)
  BY <1>0, <1>1 DEF MergedMeansShipped, Shipped
<1>3. CASE IntegrationEdit(p)
  <2>1. PICK i \in Issues, outcome \in Outcomes("edit") :
          command[p].todo = {i} /\ Edit(i, outcome, {"state:done"}, {"state:merged"})
    BY <1>3 DEF IntegrationEdit
  <2>2. Due(i)
    BY <1>0, <1>3, <2>1 DEF ShipsWhatIsDue, IntegrationEdit, Running
  <2>3. \A j \in Issues : j # i => labels'[j] = labels[j]
    BY <1>0, <2>1 DEF Edit, TrackerTypeOK
  <2>4. QED
    BY <2>2, <2>3
<1>4. CASE RecoverEdit(p)
  <2>1. PICK i \in command[p].todo, outcome \in Outcomes("edit") :
          Edit(i, outcome, {}, {"state:merged"})
    BY <1>4 DEF RecoverEdit
  <2>2. Due(i)
    BY <1>0, <1>4, <2>1 DEF ShipsWhatIsDue, RecoverEdit, Running
  <2>3. \A j \in Issues : j # i => labels'[j] = labels[j]
    BY <1>0, <2>1 DEF Edit, TrackerTypeOK
  <2>4. QED
    BY <2>2, <2>3
<1>5. CASE ClaimEdit(p) \/ TransitionEdit(p) \/ AdvanceEdit(p)
  <2>1. PICK i \in Issues, outcome \in Outcomes("edit") :
          \E remove, add : Edit(i, outcome, remove, add) /\ "state:merged" \notin add
    <3>1. CASE ClaimEdit(p)
      <4>1. \A i : "state:merged" \notin {"state:active"} \cup ProposedGate(i)
        BY DEF ProposedGate
      <4>2. QED
        BY <1>0, <3>1, <4>1 DEF ClaimEdit
    <3>2. CASE TransitionEdit(p)
      <4>1. "state:merged" \notin {NewState(command[p].name)}
        BY <3>2 DEF TransitionEdit, Running, TransitionNames, NewState
      <4>2. QED
        BY <3>2, <4>1 DEF TransitionEdit
    <3>3. CASE AdvanceEdit(p)
      BY <1>0, <3>3 DEF AdvanceEdit
    <3>4. QED
      BY <1>5, <3>1, <3>2, <3>3
  <2>2. QED
    BY <1>0, <2>1 DEF Edit, TrackerTypeOK
<1>6. UNCHANGED labels \/ ClaimEdit(p) \/ TransitionEdit(p) \/ IntegrationEdit(p)
        \/ AdvanceEdit(p) \/ RecoverEdit(p)
  BY DEF CommandStep, ClaimStep, ClaimList, ClaimCheck, ClaimSelect, RunIssue,
         TransitionStep, PlanTransition, EvaluateGateForComplete,
         IntegrationStep, PlanIntegration, MayIntegrate, PlanNoopIntegration, MayIntegrateNoop, IntegrationClose,
         Stop, RoadmapStep, StartAdvance, StartClear, StartRecover, StartReading,
         ReadTask, PlanAdvance, PlanClear, ClearClose, ClearArchive,
         ClearRewrite, PlanRecover, RecoverReopen, RecoverClose,
         Close, Reopen, tracker
<1>7. QED
  BY <1>3, <1>4, <1>5, <1>6

LEMMA ShippingInvKept ==
  ASSUME ShippingInv, TypeOK', [Next]_vars
  PROVE  ShippingInv'
<1>0. TypeOK /\ CompletedMeansMerged /\ MergedMeansShipped
      /\ \A p \in Operators : ShipsWhatIsDue(p)
  BY DEF ShippingInv
<1>1. ASSUME NEW p \in Operators, CommandStep(p) PROVE ShippingInv'
  <2>1. ShipsWhatIsDue(p)'
    <3>1. CASE ClaimStep(p) \/ TransitionStep(p) \/ Stop(p)
      BY <1>0, <3>1, OtherCommandsShipNothing
    <3>2. CASE IntegrationStep(p)
      BY <1>0, <3>2, IntegrationShipsWhatIsDue
    <3>3. CASE RoadmapStep(p)
      <4>1. ReadTask(p) => \/ Running(p, {"advance", "clear"}, "read")
                           \/ Running(p, {"recover"}, "read")
        BY DEF ReadTask, Running
      <4>2. QED
        BY <1>0, <3>3, <4>1, OtherCommandsShipNothing, RecoveryShipsWhatIsDue
           DEF RoadmapStep
    <3>4. QED
      BY <1>1, <3>1, <3>2, <3>3 DEF CommandStep
  <2>2. ASSUME NEW q \in Operators \ {p} PROVE ShipsWhatIsDue(q)'
    <3>1. command'[q] = command[q]
      BY <1>0, <1>1, OthersKept
    <3>2. \A i \in Issues : "state:merged" \in labels[i] => "state:merged" \in labels'[i]
      BY <1>0, <1>1, LabelsKept
    <3>3. QED
      BY <1>0, <1>1, <3>1, <3>2, DueWhileOthersStep DEF Next
  <2>3. QED
    BY <1>1, <2>1, <2>2, CompletedMeansMergedKept, MergedMeansShippedKept DEF ShippingInv
<1>2. CASE EvidenceStep \/ UNCHANGED vars
  <2>1. UNCHANGED <<labels, issueState, command>>
    BY <1>2 DEF EvidenceStep, PullRequestAdvances, SummaryPasses, NoopGatePasses,
                tracker, vars
  <2>2. \A i \in Issues : /\ pr[i] = "green" => pr'[i] = "green"
                          /\ Shipped(i) => Shipped(i)'
                          /\ noopGate[i] => noopGate'[i]
    BY <1>0, <1>2, EvidenceKept DEF Next
  <2>3. CompletedMeansMerged'
    BY <1>0, <2>1 DEF CompletedMeansMerged
  <2>4. MergedMeansShipped'
    BY <1>0, <2>1, <2>2 DEF MergedMeansShipped
  <2>5. ASSUME NEW q \in Operators PROVE ShipsWhatIsDue(q)'
    BY <1>0, <1>2, <2>1, DueWhileOthersStep DEF Next
  <2>6. QED
    BY <2>3, <2>4, <2>5 DEF ShippingInv
<1>3. QED
  BY <1>1, <1>2 DEF Next

LEMMA ShippingInvHolds == Spec => []ShippingInv
<1>1. Init /\ TypeOK => ShippingInv
  <2> SUFFICES ASSUME Init, TypeOK PROVE ShippingInv
    OBVIOUS
  <2>1. ASSUME NEW i \in Issues
        PROVE  "state:merged" \notin labels[i] /\ issueState[i] = "open"
    <3>1. labels[i] \in {{}, {"state:ready"}}
      BY DEF Init
    <3>2. issueState[i] = "open"
      BY DEF Init
    <3>3. QED
      BY <3>1, <3>2
  <2>2. \A p \in Operators : command[p].name = "none"
    BY DEF Init, NoCommand
  <2>3. QED
    BY <2>1, <2>2 DEF ShippingInv, CompletedMeansMerged, MergedMeansShipped,
                      ShipsWhatIsDue, Running
<1>2. ShippingInv /\ TypeOK' /\ [Next]_vars => ShippingInv'
  BY ShippingInvKept
<1>3. QED
  BY <1>1, <1>2, TypeCorrect, PTL DEF Spec

\* Whatever the operators run side by side and whatever fails: an issue is closed as
\* completed only with state:merged on it, and the label is not taken off again by a
\* command that planned with older labels.
THEOREM OnlyMergedWorkIsCompleted == Spec => []CompletedMeansMerged
<1>1. ShippingInv => CompletedMeansMerged
  BY DEF ShippingInv
<1>2. QED
  BY <1>1, ShippingInvHolds, PTL

\* Whatever the operators run side by side and whatever fails: an issue gets state:merged
\* only when its pull request was merged with a green merge commit, or its no-op was
\* validated, or a clear recovery found its pull request merged.
THEOREM OnlyShippedWorkIsMerged == Spec => []MergedMeansShipped
<1>1. ShippingInv => MergedMeansShipped
  BY DEF ShippingInv
<1>2. QED
  BY <1>1, ShippingInvHolds, PTL
=============================================================================
