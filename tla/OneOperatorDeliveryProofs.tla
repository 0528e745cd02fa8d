---------------------- MODULE OneOperatorDeliveryProofs ----------------------
(***************************************************************************)
(* What one operator and his loop can rely on when work is executed, for   *)
(* any number of issues and every failure.  His command finds the labels   *)
(* as it has left them (OneOperatorProofs), he does one thing at a time,   *)
(* and so nobody replaces the summary of an issue between the gate that    *)
(* looks at it and the edit that completes the issue.                      *)
(***************************************************************************)
EXTENDS DeliveryProofs, OneOperatorProofs

-----------------------------------------------------------------------------
(* The steps of Delivery.                                                  *)

\* A step of a job, which its loop may have started.
JobActs(p) ==
  /\ \/ WorkspaceStep(p) /\ UNCHANGED execution
     \/ ExecutionStep(p)
     \/ ReviewStep(p)
     \/ StopJob(p)
  /\ \/ UNCHANGED loop /\ (job[p] = NoJob => LoopAt(p, "off"))
     \/ LoopAt(p, "command") /\ loop' = [loop EXCEPT ![p].step = "running"]

\* A loop starts a claim or an integration.
LoopCommands(p) ==
  /\ LoopAt(p, "command") /\ loop' = [loop EXCEPT ![p].step = "running"]
  /\ \E i \in Issues : RunIssue(p, i) \/ PlanIntegration(p, i)
  /\ UNCHANGED <<manifest, jobs, execution>>

LEMMA StepsOfDelivery ==
  ASSUME LoopTypeOK, DeliveryNext
  PROVE  \/ Surroundings
         \/ \E p \in Operators : \/ DeliveryCommand(p) \/ JobActs(p) \/ LoopCommands(p)
                                 \/ LoopStep(p) /\ NothingDone
<1>1. CASE \E p \in Operators : JobStep(p)
  BY <1>1 DEF JobStep, JobActs
<1>2. ASSUME NEW p \in Operators, LoopStep(p)
      PROVE  JobActs(p) \/ LoopCommands(p) \/ (LoopStep(p) /\ NothingDone)
  <2>1. CASE RunCommand(p) /\ ~NothingDone
    <3>1. loop[p].of \subseteq Issues
      BY DEF LoopTypeOK, Loop
    <3>2. PICK i \in Issues : Takes(p, loop[p].action, i)
      BY <2>1, <3>1 DEF RunCommand
    <3>3. LoopAt(p, "command") /\ loop' = [loop EXCEPT ![p].step = "running"]
      BY <2>1 DEF RunCommand
    <3>4. \/ WorkspaceStep(p) /\ UNCHANGED execution
          \/ ExecutionStep(p) \/ ReviewStep(p)
          \/ RunIssue(p, i) \/ PlanIntegration(p, i)
      BY <3>2 DEF Takes, WorkspaceStep, ExecutionStep, ReviewStep, MergeStep
    <3>5. RunIssue(p, i) \/ PlanIntegration(p, i) =>
            \/ JobActs(p) \/ UNCHANGED <<manifest, jobs, execution>>
      BY <3>2, <3>3 DEF Takes, WorkspaceStep, ExecutionStep, ReviewStep, MergeStep, JobActs
    <3>6. QED
      BY <3>3, <3>4, <3>5 DEF JobActs, LoopCommands
  <2>2. CASE ~RunCommand(p)
    BY <1>2, <2>2 DEF LoopStep, StartLoop, StartRunNext, SelectIssue, PlanCycle, RunReadOnly,
                      EndCycle, InterruptLoop
  <2>3. QED
    BY <1>2, <2>1, <2>2
<1>3. QED
  BY <1>1, <1>2 DEF DeliveryNext

\* A step of a job leaves the labels and the commands alone.
LEMMA JobsLeaveLabels ==
  ASSUME NEW p \in Operators, JobActs(p)
  PROVE  UNCHANGED <<labels, command>>
<1>1. CASE WorkspaceStep(p)
  BY <1>1 DEF WorkspaceStep, PlanWorktree, PlanCleanup, AddWorktree, RemoveWorktree,
              DeleteBranch, IssueWorkflowUnchanged
<1>2. CASE ExecutionStep(p)
  BY <1>2 DEF ExecutionStep, WritePrompt, PlanExecute, RunAgent, WriteRaw, WriteSummary,
              LoadAttempts, RecordAttempt, LoadBugs, RecordBug, IssueWorkflowUnchanged,
              FilesChange
<1>3. CASE ReviewStep(p)
  BY <1>3 DEF ReviewStep, ApprovalStep, MergeStep, PlanReview, WriteReviewPrompt, RunReviewer,
              WriteReviewSummary, PlanApproval, Approve, PlanMerge, ReadChecks,
              ReadReviewGate, Merge, IssueWorkflowUnchanged
<1>4. CASE StopJob(p)
  BY <1>4 DEF StopJob, IssueWorkflowUnchanged
<1>5. QED
  BY <1>1, <1>2, <1>3, <1>4 DEF JobActs

LEMMA SurroundingsLeaveLabels ==
  ASSUME Surroundings
  PROVE  UNCHANGED <<labels, command, job, loop, ledger>>
BY DEF Surroundings, InRepository, CheckoutChanges, Sync, Commit, Push, OnFiles,
       WriteManualSummary, PutRawAside, OnPullRequest, OpenPullRequest, ChecksPass,
       MainPasses, ByHand, WriteManualReview, ApproveByHand, MergeByHand, NoopIsValidated,
       NoopGatePasses, tracker, jobs, execution, FilesChange, IssueWorkflowUnchanged

\* What a job that is under way, or is taken, makes of its record.
LEMMA JobsOfExecutions ==
  ASSUME JobTypeOK, NEW p \in Operators, JobActs(p)
  PROVE  /\ OthersKeepJobs(p)
         /\ \/ Elsewhere(p) /\ UNCHANGED <<raw, artifact, ledger>>
            \/ \E i \in Issues : PlanExecute(p, i)
            \/ RunAgent(p) \/ WriteRaw(p) \/ WriteSummary(p)
            \/ LoadAttempts(p) \/ RecordAttempt(p) \/ LoadBugs(p) \/ RecordBug(p)
<1>1. CASE ExecutionStep(p)
  <2>1. ASSUME \E i \in Issues : WritePrompt(p, i)
        PROVE  UNCHANGED <<job, raw, artifact, ledger>>
    BY <2>1 DEF WritePrompt, Done
  <2>2. ASSUME NEW i \in Issues, PlanExecute(p, i) PROVE OthersKeepJobs(p)
    <3>1. Take(p, "execute", "agent", i)
      BY <2>2 DEF PlanExecute
    <3>2. QED
      BY <3>1, JobBookkeeping DEF OthersKeepJobs
  <2>3. CASE RunAgent(p) \/ WriteRaw(p) \/ WriteSummary(p) \/ LoadAttempts(p)
               \/ RecordAttempt(p) \/ LoadBugs(p) \/ RecordBug(p)
    <3>1. \/ (\E step, found : Finding(p, step, found)) \/ (\E step : Proceed(p, step))
          \/ (\E step, file : Reading(p, step, file)) \/ (\E how : EndJob(p, how))
      BY <2>3 DEF RunAgent, WriteRaw, WriteSummary, LoadAttempts, RecordAttempt, LoadBugs,
                  RecordBug
    <3>2. OthersKeepJobs(p)
      BY <3>1, JobBookkeeping DEF OthersKeepJobs
    <3>3. QED
      BY <2>3, <3>2
  <2>4. OthersKeepJobs(p)
    BY <1>1, <2>1, <2>2, <2>3 DEF ExecutionStep, OthersKeepJobs
  <2>5. QED
    BY <1>1, <2>1, <2>4 DEF ExecutionStep, Elsewhere
<1>2. CASE ReviewStep(p)
  <2>1. UNCHANGED <<raw, artifact>>
    BY <1>2 DEF ReviewStep, ApprovalStep, MergeStep, PlanReview, WriteReviewPrompt,
                RunReviewer, WriteReviewSummary, PlanApproval, Approve, PlanMerge,
                ReadChecks, ReadReviewGate, Merge, execution
  <2>2. QED
    BY <1>2, <2>1, ReviewIsElsewhere DEF LedgersUntouched
<1>3. CASE (WorkspaceStep(p) /\ UNCHANGED execution) \/ StopJob(p)
  <2>1. UNCHANGED execution
    BY <1>3 DEF StopJob
  <2>2. QED
    BY <1>3, <2>1, WorkspaceIsElsewhere DEF LedgersUntouched, execution
<1>4. QED
  BY <1>1, <1>2, <1>3 DEF JobActs

-----------------------------------------------------------------------------
(* One thing at a time.                                                    *)

\* A job is taken by whoever runs no command.
LEMMA JobsAreTakenByTheIdle ==
  ASSUME NEW p \in Operators, JobActs(p), job[p] = NoJob
  PROVE  job' = job \/ command[p] = NoCommand
<1>1. NoJob.name = "none"
  BY DEF NoJob
<1>2. CASE WorkspaceStep(p)
  BY <1>1, <1>2 DEF WorkspaceStep, PlanWorktree, PlanCleanup, AddWorktree, RemoveWorktree,
                    DeleteBranch, MayTake, At
<1>3. CASE ExecutionStep(p)
  BY <1>1, <1>3 DEF ExecutionStep, WritePrompt, PlanExecute, RunAgent, WriteRaw, WriteSummary,
                    LoadAttempts, RecordAttempt, LoadBugs, RecordBug, MayTake, At, Delegating
<1>4. CASE ReviewStep(p)
  BY <1>1, <1>4 DEF ReviewStep, ApprovalStep, MergeStep, PlanReview, WriteReviewPrompt,
                    RunReviewer, WriteReviewSummary, PlanApproval, Approve, PlanMerge,
                    ReadChecks, ReadReviewGate, Merge, MayTake, At
<1>5. ~StopJob(p)
  BY DEF StopJob
<1>6. QED
  BY <1>2, <1>3, <1>4, <1>5 DEF JobActs

\* Who takes a step does not move the others.
LEMMA OthersKeepTheirs ==
  ASSUME TypeOK, JobTypeOK, LoopTypeOK, NEW p \in Operators, NEW q \in Operators \ {p},
         DeliveryCommand(p) \/ JobActs(p) \/ LoopCommands(p) \/ (LoopStep(p) /\ NothingDone)
  PROVE  job'[q] = job[q] /\ command'[q] = command[q] /\ loop'[q] = loop[q]
<1>0. loop \in [Operators -> Loop] /\ command \in [Operators -> Command]
  BY DEF LoopTypeOK, TypeOK, CommandTypeOK
<1>1. CASE DeliveryCommand(p)
  <2>1. UNCHANGED <<job, loop>>
    BY <1>1 DEF DeliveryCommand, jobs
  <2>2. CASE CommandStep(p)
    BY <2>1, <2>2, OthersKept
  <2>3. CASE GateOnFiles(p) \/ Stop(p)
    <3>1. GoTo(p, "edit") \/ Finish(p)
      BY <2>3 DEF GateOnFiles, Stop
    <3>2. QED
      BY <1>0, <2>1, <3>1 DEF GoTo, Finish
  <2>4. QED
    BY <1>1, <2>2, <2>3 DEF DeliveryCommand
<1>2. CASE JobActs(p)
  <2>1. loop'[q] = loop[q]
    BY <1>0, <1>2 DEF JobActs
  <2>2. QED
    BY <1>2, <2>1, JobsOfExecutions, JobsLeaveLabels DEF OthersKeepJobs
<1>3. CASE LoopCommands(p)
  <2>1. CommandStep(p)
    BY <1>3 DEF LoopCommands, CommandStep, ClaimStep, IntegrationStep
  <2>2. QED
    BY <1>0, <1>3, <2>1, OthersKept DEF LoopCommands, jobs
<1>4. CASE LoopStep(p) /\ NothingDone
  <2>1. UNCHANGED <<job, command>>
    BY <1>4 DEF NothingDone, IssueWorkflowUnchanged, jobs
  <2>2. NothingDone /\ RunCommand(p) => loop'[q] = loop[q]
    BY <1>0 DEF RunCommand, StopLoop
  <2>3. loop'[q] = loop[q]
    BY <1>0, <1>4, <2>2 DEF LoopStep, StartLoop, StartRunNext, SelectIssue, PlanCycle,
       RunReadOnly, EndCycle, InterruptLoop, StopLoop, NextCycle
  <2>4. QED
    BY <2>1, <2>3
<1>5. QED
  BY <1>1, <1>2, <1>3, <1>4

LEMMA OneThingKept ==
  ASSUME TypeOK, JobTypeOK, LoopTypeOK, DeliveryNext, NEW p \in Operators, OneThingAtATime(p)
  PROVE  OneThingAtATime(p)'
<1>0. loop \in [Operators -> Loop]
  BY DEF LoopTypeOK
<1>1. CASE job'[p] = job[p] /\ command'[p] = command[p] /\ loop'[p] = loop[p]
  BY <1>1 DEF OneThingAtATime, Idle, LoopAt
<1>2. CASE DeliveryCommand(p)
  <2>1. job[p] = NoJob /\ UNCHANGED <<job, loop>> /\ (LoopAt(p, "off") \/ ~Idle(p))
    BY <1>2 DEF DeliveryCommand, jobs, Idle
  <2>2. QED
    BY <2>1 DEF OneThingAtATime, Idle, LoopAt
<1>3. CASE JobActs(p)
  <2>1. UNCHANGED command /\ (job[p] = NoJob => job' = job \/ command[p] = NoCommand)
    BY <1>3, JobsLeaveLabels, JobsAreTakenByTheIdle
  <2>2. job'[p] = NoJob \/ command'[p] = NoCommand
    BY <2>1 DEF OneThingAtATime
  <2>3. CASE UNCHANGED loop /\ (job[p] = NoJob => LoopAt(p, "off"))
    BY <2>2, <2>3 DEF OneThingAtATime, Idle, LoopAt
  <2>4. CASE loop' = [loop EXCEPT ![p].step = "running"]
    BY <1>0, <2>2, <2>4 DEF OneThingAtATime, LoopAt, Loop
  <2>5. QED
    BY <1>3, <2>3, <2>4 DEF JobActs
<1>4. CASE LoopCommands(p)
  <2>1. Idle(p) /\ UNCHANGED job /\ loop' = [loop EXCEPT ![p].step = "running"]
    BY <1>4 DEF LoopCommands, OneThingAtATime, LoopAt, jobs
  <2>2. QED
    BY <1>0, <2>1 DEF OneThingAtATime, LoopAt, Loop, Idle
<1>5. CASE LoopStep(p) /\ NothingDone
  <2>1. Idle(p)
    BY <1>5 DEF LoopStep, StartLoop, StartRunNext, SelectIssue, PlanCycle, RunReadOnly,
                RunCommand, EndCycle, InterruptLoop, OneThingAtATime, LoopAt
  <2>2. UNCHANGED <<job, command>>
    BY <1>5 DEF NothingDone, IssueWorkflowUnchanged, jobs
  <2>3. QED
    BY <2>1, <2>2 DEF OneThingAtATime, Idle
<1>6. CASE Surroundings
  BY <1>1, <1>6, SurroundingsLeaveLabels
<1>7. QED
  BY <1>1, <1>2, <1>3, <1>4, <1>5, <1>6, StepsOfDelivery, OthersKeepTheirs

LEMMA OneThingHolds ==
  ASSUME Delivers
  PROVE  DeliverySpec => [](\A p \in Operators : OneThingAtATime(p))
<1> DEFINE OneThing == \A p \in Operators : OneThingAtATime(p)
<1>1. DeliveryInit => OneThing
  BY DEF DeliveryInit, Init, JobInit, LoopInit, NoLoop, OneThingAtATime, LoopAt
<1>2. DeliveryInv /\ OneThing /\ [DeliveryNext]_deliveryVars => OneThing'
  <2>1. DeliveryInv => TypeOK /\ JobTypeOK /\ LoopTypeOK
    BY DEF DeliveryInv, DeliveryTypeOK
  <2>2. UNCHANGED deliveryVars /\ OneThing => OneThing'
    BY DEF deliveryVars, jobs, vars, OneThingAtATime, Idle, LoopAt
  <2>3. QED
    BY <2>1, <2>2, OneThingKept
<1>3. QED
  BY <1>1, <1>2, DeliveryInvHolds, PTL DEF DeliverySpec
-----------------------------------------------------------------------------
(* What is done passes its gate.                                           *)

\* Only complete labels an issue done, and only after its gate.
LEMMA DoneIsCompleted ==
  ASSUME TypeOK, NEW p \in Operators, CommandStep(p), NEW i \in Issues,
         "state:done" \in labels'[i], "state:done" \notin labels[i]
  PROVE  Running(p, {"complete"}, "edit") /\ command[p].todo = {i}
<1>0. TrackerTypeOK /\ command[p].todo \subseteq Issues
  BY DEF TypeOK, CommandTypeOK, Command
<1>1. CASE TransitionEdit(p)
  <2>1. PICK j \in Issues, outcome \in Outcomes("edit") :
          /\ command[p].todo = {j}
          /\ Edit(j, outcome, {"state:active"} \cup command[p].gates,
                  {NewState(command[p].name)})
    BY <1>1 DEF TransitionEdit
  <2>2. i = j /\ NewState(command[p].name) = "state:done"
    BY <1>0, <2>1 DEF Edit, TrackerTypeOK
  <2>3. command[p].name \in TransitionNames /\ command[p].step = "edit"
    BY <1>1 DEF TransitionEdit, Running
  <2>4. QED
    BY <2>1, <2>2, <2>3, NewStates DEF Running
<1>2. ASSUME NEW j \in Issues, NEW outcome, NEW remove, NEW add,
             Edit(j, outcome, remove, add)
      PROVE  "state:done" \in add
  BY <1>0, <1>2 DEF Edit, TrackerTypeOK
<1>a. CASE ClaimEdit(p)
  <2>1. \A j : "state:done" \notin {"state:active"} \cup ProposedGate(j)
    BY DEF ProposedGate
  <2>2. PICK j \in Issues, outcome \in Outcomes("edit") :
          Edit(j, outcome, {"state:ready"}, {"state:active"} \cup ProposedGate(j))
    BY <1>0, <1>a DEF ClaimEdit
  <2>3. QED
    BY <1>2, <2>1, <2>2
<1>b. CASE IntegrationEdit(p)
  BY <1>2, <1>b DEF IntegrationEdit
<1>c. CASE AdvanceEdit(p) \/ RecoverEdit(p)
  BY <1>0, <1>2, <1>c DEF AdvanceEdit, RecoverEdit
<1>3. UNCHANGED labels \/ ClaimEdit(p) \/ TransitionEdit(p) \/ IntegrationEdit(p)
        \/ AdvanceEdit(p) \/ RecoverEdit(p)
  BY DEF CommandStep, ClaimStep, ClaimList, ClaimCheck, ClaimSelect, RunIssue,
         TransitionStep, PlanTransition, EvaluateGateForComplete,
         IntegrationStep, PlanIntegration, MayIntegrate, PlanNoopIntegration,
         MayIntegrateNoop, IntegrationClose,
         Stop, RoadmapStep, StartAdvance, StartClear, StartRecover, StartReading,
         ReadTask, PlanAdvance, PlanClear, ClearClose, ClearArchive,
         ClearRewrite, PlanRecover, RecoverReopen, RecoverClose,
         Close, Reopen, tracker
<1>4. QED
  BY <1>1, <1>a, <1>b, <1>c, <1>3

\* Only the gate lets a completion go on.
LEMMA GateLetsGoOn ==
  ASSUME TypeOK, NEW p \in Operators, CommandStep(p), (Running(p, {"complete"}, "edit"))'
  PROVE  Running(p, {"complete"}, "gate")
<1>0. CommandTypeOK /\ command \in [Operators -> Command] /\ NoCommand.name = "none"
  BY DEF TypeOK, CommandTypeOK, NoCommand
<1>1. command'[p].name = "complete" /\ command'[p].step = "edit" /\ command'[p] # NoCommand
  BY <1>0 DEF Running
<1>2. CASE ClaimStep(p)
  <2>1. CASE ClaimList(p) \/ ClaimSelect(p) \/ \E i \in Issues : RunIssue(p, i)
    <3>1. \/ Finish(p)
          \/ \E name \in {"claim", "run"} : \E step, todo : Start(p, name, step, todo)
      BY <2>1 DEF ClaimList, ClaimSelect, RunIssue
    <3>2. QED
      BY <1>0, <1>1, <3>1, Bookkeeping
  <2>2. CASE ClaimCheck(p)
    <3>1. command[p].name = "claim"
      BY <2>2 DEF ClaimCheck, Running
    <3>2. Finish(p) \/ command'[p].name = command[p].name
      BY <1>0, <2>2 DEF ClaimCheck, Command
    <3>3. QED
      BY <1>0, <1>1, <3>1, <3>2, Bookkeeping
  <2>3. CASE ClaimEdit(p)
    <3>1. command[p].name \in {"claim", "run"}
      BY <2>3 DEF ClaimEdit, Running
    <3>2. Finish(p) \/ \E i : Advance(p, i, "edit")
      BY <2>3 DEF ClaimEdit
    <3>3. QED
      BY <1>0, <1>1, <3>1, <3>2, Bookkeeping
  <2>4. QED
    BY <1>2, <2>1, <2>2, <2>3 DEF ClaimStep
<1>3. CASE TransitionStep(p)
  <2>1. ASSUME NEW name \in TransitionNames, NEW i \in Issues, PlanTransition(p, name, i)
        PROVE  FALSE
    <3>1. /\ command'[p].name = name
          /\ command'[p].step = IF name = "complete" THEN "gate" ELSE "edit"
      BY <1>0, <2>1 DEF PlanTransition
    <3>2. QED
      BY <1>1, <3>1
  <2>2. TransitionEdit(p) => Finish(p)
    BY DEF TransitionEdit
  <2>3. ~TransitionEdit(p)
    BY <1>0, <1>1, <2>2, Bookkeeping
  <2>4. QED
    BY <1>3, <2>1, <2>3 DEF TransitionStep, EvaluateGateForComplete
<1>4. CASE IntegrationStep(p) \/ RoadmapStep(p) \/ Stop(p)
  BY <1>1, <1>4, OtherCommandsGoOn DEF OtherNames
<1>5. QED
  BY <1>2, <1>3, <1>4 DEF CommandStep

\* What people write about an issue, or put aside, turns no gate against it.
LEMMA PeopleKeepItPassing ==
  ASSUME ExecutionTypeOK, NEW i \in Issues, NEW j \in Issues, OnFiles(j), ArtifactPasses(i)
  PROVE  (ArtifactPasses(i))'
<1>0. /\ raw \in [Issues -> {"none", "safe", "unsafe"}]
      /\ artifact \in [Issues -> Results \cup {"none", "manual"}]
  BY DEF ExecutionTypeOK
<1>1. CASE i # j
  <2>1. raw'[i] = raw[i] /\ artifact'[i] = artifact[i]
    BY <1>0, <1>1 DEF OnFiles, WriteManualSummary, PutRawAside
  <2>2. QED
    BY <2>1, GateLooksAtFiles
<1>2. CASE i = j /\ PutRawAside(j)
  <2>1. raw[i] = "unsafe" /\ raw'[i] = "none" /\ artifact'[i] = artifact[i]
    BY <1>0, <1>2 DEF PutRawAside
  <2>2. /\ Output(i) = {"failover"} /\ Output(i)' = {}
        /\ Summary(i)' = Summary(i)
    BY <2>1 DEF Output, Summary, TextOf
  <2>3. ~WorkerArtifactValid(i)
    BY <2>2 DEF WorkerArtifactValid, Failover
  <2>4. \A sign : sign # "failover" => (sign \in Artifact(i)' <=> sign \in Artifact(i))
    BY <2>2 DEF Artifact
  <2>5. ReviewGatePhrases(Artifact(i)) => ReviewGatePhrases(Artifact(i)')
    BY <2>4 DEF ReviewGatePhrases, ExitCodeRead
  <2>6. HumanGatePasses(Artifact(i)) => HumanGatePasses(Artifact(i)')
    BY <2>4 DEF HumanGatePasses, ExitCodeRead, HumanApproved, ScopeReviewed, ChecksRecorded,
                SafetyRecorded
  <2>7. QED
    BY <2>3, <2>5, <2>6 DEF ArtifactPasses
<1>3. CASE i = j /\ WriteManualSummary(j)
  <2>1. raw'[i] = raw[i] /\ artifact'[i] = "manual"
    BY <1>0, <1>3 DEF WriteManualSummary
  <2>2. /\ Output(i)' = Output(i) /\ Output(i) \subseteq {"failover"}
        /\ Summary(i)' = ManualText
    BY <2>1 DEF Output, Summary, TextOf
  <2>3. ManualText \subseteq Artifact(i)' /\ Artifact(i)' \subseteq ManualText \cup {"failover"}
    BY <2>2 DEF Artifact
  <2>4. /\ {"reviewer phrases", "approval", "in scope", "checks", "untouched", "worker phrases"}
              \subseteq ManualText
        /\ {"finding", "refusal", "failover", "failure", "traceback"} \cap ManualText = {}
    BY DEF ManualText, Assurances
  <2>5. /\ {"reviewer phrases", "approval", "in scope", "checks", "untouched"}
              \subseteq Artifact(i)'
        /\ "finding" \notin Artifact(i)' /\ "refusal" \notin Artifact(i)'
    BY <2>3, <2>4
  <2>6. ReviewGatePhrases(Artifact(i)')
    BY <2>5 DEF ReviewGatePhrases, ExitCodeRead
  <2>7. HumanGatePasses(Artifact(i)')
    BY <2>5 DEF HumanGatePasses, ExitCodeRead, HumanApproved, ScopeReviewed,
                ChecksRecorded, SafetyRecorded
  <2>8. ASSUME WorkerArtifactValid(i)
        PROVE  WorkerArtifactValid(i)' /\ CiGatePasses(Artifact(i)')
    <3>1. Output(i) = {}
      BY <2>2, <2>8 DEF WorkerArtifactValid, Failover
    <3>2. Output(i)' = {} /\ Artifact(i)' = ManualText
      BY <2>2, <3>1 DEF Artifact
    <3>3. WorkerArtifactValid(i)'
      BY <2>2, <3>2 DEF WorkerArtifactValid, HasWorkerFields, DocsFieldsMissing, Failover,
                        ManualText, Assurances
    <3>4. CiGatePasses(ManualText)
      BY <2>4 DEF CiGatePasses, ExitCodeRead, Failover, Traceback, Failure
    <3>5. QED
      BY <3>2, <3>3, <3>4
  <2>9. QED
    BY <2>6, <2>7, <2>8 DEF ArtifactPasses
<1>4. QED
  BY <1>1, <1>2, <1>3 DEF OnFiles

\* Completing an issue, and letting a completion go on, is the work of a command that runs
\* no job on the side.
LEMMA CommandsKeepPassing ==
  ASSUME Alone, DeliveryInv, AloneInv, PassInv,
         NEW p \in Operators, job[p] = NoJob, UNCHANGED <<job, execution>>,
         IF Running(p, {"complete"}, "gate") THEN GateOnFiles(p) \/ Stop(p)
         ELSE CommandStep(p)
  PROVE  PassInv'
<1>0. TypeOK /\ ExecutionTypeOK /\ command \in [Operators -> Command]
  BY DEF DeliveryInv, DeliveryTypeOK, TypeOK, CommandTypeOK
<1>a. /\ \A q \in Operators : q = p
      /\ NoJob.name = "none" /\ NoCommand.name = "none"
  BY DEF Alone, NoJob, NoCommand
<1>b. \A i \in Issues : (ArtifactPasses(i))' = ArtifactPasses(i)
  BY GateLooksAtFiles DEF execution
<1>1. \A q \in Operators : ExecutesWhatIsActive(q)'
  BY <1>a DEF ExecutesWhatIsActive
<1>2. CASE CommandStep(p) /\ ~Running(p, {"complete"}, "gate")
  <2>1. ASSUME NEW i \in Issues, "state:done" \in labels'[i], ProposedGate(i) # {}
        PROVE  (ArtifactPasses(i))'
    <3>1. CASE "state:done" \in labels[i]
      BY <1>b, <2>1, <3>1 DEF PassInv, DoneWorkPasses
    <3>2. CASE "state:done" \notin labels[i]
      <4>1. Running(p, {"complete"}, "edit") /\ command[p].todo = {i}
        BY <1>0, <1>2, <2>1, <3>2, DoneIsCompleted
      <4>2. QED
        BY <1>b, <2>1, <4>1 DEF PassInv, CompletesWhatPasses
    <3>3. QED
      BY <3>1, <3>2
  <2>2. ~(Running(p, {"complete"}, "edit"))'
    BY <1>0, <1>2, GateLetsGoOn
  <2>3. \A q \in Operators : CompletesWhatPasses(q)'
    BY <1>a, <2>2 DEF CompletesWhatPasses
  <2>4. QED
    BY <1>1, <2>1, <2>3 DEF PassInv, DoneWorkPasses
<1>3. CASE (GateOnFiles(p) \/ Stop(p)) /\ Running(p, {"complete"}, "gate")
  <2>1. UNCHANGED labels
    BY <1>3 DEF GateOnFiles, Stop, tracker
  <2>2. DoneWorkPasses'
    BY <1>b, <2>1 DEF PassInv, DoneWorkPasses
  <2>3. CompletesWhatPasses(p)'
    <3>1. CASE Finish(p)
      <4>1. command'[p] = NoCommand
        BY <1>0, <3>1 DEF Finish
      <4>2. QED
        BY <1>a, <4>1 DEF CompletesWhatPasses, Running
    <3>2. ASSUME NEW i \in Issues, command[p].todo = {i}, GoTo(p, "edit"),
                 Gates(i) = {} \/ ArtifactPasses(i)
          PROVE  CompletesWhatPasses(p)'
      <4>1. command'[p].todo = {i}
        BY <1>0, <3>2 DEF GoTo, Command
      <4>2. "state:active" \in labels[i]
        BY <1>3, <3>2 DEF AloneInv, ActsOnWhatIs, MovesWhatIsActive, Running, TransitionNames
      <4>3. Gates(i) = ProposedGate(i)
        BY <4>2 DEF AloneInv, GateWhileActive
      <4>4. ProposedGate(i) # {} => ArtifactPasses(i)
        BY <3>2, <4>3
      <4>5. QED
        BY <1>b, <4>1, <4>4 DEF CompletesWhatPasses
    <3>3. QED
      BY <1>3, <3>1, <3>2 DEF GateOnFiles, Stop
  <2>4. QED
    BY <1>1, <1>a, <2>2, <2>3 DEF PassInv
<1>4. QED
  BY <1>2, <1>3

\* An execution that replaces a summary finds its issue active, and nobody completing it.
LEMMA JobsKeepPassing ==
  ASSUME Alone, DeliveryInv, AloneInv, PassInv,
         NEW p \in Operators, OneThingAtATime(p), JobActs(p)
  PROVE  PassInv'
<1>0. TypeOK /\ JobTypeOK /\ ExecutionTypeOK
  BY DEF DeliveryInv, DeliveryTypeOK
<1>a. /\ \A q \in Operators : q = p
      /\ NoJob.name = "none" /\ NoCommand.name = "none"
  BY DEF Alone, NoJob, NoCommand
<1>b. UNCHANGED <<labels, command>>
  BY JobsLeaveLabels
<1>1. ExecutesWhatIsActive(p)'
  <2>1. CASE Elsewhere(p)
    BY <1>b, <2>1 DEF Elsewhere, PassInv, ExecutesWhatIsActive
  <2>2. ASSUME NEW i \in Issues, PlanExecute(p, i) PROVE ExecutesWhatIsActive(p)'
    <3>1. Take(p, "execute", "agent", i) /\ "state:active" \in Observed(i)
      BY <2>2 DEF PlanExecute, ExecuteReady
    <3>2. job'[p].of = {i}
      BY <1>0, <3>1, JobBookkeeping
    <3>3. "state:active" \in labels[i]
      BY <3>1, SeenIsThere DEF StateLabels
    <3>4. QED
      BY <1>b, <3>2, <3>3 DEF ExecutesWhatIsActive
  <2>3. CASE \/ RunAgent(p) \/ WriteRaw(p) \/ WriteSummary(p)
             \/ LoadAttempts(p) \/ RecordAttempt(p) \/ LoadBugs(p) \/ RecordBug(p)
    <3>1. \/ (\E step, found : Finding(p, step, found)) \/ (\E step : Proceed(p, step))
          \/ (\E step, file : Reading(p, step, file)) \/ (\E how : EndJob(p, how))
      BY <2>3 DEF RunAgent, WriteRaw, WriteSummary, LoadAttempts, RecordAttempt, LoadBugs,
                  RecordBug
    <3>2. \/ job'[p].name = job[p].name /\ job'[p].of = job[p].of
          \/ job'[p] = NoJob
      BY <1>0, <3>1, JobBookkeeping
    <3>3. QED
      BY <1>a, <1>b, <3>2 DEF PassInv, ExecutesWhatIsActive
  <2>4. QED
    BY <1>0, <2>1, <2>2, <2>3, JobsOfExecutions
<1>2. CASE UNCHANGED <<raw, artifact>>
  <2>1. \A i \in Issues : (ArtifactPasses(i))' = ArtifactPasses(i)
    BY <1>2, GateLooksAtFiles
  <2>2. DoneWorkPasses'
    BY <1>b, <2>1 DEF PassInv, DoneWorkPasses
  <2>3. command[p].todo \subseteq Issues
    BY <1>0 DEF TypeOK, CommandTypeOK, Command
  <2>4. CompletesWhatPasses(p)'
    BY <1>b, <2>1, <2>3 DEF PassInv, CompletesWhatPasses, Running
  <2>5. QED
    BY <1>1, <1>a, <2>2, <2>4 DEF PassInv
<1>3. CASE WriteRaw(p) \/ WriteSummary(p)
  <2>1. PICK i \in job[p].of :
          \A j \in Issues \ {i} : raw'[j] = raw[j] /\ artifact'[j] = artifact[j]
    BY <1>0, <1>3 DEF WriteRaw, WriteSummary, ExecutionTypeOK
  <2>2. job[p].name = "execute" /\ job[p] # NoJob
    BY <1>3, <1>a DEF WriteRaw, WriteSummary, At
  <2>3. "state:active" \in labels[i] /\ i \in Issues
    BY <1>0, <2>1, <2>2 DEF PassInv, ExecutesWhatIsActive, JobTypeOK, Job
  <2>4. "state:done" \notin labels[i]
    BY <2>3 DEF AloneInv, OneState, StateLabels
  <2>5. \A j \in Issues \ {i} : (ArtifactPasses(j))' = ArtifactPasses(j)
    BY <2>1, GateLooksAtFiles
  <2>6. DoneWorkPasses'
    BY <1>b, <2>4, <2>5 DEF PassInv, DoneWorkPasses
  <2>7. command'[p] = NoCommand
    BY <1>b, <2>2 DEF OneThingAtATime
  <2>8. CompletesWhatPasses(p)'
    BY <1>a, <2>7 DEF CompletesWhatPasses, Running
  <2>9. QED
    BY <1>1, <1>a, <2>6, <2>8 DEF PassInv
<1>5. (\E i \in Issues : PlanExecute(p, i)) => UNCHANGED <<raw, artifact>>
  BY DEF PlanExecute, execution
<1>6. RunAgent(p) \/ LoadAttempts(p) \/ RecordAttempt(p) \/ LoadBugs(p)
        \/ RecordBug(p) => UNCHANGED <<raw, artifact>>
  BY DEF RunAgent, LoadAttempts, RecordAttempt, LoadBugs, RecordBug, execution
<1>7. QED
  BY <1>0, <1>2, <1>3, <1>5, <1>6, JobsOfExecutions

LEMMA SurroundingsKeepPassing ==
  ASSUME DeliveryInv, PassInv, Surroundings
  PROVE  PassInv'
<1>1. UNCHANGED <<labels, command, job>>
  BY SurroundingsLeaveLabels
<1>2. ASSUME NEW i \in Issues, ArtifactPasses(i) PROVE (ArtifactPasses(i))'
  <2>1. UNCHANGED <<raw, artifact>> \/ \E j \in Issues : OnFiles(j)
    BY DEF Surroundings, InRepository, OnPullRequest, OpenPullRequest, ChecksPass, MainPasses,
           ByHand, WriteManualReview, ApproveByHand, MergeByHand, NoopIsValidated, execution
  <2>2. UNCHANGED <<raw, artifact>> => (ArtifactPasses(i))'
    BY <1>2, GateLooksAtFiles
  <2>3. QED
    BY <1>2, <2>1, <2>2, PeopleKeepItPassing DEF DeliveryInv, DeliveryTypeOK
<1>3. DoneWorkPasses'
  BY <1>1, <1>2 DEF PassInv, DoneWorkPasses
<1>4. \A p \in Operators : ExecutesWhatIsActive(p)'
  BY <1>1 DEF PassInv, ExecutesWhatIsActive
<1>5. \A p \in Operators : CompletesWhatPasses(p)'
  <2> SUFFICES ASSUME NEW p \in Operators, Running(p, {"complete"}, "edit"),
                      NEW i \in command[p].todo, ProposedGate(i) # {}
               PROVE  (ArtifactPasses(i))'
    BY <1>1 DEF CompletesWhatPasses, Running
  <2>1. i \in Issues
    BY DEF DeliveryInv, DeliveryTypeOK, TypeOK, CommandTypeOK, Command
  <2>2. QED
    BY <1>2, <2>1 DEF PassInv, CompletesWhatPasses
<1>6. QED
  BY <1>3, <1>4, <1>5 DEF PassInv

\* What changes neither labels nor commands nor files.
LEMMA FilesStayPassing ==
  ASSUME TypeOK, PassInv, UNCHANGED <<labels, command, job, raw, artifact>>
  PROVE  PassInv'
<1>1. \A i \in Issues : (ArtifactPasses(i))' = ArtifactPasses(i)
  BY GateLooksAtFiles
<1>2. DoneWorkPasses'
  BY <1>1 DEF PassInv, DoneWorkPasses
<1>3. ASSUME NEW p \in Operators PROVE ExecutesWhatIsActive(p)' /\ CompletesWhatPasses(p)'
  <2>1. command[p].todo \subseteq Issues
    BY DEF TypeOK, CommandTypeOK, Command
  <2>2. QED
    BY <1>1, <2>1 DEF PassInv, ExecutesWhatIsActive, CompletesWhatPasses, Running
<1>4. QED
  BY <1>2, <1>3 DEF PassInv

LEMMA PassingKept ==
  ASSUME Alone, DeliveryInv, AloneInv, PassInv,
         \A p \in Operators : OneThingAtATime(p), DeliveryNext
  PROVE  PassInv'
<1>0. LoopTypeOK /\ TypeOK
  BY DEF DeliveryInv, DeliveryTypeOK
<1>1. ASSUME NEW p \in Operators, DeliveryCommand(p) PROVE PassInv'
  <2>1. /\ job[p] = NoJob /\ UNCHANGED <<job, execution>>
        /\ IF Running(p, {"complete"}, "gate") THEN GateOnFiles(p) \/ Stop(p)
           ELSE CommandStep(p)
    BY <1>1 DEF DeliveryCommand, jobs
  <2>2. QED
    BY <2>1, CommandsKeepPassing
<1>2. ASSUME NEW p \in Operators, LoopCommands(p) PROVE PassInv'
  <2>1. /\ CommandStep(p) /\ UNCHANGED <<job, execution>>
        /\ job[p] = NoJob /\ command[p] = NoCommand
    BY <1>2 DEF LoopCommands, CommandStep, ClaimStep, IntegrationStep, OneThingAtATime, LoopAt,
                Idle, jobs
  <2>2. ~Running(p, {"complete"}, "gate")
    BY <2>1 DEF Running, NoCommand
  <2>3. QED
    BY <2>1, <2>2, CommandsKeepPassing
<1>3. NothingDone => PassInv'
  BY <1>0, FilesStayPassing DEF NothingDone, IssueWorkflowUnchanged, jobs, execution
<1>4. QED
  BY <1>0, <1>1, <1>2, <1>3, StepsOfDelivery, JobsKeepPassing, SurroundingsKeepPassing

\* With one operator, and his loop, the files of an issue that is done are such that its
\* gate lets them pass, whichever gate that is, wherever commands and executions stop and
\* however often they are repeated: no later execution can put its output in the place of
\* what the gate has seen.
THEOREM DoneWorkStillPasses ==
  ASSUME Alone, NoRecovery, Delivers
  PROVE  DeliverySpec => []DoneWorkPasses
<1> DEFINE OneThing == \A p \in Operators : OneThingAtATime(p)
<1>1. DeliveryInit => PassInv
  <2>1. NoJob.name = "none" /\ NoCommand.name = "none"
    BY DEF NoJob, NoCommand
  <2>2. DeliveryInit => DoneWorkPasses
    BY DEF DeliveryInit, Init, DoneWorkPasses
  <2>3. QED
    BY <2>1, <2>2 DEF DeliveryInit, Init, JobInit, PassInv, ExecutesWhatIsActive,
                      CompletesWhatPasses, Running
<1>2. DeliveryInv /\ AloneInv /\ OneThing /\ PassInv /\ [DeliveryNext]_deliveryVars
        => PassInv'
  <2>1. DeliveryInv /\ UNCHANGED deliveryVars /\ PassInv => PassInv'
    BY FilesStayPassing DEF DeliveryInv, DeliveryTypeOK, deliveryVars, jobs, vars, tracker, execution
  <2>2. QED
    BY <2>1, PassingKept
<1>3. PassInv => DoneWorkPasses
  BY DEF PassInv
<1>4. DeliverySpec => []AloneInv
  BY DeliveryImplementsIssueWorkflow, AloneInvHolds, PTL DEF ImplementsWorkflow
<1>5. QED
  BY <1>1, <1>2, <1>3, <1>4, DeliveryInvHolds, OneThingHolds, PTL DEF DeliverySpec

-----------------------------------------------------------------------------
(* What has failed is left to a person.                                    *)

\* The summary of another profile has another name, and the lifecycle does not find it.
OnlyWorkers == \A i \in Issues : Profile(i) = "worker"

\* Every failure on record, and every one that is about to be, has left a summary.
CountedInv ==
  /\ \A i \in Issues : ledger[i] > 0 => artifact[i] # "none"
  /\ \A p \in Operators : CountsWhatLeftASummary(p)

\* Summaries are replaced, and never removed.
SummariesStay == \A i \in Issues : artifact[i] # "none" => artifact'[i] # "none"

LEMMA JobsKeepCounted ==
  ASSUME DeliveryInv, LedgersInv, CountedInv, NEW p \in Operators, JobActs(p)
  PROVE  CountedInv'
<1>0. /\ JobTypeOK /\ job[p].of \subseteq Issues /\ ledger \in [Issues -> Nat]
      /\ job[p].copy \in [Issues -> Nat]
      /\ artifact \in [Issues -> Results \cup {"none", "manual"}]
      /\ \A q \in Operators : job[q].of \subseteq Issues
  BY DEF DeliveryInv, DeliveryTypeOK, ExecutionTypeOK, JobTypeOK, Job
<1>a. NoJob.name = "none"
  BY DEF NoJob
<1>b. CountsWhatLeftASummary(p)
  BY DEF CountedInv
<1>c. OthersKeepJobs(p)
  BY <1>0, JobsOfExecutions
<1>1. ASSUME UNCHANGED ledger, SummariesStay, CountsWhatLeftASummary(p)'
      PROVE  CountedInv'
  <2>1. ASSUME NEW q \in Operators \ {p} PROVE CountsWhatLeftASummary(q)'
    <3>1. job'[q] = job[q] /\ CountsWhatLeftASummary(q)
      BY <1>c DEF OthersKeepJobs, CountedInv
    <3>2. QED
      BY <1>0, <1>1, <3>1 DEF CountsWhatLeftASummary, At, Delegating, SummariesStay
  <2>2. QED
    BY <1>1, <2>1 DEF CountedInv, SummariesStay
<1>2. CASE Elsewhere(p) /\ UNCHANGED <<artifact, ledger>>
  <2>1. CountsWhatLeftASummary(p)'
    BY <1>b, <1>2 DEF Elsewhere, CountsWhatLeftASummary, At, Delegating
  <2>2. QED
    BY <1>1, <1>2, <2>1 DEF SummariesStay
<1>3. ASSUME NEW i \in Issues, PlanExecute(p, i) PROVE CountedInv'
  <2>1. Take(p, "execute", "agent", i) /\ UNCHANGED <<artifact, ledger>>
    BY <1>3 DEF PlanExecute, execution
  <2>2. job'[p].step = "agent"
    BY <1>0, <2>1, JobBookkeeping
  <2>3. QED
    BY <1>1, <2>1, <2>2 DEF SummariesStay, CountsWhatLeftASummary, At, Delegating
<1>4. CASE RunAgent(p) \/ WriteRaw(p) \/ LoadBugs(p) \/ RecordBug(p)
  <2>1. /\ UNCHANGED <<artifact, ledger>>
        /\ \/ \E found : Finding(p, "raw", found)
           \/ Proceed(p, "summary")
           \/ Reading(p, "record bug", bugs)
           \/ EndJob(p, "failed")
    BY <1>4 DEF RunAgent, WriteRaw, LoadBugs, RecordBug, execution
  <2>2. job'[p].step \in {"raw", "summary", "record bug"} \/ job'[p] = NoJob
    BY <1>0, <2>1, JobBookkeeping
  <2>3. QED
    BY <1>1, <1>a, <2>1, <2>2 DEF SummariesStay, CountsWhatLeftASummary, At, Delegating
<1>5. CASE WriteSummary(p)
  <2>1. PICK i \in job[p].of : artifact' = [artifact EXCEPT ![i] = job[p].found]
    BY <1>5 DEF WriteSummary
  <2>2. job[p].of = {i} /\ job[p].found \in Results
    BY <1>5, <2>1 DEF WriteSummary, At, LedgersInv, ExecutesOne, DeliveryInv, JobsInOrder,
                      FindsWhatItMay
  <2>3. artifact'[i] # "none" /\ SummariesStay
    BY <1>0, <2>1, <2>2 DEF SummariesStay, Results
  <2>4. job'[p].step = "attempt" /\ job'[p].of = {i}
    BY <1>0, <1>5, <2>2, JobBookkeeping DEF WriteSummary
  <2>5. QED
    BY <1>1, <1>5, <2>3, <2>4 DEF WriteSummary, CountsWhatLeftASummary, At, Delegating
<1>6. CASE LoadAttempts(p)
  <2>1. /\ Delegating(p, "attempt") /\ Reading(p, "record attempt", ledger)
        /\ UNCHANGED <<artifact, ledger>>
    BY <1>6 DEF LoadAttempts, execution
  <2>2. /\ job'[p].name = job[p].name /\ job'[p].step = "record attempt"
        /\ job'[p].of = job[p].of /\ job'[p].copy = ledger
    <3>1. \A step, file : Reading(p, step, file) =>
            /\ job'[p].name = job[p].name /\ job'[p].step = step
            /\ job'[p].of = job[p].of /\ job'[p].copy = file
      BY <1>0, JobBookkeeping
    <3>2. QED
      BY <2>1, <3>1, Zenon
  <2>3. CountsWhatLeftASummary(p)'
    BY <1>b, <2>1, <2>2 DEF CountedInv, CountsWhatLeftASummary, At, Delegating
  <2>4. QED
    BY <1>1, <2>1, <2>3 DEF SummariesStay
<1>7. CASE RecordAttempt(p)
  <2>1. /\ Delegating(p, "record attempt") /\ UNCHANGED artifact
        /\ ledger' = Appended(p, job[p].found \notin Failures)
        /\ Proceed(p, "bug") \/ EndJob(p, "applied")
    BY <1>7 DEF RecordAttempt
  <2>2. job'[p].step = "bug" \/ job'[p] = NoJob
    BY <1>0, <2>1, JobBookkeeping
  <2>3. \A q \in Operators : CountsWhatLeftASummary(q)'
    <3>1. CountsWhatLeftASummary(p)'
      BY <1>a, <2>2 DEF CountsWhatLeftASummary, At, Delegating
    <3>2. ASSUME NEW q \in Operators \ {p} PROVE CountsWhatLeftASummary(q)'
      <4>1. job'[q] = job[q] /\ CountsWhatLeftASummary(q)
        BY <1>c DEF OthersKeepJobs, CountedInv
      <4>2. QED
        BY <2>1, <4>1 DEF CountsWhatLeftASummary, At, Delegating
    <3>3. QED
      BY <3>1, <3>2
  <2>4. ASSUME NEW i \in Issues, ledger'[i] > 0 PROVE artifact'[i] # "none"
    <3>1. CASE i \in job[p].of /\ job[p].name = "execute"
      BY <1>b, <2>1, <3>1 DEF CountsWhatLeftASummary, At, Delegating
    <3>2. CASE i \notin job[p].of \/ job[p].name = "review"
      <4>1. ledger'[i] = job[p].copy[i]
        BY <2>1, <3>2 DEF Appended
      <4>2. QED
        BY <1>b, <2>1, <2>4, <4>1 DEF CountsWhatLeftASummary
    <3>3. QED
      BY <2>1, <3>1, <3>2 DEF Delegating
  <2>5. QED
    BY <2>3, <2>4 DEF CountedInv
<1>8. QED
  BY <1>0, <1>2, <1>3, <1>4, <1>5, <1>6, <1>7, JobsOfExecutions

\* Where no job goes on the summaries stay.
LEMMA OthersKeepCounted ==
  ASSUME DeliveryInv, CountedInv, UNCHANGED <<job, ledger>>, UNCHANGED artifact \/ Surroundings
  PROVE  CountedInv'
<1>0. /\ artifact \in [Issues -> Results \cup {"none", "manual"}]
      /\ \A q \in Operators : job[q].of \subseteq Issues
  BY DEF DeliveryInv, DeliveryTypeOK, ExecutionTypeOK, JobTypeOK, Job
<1>1. UNCHANGED artifact \/ \E i \in Issues : WriteManualSummary(i)
  BY DEF Surroundings, InRepository, CheckoutChanges, Sync, Commit, Push, OnFiles,
         PutRawAside, OnPullRequest, OpenPullRequest, ChecksPass, MainPasses, ByHand,
         WriteManualReview, ApproveByHand, MergeByHand, NoopIsValidated, execution
<1>2. SummariesStay
  BY <1>0, <1>1 DEF WriteManualSummary, SummariesStay
<1>3. QED
  BY <1>0, <1>2 DEF CountedInv, SummariesStay, CountsWhatLeftASummary, At, Delegating

\* A loop decides on an execution when there is no summary yet.
LEMMA ExecutesWithoutSummary ==
  ASSUME OnlyWorkers, DeliveryInv, NEW i \in Issues, NEW state,
         Proposal(i, state) = "execute-worker"
  PROVE  artifact[i] = "none"
<1>1. ~(WorkerSummaryExists(i) /\ PromptExists(i)) /\ PromptExists(i)
  BY DEF Proposal
<1>2. QED
  BY <1>1 DEF WorkerSummaryExists, OnlyWorkers

\* What a loop that is about to run a command has decided on it has decided now, or it
\* has decided before and does nothing else.
LEMMA LoopsDecide ==
  ASSUME Alone, OnlyWorkers, DeliveryInv, NEW p \in Operators, OneThingAtATime(p),
         DeliveryNext, LoopAt(p, "command")', loop'[p].action = "execute-worker"
  PROVE  /\ UNCHANGED <<ledger>>
         /\ \/ loop'[p] = loop[p]
            \/ \E i \in Issues : loop'[p].of = {i} /\ artifact[i] = "none"
<1>0. LoopTypeOK /\ loop \in [Operators -> Loop] /\ \A q \in Operators : q = p
  BY DEF DeliveryInv, DeliveryTypeOK, LoopTypeOK, Alone
<1>1. CASE UNCHANGED <<ledger, loop>>
  BY <1>1
<1>2. ~(loop' = [loop EXCEPT ![p].step = "running"])
  BY <1>0 DEF LoopAt, Loop
<1>3. ~JobActs(p)
  BY <1>2 DEF JobActs, OneThingAtATime, Idle, LoopAt
<1>4. ~LoopCommands(p)
  BY <1>2 DEF LoopCommands
<1>5. CASE LoopStep(p) /\ NothingDone
  <2>1. UNCHANGED ledger
    BY <1>5 DEF NothingDone, execution
  <2>2. CASE PlanCycle(p)
    <3>1. PICK i \in loop[p].of : \E state \in Observed(i) :
            \/ loop' = [loop EXCEPT ![p] =
                 [step |-> "command", cycle |-> loop[p].cycle, mode |-> loop[p].mode,
                  action |-> Proposal(i, state), of |-> {i}]]
            \/ NextCycle(p, "select", {}) \/ StopLoop(p)
      BY <2>2 DEF PlanCycle
    <3>2. i \in Issues
      BY <1>0, <3>1 DEF Loop
    <3>3. ~NextCycle(p, "select", {}) /\ ~StopLoop(p)
      BY <1>0 DEF NextCycle, StopLoop, NoLoop, LoopAt
    <3>4. \E state : Proposal(i, state) = "execute-worker" /\ loop'[p].of = {i}
      BY <1>0, <3>1, <3>3
    <3>5. QED
      BY <2>1, <3>2, <3>4, ExecutesWithoutSummary
  <2>3. CASE ~PlanCycle(p)
    <3>1. \/ \E i \in Issues : StartLoop(p, i)
          \/ StartRunNext(p) \/ SelectIssue(p)
          \/ RunReadOnly(p) \/ RunCommand(p) \/ EndCycle(p) \/ InterruptLoop(p)
      BY <1>5, <2>3 DEF LoopStep
    <3>2. ~StopLoop(p) /\ \A of : ~NextCycle(p, "plan", of)
      BY <1>0 DEF StopLoop, NextCycle, NoLoop, LoopAt
    <3>3. (\A i : ~StartLoop(p, i)) /\ ~StartRunNext(p)
      BY <1>0 DEF StartLoop, StartRunNext, LoopAt
    <3>4. ~SelectIssue(p)
      BY <1>0, <3>2 DEF SelectIssue, LoopAt
    <3>5. ~RunReadOnly(p) /\ ~RunCommand(p) /\ ~EndCycle(p) /\ ~InterruptLoop(p)
      BY <1>2, <3>2 DEF RunReadOnly, RunCommand, EndCycle, InterruptLoop
    <3>6. QED
      BY <3>1, <3>3, <3>4, <3>5
  <2>4. QED
    BY <2>2, <2>3
<1>6. Surroundings \/ DeliveryCommand(p) => UNCHANGED <<ledger, loop>>
  BY SurroundingsLeaveLabels DEF DeliveryCommand, execution
<1>7. QED
  BY <1>0, <1>1, <1>3, <1>4, <1>5, <1>6, StepsOfDelivery

LEMMA RetryKept ==
  ASSUME Alone, OnlyWorkers, DeliveryInv, LedgersInv, RetryInv,
         \A p \in Operators : OneThingAtATime(p), DeliveryNext
  PROVE  RetryInv'
<1>0. LoopTypeOK /\ ExecutionTypeOK
  BY DEF DeliveryInv, DeliveryTypeOK
<1>1. CountedInv
  BY DEF CountedInv, RetryInv
<1>2. CountedInv'
  <2>1. \A p \in Operators :
          DeliveryCommand(p) \/ LoopCommands(p) \/ (LoopStep(p) /\ NothingDone)
            => UNCHANGED <<job, ledger, artifact>>
    BY DEF DeliveryCommand, LoopCommands, NothingDone, jobs, execution
  <2>2. QED
    BY <1>0, <1>1, <2>1, StepsOfDelivery, JobsKeepCounted, OthersKeepCounted,
       SurroundingsLeaveLabels
<1>3. ASSUME NEW p \in Operators, LoopAt(p, "command")', loop'[p].action = "execute-worker",
             NEW i \in loop'[p].of
      PROVE  ledger'[i] = 0
  <2>1. /\ UNCHANGED ledger
        /\ \/ loop'[p] = loop[p]
           \/ \E j \in Issues : loop'[p].of = {j} /\ artifact[j] = "none"
    BY <1>3, LoopsDecide
  <2>2. CASE loop'[p] = loop[p]
    BY <1>3, <2>1, <2>2 DEF RetryInv, NoBlindRetry, LoopAt
  <2>3. CASE i \in Issues /\ artifact[i] = "none"
    <3>1. ledger[i] \in Nat /\ ~(ledger[i] > 0)
      BY <1>0, <2>3 DEF RetryInv, ExecutionTypeOK
    <3>2. QED
      BY <2>1, <3>1
  <2>4. QED
    BY <1>3, <2>1, <2>2, <2>3
<1>4. QED
  BY <1>2, <1>3 DEF RetryInv, CountedInv, NoBlindRetry

\* With one operator a loop never executes again on its own what a worker has failed at
\* once on record, however many failures the circuit allows, wherever executions stop and
\* whoever else writes summaries: every failure that is counted has left a summary, and
\* a summary leaves the issue to its gate or to a person.
THEOREM NothingIsRetriedBlindly ==
  ASSUME Alone, Delivers, OnlyWorkers
  PROVE  DeliverySpec => []NoBlindRetry
<1> DEFINE OneThing == \A p \in Operators : OneThingAtATime(p)
<1>1. DeliveryInit => RetryInv
  <2> SUFFICES ASSUME DeliveryInit PROVE RetryInv
    OBVIOUS
  <2>1. \A p \in Operators : job[p].name = "none"
    BY DEF DeliveryInit, JobInit, NoJob
  <2>2. \A i \in Issues : ledger[i] = 0
    BY DEF DeliveryInit, ExecutionInit
  <2>3. NoBlindRetry
    BY DEF DeliveryInit, LoopInit, NoLoop, LoopAt, NoBlindRetry
  <2>4. \A p \in Operators : CountsWhatLeftASummary(p)
    BY <2>1 DEF CountsWhatLeftASummary, At, Delegating
  <2>5. QED
    BY <2>2, <2>3, <2>4 DEF RetryInv
<1>2. DeliveryInv /\ LedgersInv /\ OneThing /\ RetryInv /\ [DeliveryNext]_deliveryVars
        => RetryInv'
  <2>1. UNCHANGED deliveryVars /\ RetryInv => RetryInv'
    BY DEF deliveryVars, jobs, execution, RetryInv, NoBlindRetry, CountsWhatLeftASummary,
           At, Delegating, LoopAt
  <2>2. QED
    BY <2>1, RetryKept
<1>3. RetryInv => NoBlindRetry
  BY DEF RetryInv
<1>4. QED
  BY <1>1, <1>2, <1>3, DeliveryInvHolds, LedgersInvHolds, OneThingHolds, PTL
     DEF DeliverySpec
=============================================================================
