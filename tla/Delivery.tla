------------------------------ MODULE Delivery ------------------------------
(***************************************************************************)
(* Signposter as a whole: the commands of IssueWorkflow and those on       *)
(* worktrees, executions and pull requests, run by operators or by the     *)
(* orchestrator loops they start, with people at work on the same issues.  *)
(* Here the evidence IssueWorkflow takes as given is produced.             *)
(***************************************************************************)
EXTENDS Orchestrator

deliveryVars == <<vars, jobs, workspace, execution, review, loop>>

DeliveryTypeOK ==
  TypeOK /\ JobTypeOK /\ WorkspaceTypeOK /\ ExecutionTypeOK /\ ReviewTypeOK /\ LoopTypeOK

DeliveryInit ==
  Init /\ JobInit /\ WorkspaceInit /\ ExecutionInit /\ ReviewInit /\ LoopInit

(***************************************************************************)
(* Commands and jobs, started by the operator while no loop of his runs,   *)
(* or by that loop.                                                        *)
(***************************************************************************)
\* A mutant: the gate is not looked at.
AnyArtifact(p) ==
  /\ Running(p, {"complete"}, "gate")
  /\ GoTo(p, "edit")
  /\ UNCHANGED <<tracker, evidence>>

\* A mutant: only the summary is looked at, and not the raw output next to it.
GateOnSummary(p) ==
  /\ Running(p, {"complete"}, "gate")
  /\ \E i \in Issues :
       /\ command[p].todo = {i}
       /\ IF Gates(i) = {} \/ (HasWorkerFields(Summary(i)) /\ CiGatePasses(Summary(i)))
          THEN GoTo(p, "edit") ELSE Finish(p)
  /\ UNCHANGED <<tracker, evidence>>

\* complete evaluates the gate of the issue on the files it finds.
GateOnFiles(p) ==
  /\ Running(p, {"complete"}, "gate")
  /\ \E i \in Issues :
       /\ command[p].todo = {i}
       /\ IF Gates(i) = {} \/ ArtifactPasses(i) THEN GoTo(p, "edit") ELSE Finish(p)
  /\ UNCHANGED <<tracker, evidence>>

\* integration noop wants neither a worktree nor a branch of the issue, either.
NoopLeavesNothing(p) ==
  command[p] = NoCommand /\ command'[p].name = "integrate noop" =>
    \A i \in command'[p].todo : ~LeftBehind(i)

DeliveryCommand(p) ==
  /\ job[p] = NoJob
  /\ LoopAt(p, "off") \/ command[p] # NoCommand
  /\ IF Running(p, {"complete"}, "gate")
     THEN (GateOnFiles(p) \/ Stop(p)) /\ UNCHANGED manifest
     ELSE CommandStep(p) /\ NoopLeavesNothing(p)
  /\ UNCHANGED <<jobs, workspace, execution, review, loop>>

\* A job that is interrupted, or whose process dies, leaves what it has done.
StopJob(p) ==
  /\ <<"job", "stop">> \in Faults
  /\ job[p] # NoJob
  /\ EndJob(p, "failed")
  /\ IssueWorkflowUnchanged /\ UNCHANGED <<workspace, execution, review>>

JobStep(p) ==
  /\ \/ WorkspaceStep(p) /\ UNCHANGED <<execution, review>>
     \/ ExecutionStep(p) /\ UNCHANGED review
     \/ ReviewStep(p)
     \/ StopJob(p)
  /\ job[p] = NoJob =>
       LoopAt(p, "off") /\ (job'[p].name \in Manual \/ (job' = job /\ "write prompt" \in Manual))
  /\ UNCHANGED loop

(***************************************************************************)
(* What happens around them.                                               *)
(***************************************************************************)
InRepository ==
  (CheckoutChanges \/ Sync \/ \E i \in Issues : Commit(i) \/ Push(i))
  /\ UNCHANGED <<execution, review, loop>>

OnFiles(i) == (WriteManualSummary(i) \/ PutRawAside(i)) /\ UNCHANGED <<review, loop>>

OnPullRequest(i) ==
  (OpenPullRequest(i) \/ ChecksPass(i) \/ MainPasses(i)) /\ UNCHANGED loop

\* A task turns out to need no change, and a summary says so.
NoopIsValidated(i) ==
  /\ "integrate noop" \in Used
  /\ NoopGatePasses(i)
  /\ UNCHANGED <<command, manifest, jobs, workspace, execution, review, loop>>

ByHand(i) ==
  \/ "write summary" \in Manual /\ OnFiles(i)
  \/ "write review" \in Manual /\ WriteManualReview(i) /\ UNCHANGED loop
  \/ "merge by hand" \in Manual /\ (ApproveByHand(i) \/ MergeByHand(i)) /\ UNCHANGED loop

Surroundings ==
  InRepository \/ \E i \in Issues : OnPullRequest(i) \/ NoopIsValidated(i) \/ ByHand(i)

DeliveryNext ==
  \/ Surroundings
  \/ \E p \in Operators : DeliveryCommand(p) \/ JobStep(p) \/ LoopStep(p)

DeliverySpec == DeliveryInit /\ [][DeliveryNext]_deliveryVars

-----------------------------------------------------------------------------
(* What holds for any number of operators and loops, whatever fails.       *)

\* To IssueWorkflow all this is commands and evidence: what is proved of it holds here.
ImplementsWorkflow == Spec

\* A worktree and a branch are removed only when the pull request was merged and the
\* issue is closed as completed, however long ago that was looked up.
CleanupAfterIntegration ==
  [][\A i \in Issues :
       (worktree[i] # "none" /\ worktree'[i] = "none") \/ (branch[i] # 0 /\ branch'[i] = 0)
         => merged[i] # 0 /\ issueState[i] = "completed"]_deliveryVars

\* What merge apply merges was approved, and has had checks that passed, although the call
\* is made long after the reviews and the checks were read, and names no commit.  Nothing
\* like it is said of what people merge on GitHub: integration asks for no approval.
MergesWhatWasReviewed ==
  [][\A p \in Operators, i \in Issues :
       At(p, "merge", "call") /\ job'[p] = NoJob /\ pr[i] = "open" /\ pr'[i] = "merged"
         => approved[i] # 0 /\ passed[i] # {}]_deliveryVars

\* The ledgers may lose entries, when two processes write them at once; they never say
\* of an issue that it has failed more often than it has.
LedgersNeverInvent ==
  \A i \in Issues : ledger[i] <= failures[i] /\ bugs[i] <= failures[i]

-----------------------------------------------------------------------------
(* What holds with one operator.                                           *)

\* Work that is done still has the files its gate lets pass: no execution puts another
\* summary or other output in their place once the gate has looked at them.
DoneWorkPasses ==
  \A i \in Issues :
    "state:done" \in labels[i] /\ ProposedGate(i) # {} => ArtifactPasses(i)

\* A loop does not execute again what has failed once on record, however many failures
\* the circuit allows: a failure leaves a summary that is left to a person.
NoBlindRetry ==
  \A p \in Operators :
    LoopAt(p, "command") /\ loop[p].action = "execute-worker" =>
      \A i \in loop[p].of : ledger[i] = 0

-----------------------------------------------------------------------------
(* What does not hold.                                                     *)

\* What the gates say of work they let pass: that the agent has come to an end with exit
\* code 0, or that a person vouches for it.
DoneMeansSucceeded ==
  \A i \in Issues :
    "state:done" \in labels[i] /\ ProposedGate(i) # {} => artifact[i] \in {"good", "manual"}

-----------------------------------------------------------------------------
(* What the running jobs and commands remember, and how it bears on the    *)
(* invariants above.                                                       *)

\* An operator runs a job or a command, and neither while his loop makes up its mind.
OneThingAtATime(p) ==
  /\ job[p] = NoJob \/ command[p] = NoCommand
  /\ ~LoopAt(p, "off") /\ ~LoopAt(p, "running") => Idle(p)

\* An execution and a completion find the issue as they have read it.
ExecutesWhatIsActive(p) ==
  job[p].name = "execute" => \A i \in job[p].of : "state:active" \in labels[i]

CompletesWhatPasses(p) ==
  Running(p, {"complete"}, "edit") =>
    \A i \in command[p].todo : ProposedGate(i) # {} => ArtifactPasses(i)

PassInv ==
  /\ DoneWorkPasses
  /\ \A p \in Operators : ExecutesWhatIsActive(p) /\ CompletesWhatPasses(p)

\* Whoever counts an attempt has left a summary, and so has whoever was counted in the
\* copy of the ledger he writes back.
CountsWhatLeftASummary(p) ==
  /\ At(p, "execute", "attempt") \/ At(p, "execute", "record attempt") =>
       \A i \in job[p].of : artifact[i] # "none"
  /\ Delegating(p, "record attempt") =>
       \A i \in Issues : job[p].copy[i] > 0 => artifact[i] # "none"

RetryInv ==
  /\ NoBlindRetry
  /\ \A i \in Issues : ledger[i] > 0 => artifact[i] # "none"
  /\ \A p \in Operators : CountsWhatLeftASummary(p)
=============================================================================
