# Signposter in TLA+

Signposter is a local command-line control plane for work that is tracked in GitHub
issues. An issue carries its workflow state in labels; commands read issues, worktrees,
pull requests and files, decide, and then change labels, run agents, merge or clean up,
through `gh`, `git` and the agent's own program. There is no server, no lock and no
transaction: every command is a short process that plans on what it has read and then
makes its changes one by one. What is hard about it follows from that:

- *stale plans*: between the reads of a command and its changes other commands run, people
  push, and checks come in;
- *partial failure*: a command of several calls may stop after any of them, because a call
  fails, times out, or the process is interrupted; nothing is undone, and the way back is
  to run the command again on what is left;
- *observations that disagree*: several commands read "the state" of an issue, each from
  the first label that starts with `state:`, and some from the open/closed state; a gate, a
  merge and the lifecycle each read the same summary in a way of their own;
- *files written as a whole*: the manifest, the ledgers and the artifacts are read, changed
  and written back, with nothing that says somebody else is at it;
- *loops*: the orchestrator runs again and again whatever the lifecycle proposes.

The modules here model the commands, the loops that run them and the people who work
beside them; TLC checks them on small instances; TLAPS proves the main safety properties
for every number of issues, operators and loops.

## Inventory

Paths are below `src/src/signposter`.

| component | state it keeps | operations | interacts through | modelled in |
|---|---|---|---|---|
| GitHub issues (external; `scan.py`, `labels.py`) | labels, open/closed and its reason | view, list, edit, close, reopen, create | everything goes through it | GitHubIssues |
| dispatch, dependencies, claim | the running command | list ready issues, check dependencies, claim edits | labels, issue bodies | Commands, Claim |
| transitions | the running command | release, complete (with gate), fail | labels, summaries on disk | Transition |
| integration | the running command | apply (label, comment, close), no-op apply | labels, issue state, pull request, CI of the merge commit | Integration |
| planner: advance, clear, recover-clear | manifest and archive | the three, each reading every task first | labels, issue state, merged pull requests | Roadmap |
| planner: seed, sync-bodies | manifest, issue bodies | create issues, record them, rewrite bodies | `gh`, the manifest file | Seed |
| planner: status, next, impact, dashboard | none | read-only | the same reading of the tasks | Planning |
| worktree, cleanup, git | worktrees, branches, checkout | worktree apply, cleanup apply, sync apply | git | Workspace |
| runner, execution backends | prompt, raw output, summary | write prompt, execute | worktree, agent, ledgers | Execution |
| delegation, bug ledger | two JSON ledgers | load, append, write; the circuit | files | Execution |
| gates, artifact validation | none | gate:ci, gate:review, gate:human, worker fields, review gate, CI verdicts, execution status | summaries and raw output | Gates, Execution |
| review, merge | review prompt and summary; approval, merge on GitHub | review execute, review submit, merge apply | pull request, its checks | Review |
| lifecycle, scheduler | none (a decision table) | next action, next issue | reads everything above | Lifecycle |
| orchestrator | its own loop | loop, run-next loop; selection, plan, command, end | runs the commands above as child processes | Orchestrator |

What makes each of them correct:

- claim: nothing is started before its dependencies are finished; an issue has one state.
- transitions: only work in progress is moved; gate labels and evidence agree with the
  state; work that is done has the files its gate lets pass.
- integration: completed means merged and shipped; an integration that failed can be
  carried to its end.
- planner: a promotion means claimable; a roadmap is retired only when nothing of it is
  left open; it never comes to rest without saying what is next; seeding creates nothing
  twice and ends.
- runner and ledgers: a ledger never says more failures than there were.
- review, merge: what `merge apply` merges was approved and had checks that passed.
- cleanup: removes only what is integrated, whatever has changed since it looked.
- lifecycle, orchestrator: no failure is executed again blindly, and the work is delivered
  in the end, whatever has failed on the way.

`PROJECT.json` lists every component with its status, and under "hazards" every place in
the code where one of these can go wrong in a way that is hard to test.

## The modules

    GitHubIssues <- Evidence <- Commands <-+- Claim -------+
                                           +- Transition --+
                                           +- Integration -+- IssueWorkflow <-+- WorkflowRefinement
                                           +- Roadmap -----+                  +- Planning <- Jobs <- Workspace
    MCIssueWorkflow = WorkflowRefinement + Planning
    Workspace, Gates <- Execution <- Review <- Lifecycle <- Orchestrator <- Delivery
    Delivery <- DeliveryLiveness <- MCDelivery
    IssueLifecycle (abstract) -- instantiated by WorkflowRefinement
    Seed <- MCSeed

    IssueWorkflowProofs <- IssueSafetyProofs <-+- WorkOrderProofs
                                               +- RoadmapProofs (and Planning)
    WorkOrderProofs <-+- OneOperatorProofs (and WorkflowRefinement) <-+
                      +- DeliveryProofs (and Delivery) <--------------+- OneOperatorDeliveryProofs
    Seed <- SeedProofs

There are two layers. **IssueWorkflow** is what happens on the tracker; it takes for
granted that evidence (a merged pull request, a summary that passes) turns up once and
stays. **Delivery** puts the worktrees, executions, reviews, merges, cleanups and loops
beside it that produce this evidence, on files that replace each other, and is shown to
implement IssueWorkflow (below).

### The tracker

- **GitHubIssues** (external): `labels[i]` and `issueState[i]`, what a reader may observe
  of them, and the mutating calls. A reader takes the first `state:` label; GitHub
  promises no order, so `Observed(i)` is any of them. A call ends `ok`, `lost` (no effect,
  seen to fail) or `late` (took effect, but the caller does not go on); the constant
  `Faults` says which of these may happen in a run. Only the states the commands write
  are labels of the model (`state:blocked` is created by `labels ensure` but written by
  no command).
- **Evidence**: the pull request of an issue (`pr[i]`: none, open, merged, green), the
  summary artifact of its gate, the summary of a validated no-op (a file of its own).
- **Commands**: one record per operator with all that a running command remembers: its
  name, its next step, the issues still to go through, what it has picked, and the task
  states it has read. `Stop` ends a command anywhere: an interrupt, a
  failing label preflight, an exception.
- **Claim**: `ClaimList` (dispatch.run_dry_run), `ClaimCheck` (one step per ready issue:
  its body and dependencies), `ClaimSelect` (sort and limit), `ClaimEdit` (one step per
  issue, no second look), and `RunIssue` for `run --issue N --claim`.
- **Transition**: `PlanTransition` (the first read), `EvaluateGateForComplete` (the second
  read, for complete), `TransitionEdit` (the edit planned from the first read).
- **Integration**: `PlanIntegration`, `PlanNoopIntegration`, `IntegrationEdit`,
  `IntegrationClose`. A failed comment does not stop the close, so it is not a step.
- **Roadmap**: advance, clear and recover-clear over a seeded manifest. With
  `--sync-github` the tasks are read one by one (`ReadTask`), then the plan is made, then
  the mutations follow one by one. `manifest` is active, archived (clear has written the
  archive and not yet the manifest) or cleared. There are two sorts of dependencies, and
  they do not meet: `Deps[i]` is what the body of an issue declares in `Depends-On:` lines,
  and all a claim looks at; `Needs[i]` is what the manifest declares, and all advance looks
  at. The body of a seeded issue names task keys and has no `Depends-On:` line
  (`format_planner_issue_body`), so a seeded roadmap is kept in order by advance alone: a
  seeded issue whose task needs others starts without a state label, and only advance adds
  `state:ready`.
- **Planning**: what the planner says of one reading of the tasks: how each is counted
  (`CountedAs`), the next one (`NextTask`), the impact of a completed one (`Decision`), and
  the dashboard's suggestions. It changes nothing; `Snapshots` are all the readings there
  may be.
- **IssueWorkflow**: the composition, its properties and the fairness.
- **IssueLifecycle**: what the workflow promises, with atomic steps: new, ready, active,
  done, merged, closed. **WorkflowRefinement** maps the commands to it.
- **Seed**: how the issues of a roadmap come to be. `PrepareSeed` (write or reuse the
  manifest), `LoadManifest` (after the bodies and the label preflight), then `CreateIssue`
  and `RecordIssue` for each task without an issue (one call to `gh`, and the whole manifest
  written back), `FinishSeed`; and `StartSync`, `SyncBody`, `SaveSync` for sync-bodies. A
  command works on the copy of the manifest it has loaded and writes that copy back. What
  the bodies show (`shown[n][d]`) is kept apart from the manifest. Creating the issues comes
  before everything in IssueWorkflow, and the two meet in nothing but the manifest's
  mapping, which IssueWorkflow takes for complete; so Seed stands alone.

### The delivery

- **Jobs**: the record of the commands that leave the labels alone (`job[p]`: its name, its
  next step, its issue, what its agent has come to, the file it has read), and how the last
  one ended (`exit[p]`), which only a loop looks at. `Tasks` are the jobs in use, `Manual`
  those that operators start themselves; `MaxCommits` and `MaxCycles` bound the commits of a
  branch and the cycles of a loop.
- **Workspace**: `worktree[i]`, `branch[i]` and `remote[i]` (how many commits), the
  `checkout`. `PlanWorktree`/`AddWorktree`; `PlanCleanup`/`RemoveWorktree`/`DeleteBranch`,
  one git call each, long after the plan; `Sync`; and what people do: `Commit`, `Push`,
  `CheckoutChanges`.
- **Gates**: pure. A text is the set of signs it bears; the operators say what `gate.py`,
  `artifact.py`, `review.py`, `integration.py` and `execution_backend.py` make of it.
- **Execution**: `WritePrompt`, `PlanExecute`, `RunAgent`, `WriteRaw`, `WriteSummary`, then
  `LoadAttempts`/`RecordAttempt` and `LoadBugs`/`RecordBug` on the two ledgers, each of
  which is read and written back as a whole. An execution comes to one of `Results`. The
  files of an issue decide `ArtifactPasses(i)`. `ledger[i]` is the row of failures at the
  end of the delegation ledger, `failures[i]` how many there really were, which no file
  says; `MaxFailures` bounds it. `TextOf` is what the summary of an execution says: it
  quotes the output of the agent, and a field is looked for anywhere in it, so that a
  `broken` execution, whose agent printed the whole template before it failed, has the text
  of a good one. `WriteManualSummary` and `PutRawAside` are a person's.
- **Review**: `PlanReview`, `WriteReviewPrompt`, `RunReviewer`, `WriteReviewSummary`;
  `PlanApproval`, `Approve`; `PlanMerge`, `ReadChecks`, `ReadReviewGate`, `Merge`. The
  review prompt, the opinion, the approval and the merge keep the head they were about
  (`reviewPrompt`, `approved`, `merged`), which the code does not. `ChecksPass`,
  `OpenPullRequest`, `MainPasses`, `ApproveByHand` and `MergeByHand` are GitHub and people;
  a merge by hand asks for neither an approval nor checks.
- **Lifecycle**: `Proposal(i, state)` is the decision table of `lifecycle next`, `Selected`
  that of the scheduler, `TakenOver` what the orchestrator leaves to a person.
- **Orchestrator**: `StartLoop`, `StartRunNext`, `SelectIssue`, `PlanCycle`, `RunCommand`
  (which starts one of the commands above), `RunReadOnly`, `EndCycle`, `InterruptLoop`.
- **Delivery**: the composition. An operator runs one command or job at a time, himself or
  by his loop. `GateOnFiles` takes the place of IssueWorkflow's `EvaluateGateForComplete`:
  the same step, on the files. `NoopIsValidated` puts the summary of a no-op there, and
  `NoopLeavesNothing` is the part of the guard of its integration that looks at the
  worktree and the branch. **DeliveryLiveness** adds the fairness and `Delivered`.

A mutant (a plausible bug) stands in the module next to the definition it replaces, under
the comment "A mutant"; nothing else uses it.

The reads of one plan of a transition, an integration, a merge or a cleanup are one step
where the facts do not disappear (evidence, a finished state, an approval) or are looked at
again by nobody, so that only the distance to the change matters, and that is modelled.
Claims and planner commands, which read many issues, read them one by one; a merge reads
the pull request, the checks and the review gate one after the other, since pushes come
between them.

## The runs

Each operator is a terminal from which one command at a time is run. Two operators are
enough for one command to act between any two steps of another; two issues, one of which
depends on the other, are enough for order; a single issue for what two commands do to
the same issue. `late` and `lost` may happen to every call, and a command may stop
anywhere, unless said otherwise.

| run | instance | shows |
|---|---|---|
| one_operator | 2 issues, 1 operator, all commands of IssueWorkflow but `run --issue` and recover-clear | `OneState`, `GateWhileActive`, `DoneMeansEvidence`, `MergedMeansShipped` (to the letter, as recover-clear is not in use), `CompletedIsFinal`, and that the commands implement `IssueLifecycle` |
| two_operators | 1 issue, 2 operators, every command, every fault | `TypeOK`, `CompletedMeansMerged`, `MergedMeansShipped`, `FinishedStaysFinished` |
| claims_and_clears | 2 issues made by hand, the second depends on the first, and put into a manifest without dependencies, 2 operators; claim, complete, fail, clear; an edit or a close may be lost, a close late; a merge commit does not turn green, as only integrations look at that | `DependenciesFirst`, `RetiredMeansClosed` |
| two_promoters | a seeded roadmap of 2 tasks, the second a side task that needs the first, 2 operators; claim, run, transitions, advance; a view may fail | `RoadmapOrder`, `RoadmapGoesOn`, `ReadyMeansClaimable` |
| one_planner | 3 tasks in a chain, 4 issue numbers, 1 planner; calls fail, commands stop, but what is created is seen and recorded | `NoDuplicates`, `BodiesTellTheTruth`, `MappingKept`, `SeedingCompletes` |
| shared_manifest | 2 tasks, 4 issue numbers, 2 planners, every fault | `TypeOK`, `MappedToOwnIssue`, `AppliedMeansMapped` |
| delivery_loop | 1 issue, 1 operator with loops of 2 cycles, 2 commits, at most 1 failed execution; every failure a loop recovers from; no merges by hand, no no-ops | `DoneWorkPasses`, `NoBlindRetry`, `Delivered` |
| merge_race | 1 issue, 2 operators who ship work done by hand, also as a no-op, 3 commits, no loops; approvals and merges on GitHub as well; reviews are written by hand (no `review execute`); calls late, commands stopped anywhere | `MergesWhatWasReviewed`, `CleanupAfterIntegration`, and that it implements IssueWorkflow |
| execution_race | 1 issue, 2 operators who execute agents on it while they claim, complete and integrate it, up to 3 failures | `LedgersNeverInvent`, and that it implements IssueWorkflow |

Two planners on one manifest can undo what the other has recorded and then create issues
twice: the code has no lock, and the properties of one_planner are not claimed for two.
What holds is that the manifest is never wrong about an issue. There are as many issue
numbers as make one duplicate possible for one planner, and a run stops creating when
they are used up.

The properties of one_operator do not hold for two: two operators can leave
{`state:done`, `state:ready`} on an issue, as the code makes no promise there. What does
hold for any number is in the other runs and in the proofs. `run --issue` ignores
dependencies by design ("bypasses claim planner"), and recover-clear adds `state:merged`
to whatever labels there are: they are left out of the runs whose properties they would
make meaningless, and both are in two_operators.

In the runs of Delivery there is one issue: the jobs of two issues share nothing but the
checkout, the ledgers and the choice of the loop. Three commits let a head be pushed after
the checks of another have passed and a third after the approval; one failure is all a loop
ever sees of an issue, as `NoBlindRetry` says, while execution_race has three, so that two
runners can lose and repeat each other's entries. A loop of two cycles is enough for a
cycle to start from what the one before has left, and as loops are started again and
again, longer ones come to the same. delivery_loop leaves out what no loop recovers from: a
branch without its worktree (`<<"add", "late">>`: `git worktree add` makes the branch
first, and no command removes it) and an issue that was labelled and not closed (the first
finding). It also has neither merges by hand nor no-ops, which are other ways to the end:
a no-op has no branch to deliver. Both are in merge_race, where `Used` has `integrate noop`
and `Manual` has `merge by hand`, and no theorem about Delivery leaves them out.

Three runs end in a violation, each of a statement of the repository:

- stuck_integration: the close that follows the label edit is lost; the issue is open and
  `state:merged` for ever (README: "The loop is resumable via ... status commands").
- duplicate_issue: an issue whose number was not seen is created again by the next seeding
  (docstring in planner.py: "without creating duplicate issues").
- failed_execution: a reviewer that exits with another code than 0 has its work labelled
  `state:done`, because the exit code is never read from a summary (gate.py: "Non-zero exit
  code from reviewer"). gate:ci does not depend on that number, it wants the field
  `**Exit Code:** 0`; but it looks for it anywhere in the summary (`artifact.py:986`), which
  quotes the output of the agent (`runner.py:2370`), so that an agent that prints the
  template and then fails passes it too. No property of a passing run or theorem says that
  done work succeeded; `DoneWorkPasses` says that its files pass the gate.

No run checks deadlock: with nothing left to do, or with commands that find nothing to do,
the system stops. The bounds are the sizes above and `Limit`, the number of issues one
claim takes.

### Fairness

`FairSpec` of IssueWorkflow states what running a loop of commands gives: a running command
goes on (WF per operator: it is a process); an integration that can be planned again and
again is run (SF: between two attempts the operator may be busy with another command,
which disables the plan); and the label edit of an integration that is tried again and
again is not lost for ever (SF). Nothing is assumed of the close: when it may be lost, no
amount of running helps, and stuck_integration shows that.

In Seed, a command that runs goes on or is interrupted (WF per planner); a seeding that is
not applied is run again and again (SF on `PrepareSeed`: syncs come in between); and no step
of it is for ever interrupted or, for the creation of an issue, for ever refused (SF on the
steps and on the creation that gets through, per task). Nothing is assumed of sync-bodies.
`SeedingCompletes` says that running the seeding again is enough.

`Delivered` assumes (DeliveryLiveness):

- `FailuresEnd`: from some time on nothing fails any more. Failures may happen at every
  point before, so the property is about every state they can leave behind.
- `ProcessesGoOn`: a process that runs takes its next step (WF).
- `OperatorsKeepAtIt`: an operator who is free again and again starts the loop, completes
  what can be completed, reviews and approves (SF: he is busy in between). The code leaves
  these to a person: no loop runs complete or a review.
- `ObjectionsEnd`: in the end a review that comes to its end approves.
- `PeopleDoTheirPart`: people put the checkout in order, commit once, push, and open the
  pull request; its checks run and pass; when an execution has not left a summary the gate
  passes, somebody writes one, or puts the raw output of a failure aside (WF).

Nothing is assumed about claims, integrations, merges or cleanups but that loops run what
the lifecycle proposes. That this fairness can be met at every stage was tried by breaking
the code of each: with the lifecycle, the merge or the cleanup refusing, TLC finds a fair
behaviour in which nothing is delivered.

## What is proved

`tlapm` checks, for every set of issues, dependencies, operators, commands in use and
faults (the assumptions on the constants give them their types):

- `TypeCorrect` (IssueWorkflowProofs): `Spec => []TypeOK`.
- `FinishedIsStable` (IssueSafetyProofs): `Spec => FinishedStaysFinished`. No label edit
  removes `state:done` without adding `state:merged`, however old its plan is: a
  transition removes `state:active` and gates, a claim `state:ready`.
- `OnlyMergedWorkIsCompleted` and `OnlyShippedWorkIsMerged` (IssueSafetyProofs):
  `Spec => []CompletedMeansMerged` and `Spec => []MergedMeansShipped`. They are not
  inductive: a command about to close must have labelled, and its plan's evidence must
  still hold. `ShippingInv` adds this for every running command (`ShipsWhatIsDue`).
- `DependenciesComeFirst` (WorkOrderProofs): if `run --issue` is not used and bodies
  can be read, `Spec => []DependenciesFirst`. `OrderInv` adds that the issues a claim has
  picked, and those a transition works on, have finished dependencies; that stays true
  while other commands run because finished is stable. Both assumptions are needed: a
  failed read of a body is taken for a body without dependencies.
- `RoadmapsAreWorkedInOrder` (WorkOrderProofs): if clear is not used,
  `Spec => []RoadmapOrder`. `PromotionInv` adds that what any command is about to work on
  has its needs finished, that an advance has only seen completed what is finished, and
  that nothing is closed as not planned. With clear it fails: a task that a clear closed
  before it failed half way counts as completed for advance.
- `ReadyIssuesMayBeClaimed` (WorkOrderProofs): `Spec => ReadyMeansClaimable`, from
  `PromotionInv` (an advance) and `OrderInv` (a release, which gives back what was claimed
  in order). It assumes that clear is not used; that no issue has dependencies of both
  sorts, as advance looks at one and claims look at the other; and, if there are
  `Depends-On:` lines at all, what `DependenciesComeFirst` assumes, since a release would
  otherwise make ready what was claimed out of order.
- `RetiredRoadmapsAreClosed` (RoadmapProofs): if recover-clear is not used,
  `Spec => []RetiredMeansClosed`. `RetireInv` adds that what a clear has seen completed is
  retired, and that before it writes the archive everything is.
- `RoadmapIsNotForgotten` (RoadmapProofs): if a task only needs tasks of smaller numbers,
  `Spec => []RoadmapGoesOn`. It needs no invariant of the workflow: it holds of every
  reading. The first task that is not completed has all its needs completed, and each way
  it can be read gives the dashboard something to say.

What holds for one operator (`Alone`: any two operators are the same), who does not use
recover-clear, is in OneOperatorProofs, for any number of issues, with commands stopped
anywhere and every call failing in every way:

- `OneStateAtATime`, `GatesAreOnActiveIssues`, `GatedWorkIsDoneOnEvidence`: `OneState`,
  `GateWhileActive` and `DoneMeansEvidence` always hold. None is inductive. `AloneInv`
  takes the three together and adds that what a command remembers is still so when it acts
  (`ActsOnWhatIs`): a claim or a run finds its issues ready, a transition finds them active
  and with the gates it has read, and behind the gate of complete with a summary that
  passes, an integration finds them done and then merged, and an advance finds its tasks
  open and without a label.
- `CompletedIssuesAreLeftAlone`: `Spec => CompletedIsFinal`, from `AloneInv` and
  `CompletedMeansMerged`: a command that moves an issue finds a label on it that a completed
  issue cannot have.
- `WorkflowImplementsLifecycle`: if `run --issue` is not used and issues can be read,
  `Spec => ImplementsLifecycle`. Each label edit is shown to be one move of `IssueLifecycle`
  (`EditsImplement`), each close its `CloseIssue`, and every other step of a command a
  stutter. `AloneInv` gives the phase a move starts from, `OrderInv` the finished
  dependencies of a claim, `ShippingInv` what an integration needs. The two assumptions are
  needed: `run --issue` claims what is closed or waits for others, and an integration that
  cannot read the state of the issue takes it for open.

Of Delivery, in DeliveryProofs, if complete and integrate are among the commands in use and
a command may be stopped (`Delivers`). A fault only ever allows more steps, so that what
holds with this one also holds where it does not occur, as in delivery_loop:

- `DeliveryTypeCorrect`: `DeliverySpec => []DeliveryTypeOK`. What a job has found must be
  of the kind its next step writes down (`JobsInOrder`), and a pull request is only open
  while its branch has a head on GitHub (`HeadsExist`).
- `DeliveryImplementsIssueWorkflow`: `DeliverySpec => ImplementsWorkflow`, which is
  IssueWorkflow's `Spec` with the same variables. `DeliveryInv` adds to the types
  `FilesAgree`: when the files of an issue pass its gate now, IssueWorkflow knows that they
  have passed. A gate that turns an issue away, which IssueWorkflow cannot see coming once
  the summary has passed before, is to it a command that stops. Everything proved of
  IssueWorkflow so holds of Delivery.
- `OnlyReviewedWorkIsMerged`: `DeliverySpec => MergesWhatWasReviewed`. `ReviewedInv`
  adds that a merge that has passed its reads has seen an approval and checks that passed
  (`MergesWhatIsReviewed`); neither is ever taken back, and a pull request that others
  merge meanwhile is not merged again. It is about the call of `merge apply`: that an issue
  is only completed with an approval is not so, see "What else was seen".
- `CleanupIsLast`: without clear, `DeliverySpec => CleanupAfterIntegration`. Added is that
  who runs a cleanup does so after an issue that is merged and completed; that this stays so
  comes from `PromotionInv`, through the refinement. With clear the reason of the close may
  be another one.
- `NothingIsInvented`: `DeliverySpec => []LedgersNeverInvent`, for any number of runners.
  `LedgersInv` says that each ledger, and each copy that is about to become one, leaves
  room for the failures that are still to be recorded there: its row and the number of
  executions in progress that have failed (`Unrecorded`, `Unreported`) make no more than
  the failures there were. That a copy is old only makes the room larger.

And with one operator, and the loops he starts, in OneOperatorDeliveryProofs. Both rest on
`OneThingAtATime`: he runs a job or a command, and neither while his loop makes up its mind.

- `DoneWorkStillPasses`: without recover-clear, `DeliverySpec => []DoneWorkPasses`, for
  gate:ci, gate:review and gate:human alike. The danger is a second execution, which
  overwrites raw output and summary in separate steps, after the gate has looked at those
  of the first. `PassInv` adds that an execution finds its issue active
  (`ExecutesWhatIsActive`) and that a completion behind the gate finds files that pass
  (`CompletesWhatPasses`); the labels it needs come from `AloneInv`, through the
  refinement. That people write and put aside files at any time does no harm, as what they
  write is taken to pass.
- `NothingIsRetriedBlindly`: if every issue is a worker's (`OnlyWorkers`),
  `DeliverySpec => []NoBlindRetry`, for any threshold of the circuit. `RetryInv` adds that
  every failure in the ledger, in a copy of it or about to be entered has left a summary. A
  loop only decides on an execution where it sees none. The summary of a reviewer or planner
  has a name the lifecycle does not look for, so that nothing is said about those.

And of Seed, for every task graph, in SeedProofs:

- `SeedTypeCorrect`: `Spec => []TypeOK`.
- `MappingsAreTrue` and `AppliedIsComplete`: `Spec => []MappedToOwnIssue` and
  `Spec => []AppliedMeansMapped`, for any number of planners and every fault. `CopyInv` says
  the same of every copy a command holds, as any of them may become the manifest.
- `OnePlannerTellsTheTruth` and `OnePlannerKeepsTheMapping`: with one planner, and every
  fault, `Spec => []BodiesTellTheTruth` and `Spec => MappingKept`. `CopyIsManifestInv` adds to
  `CopyInv` that the copy of a running command maps as the manifest does, and that the
  bodies show nothing the manifest does not say.
- `OnePlannerCreatesOnce`: with one planner, when no created issue goes unseen or unrecorded,
  `Spec => []NoDuplicates`. `SoloInv` adds that every issue is in the manifest or about to be
  recorded. The assumption on faults is needed: duplicate_issue shows it.

The inductive invariants `AloneInv`, `PassInv`, `RetryInv`, `CopyIsManifestInv` and their
parts stand with the properties in IssueWorkflow, Delivery and Seed, those of any number of
operators next to their proofs or in IssueWorkflow.

Only model-checked: `SeedingCompletes`, `Delivered`, and the violation of
`IntegrationResumes`, which are about liveness under fairness and so out of the prover's
reach. The operators of Gates, Planning and Lifecycle are not recursive; what they return is
used by the proofs only as far as the theorems need it.

## What else was seen

Met while modelling, and followed in the model:

- complete reads the gate labels a second time; an issue that another operator has released
  between the two reads has none, and passes without evidence (gate.py:1473). With one
  operator it cannot happen, and `DoneMeansEvidence` is claimed for one.
- an unreadable body counts as one without dependencies (claim.py:154).
- a task closed by a clear that failed half way counts as completed for advance
  (planner.py:2862).
- `git worktree add` may leave a branch, with which the lifecycle proposes the worktree for
  ever and the command refuses it (worktree.py:351).
- pr plan and review plan are proposed by the lifecycle and only print what there is to
  do, so that a loop spins on them until its cycles are used up; reviewing, approving and
  complete are left to a person.
- an approval is only asked for by `merge apply`. Integration looks at the merge and the CI
  of its commit (integration.py:255), so that a pull request merged on GitHub without an
  approval is completed all the same, and a validated no-op is completed without a pull
  request at all (integration.py:959).
- the fields of a worker summary are looked for anywhere in it, the quoted output of the
  agent included (artifact.py:986).
- the lifecycle counts any approving review, the merge wants GitHub's decision or one of
  somebody who is not the author; the model has only approvals that count for both.
- the preflight of the lifecycle for a checkout that is behind never finds it
  (lifecycle.py:823; `LooksBehind`), and sync apply reports failure when it has succeeded
  (cli.py:3777).
- the raw output of a failed execution keeps speaking against the summary a person writes
  after it (artifact.py:958), until it is put aside.
- the staleness check of the orchestrator looks at a file that is never written
  (orchestrator.py:1914), and run-next prefers a ready issue whose command is refused to an
  active one.
- a merge proposed by a loop carries no overrides, so that pull requests of medium size or
  risk are refused each time; a source with four tasks or more that wait for it is never
  advanced without a person (`requires_reconcile`).

## Not modelled

- Texts: comments, formatting, prompts, budgets, the recognition of a sign in a line of an
  artifact (a text is the set of signs it bears), titles, milestones.
- Draft, regenerate, validate, mark and the side-task plan of the planner: they build or
  check texts, or edit a field that no modelled command reads.
- Review plan, request-changes, size and risk classes and the overrides of a merge; linkage
  of a pull request by branch name and body (it is linked to its issue); a pull request that
  is closed without a merge.
- The run over several issues, dry runs, and the smoke tests of the orchestrator; the
  preflight and diagnostics of OpenClaw (they are an execution that fails).
- Labels ensure (a missing label is a command that stops); recover-clear on the active
  manifest; a manifest or ledger file that is half written; the body files on disk.
- What people write into a summary or a review is taken to say what the gate looks for, and
  whether it is true is outside the model. The lifecycle's own look at the summary of a no-op
  (lifecycle.py:296) is taken to agree with the gate of its integration.
- Issues that a person relabels, closes or reopens by hand while commands run.
- Status, doctor, reports, roles, the issue factory: read-only, or static text.
