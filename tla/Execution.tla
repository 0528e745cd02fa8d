----------------------------- MODULE Execution -----------------------------
(***************************************************************************)
(* Executing the work on an issue: `run --issue N --write-prompt`,         *)
(* `run --issue N --execute`, and the files they leave: the prompt, the    *)
(* raw output, the summary, the delegation ledger and the bug ledger.      *)
(* Nothing marks an execution as running, and every file is read and       *)
(* written as a whole.  The agent is external.                             *)
(***************************************************************************)
EXTENDS Workspace, Gates

CONSTANTS
  Threshold,    \* the failures in a row after which nothing more is delegated
  MaxFailures   \* how many executions of an issue may fail

ASSUME ThresholdAssumption == Threshold \in Nat \ {0}
ASSUME MaxFailuresAssumption == MaxFailures \in Nat

VARIABLES
  prompt,     \* prompt[i]: the prompt of i is written
  raw,        \* raw[i]: none, safe, or unsafe when it names a provider failure
  artifact,   \* artifact[i]: none, what the execution came to that wrote the summary, or
              \*              manual, written by a person
  ledger,     \* ledger[i]: the failures in a row at the end of the delegation ledger
  bugs,       \* bugs[i]: the entries on i in the bug ledger
  failures    \* failures[i]: how many executions of i have failed, which no file says

execution == <<prompt, raw, artifact, ledger, bugs, failures>>

ExecutionTypeOK ==
  /\ prompt \in [Issues -> BOOLEAN]
  /\ raw \in [Issues -> {"none", "safe", "unsafe"}]
  /\ artifact \in [Issues -> Results \cup {"none", "manual"}]
  /\ ledger \in [Issues -> Nat]
  /\ bugs \in [Issues -> Nat]
  /\ failures \in [Issues -> 0..MaxFailures]

ExecutionInit ==
  /\ prompt = [i \in Issues |-> FALSE]
  /\ raw = [i \in Issues |-> "none"]
  /\ artifact = [i \in Issues |-> "none"]
  /\ ledger = [i \in Issues |-> 0]
  /\ bugs = [i \in Issues |-> 0]
  /\ failures = [i \in Issues |-> 0]

(***************************************************************************)
(* What the gates make of the files.                                       *)
(***************************************************************************)
\* What a person fills in says all the gates look for.
ManualText == Assurances \ {"docs only", "no change"}

\* What the summary of an execution, or of a person, says.  It quotes the output of the
\* agent, and signs are looked for in all of it: an agent that fails after it has printed
\* that it exits with 0, and all the rest, says so in the summary.
TextOf(result) ==
  CASE result = "manual" -> ManualText
    [] result \in {"good", "broken"} -> Assurances \ {"docs only", "no change"}
    [] result = "vague"  -> {"exit 0", "clean"}
    [] result = "unsafe" -> {"clean", "failover"}
    [] result = "failed" -> {"clean", "failure"}
    [] OTHER -> {}

Summary(i) == TextOf(artifact[i])
Output(i) == IF raw[i] = "unsafe" THEN {"failover"} ELSE {}

\* A failure signal in the raw output counts against the summary, whoever wrote it.
WorkerArtifactValid(i) ==
  HasWorkerFields(Summary(i)) /\ ~Failover(Summary(i)) /\ ~Failover(Output(i))

\* The gates look at the summary and at the raw output next to it.
Artifact(i) == Summary(i) \cup Output(i)

ArtifactPasses(i) ==
  CASE ProposedGate(i) = {"gate:ci"}     -> WorkerArtifactValid(i) /\ CiGatePasses(Artifact(i))
    [] ProposedGate(i) = {"gate:review"} -> ReviewGatePhrases(Artifact(i))
    [] ProposedGate(i) = {"gate:human"}  -> HumanGatePasses(Artifact(i))
    [] OTHER                             -> FALSE

\* When the files of i pass for the first time, IssueWorkflow has its evidence.
SummaryFollows ==
  summary' = [i \in Issues |-> summary[i] \/ (ArtifactPasses(i))']

\* A change of the files of an issue, and of nothing the tracker has.
FilesChange ==
  /\ SummaryFollows
  /\ UNCHANGED <<labels, issueState, pr, noopGate, command, manifest, workspace>>

(***************************************************************************)
(* run --issue N.                                                          *)
(***************************************************************************)
\* The profile that executes i; what is not routed falls to the worker.
Profile(i) ==
  CASE Kind[i] = "review" -> "reviewer"
    [] Kind[i] = "plan"   -> "planner"
    [] OTHER              -> "worker"

\* The state of the issue does not matter to --write-prompt.
WritePrompt(p, i) ==
  /\ MayTake(p, "write prompt")
  /\ prompt' = [prompt EXCEPT ![i] = TRUE]
  /\ Done(p)
  /\ IssueWorkflowUnchanged
  /\ UNCHANGED <<workspace, raw, artifact, ledger, bugs, failures>>

\* A worker is executed in the worktree of its issue, since the main checkout is on a
\* protected branch; what is not committed there must not be mixed up with its work.
\* Another profile is executed in the main checkout, whatever that looks like.
MutationAllowed(i) == Profile(i) = "worker" => worktree[i] # "none"
NothingUncommitted(i) == Profile(i) = "worker" => worktree[i] # "dirty"

ExecuteReady(i) ==
  /\ "state:active" \in Observed(i)
  /\ prompt[i]
  /\ MutationAllowed(i) /\ NothingUncommitted(i)

PlanExecute(p, i) ==
  /\ MayTake(p, "execute")
  /\ ExecuteReady(i)
  /\ Take(p, "execute", "agent", i)
  /\ IssueWorkflowUnchanged /\ UNCHANGED <<workspace, execution>>

\* What the agent leaves in the worktree: its changes, committed or not, or none.
AgentWorks(i) ==
  IF Profile(i) = "worker" /\ worktree[i] # "none"
  THEN \/ UNCHANGED <<worktree, branch>>
       \/ worktree' = [worktree EXCEPT ![i] = "dirty"] /\ UNCHANGED branch
       \/ /\ branch[i] \in 1..(MaxCommits - 1)
          /\ branch' = [branch EXCEPT ![i] = @ + 1]
          /\ UNCHANGED worktree
  ELSE UNCHANGED <<worktree, branch>>

\* The agent has run, has failed or has timed out, which is diagnosed from its exit code
\* and its output.  It cannot be started in a worktree that is gone by now.
RunAgent(p) ==
  /\ At(p, "execute", "agent")
  /\ \E i \in job[p].of, found \in Results :
       /\ found \in Failures => failures[i] < MaxFailures
       /\ Profile(i) = "worker" /\ worktree[i] = "none" => found = "failed"
       /\ AgentWorks(i)
       /\ failures' = IF found \in Failures THEN [failures EXCEPT ![i] = @ + 1] ELSE failures
       /\ Finding(p, "raw", found)
  /\ IssueWorkflowUnchanged
  /\ UNCHANGED <<remote, checkout, prompt, raw, artifact, ledger, bugs>>

WriteRaw(p) ==
  /\ At(p, "execute", "raw")
  /\ \E i \in job[p].of :
       raw' = [raw EXCEPT ![i] = IF job[p].found = "unsafe" THEN "unsafe" ELSE "safe"]
  /\ Proceed(p, "summary")
  /\ UNCHANGED <<prompt, artifact, ledger, bugs, failures>> /\ FilesChange

\* The summary has the same name however the execution ended: a failure takes the place
\* of an earlier success.
WriteSummary(p) ==
  /\ At(p, "execute", "summary")
  /\ \E i \in job[p].of : artifact' = [artifact EXCEPT ![i] = job[p].found]
  /\ Proceed(p, "attempt")
  /\ UNCHANGED <<prompt, raw, ledger, bugs, failures>> /\ FilesChange

(***************************************************************************)
(* The ledgers: loaded, appended to and written back in one go.            *)
(***************************************************************************)
Delegating(p, step) == job[p].name \in {"execute", "review"} /\ job[p].step = step

LoadAttempts(p) ==
  /\ Delegating(p, "attempt")
  /\ Reading(p, "record attempt", ledger)
  /\ IssueWorkflowUnchanged /\ UNCHANGED <<workspace, execution>>

\* The copy with one entry more, which ends a row of failures or adds to it.  An attempt
\* at a review is an entry about the pull request.
Appended(p, ends) ==
  [i \in Issues |->
     IF i \notin job[p].of \/ job[p].name = "review" THEN job[p].copy[i]
     ELSE IF ends THEN 0 ELSE job[p].copy[i] + 1]

\* A mutant: a success is counted as well.
RecordAnyAttempt(p) ==
  /\ Delegating(p, "record attempt")
  /\ ledger' = Appended(p, FALSE)
  /\ IF job[p].found \in Failures THEN Proceed(p, "bug") ELSE EndJob(p, "applied")
  /\ IssueWorkflowUnchanged
  /\ UNCHANGED <<workspace, prompt, raw, artifact, bugs, failures>>

\* What the ledger then says of an issue are its failures since its last success.
RecordAttempt(p) ==
  /\ Delegating(p, "record attempt")
  /\ ledger' = Appended(p, job[p].found \notin Failures)
  /\ IF job[p].found \in Failures THEN Proceed(p, "bug") ELSE EndJob(p, "applied")
  /\ IssueWorkflowUnchanged
  /\ UNCHANGED <<workspace, prompt, raw, artifact, bugs, failures>>

\* What a failure may be diagnosed as.
Diagnoses(found) ==
  {ExecutionStatus(ended, TextOf(found) \cup named) :
     ended \in {"exited", "timed out"},
     named \in {{}, {"credentials"}, {"model"}, {"idle"}, {"drift"}}}

\* Not every failure is one for the bug ledger.
LoadBugs(p) ==
  /\ Delegating(p, "bug")
  /\ \E status \in Diagnoses(job[p].found) :
       IF status \in RuntimeBugStatuses THEN Reading(p, "record bug", bugs)
       ELSE EndJob(p, "failed")
  /\ IssueWorkflowUnchanged /\ UNCHANGED <<workspace, execution>>

RecordBug(p) ==
  /\ Delegating(p, "record bug")
  /\ bugs' = Appended(p, FALSE)
  /\ EndJob(p, "failed")
  /\ IssueWorkflowUnchanged
  /\ UNCHANGED <<workspace, prompt, raw, artifact, ledger, failures>>

\* The circuit: an operator's loop delegates no more; `run` itself does not ask.
CircuitOpen(i) == ledger[i] >= Threshold

(***************************************************************************)
(* What people do with the files: `artifact worker-summary --apply` writes *)
(* the summary, and the raw output of a failure is put aside.              *)
(***************************************************************************)
WriteManualSummary(i) ==
  /\ artifact[i] # "manual"
  /\ artifact' = [artifact EXCEPT ![i] = "manual"]
  /\ UNCHANGED <<jobs, prompt, raw, ledger, bugs, failures>> /\ FilesChange

PutRawAside(i) ==
  /\ raw[i] = "unsafe"
  /\ raw' = [raw EXCEPT ![i] = "none"]
  /\ UNCHANGED <<jobs, prompt, artifact, ledger, bugs, failures>> /\ FilesChange

ExecutionStep(p) ==
  \/ \E i \in Issues : WritePrompt(p, i) \/ PlanExecute(p, i)
  \/ RunAgent(p) \/ WriteRaw(p) \/ WriteSummary(p)
  \/ LoadAttempts(p) \/ RecordAttempt(p) \/ LoadBugs(p) \/ RecordBug(p)
=============================================================================
