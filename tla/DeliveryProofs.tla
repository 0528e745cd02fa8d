--------------------------- MODULE DeliveryProofs ---------------------------
(***************************************************************************)
(* Proofs about Delivery, for any number of issues, operators and loops,   *)
(* every job and every failure.  What IssueWorkflow takes as given, that   *)
(* evidence turns up once and stays, is here the work of executions,       *)
(* people and merges, whose files replace each other: the proof that every *)
(* step is a step of IssueWorkflow carries its theorems over.              *)
(***************************************************************************)
EXTENDS Delivery, WorkOrderProofs, FiniteSetTheorems

-----------------------------------------------------------------------------
(* The record of a job.                                                    *)

\* What the bookkeeping of a job leaves well typed.
LEMMA JobWrites ==
  ASSUME JobTypeOK, NEW p \in Operators
  PROVE
    /\ \A name \in JobNames, step \in JobSteps, i \in Issues :
         Take(p, name, step, i) => JobTypeOK'
    /\ \A step \in JobSteps : Proceed(p, step) => JobTypeOK'
    /\ \A step \in JobSteps, file \in [Issues -> Nat] : Reading(p, step, file) => JobTypeOK'
    /\ \A step \in JobSteps, found \in Results \cup Verdicts :
         Finding(p, step, found) => JobTypeOK'
    /\ \A how \in {"applied", "failed"} : EndJob(p, how) => JobTypeOK'
    /\ Done(p) => JobTypeOK'
<1> USE DEF JobTypeOK
<1>0. /\ job[p] \in Job /\ NothingCopied \in [Issues -> Nat]
      /\ NoJob \in Job
  BY DEF NothingCopied, NoJob, Job, JobSteps
<1>1. ASSUME NEW name \in JobNames, NEW step \in JobSteps, NEW i \in Issues,
             Take(p, name, step, i)
      PROVE  JobTypeOK'
  <2>1. [name |-> name, step |-> step, of |-> {i}, found |-> "nothing",
         copy |-> NothingCopied] \in Job
    BY <1>0 DEF Job
  <2>2. QED
    BY <1>1, <2>1 DEF Take
<1>2. ASSUME NEW step \in JobSteps, Proceed(p, step) PROVE JobTypeOK'
  <2>1. [job[p] EXCEPT !.step = step] \in Job
    BY <1>0 DEF Job
  <2>2. job' = [job EXCEPT ![p] = [job[p] EXCEPT !.step = step]]
    BY <1>2 DEF Proceed
  <2>3. QED
    BY <1>2, <2>1, <2>2 DEF Proceed
<1>3. ASSUME NEW step \in JobSteps, NEW file \in [Issues -> Nat], Reading(p, step, file)
      PROVE  JobTypeOK'
  <2>1. [job[p] EXCEPT !.step = step, !.copy = file] \in Job
    BY <1>0 DEF Job
  <2>2. job' = [job EXCEPT ![p] = [job[p] EXCEPT !.step = step, !.copy = file]]
    BY <1>3 DEF Reading
  <2>3. QED
    BY <1>3, <2>1, <2>2 DEF Reading
<1>4. ASSUME NEW step \in JobSteps, NEW found \in Results \cup Verdicts,
             Finding(p, step, found)
      PROVE  JobTypeOK'
  <2>1. [job[p] EXCEPT !.step = step, !.found = found] \in Job
    BY <1>0 DEF Job
  <2>2. job' = [job EXCEPT ![p] = [job[p] EXCEPT !.step = step, !.found = found]]
    BY <1>4 DEF Finding
  <2>3. QED
    BY <1>4, <2>1, <2>2 DEF Finding
<1>5. ASSUME NEW how \in {"applied", "failed"}, EndJob(p, how) PROVE JobTypeOK'
  BY <1>0, <1>5 DEF EndJob
<1>6. ASSUME Done(p) PROVE JobTypeOK'
  BY <1>6 DEF Done
<1>7. QED
  BY <1>1, <1>2, <1>3, <1>4, <1>5, <1>6

\* What the bookkeeping of a job makes of its record, and of those of the others.
LEMMA JobBookkeeping ==
  ASSUME JobTypeOK, NEW p \in Operators
  PROVE
    /\ \A name, step, i : Take(p, name, step, i) =>
         /\ job'[p].name = name /\ job'[p].step = step /\ job'[p].of = {i}
         /\ \A q \in Operators \ {p} : job'[q] = job[q]
    /\ \A step : Proceed(p, step) =>
         /\ job'[p].name = job[p].name /\ job'[p].step = step
         /\ job'[p].of = job[p].of /\ job'[p].found = job[p].found
         /\ job'[p].copy = job[p].copy
         /\ \A q \in Operators \ {p} : job'[q] = job[q]
    /\ \A step, file : Reading(p, step, file) =>
         /\ job'[p].name = job[p].name /\ job'[p].step = step
         /\ job'[p].of = job[p].of /\ job'[p].found = job[p].found
         /\ job'[p].copy = file
         /\ \A q \in Operators \ {p} : job'[q] = job[q]
    /\ \A step, found : Finding(p, step, found) =>
         /\ job'[p].name = job[p].name /\ job'[p].step = step
         /\ job'[p].of = job[p].of /\ job'[p].found = found
         /\ \A q \in Operators \ {p} : job'[q] = job[q]
    /\ \A how : EndJob(p, how) =>
         /\ job'[p] = NoJob
         /\ \A q \in Operators \ {p} : job'[q] = job[q]
<1>1. job \in [Operators -> Job] /\ job[p] \in Job
  BY DEF JobTypeOK
<1>2. \A next : job' = [job EXCEPT ![p] = next] =>
        job'[p] = next /\ \A q \in Operators \ {p} : job'[q] = job[q]
  BY <1>1
<1>3. \A step : Proceed(p, step) =>
        job' = [job EXCEPT ![p] = [job[p] EXCEPT !.step = step]]
  BY DEF Proceed
<1>4. \A step, file : Reading(p, step, file) =>
        job' = [job EXCEPT ![p] = [job[p] EXCEPT !.step = step, !.copy = file]]
  BY DEF Reading
<1>5. \A step, found : Finding(p, step, found) =>
        job' = [job EXCEPT ![p] = [job[p] EXCEPT !.step = step, !.found = found]]
  BY DEF Finding
<1>6. ASSUME NEW name, NEW step, NEW i, Take(p, name, step, i)
      PROVE  /\ job'[p].name = name /\ job'[p].step = step /\ job'[p].of = {i}
             /\ \A q \in Operators \ {p} : job'[q] = job[q]
  BY <1>2, <1>6 DEF Take
<1>7. ASSUME NEW step, Proceed(p, step)
      PROVE  /\ job'[p].name = job[p].name /\ job'[p].step = step
             /\ job'[p].of = job[p].of /\ job'[p].found = job[p].found
             /\ job'[p].copy = job[p].copy
             /\ \A q \in Operators \ {p} : job'[q] = job[q]
  <2>1. job'[p] = [job[p] EXCEPT !.step = step]
    BY <1>2, <1>3, <1>7
  <2>2. QED
    BY <1>1, <1>2, <1>3, <1>7, <2>1 DEF Job
<1>8. ASSUME NEW step, NEW file, Reading(p, step, file)
      PROVE  /\ job'[p].name = job[p].name /\ job'[p].step = step
             /\ job'[p].of = job[p].of /\ job'[p].found = job[p].found
             /\ job'[p].copy = file
             /\ \A q \in Operators \ {p} : job'[q] = job[q]
  <2>1. job'[p] = [job[p] EXCEPT !.step = step, !.copy = file]
    BY <1>2, <1>4, <1>8
  <2>2. QED
    BY <1>1, <1>2, <1>4, <1>8, <2>1 DEF Job
<1>9. ASSUME NEW step, NEW found, Finding(p, step, found)
      PROVE  /\ job'[p].name = job[p].name /\ job'[p].step = step
             /\ job'[p].of = job[p].of /\ job'[p].found = found
             /\ \A q \in Operators \ {p} : job'[q] = job[q]
  <2>1. job'[p] = [job[p] EXCEPT !.step = step, !.found = found]
    BY <1>2, <1>5, <1>9
  <2>2. QED
    BY <1>1, <1>2, <1>5, <1>9, <2>1 DEF Job
<1>10. ASSUME NEW how, EndJob(p, how)
       PROVE  job'[p] = NoJob /\ \A q \in Operators \ {p} : job'[q] = job[q]
  BY <1>2, <1>10 DEF EndJob
<1>11. QED
  BY <1>6, <1>7, <1>8, <1>9, <1>10

-----------------------------------------------------------------------------
(* Type correctness.                                                       *)

\* What a job has found is of the kind its next steps write down.
FindsWhatItMay(p) ==
  /\ At(p, "execute", "raw") \/ At(p, "execute", "summary") => job[p].found \in Results
  /\ At(p, "review", "summary") => job[p].found \in ReviewOutcomes

\* What only Delivery has.
AddedTypeOK == JobTypeOK /\ WorkspaceTypeOK /\ ExecutionTypeOK /\ ReviewTypeOK

JobsInOrder == \A p \in Operators : FindsWhatItMay(p)

LEMMA NothingAddedChanges ==
  ASSUME AddedTypeOK, JobsInOrder, UNCHANGED <<jobs, workspace, execution, review>>
  PROVE  AddedTypeOK' /\ JobsInOrder'
<1>1. JobTypeOK' /\ JobsInOrder'
  BY DEF AddedTypeOK, JobTypeOK, JobsInOrder, FindsWhatItMay, At, jobs
<1>2. WorkspaceTypeOK' /\ ReviewTypeOK' /\ ExecutionTypeOK'
  BY DEF AddedTypeOK, WorkspaceTypeOK, workspace, ReviewTypeOK, review, ExecutionTypeOK,
         execution
<1>3. QED
  BY <1>1, <1>2 DEF AddedTypeOK

LEMMA WorkspaceTyped ==
  ASSUME AddedTypeOK, JobsInOrder, NEW p \in Operators, WorkspaceStep(p),
         UNCHANGED <<execution, review>>
  PROVE  AddedTypeOK' /\ JobsInOrder'
<1>0. JobTypeOK /\ WorkspaceTypeOK /\ job[p].of \subseteq Issues /\ \A i \in Issues : {i} \subseteq Issues
  BY DEF AddedTypeOK, JobTypeOK, Job
<1>a. ExecutionTypeOK' /\ ReviewTypeOK'
  BY DEF AddedTypeOK, ExecutionTypeOK, ReviewTypeOK, execution, review
<1>b. ASSUME job'[p].name \in {"create worktree", "cleanup", "none"},
             \A q \in Operators \ {p} : job'[q] = job[q]
      PROVE  JobsInOrder'
  BY <1>b DEF JobsInOrder, FindsWhatItMay, At
<1>c. NoJob.name = "none"
  BY DEF NoJob
<1>1. CASE \E i \in Issues : PlanWorktree(p, i) \/ PlanCleanup(p, i)
  <2>1. PICK i \in Issues, name \in {"create worktree", "cleanup"},
             step \in {"add", "remove", "branch"} : Take(p, name, step, i)
    BY <1>1 DEF PlanWorktree, PlanCleanup
  <2>2. JobTypeOK'
    BY <1>0, <2>1, JobWrites DEF JobNames, JobSteps
  <2>3. JobsInOrder'
    BY <1>0, <1>b, <2>1, JobBookkeeping
  <2>4. WorkspaceTypeOK'
    BY <1>0, <1>1 DEF PlanWorktree, PlanCleanup, WorkspaceTypeOK, workspace
  <2>5. QED
    BY <1>a, <2>2, <2>3, <2>4 DEF AddedTypeOK
<1>2. CASE AddWorktree(p)
  <2>1. PICK how \in {"applied", "failed"} : EndJob(p, how)
    BY <1>2 DEF AddWorktree
  <2>2. JobTypeOK' /\ JobsInOrder'
    <3>1. JobTypeOK'
      BY <1>0, <2>1, JobWrites
    <3>2. QED
      BY <1>0, <1>b, <1>c, <2>1, <3>1, JobBookkeeping
  <2>3. WorkspaceTypeOK'
    <3>1. PICK i \in Issues :
            /\ branch' \in {branch, [branch EXCEPT ![i] = 1]}
            /\ worktree' \in {worktree, [worktree EXCEPT ![i] = "clean"]}
      BY <1>0, <1>2 DEF AddWorktree
    <3>2. 1 \in 0..MaxCommits
      BY MaxCommitsAssumption
    <3>3. QED
      BY <1>0, <1>2, <3>1, <3>2 DEF AddWorktree, WorkspaceTypeOK
  <2>4. QED
    BY <1>a, <2>2, <2>3 DEF AddedTypeOK
<1>3. CASE RemoveWorktree(p)
  <2>1. EndJob(p, "failed") \/ Proceed(p, "branch")
    BY <1>3 DEF RemoveWorktree
  <2>2. JobTypeOK'
    BY <1>0, <2>1, JobWrites DEF JobSteps
  <2>3. JobsInOrder'
    BY <1>0, <1>3, <1>b, <1>c, <2>1, JobBookkeeping DEF RemoveWorktree, At
  <2>4. WorkspaceTypeOK'
    BY <1>0, <1>3 DEF RemoveWorktree, WorkspaceTypeOK
  <2>5. QED
    BY <1>a, <2>2, <2>3, <2>4 DEF AddedTypeOK
<1>4. CASE DeleteBranch(p)
  <2>1. PICK how \in {"applied", "failed"} : EndJob(p, how)
    BY <1>4 DEF DeleteBranch
  <2>2. JobTypeOK' /\ JobsInOrder'
    <3>1. JobTypeOK'
      BY <1>0, <2>1, JobWrites
    <3>2. QED
      BY <1>0, <1>b, <1>c, <2>1, <3>1, JobBookkeeping
  <2>3. WorkspaceTypeOK'
    <3>1. PICK i \in Issues : branch' \in {branch, [branch EXCEPT ![i] = 0]}
      BY <1>0, <1>4 DEF DeleteBranch
    <3>2. 0 \in 0..MaxCommits
      BY MaxCommitsAssumption
    <3>3. QED
      BY <1>0, <1>4, <3>1, <3>2 DEF DeleteBranch, WorkspaceTypeOK
  <2>4. QED
    BY <1>a, <2>2, <2>3 DEF AddedTypeOK
<1>5. QED
  BY <1>1, <1>2, <1>3, <1>4 DEF WorkspaceStep

LEMMA ExecutionTyped ==
  ASSUME AddedTypeOK, JobsInOrder, NEW p \in Operators, ExecutionStep(p), UNCHANGED review
  PROVE  AddedTypeOK' /\ JobsInOrder'
<1>0. /\ JobTypeOK /\ WorkspaceTypeOK /\ ExecutionTypeOK
      /\ job[p] \in Job /\ job[p].of \subseteq Issues /\ job[p].copy \in [Issues -> Nat]
  BY DEF AddedTypeOK, JobTypeOK, Job
<1>a. ReviewTypeOK'
  BY DEF AddedTypeOK, ReviewTypeOK, review
<1>b. ASSUME job'[p].name \in {"execute", "review", "none"},
             job'[p].step \notin {"raw", "summary"},
             \A q \in Operators \ {p} : job'[q] = job[q]
      PROVE  JobsInOrder'
  BY <1>b DEF JobsInOrder, FindsWhatItMay, At
<1>c. NoJob.name = "none" /\ NoJob.step = "idle"
  BY DEF NoJob
<1>d. UNCHANGED workspace => WorkspaceTypeOK'
  BY <1>0 DEF WorkspaceTypeOK, workspace
<1>e. UNCHANGED execution => ExecutionTypeOK'
  BY <1>0 DEF ExecutionTypeOK, execution
<1>f. \A i \in Issues : {i} \subseteq Issues
  OBVIOUS
<1>1. ASSUME NEW i \in Issues, WritePrompt(p, i) PROVE AddedTypeOK' /\ JobsInOrder'
  <2>1. Done(p)
    BY <1>1 DEF WritePrompt
  <2>2. JobTypeOK' /\ JobsInOrder'
    BY <1>0, <2>1, JobWrites DEF Done, JobsInOrder, FindsWhatItMay, At
  <2>3. ExecutionTypeOK'
    BY <1>0, <1>1 DEF WritePrompt, ExecutionTypeOK
  <2>4. WorkspaceTypeOK'
    BY <1>1, <1>d DEF WritePrompt
  <2>5. QED
    BY <1>a, <2>2, <2>3, <2>4 DEF AddedTypeOK
<1>2. ASSUME NEW i \in Issues, PlanExecute(p, i) PROVE AddedTypeOK' /\ JobsInOrder'
  <2>1. Take(p, "execute", "agent", i)
    BY <1>2 DEF PlanExecute
  <2>2. JobTypeOK'
    BY <1>0, <2>1, JobWrites DEF JobNames, JobSteps
  <2>3. JobsInOrder'
    BY <1>0, <1>b, <2>1, JobBookkeeping
  <2>4. ExecutionTypeOK' /\ WorkspaceTypeOK'
    BY <1>2, <1>d, <1>e DEF PlanExecute
  <2>5. QED
    BY <1>a, <2>2, <2>3, <2>4 DEF AddedTypeOK
<1>3. CASE RunAgent(p)
  <2>1. PICK i \in Issues, found \in Results :
          /\ found \in Failures => failures[i] < MaxFailures
          /\ AgentWorks(i)
          /\ failures' = IF found \in Failures THEN [failures EXCEPT ![i] = @ + 1]
                         ELSE failures
          /\ Finding(p, "raw", found)
    BY <1>0, <1>3 DEF RunAgent
  <2>2. JobTypeOK'
    BY <1>0, <2>1, JobWrites DEF JobSteps
  <2>3. /\ job'[p].name = "execute" /\ job'[p].found \in Results
        /\ \A q \in Operators \ {p} : job'[q] = job[q]
    BY <1>0, <1>3, <2>1, JobBookkeeping DEF RunAgent, At
  <2>4. JobsInOrder'
    BY <2>3 DEF JobsInOrder, FindsWhatItMay, At
  <2>5. ExecutionTypeOK'
    BY <1>0, <1>3, <2>1, MaxFailuresAssumption DEF RunAgent, ExecutionTypeOK
  <2>6. WorkspaceTypeOK'
    BY <1>0, <1>3, <2>1, MaxCommitsAssumption DEF RunAgent, AgentWorks, WorkspaceTypeOK
  <2>7. QED
    BY <1>a, <2>2, <2>4, <2>5, <2>6 DEF AddedTypeOK
<1>4. CASE WriteRaw(p)
  <2>1. Proceed(p, "summary") /\ job[p].name = "execute" /\ job[p].found \in Results
    BY <1>4 DEF WriteRaw, JobsInOrder, FindsWhatItMay, At
  <2>2. JobTypeOK'
    BY <1>0, <2>1, JobWrites DEF JobSteps
  <2>3. /\ job'[p].name = "execute" /\ job'[p].found \in Results
        /\ \A q \in Operators \ {p} : job'[q] = job[q]
    BY <1>0, <2>1, JobBookkeeping
  <2>4. JobsInOrder'
    BY <2>3 DEF JobsInOrder, FindsWhatItMay, At
  <2>5. ExecutionTypeOK'
    BY <1>0, <1>4 DEF WriteRaw, ExecutionTypeOK
  <2>6. WorkspaceTypeOK'
    BY <1>4, <1>d DEF WriteRaw, FilesChange
  <2>7. QED
    BY <1>a, <2>2, <2>4, <2>5, <2>6 DEF AddedTypeOK
<1>5. CASE WriteSummary(p)
  <2>1. Proceed(p, "attempt") /\ job[p].name = "execute" /\ job[p].found \in Results
    BY <1>5 DEF WriteSummary, JobsInOrder, FindsWhatItMay, At
  <2>2. JobTypeOK'
    BY <1>0, <2>1, JobWrites DEF JobSteps
  <2>3. JobsInOrder'
    BY <1>0, <1>b, <2>1, JobBookkeeping
  <2>4. ExecutionTypeOK'
    BY <1>0, <1>5, <2>1 DEF WriteSummary, ExecutionTypeOK
  <2>5. WorkspaceTypeOK'
    BY <1>5, <1>d DEF WriteSummary, FilesChange
  <2>6. QED
    BY <1>a, <2>2, <2>3, <2>4, <2>5 DEF AddedTypeOK
<1>6. CASE LoadAttempts(p) \/ LoadBugs(p)
  <2>1. /\ job[p].name \in {"execute", "review"}
        /\ \/ \E step \in {"record attempt", "record bug"}, file \in {ledger, bugs} :
                Reading(p, step, file)
           \/ EndJob(p, "failed")
    BY <1>6 DEF LoadAttempts, LoadBugs, Delegating
  <2>2. ledger \in [Issues -> Nat] /\ bugs \in [Issues -> Nat]
    BY <1>0 DEF ExecutionTypeOK
  <2>3. JobTypeOK'
    BY <1>0, <2>1, <2>2, JobWrites DEF JobSteps
  <2>4. JobsInOrder'
    BY <1>0, <1>b, <1>c, <2>1, JobBookkeeping
  <2>5. ExecutionTypeOK' /\ WorkspaceTypeOK'
    BY <1>6, <1>d, <1>e DEF LoadAttempts, LoadBugs
  <2>6. QED
    BY <1>a, <2>3, <2>4, <2>5 DEF AddedTypeOK
<1>7. CASE RecordAttempt(p) \/ RecordBug(p)
  <2>1. /\ job[p].name \in {"execute", "review"}
        /\ \E how \in {"applied", "failed"} : Proceed(p, "bug") \/ EndJob(p, how)
    BY <1>7 DEF RecordAttempt, RecordBug, Delegating
  <2>2. \A ends \in BOOLEAN : Appended(p, ends) \in [Issues -> Nat]
    BY <1>0 DEF Appended
  <2>3. JobTypeOK'
    BY <1>0, <2>1, JobWrites DEF JobSteps
  <2>4. JobsInOrder'
    BY <1>0, <1>b, <1>c, <2>1, JobBookkeeping
  <2>5. ExecutionTypeOK'
    BY <1>0, <1>7, <2>2 DEF RecordAttempt, RecordBug, ExecutionTypeOK
  <2>6. WorkspaceTypeOK'
    BY <1>7, <1>d DEF RecordAttempt, RecordBug
  <2>7. QED
    BY <1>a, <2>3, <2>4, <2>5, <2>6 DEF AddedTypeOK
<1>8. QED
  BY <1>1, <1>2, <1>3, <1>4, <1>5, <1>6, <1>7 DEF ExecutionStep

\* The branch of an open pull request is on GitHub.
HeadsExist == \A i \in Issues : pr[i] = "open" => remote[i] # 0

LEMMA ReviewTyped ==
  ASSUME AddedTypeOK, JobsInOrder, NEW p \in Operators, ReviewStep(p)
  PROVE  AddedTypeOK' /\ JobsInOrder'
<1>0. /\ JobTypeOK /\ WorkspaceTypeOK /\ ExecutionTypeOK /\ ReviewTypeOK
      /\ job[p] \in Job /\ job[p].of \subseteq Issues
  BY DEF AddedTypeOK, JobTypeOK, Job
<1>a. /\ UNCHANGED workspace => WorkspaceTypeOK'
      /\ UNCHANGED execution => ExecutionTypeOK'
      /\ UNCHANGED review => ReviewTypeOK'
  BY <1>0 DEF WorkspaceTypeOK, workspace, ExecutionTypeOK, execution, ReviewTypeOK, review
<1>b. ASSUME job'[p].name \in {"review", "approve", "merge", "none"},
             job'[p].step # "summary",
             \A q \in Operators \ {p} : job'[q] = job[q]
      PROVE  JobsInOrder'
  BY <1>b DEF JobsInOrder, FindsWhatItMay, At
<1>c. NoJob.name = "none" /\ NoJob.step = "idle"
  BY DEF NoJob
<1>d. \A i \in Issues : remote[i] \in 0..MaxCommits /\ 0 \in 0..MaxCommits
  BY <1>0, MaxCommitsAssumption DEF WorkspaceTypeOK
<1>1. ASSUME NEW i \in Issues, PlanReview(p, i) \/ PlanApproval(p, i) \/ PlanMerge(p, i)
      PROVE  AddedTypeOK' /\ JobsInOrder'
  <2>1. PICK name \in {"review", "approve", "merge"}, step \in {"checks", "call"} :
          Take(p, name, step, i)
    BY <1>1 DEF PlanReview, PlanApproval, PlanMerge
  <2>2. JobTypeOK'
    BY <1>0, <2>1, JobWrites DEF JobNames, JobSteps
  <2>3. JobsInOrder'
    BY <1>0, <1>b, <2>1, JobBookkeeping
  <2>4. QED
    BY <1>1, <1>a, <2>2, <2>3 DEF PlanReview, PlanApproval, PlanMerge, AddedTypeOK
<1>2. CASE WriteReviewPrompt(p)
  <2>1. /\ job[p].name = "review"
        /\ EndJob(p, "failed") \/ Proceed(p, "agent")
    BY <1>2 DEF WriteReviewPrompt, At
  <2>2. JobTypeOK'
    BY <1>0, <2>1, JobWrites DEF JobSteps
  <2>3. JobsInOrder'
    BY <1>0, <1>b, <1>c, <2>1, JobBookkeeping
  <2>4. ReviewTypeOK'
    <3>1. PICK i \in Issues :
            reviewPrompt' \in {reviewPrompt, [reviewPrompt EXCEPT ![i] = remote[i]]}
      BY <1>0, <1>2 DEF WriteReviewPrompt
    <3>2. QED
      BY <1>0, <1>2, <1>d, <3>1 DEF WriteReviewPrompt, ReviewTypeOK
  <2>5. QED
    BY <1>2, <1>a, <2>2, <2>3, <2>4 DEF WriteReviewPrompt, AddedTypeOK
<1>3. CASE RunReviewer(p)
  <2>1. PICK found \in ReviewOutcomes : Finding(p, "summary", found)
    BY <1>3 DEF RunReviewer
  <2>2. JobTypeOK'
    BY <1>0, <2>1, JobWrites DEF JobSteps, ReviewOutcomes, Results
  <2>3. /\ job'[p].name = "review" /\ job'[p].found \in ReviewOutcomes
        /\ \A q \in Operators \ {p} : job'[q] = job[q]
    BY <1>0, <1>3, <2>1, JobBookkeeping DEF RunReviewer, At
  <2>4. JobsInOrder'
    BY <2>3 DEF JobsInOrder, FindsWhatItMay, At
  <2>5. QED
    BY <1>3, <1>a, <2>2, <2>4 DEF RunReviewer, AddedTypeOK
<1>4. CASE WriteReviewSummary(p)
  <2>1. /\ Proceed(p, "attempt") /\ job[p].name = "review"
        /\ job[p].found \in ReviewOutcomes
    BY <1>4 DEF WriteReviewSummary, JobsInOrder, FindsWhatItMay, At
  <2>2. JobTypeOK'
    BY <1>0, <2>1, JobWrites DEF JobSteps
  <2>3. JobsInOrder'
    BY <1>0, <1>b, <2>1, JobBookkeeping
  <2>4. ReviewTypeOK'
    <3>1. PICK i \in Issues : opinion' = [opinion EXCEPT ![i] = job[p].found]
      BY <1>0, <1>4 DEF WriteReviewSummary
    <3>2. QED
      BY <1>0, <1>4, <2>1, <3>1 DEF WriteReviewSummary, ReviewTypeOK, ReviewOutcomes
  <2>5. QED
    BY <1>4, <1>a, <2>2, <2>3, <2>4 DEF WriteReviewSummary, AddedTypeOK
<1>5. CASE Approve(p)
  <2>1. PICK i \in Issues, how \in {"applied", "failed"} :
          /\ EndJob(p, how)
          /\ approved' \in {approved, [approved EXCEPT ![i] = remote[i]]}
    BY <1>0, <1>5 DEF Approve
  <2>2. JobTypeOK'
    BY <1>0, <2>1, JobWrites
  <2>3. JobsInOrder'
    BY <1>0, <1>b, <1>c, <2>1, JobBookkeeping
  <2>4. ReviewTypeOK'
    BY <1>0, <1>5, <1>d, <2>1 DEF Approve, ReviewTypeOK
  <2>5. QED
    BY <1>5, <1>a, <2>2, <2>3, <2>4 DEF Approve, AddedTypeOK
<1>6. CASE ReadChecks(p) \/ ReadReviewGate(p)
  <2>1. /\ job[p].name = "merge"
        /\ \E step \in {"gate", "call"} : Proceed(p, step) \/ EndJob(p, "failed")
    BY <1>6 DEF ReadChecks, ReadReviewGate, At
  <2>2. JobTypeOK'
    BY <1>0, <2>1, JobWrites DEF JobSteps
  <2>3. JobsInOrder'
    BY <1>0, <1>b, <1>c, <2>1, JobBookkeeping
  <2>4. QED
    BY <1>6, <1>a, <2>2, <2>3 DEF ReadChecks, ReadReviewGate, AddedTypeOK
<1>7. CASE Merge(p)
  <2>1. PICK i \in Issues, how \in {"applied", "failed"} :
          /\ EndJob(p, how)
          /\ merged' \in {merged, [merged EXCEPT ![i] = remote[i]]}
          /\ remote' \in {remote, [remote EXCEPT ![i] = 0]}
    BY <1>0, <1>7 DEF Merge
  <2>2. JobTypeOK'
    BY <1>0, <2>1, JobWrites
  <2>3. JobsInOrder'
    BY <1>0, <1>b, <1>c, <2>1, JobBookkeeping
  <2>4. ReviewTypeOK' /\ WorkspaceTypeOK'
    BY <1>0, <1>7, <1>d, <2>1 DEF Merge, ReviewTypeOK, WorkspaceTypeOK
  <2>5. QED
    BY <1>7, <1>a, <2>2, <2>3, <2>4 DEF Merge, AddedTypeOK
<1>8. QED
  BY <1>1, <1>2, <1>3, <1>4, <1>5, <1>6, <1>7 DEF ReviewStep, ApprovalStep, MergeStep

LEMMA SurroundingsTyped ==
  ASSUME AddedTypeOK, JobsInOrder, HeadsExist, Surroundings
  PROVE  AddedTypeOK' /\ JobsInOrder' /\ UNCHANGED jobs
<1>0. JobTypeOK /\ WorkspaceTypeOK /\ ExecutionTypeOK /\ ReviewTypeOK
  BY DEF AddedTypeOK
<1>a. /\ UNCHANGED workspace => WorkspaceTypeOK'
      /\ UNCHANGED execution => ExecutionTypeOK'
      /\ UNCHANGED review => ReviewTypeOK'
  BY <1>0 DEF WorkspaceTypeOK, workspace, ExecutionTypeOK, execution, ReviewTypeOK, review
<1>b. UNCHANGED jobs => JobTypeOK' /\ JobsInOrder'
  BY <1>0 DEF JobTypeOK, JobsInOrder, FindsWhatItMay, At, jobs
<1>1. CASE InRepository
  <2>1. UNCHANGED jobs
    BY <1>1 DEF InRepository, CheckoutChanges, Sync, Commit, Push, jobs
  <2>2. WorkspaceTypeOK'
    <3>1. CASE CheckoutChanges \/ Sync
      BY <1>0, <3>1 DEF CheckoutChanges, Sync, WorkspaceTypeOK
    <3>2. ASSUME NEW i \in Issues, Commit(i) PROVE WorkspaceTypeOK'
      BY <1>0, <3>2, MaxCommitsAssumption DEF Commit, WorkspaceTypeOK
    <3>3. ASSUME NEW i \in Issues, Push(i) PROVE WorkspaceTypeOK'
      BY <1>0, <3>3 DEF Push, WorkspaceTypeOK
    <3>4. QED
      BY <1>1, <3>1, <3>2, <3>3 DEF InRepository
  <2>3. QED
    BY <1>1, <1>a, <1>b, <2>1, <2>2 DEF InRepository, AddedTypeOK
<1>2. ASSUME NEW i \in Issues, OnFiles(i) PROVE AddedTypeOK' /\ JobsInOrder' /\ UNCHANGED jobs
  <2>1. UNCHANGED jobs /\ UNCHANGED workspace /\ UNCHANGED review
    BY <1>2 DEF OnFiles, WriteManualSummary, PutRawAside, FilesChange
  <2>2. ExecutionTypeOK'
    BY <1>0, <1>2 DEF OnFiles, WriteManualSummary, PutRawAside, ExecutionTypeOK
  <2>3. QED
    BY <1>a, <1>b, <2>1, <2>2 DEF AddedTypeOK
<1>3. ASSUME NEW i \in Issues, WriteManualReview(i) \/ OnPullRequest(i)
      PROVE  AddedTypeOK' /\ JobsInOrder' /\ UNCHANGED jobs
  <2>1. UNCHANGED jobs /\ UNCHANGED workspace /\ UNCHANGED execution
    BY <1>3 DEF WriteManualReview, OnPullRequest, OpenPullRequest, ChecksPass, MainPasses
  <2>2. CASE WriteManualReview(i)
    <3>1. ReviewTypeOK'
      BY <1>0, <2>2 DEF WriteManualReview, ReviewTypeOK
    <3>2. QED
      BY <1>a, <1>b, <2>1, <3>1 DEF AddedTypeOK
  <2>3. CASE ChecksPass(i)
    <3>1. remote[i] \in Commits
      BY <1>0, <2>3, MaxCommitsAssumption DEF HeadsExist, ChecksPass, WorkspaceTypeOK, Commits
    <3>2. ReviewTypeOK'
      BY <1>0, <2>3, <3>1 DEF ChecksPass, ReviewTypeOK
    <3>3. QED
      BY <1>a, <1>b, <2>1, <3>2 DEF AddedTypeOK
  <2>4. CASE OpenPullRequest(i) \/ MainPasses(i)
    <3>1. UNCHANGED review
      BY <2>4 DEF OpenPullRequest, MainPasses
    <3>2. QED
      BY <1>a, <1>b, <2>1, <3>1 DEF AddedTypeOK
  <2>5. QED
    BY <1>3, <2>2, <2>3, <2>4 DEF OnPullRequest
<1>4. ASSUME NEW i \in Issues, ApproveByHand(i) \/ MergeByHand(i)
      PROVE  AddedTypeOK' /\ JobsInOrder' /\ UNCHANGED jobs
  <2>1. UNCHANGED jobs /\ UNCHANGED workspace /\ UNCHANGED execution
    BY <1>4 DEF ApproveByHand, MergeByHand
  <2>2. remote[i] \in 0..MaxCommits
    BY <1>0 DEF WorkspaceTypeOK
  <2>3. ReviewTypeOK'
    BY <1>0, <1>4, <2>2 DEF ApproveByHand, MergeByHand, ReviewTypeOK
  <2>4. QED
    BY <1>a, <1>b, <2>1, <2>3 DEF AddedTypeOK
<1>5. ASSUME NEW i \in Issues, NoopIsValidated(i)
      PROVE  AddedTypeOK' /\ JobsInOrder' /\ UNCHANGED jobs
  BY <1>a, <1>b, <1>5 DEF NoopIsValidated, AddedTypeOK
<1>6. QED
  BY <1>1, <1>2, <1>3, <1>4, <1>5 DEF Surroundings, ByHand

LEMMA LoopWrites ==
  ASSUME LoopTypeOK, NEW p \in Operators
  PROVE
    /\ \A step \in {"select", "plan"}, of \in SUBSET Issues :
         NextCycle(p, step, of) => LoopTypeOK'
    /\ StopLoop(p) => LoopTypeOK'
<1>0. loop \in [Operators -> Loop] /\ loop[p].cycle \in 0..MaxCycles
      /\ loop[p].mode \in {"issue", "next"} /\ NoLoop \in Loop
  BY MaxCyclesAssumption DEF LoopTypeOK, Loop, NoLoop
<1>1. ASSUME NEW step \in {"select", "plan"}, NEW of \in SUBSET Issues, NextCycle(p, step, of)
      PROVE  LoopTypeOK'
  <2>1. loop[p].cycle + 1 < MaxCycles =>
          [step |-> step, cycle |-> loop[p].cycle + 1, mode |-> loop[p].mode,
           action |-> "none", of |-> of] \in Loop
    BY <1>0, MaxCyclesAssumption DEF Loop
  <2>2. QED
    BY <1>0, <1>1, <2>1, MaxCyclesAssumption DEF NextCycle, LoopTypeOK
<1>2. StopLoop(p) => LoopTypeOK'
  BY <1>0 DEF StopLoop, LoopTypeOK
<1>3. QED
  BY <1>1, <1>2

\* Whatever an issue is selected by, it is one of the issues.
LEMMA SelectedIsIssue ==
  ASSUME NEW selected \in Selections
  PROVE  selected \subseteq Issues
<1>1. \A seen : Selected(seen) \subseteq Issues
  BY DEF Selected, Schedulable, OpenIssues, Earliest, Single
<1>2. \A seen : ManifestSelected(seen) \subseteq Issues
  BY DEF ManifestSelected, Single, NextTask, DependencyReady
<1>3. QED
  BY <1>1, <1>2 DEF Selections

LEMMA LoopTyped ==
  ASSUME AddedTypeOK, JobsInOrder, LoopTypeOK, NEW p \in Operators, LoopStep(p)
  PROVE  AddedTypeOK' /\ JobsInOrder' /\ LoopTypeOK'
<1>0. loop \in [Operators -> Loop] /\ loop[p] \in Loop
      /\ loop[p].cycle \in 0..MaxCycles /\ 0 \in 0..MaxCycles
      /\ loop[p].mode \in {"issue", "next"} /\ loop[p].of \subseteq Issues
  BY MaxCyclesAssumption DEF LoopTypeOK, Loop
<1>a. NothingDone => AddedTypeOK' /\ JobsInOrder'
  BY NothingAddedChanges DEF NothingDone
<1>b. \A i \in Issues : {i} \in SUBSET Issues
  OBVIOUS
<1>1. ASSUME NEW i \in Issues, StartLoop(p, i) PROVE NothingDone /\ LoopTypeOK'
  <2>1. [step |-> "plan", cycle |-> 0, mode |-> "issue", action |-> "none", of |-> {i}]
          \in Loop
    BY <1>0 DEF Loop
  <2>2. QED
    BY <1>0, <1>1, <2>1 DEF StartLoop, LoopTypeOK
<1>2. CASE StartRunNext(p)
  <2>1. [step |-> "select", cycle |-> 0, mode |-> "next", action |-> "none", of |-> {}]
          \in Loop
    BY <1>0 DEF Loop
  <2>2. LoopTypeOK'
    BY <1>0, <1>2, <2>1 DEF StartRunNext, LoopTypeOK
  <2>3. QED
    BY <1>2, <1>a, <2>2 DEF StartRunNext
<1>3. CASE SelectIssue(p)
  <2>1. \A i \in Issues : [step |-> "plan", cycle |-> loop[p].cycle, mode |-> "next",
                           action |-> "none", of |-> {i}] \in Loop
    BY <1>0 DEF Loop
  <2>2. \/ \E i \in Issues : loop' = [loop EXCEPT ![p] =
             [step |-> "plan", cycle |-> loop[p].cycle, mode |-> "next",
              action |-> "none", of |-> {i}]]
        \/ StopLoop(p)
    BY <1>3, SelectedIsIssue DEF SelectIssue
  <2>3. LoopTypeOK'
    BY <1>0, <2>1, <2>2, LoopWrites DEF LoopTypeOK
  <2>4. QED
    BY <1>3, <1>a, <2>3 DEF SelectIssue
<1>4. CASE PlanCycle(p)
  <2>1. \A i \in Issues, action \in ApplyableActions :
          [step |-> "command", cycle |-> loop[p].cycle, mode |-> loop[p].mode,
           action |-> action, of |-> {i}] \in Loop
    BY <1>0 DEF Loop
  <2>2. \/ \E i \in Issues, action \in ApplyableActions : loop' = [loop EXCEPT ![p] =
             [step |-> "command", cycle |-> loop[p].cycle, mode |-> loop[p].mode,
              action |-> action, of |-> {i}]]
        \/ NextCycle(p, "select", {})
        \/ StopLoop(p)
    BY <1>0, <1>4 DEF PlanCycle
  <2>3. LoopTypeOK'
    BY <1>0, <2>1, <2>2, LoopWrites DEF LoopTypeOK
  <2>4. QED
    BY <1>4, <1>a, <2>3 DEF PlanCycle
<1>5. CASE RunReadOnly(p) \/ EndCycle(p) \/ InterruptLoop(p)
  <2>1. NothingDone /\ \/ \E of \in SUBSET Issues : NextCycle(p, "plan", of)
                       \/ StopLoop(p)
    BY <1>0, <1>5 DEF RunReadOnly, EndCycle, InterruptLoop
  <2>2. QED
    BY <1>a, <2>1, LoopWrites
<1>6. CASE RunCommand(p)
  <2>1. PICK i \in Issues :
          \/ /\ Takes(p, loop[p].action, i)
             /\ loop' = [loop EXCEPT ![p].step = "running"]
          \/ StopLoop(p) /\ NothingDone
    BY <1>0, <1>6 DEF RunCommand
  <2>2. LoopTypeOK'
    <3>1. [loop[p] EXCEPT !.step = "running"] \in Loop
      BY <1>0 DEF Loop
    <3>2. StopLoop(p) \/ loop' = [loop EXCEPT ![p] = [loop[p] EXCEPT !.step = "running"]]
      BY <2>1
    <3>3. QED
      BY <1>0, <3>1, <3>2, LoopWrites DEF LoopTypeOK
  <2>3. \/ WorkspaceStep(p) /\ UNCHANGED <<execution, review>>
        \/ ExecutionStep(p) /\ UNCHANGED review
        \/ ReviewStep(p)
        \/ UNCHANGED <<jobs, workspace, execution, review>>
    BY <2>1 DEF Takes, WorkspaceStep, ExecutionStep, ReviewStep, MergeStep, NothingDone
  <2>4. QED
    BY <2>2, <2>3, NothingAddedChanges, WorkspaceTyped, ExecutionTyped, ReviewTyped
<1>7. QED
  BY <1>1, <1>2, <1>3, <1>4, <1>5, <1>6, <1>a DEF LoopStep

-----------------------------------------------------------------------------
(* Every step is a step of IssueWorkflow.                                  *)

\* The operators complete and integrate, so that IssueWorkflow has evidence turn up, and
\* a command may stop.
Delivers == {"complete", "integrate"} \subseteq Used /\ <<"process", "stop">> \in Faults

\* What the gates accept now they have accepted before, as far as IssueWorkflow knows.
FilesAgree == \A i \in Issues : ArtifactPasses(i) => summary[i]

\* A gate looks at nothing but the files of its issue.
LEMMA GateLooksAtFiles ==
  ASSUME NEW i \in Issues, raw'[i] = raw[i], artifact'[i] = artifact[i]
  PROVE  (ArtifactPasses(i))' = ArtifactPasses(i)
<1>1. Summary(i)' = Summary(i) /\ Output(i)' = Output(i)
  BY DEF Summary, Output, TextOf
<1>2. Artifact(i)' = Artifact(i)
  BY <1>1 DEF Artifact
<1>3. WorkerArtifactValid(i)' = WorkerArtifactValid(i)
  BY <1>1 DEF WorkerArtifactValid
<1>4. QED
  BY <1>2, <1>3 DEF ArtifactPasses

\* When the files of one issue change, the evidence of another cannot turn up.
LEMMA FilesAreEvidence ==
  ASSUME TypeOK, Delivers, FilesAgree, NEW i \in Issues,
         \A j \in Issues \ {i} : raw'[j] = raw[j] /\ artifact'[j] = artifact[j],
         FilesChange
  PROVE  [Next]_vars /\ FilesAgree'
<1>0. /\ summary \in [Issues -> BOOLEAN]
      /\ UNCHANGED <<labels, issueState, pr, noopGate, command, manifest>>
  BY DEF TypeOK, EvidenceTypeOK, FilesChange
<1>1. /\ summary' \in [Issues -> BOOLEAN]
      /\ \A j \in Issues : summary'[j] = (summary[j] \/ (ArtifactPasses(j))')
  BY DEF FilesChange, SummaryFollows
<1>2. FilesAgree'
  BY <1>1 DEF FilesAgree
<1>3. \A j \in Issues \ {i} : summary'[j] = summary[j]
  <2> SUFFICES ASSUME NEW j \in Issues \ {i} PROVE summary'[j] = summary[j]
    OBVIOUS
  <2>1. (ArtifactPasses(j))' = ArtifactPasses(j)
    BY GateLooksAtFiles
  <2>2. ArtifactPasses(j) => summary[j]
    BY DEF FilesAgree
  <2>3. QED
    BY <1>0, <1>1, <2>1, <2>2
<1>4. CASE summary'[i] = summary[i]
  <2>1. summary' = summary
    BY <1>0, <1>1, <1>3, <1>4
  <2>2. QED
    BY <1>0, <1>2, <2>1 DEF vars
<1>5. CASE summary'[i] # summary[i]
  <2>1. ~summary[i] /\ summary'[i] = TRUE
    BY <1>0, <1>1, <1>5
  <2>2. summary' = [summary EXCEPT ![i] = TRUE]
    BY <1>0, <1>1, <1>3, <2>1
  <2>3. SummaryPasses(i)
    BY <1>0, <2>1, <2>2 DEF SummaryPasses, tracker
  <2>4. EvidenceStep
    BY <1>0, <2>3 DEF EvidenceStep, Consulted, Delivers
  <2>5. QED
    BY <1>2, <2>4 DEF Next
<1>6. QED
  BY <1>4, <1>5

\* A step that changes neither the files nor what IssueWorkflow sees.
LEMMA NothingSeenOfIt ==
  ASSUME FilesAgree, UNCHANGED vars, UNCHANGED <<raw, artifact>>
  PROVE  [Next]_vars /\ FilesAgree'
<1>1. \A i \in Issues : (ArtifactPasses(i))' = ArtifactPasses(i)
  BY GateLooksAtFiles
<1>2. QED
  BY <1>1 DEF FilesAgree, vars

LEMMA PullRequestsAreEvidence ==
  ASSUME Delivers, FilesAgree, NEW i \in Issues, TypeOK,
         UNCHANGED <<labels, issueState, summary, noopGate, command, manifest, raw, artifact>>,
         \/ pr[i] = "none" /\ pr' = [pr EXCEPT ![i] = "open"]
         \/ pr[i] = "open" /\ pr' = [pr EXCEPT ![i] = "merged"]
         \/ pr[i] = "merged" /\ pr' = [pr EXCEPT ![i] = "green"]
  PROVE  [Next]_vars /\ FilesAgree'
<1>1. PullRequestAdvances(i)
  BY DEF PullRequestAdvances, tracker
<1>2. EvidenceStep
  BY <1>1 DEF EvidenceStep, Consulted, Delivers
<1>3. \A j \in Issues : (ArtifactPasses(j))' = ArtifactPasses(j)
  BY GateLooksAtFiles
<1>4. QED
  BY <1>2, <1>3 DEF Next, FilesAgree

LEMMA DeliveryCommandImplements ==
  ASSUME TypeOK, Delivers, FilesAgree, NEW p \in Operators, DeliveryCommand(p)
  PROVE  [Next]_vars /\ FilesAgree'
<1>1. \A i \in Issues : (ArtifactPasses(i))' = ArtifactPasses(i)
  BY GateLooksAtFiles DEF DeliveryCommand, execution
<1>2. CASE CommandStep(p)
  <2>1. summary' = summary
    BY <1>2, OthersKept DEF evidence
  <2>2. QED
    BY <1>1, <1>2, <2>1 DEF Next, FilesAgree
<1>3. CASE GateOnFiles(p) /\ UNCHANGED manifest
  <2>1. PICK i \in Issues :
          /\ command[p].todo = {i}
          /\ IF Gates(i) = {} \/ ArtifactPasses(i) THEN GoTo(p, "edit") ELSE Finish(p)
    BY <1>3 DEF GateOnFiles
  <2>2. Running(p, {"complete"}, "gate") /\ UNCHANGED <<tracker, evidence>>
    BY <1>3 DEF GateOnFiles
  <2>3. CASE Gates(i) = {} \/ ArtifactPasses(i)
    <3>1. GatePasses(i)
      BY <2>3 DEF GatePasses, FilesAgree
    <3>2. TransitionStep(p)
      BY <2>1, <2>2, <2>3, <3>1 DEF TransitionStep, EvaluateGateForComplete
    <3>3. QED
      BY <1>1, <1>3, <2>2, <3>2 DEF Next, CommandStep, FilesAgree, evidence
  <2>4. CASE ~(Gates(i) = {} \/ ArtifactPasses(i))
    <3>1. Stop(p)
      <4>1. command[p] # NoCommand
        BY <2>2 DEF Running, NoCommand
      <4>2. QED
        BY <2>1, <2>2, <2>4, <4>1 DEF Stop, Delivers
    <3>2. QED
      BY <1>1, <1>3, <2>2, <3>1 DEF Next, CommandStep, FilesAgree, evidence
  <2>5. QED
    BY <2>3, <2>4
<1>4. CASE Stop(p) /\ UNCHANGED manifest
  BY <1>2, <1>4 DEF CommandStep
<1>5. QED
  BY <1>2, <1>3, <1>4 DEF DeliveryCommand

LEMMA JobImplements ==
  ASSUME TypeOK, AddedTypeOK, Delivers, FilesAgree, NEW p \in Operators,
         \/ WorkspaceStep(p) /\ UNCHANGED <<execution, review>>
         \/ ExecutionStep(p) /\ UNCHANGED review
         \/ ReviewStep(p)
         \/ StopJob(p)
  PROVE  [Next]_vars /\ FilesAgree'
<1>0. /\ job[p].of \subseteq Issues
      /\ raw \in [Issues -> {"none", "safe", "unsafe"}]
      /\ artifact \in [Issues -> Results \cup {"none", "manual"}]
  BY DEF AddedTypeOK, JobTypeOK, Job, ExecutionTypeOK
<1>1. CASE WriteRaw(p) \/ WriteSummary(p)
  <2>1. PICK i \in Issues : \A j \in Issues \ {i} : raw'[j] = raw[j] /\ artifact'[j] = artifact[j]
    BY <1>0, <1>1 DEF WriteRaw, WriteSummary
  <2>2. FilesChange
    BY <1>1 DEF WriteRaw, WriteSummary
  <2>3. QED
    BY <2>1, <2>2, FilesAreEvidence
<1>2. CASE Merge(p)
  <2>1. UNCHANGED <<labels, issueState, summary, noopGate, command, manifest, raw, artifact>>
    BY <1>2 DEF Merge, execution
  <2>2. PICK i \in Issues : pr' = pr \/ (pr[i] = "open" /\ pr' = [pr EXCEPT ![i] = "merged"])
    BY <1>0, <1>2 DEF Merge
  <2>3. QED
    BY <2>1, <2>2, PullRequestsAreEvidence, NothingSeenOfIt DEF vars
<1>3. CASE IssueWorkflowUnchanged /\ UNCHANGED <<raw, artifact>>
  BY <1>3, NothingSeenOfIt DEF IssueWorkflowUnchanged, vars
<1>4. CASE WorkspaceStep(p) /\ UNCHANGED <<execution, review>>
  BY <1>3, <1>4 DEF WorkspaceStep, PlanWorktree, PlanCleanup, AddWorktree, RemoveWorktree,
                    DeleteBranch, execution
<1>5. CASE ExecutionStep(p)
  <2>1. CASE \E i \in Issues : WritePrompt(p, i) \/ PlanExecute(p, i)
    BY <1>3, <2>1 DEF WritePrompt, PlanExecute, execution
  <2>2. CASE RunAgent(p) \/ LoadAttempts(p) \/ RecordAttempt(p) \/ LoadBugs(p) \/ RecordBug(p)
    BY <1>3, <2>2 DEF RunAgent, LoadAttempts, RecordAttempt, LoadBugs, RecordBug, execution
  <2>3. QED
    BY <1>1, <1>5, <2>1, <2>2 DEF ExecutionStep
<1>6. CASE ReviewStep(p)
  <2>1. CASE \E i \in Issues : PlanReview(p, i) \/ PlanApproval(p, i) \/ PlanMerge(p, i)
    BY <1>3, <2>1 DEF PlanReview, PlanApproval, PlanMerge, execution
  <2>2. CASE WriteReviewPrompt(p) \/ RunReviewer(p) \/ WriteReviewSummary(p) \/ Approve(p)
             \/ ReadChecks(p) \/ ReadReviewGate(p)
    BY <1>3, <2>2 DEF WriteReviewPrompt, RunReviewer, WriteReviewSummary, Approve, ReadChecks,
                      ReadReviewGate, execution
  <2>3. QED
    BY <1>2, <1>6, <2>1, <2>2 DEF ReviewStep, ApprovalStep, MergeStep
<1>7. CASE StopJob(p)
  BY <1>3, <1>7 DEF StopJob, execution
<1>8. QED
  BY <1>4, <1>5, <1>6, <1>7

LEMMA LoopImplements ==
  ASSUME TypeOK, AddedTypeOK, Delivers, FilesAgree, LoopTypeOK, NEW p \in Operators, LoopStep(p)
  PROVE  [Next]_vars /\ FilesAgree'
<1>1. CASE NothingDone
  BY <1>1, NothingSeenOfIt DEF NothingDone, IssueWorkflowUnchanged, vars, execution
<1>2. CASE RunCommand(p)
  <2>1. loop[p].of \subseteq Issues
    BY DEF LoopTypeOK, Loop
  <2>2. PICK i \in Issues : NothingDone \/ Takes(p, loop[p].action, i)
    BY <1>2, <2>1 DEF RunCommand
  <2>3. \/ NothingDone
        \/ WorkspaceStep(p) /\ UNCHANGED <<execution, review>>
        \/ ExecutionStep(p) /\ UNCHANGED review
        \/ ReviewStep(p)
        \/ /\ ClaimStep(p) \/ IntegrationStep(p)
           /\ UNCHANGED manifest /\ UNCHANGED execution
    BY <2>2 DEF Takes, WorkspaceStep, ExecutionStep, ReviewStep, MergeStep, ClaimStep,
                IntegrationStep
  <2>4. CASE /\ ClaimStep(p) \/ IntegrationStep(p)
             /\ UNCHANGED manifest /\ UNCHANGED execution
    <3>1. CommandStep(p)
      BY <2>4 DEF CommandStep
    <3>2. summary' = summary
      BY <3>1, OthersKept DEF evidence
    <3>3. \A j \in Issues : (ArtifactPasses(j))' = ArtifactPasses(j)
      BY <2>4, GateLooksAtFiles DEF execution
    <3>4. QED
      BY <3>1, <3>2, <3>3 DEF Next, FilesAgree
  <2>5. QED
    BY <1>1, <2>3, <2>4, JobImplements
<1>3. QED
  BY <1>1, <1>2 DEF LoopStep, StartLoop, StartRunNext, SelectIssue, PlanCycle, RunReadOnly,
                    EndCycle, InterruptLoop

LEMMA SurroundingsImplement ==
  ASSUME TypeOK, AddedTypeOK, Delivers, FilesAgree, Surroundings
  PROVE  [Next]_vars /\ FilesAgree'
<1>0. /\ raw \in [Issues -> {"none", "safe", "unsafe"}]
      /\ artifact \in [Issues -> Results \cup {"none", "manual"}]
  BY DEF AddedTypeOK, ExecutionTypeOK
<1>1. CASE IssueWorkflowUnchanged /\ UNCHANGED <<raw, artifact>>
  BY <1>1, NothingSeenOfIt DEF IssueWorkflowUnchanged, vars
<1>2. CASE InRepository
  BY <1>1, <1>2 DEF InRepository, CheckoutChanges, Sync, Commit, Push, execution
<1>3. ASSUME NEW i \in Issues, OnFiles(i) PROVE [Next]_vars /\ FilesAgree'
  <2>1. \A j \in Issues \ {i} : raw'[j] = raw[j] /\ artifact'[j] = artifact[j]
    BY <1>0, <1>3 DEF OnFiles, WriteManualSummary, PutRawAside
  <2>2. FilesChange
    BY <1>3 DEF OnFiles, WriteManualSummary, PutRawAside
  <2>3. QED
    BY <2>1, <2>2, FilesAreEvidence
<1>4. ASSUME NEW i \in Issues, OpenPullRequest(i) \/ MainPasses(i)
      PROVE  [Next]_vars /\ FilesAgree'
  <2>1. UNCHANGED <<labels, issueState, summary, noopGate, command, manifest, raw, artifact>>
    BY <1>4 DEF OpenPullRequest, MainPasses, execution
  <2>2. \/ pr[i] = "none" /\ pr' = [pr EXCEPT ![i] = "open"]
        \/ pr[i] = "merged" /\ pr' = [pr EXCEPT ![i] = "green"]
    BY <1>4 DEF OpenPullRequest, MainPasses
  <2>3. QED
    BY <2>1, <2>2, PullRequestsAreEvidence
<1>5. ASSUME NEW i \in Issues, ChecksPass(i) \/ WriteManualReview(i)
      PROVE  [Next]_vars /\ FilesAgree'
  BY <1>1, <1>5 DEF ChecksPass, WriteManualReview, execution
<1>6. ASSUME NEW i \in Issues, ApproveByHand(i) PROVE [Next]_vars /\ FilesAgree'
  BY <1>1, <1>6 DEF ApproveByHand, execution
<1>7. ASSUME NEW i \in Issues, MergeByHand(i) PROVE [Next]_vars /\ FilesAgree'
  <2>1. UNCHANGED <<labels, issueState, summary, noopGate, command, manifest, raw, artifact>>
    BY <1>7 DEF MergeByHand, execution
  <2>2. pr[i] = "open" /\ pr' = [pr EXCEPT ![i] = "merged"]
    BY <1>7 DEF MergeByHand
  <2>3. QED
    BY <2>1, <2>2, PullRequestsAreEvidence
<1>8. ASSUME NEW i \in Issues, NoopIsValidated(i) PROVE [Next]_vars /\ FilesAgree'
  <2>1. NoopGatePasses(i) /\ UNCHANGED <<command, manifest>> /\ UNCHANGED execution
    BY <1>8 DEF NoopIsValidated
  <2>2. Next
    BY <1>8, <2>1 DEF NoopIsValidated, Next, EvidenceStep, Consulted
  <2>3. \A j \in Issues : (ArtifactPasses(j))' = ArtifactPasses(j)
    BY <2>1, GateLooksAtFiles DEF execution
  <2>4. summary' = summary
    BY <2>1 DEF NoopGatePasses
  <2>5. QED
    BY <2>2, <2>3, <2>4 DEF FilesAgree
<1>9. QED
  BY <1>2, <1>3, <1>4, <1>5, <1>6, <1>7, <1>8 DEF Surroundings, OnPullRequest, ByHand

-----------------------------------------------------------------------------
(* What moves pull requests, and the invariant.                            *)

\* Everything else than these steps leaves the pull requests alone.
LEMMA PullRequestsMove ==
  ASSUME TypeOK, DeliveryNext
  PROVE  \/ UNCHANGED <<pr, remote, passed, approved, merged>>
         \/ \E i \in Issues : Push(i) /\ UNCHANGED review
         \/ \E i \in Issues : OpenPullRequest(i) \/ ChecksPass(i) \/ MainPasses(i)
         \/ \E i \in Issues : ApproveByHand(i) \/ MergeByHand(i)
         \/ \E p \in Operators : Approve(p) \/ Merge(p)
<1> DEFINE Alone == UNCHANGED <<pr, remote, passed, approved, merged>>
<1>1. CASE Surroundings
  <2>1. CheckoutChanges \/ Sync \/ (\E i \in Issues : Commit(i)) => UNCHANGED <<pr, remote>>
    BY DEF CheckoutChanges, Sync, Commit, IssueWorkflowUnchanged
  <2>2. InRepository => Alone \/ \E i \in Issues : Push(i) /\ UNCHANGED review
    BY <2>1 DEF InRepository, review
  <2>3. \A i \in Issues : OnFiles(i) \/ WriteManualReview(i) => Alone
    BY DEF OnFiles, WriteManualSummary, PutRawAside, FilesChange, WriteManualReview,
           IssueWorkflowUnchanged, workspace, review
  <2>4. \A i \in Issues : NoopIsValidated(i) => Alone
    BY DEF NoopIsValidated, NoopGatePasses, workspace, review
  <2>5. QED
    BY <1>1, <2>2, <2>3, <2>4 DEF Surroundings, OnPullRequest, ByHand
<1>2. ASSUME NEW p \in Operators, CommandStep(p), UNCHANGED <<workspace, review>> PROVE Alone
  BY <1>2, OthersKept DEF evidence, workspace, review
<1>3. ASSUME NEW p \in Operators, DeliveryCommand(p) PROVE Alone
  <2>1. GateOnFiles(p) \/ Stop(p) => UNCHANGED pr
    BY DEF GateOnFiles, Stop, evidence
  <2>2. QED
    BY <1>2, <1>3, <2>1 DEF DeliveryCommand, workspace, review
<1>4. ASSUME NEW p \in Operators,
             \/ WorkspaceStep(p) /\ UNCHANGED <<execution, review>>
             \/ ExecutionStep(p) /\ UNCHANGED review
             \/ ReviewStep(p)
             \/ StopJob(p)
      PROVE  Alone \/ Approve(p) \/ Merge(p)
  <2>1. WorkspaceStep(p) => UNCHANGED <<pr, remote>>
    BY DEF WorkspaceStep, PlanWorktree, PlanCleanup, AddWorktree, RemoveWorktree, DeleteBranch,
           IssueWorkflowUnchanged, workspace
  <2>2. ExecutionStep(p) => UNCHANGED <<pr, remote>>
    BY DEF ExecutionStep, WritePrompt, PlanExecute, RunAgent, WriteRaw, WriteSummary,
           LoadAttempts, RecordAttempt, LoadBugs, RecordBug, FilesChange,
           IssueWorkflowUnchanged, workspace
  <2>3. ReviewStep(p) => Alone \/ Approve(p) \/ Merge(p)
    BY DEF ReviewStep, ApprovalStep, MergeStep, PlanReview, WriteReviewPrompt, RunReviewer,
           WriteReviewSummary, PlanApproval, PlanMerge, ReadChecks, ReadReviewGate,
           IssueWorkflowUnchanged, workspace, review
  <2>4. StopJob(p) => Alone
    BY DEF StopJob, IssueWorkflowUnchanged, workspace, review
  <2>5. QED
    BY <1>4, <2>1, <2>2, <2>3, <2>4 DEF review
<1>5. ASSUME NEW p \in Operators, LoopStep(p) PROVE Alone \/ Approve(p) \/ Merge(p)
  <2>1. NothingDone => Alone
    BY DEF NothingDone, IssueWorkflowUnchanged, workspace, review
  <2>2. CASE RunCommand(p)
    <3>1. NothingDone \/ \E i : Takes(p, loop[p].action, i)
      BY <2>2 DEF RunCommand
    <3>2. ASSUME NEW i, Takes(p, loop[p].action, i) PROVE Alone
      BY <3>2 DEF Takes, PlanWorktree, WritePrompt, PlanExecute, PlanMerge, PlanCleanup,
                  RunIssue, PlanIntegration, evidence, IssueWorkflowUnchanged, workspace, review
    <3>3. QED
      BY <2>1, <3>1, <3>2
  <2>3. QED
    BY <1>5, <2>1, <2>2 DEF LoopStep, StartLoop, StartRunNext, SelectIssue, PlanCycle,
                            RunReadOnly, EndCycle, InterruptLoop
<1>6. QED
  BY <1>1, <1>3, <1>4, <1>5 DEF DeliveryNext, JobStep

\* Who is about to merge or to remove something has looked, or is looking, or has
\* been before.
LEMMA JobsMove ==
  ASSUME TypeOK, AddedTypeOK, LoopTypeOK, DeliveryNext, NEW q \in Operators
  PROVE  \/ job'[q] = job[q]
         \/ job'[q].name \notin {"merge", "cleanup"}
         \/ \E i \in Issues : PlanMerge(q, i) \/ PlanCleanup(q, i)
         \/ ReadChecks(q) \/ ReadReviewGate(q) \/ RemoveWorktree(q)
<1>0. JobTypeOK /\ NoJob.name = "none"
  BY DEF AddedTypeOK, NoJob
<1> DEFINE Moves == \/ job'[q] = job[q]
                    \/ job'[q].name \notin {"merge", "cleanup"}
                    \/ \E i \in Issues : PlanMerge(q, i) \/ PlanCleanup(q, i)
                    \/ ReadChecks(q) \/ ReadReviewGate(q) \/ RemoveWorktree(q)
<1>1. CASE Surroundings
  BY <1>1 DEF Surroundings, InRepository, CheckoutChanges, Sync, Commit, Push, OnFiles,
              WriteManualSummary, PutRawAside, OnPullRequest, OpenPullRequest, ChecksPass,
              MainPasses, ByHand, WriteManualReview, ApproveByHand, MergeByHand,
              NoopIsValidated, jobs
<1>2. ASSUME NEW p \in Operators, WorkspaceStep(p) PROVE Moves
  <2>1. CASE \E i \in Issues : PlanWorktree(p, i)
    <3>1. PICK i : Take(p, "create worktree", "add", i)
      BY <2>1 DEF PlanWorktree
    <3>2. /\ job'[p].name = "create worktree"
          /\ \A r \in Operators \ {p} : job'[r] = job[r]
      BY <1>0, <3>1, JobBookkeeping
    <3>3. QED
      BY <3>2
  <2>2. CASE AddWorktree(p)
    <3>1. \E how : EndJob(p, how)
      BY <2>2 DEF AddWorktree
    <3>2. QED
      BY <1>0, <3>1, JobBookkeeping
  <2>3. CASE DeleteBranch(p)
    <3>1. \E how : EndJob(p, how)
      BY <2>3 DEF DeleteBranch
    <3>2. QED
      BY <1>0, <3>1, JobBookkeeping
  <2>4. CASE \E i \in Issues : PlanCleanup(p, i)
    BY <1>0, <2>4, JobBookkeeping DEF PlanCleanup
  <2>5. CASE RemoveWorktree(p)
    BY <1>0, <2>5, JobBookkeeping DEF RemoveWorktree
  <2>6. QED
    BY <1>2, <2>1, <2>2, <2>3, <2>4, <2>5 DEF WorkspaceStep
<1>3. ASSUME NEW p \in Operators, ExecutionStep(p) PROVE Moves
  <2>1. CASE \E i \in Issues : WritePrompt(p, i)
    BY <2>1 DEF WritePrompt, Done
  <2>2. CASE \E i \in Issues : PlanExecute(p, i)
    BY <1>0, <2>2, JobBookkeeping DEF PlanExecute
  <2>3. CASE RunAgent(p)
    BY <1>0, <2>3, JobBookkeeping DEF RunAgent, At
  <2>4. CASE WriteRaw(p) \/ WriteSummary(p)
    BY <1>0, <2>4, JobBookkeeping DEF WriteRaw, WriteSummary, At
  <2>5. CASE LoadAttempts(p) \/ LoadBugs(p)
    BY <1>0, <2>5, JobBookkeeping DEF LoadAttempts, LoadBugs, Delegating
  <2>6. CASE RecordAttempt(p) \/ RecordBug(p)
    BY <1>0, <2>6, JobBookkeeping DEF RecordAttempt, RecordBug, Delegating
  <2>7. QED
    BY <1>3, <2>1, <2>2, <2>3, <2>4, <2>5, <2>6 DEF ExecutionStep
<1>4. ASSUME NEW p \in Operators, ReviewStep(p) PROVE Moves
  <2>1. CASE \E i \in Issues : PlanReview(p, i) \/ PlanApproval(p, i)
    BY <1>0, <2>1, JobBookkeeping DEF PlanReview, PlanApproval
  <2>2. CASE \E i \in Issues : PlanMerge(p, i)
    BY <1>0, <2>2, JobBookkeeping DEF PlanMerge
  <2>3. CASE WriteReviewPrompt(p) \/ RunReviewer(p) \/ WriteReviewSummary(p)
    BY <1>0, <2>3, JobBookkeeping DEF WriteReviewPrompt, RunReviewer, WriteReviewSummary, At
  <2>4. CASE Approve(p) \/ Merge(p)
    BY <1>0, <2>4, JobBookkeeping DEF Approve, Merge
  <2>5. CASE ReadChecks(p) \/ ReadReviewGate(p)
    BY <1>0, <2>5, JobBookkeeping DEF ReadChecks, ReadReviewGate
  <2>6. QED
    BY <1>4, <2>1, <2>2, <2>3, <2>4, <2>5 DEF ReviewStep, ApprovalStep, MergeStep
<1>5. ASSUME NEW p \in Operators, JobStep(p) PROVE Moves
  <2>1. CASE StopJob(p)
    BY <1>0, <2>1, JobBookkeeping DEF StopJob
  <2>2. QED
    BY <1>2, <1>3, <1>4, <1>5, <2>1 DEF JobStep
<1>6. ASSUME NEW p \in Operators, LoopStep(p) PROVE Moves
  <2>1. NothingDone => Moves
    BY DEF NothingDone, jobs
  <2>2. CASE RunCommand(p)
    <3>1. PICK i \in Issues : NothingDone \/ Takes(p, loop[p].action, i)
      BY <2>2 DEF RunCommand, LoopTypeOK, Loop
    <3>2. \/ NothingDone \/ UNCHANGED jobs
          \/ WorkspaceStep(p) \/ ExecutionStep(p) \/ ReviewStep(p)
      BY <3>1 DEF Takes, WorkspaceStep, ExecutionStep, ReviewStep, MergeStep
    <3>3. UNCHANGED jobs => Moves
      BY DEF jobs
    <3>4. QED
      BY <1>2, <1>3, <1>4, <2>1, <3>2, <3>3
  <2>3. QED
    BY <1>6, <2>1, <2>2 DEF LoopStep, StartLoop, StartRunNext, SelectIssue, PlanCycle,
                            RunReadOnly, EndCycle, InterruptLoop
<1>7. ASSUME NEW p \in Operators, DeliveryCommand(p) PROVE Moves
  BY <1>7 DEF DeliveryCommand, jobs
<1>8. QED
  BY <1>1, <1>5, <1>6, <1>7 DEF DeliveryNext

DeliveryInv == DeliveryTypeOK /\ JobsInOrder /\ HeadsExist /\ FilesAgree

LEMMA HeadsExistKept ==
  ASSUME TypeOK, AddedTypeOK, HeadsExist, DeliveryNext
  PROVE  HeadsExist'
<1>0. /\ \A i \in Issues : remote[i] \in 0..MaxCommits /\ branch[i] \in 0..MaxCommits
      /\ remote \in [Issues -> 0..MaxCommits] /\ pr \in [Issues -> {"none", "open", "merged", "green"}]
      /\ \A p \in Operators : job[p].of \subseteq Issues
  BY MaxCommitsAssumption
     DEF TypeOK, EvidenceTypeOK, AddedTypeOK, WorkspaceTypeOK, JobTypeOK, Job
<1>1. CASE UNCHANGED <<pr, remote>>
  BY <1>1 DEF HeadsExist
<1>2. ASSUME NEW i \in Issues, Push(i) PROVE HeadsExist'
  <2>1. UNCHANGED pr /\ remote' = [remote EXCEPT ![i] = branch[i]] /\ branch[i] > 1
    BY <1>2 DEF Push, IssueWorkflowUnchanged
  <2>2. QED
    BY <1>0, <2>1 DEF HeadsExist
<1>3. ASSUME NEW i \in Issues, OpenPullRequest(i) \/ ChecksPass(i) \/ MainPasses(i)
      PROVE  HeadsExist'
  <2>1. UNCHANGED remote
    BY <1>3 DEF OpenPullRequest, ChecksPass, MainPasses, workspace
  <2>2. \/ UNCHANGED pr
        \/ pr' = [pr EXCEPT ![i] = "green"]
        \/ pr' = [pr EXCEPT ![i] = "open"] /\ remote[i] > 1
    BY <1>3 DEF OpenPullRequest, ChecksPass, MainPasses, IssueWorkflowUnchanged
  <2>3. QED
    BY <1>0, <2>1, <2>2 DEF HeadsExist
<1>4. ASSUME NEW p \in Operators, Approve(p) PROVE HeadsExist'
  BY <1>1, <1>4 DEF Approve, IssueWorkflowUnchanged, workspace
<1>5. ASSUME NEW p \in Operators, Merge(p) PROVE HeadsExist'
  <2>1. PICK i \in Issues :
          \/ UNCHANGED <<pr, remote>>
          \/ /\ pr' = [pr EXCEPT ![i] = "merged"]
             /\ remote' = [remote EXCEPT ![i] = 0]
    BY <1>0, <1>5 DEF Merge
  <2>2. QED
    BY <1>0, <2>1 DEF HeadsExist
<1>6. ASSUME NEW i \in Issues, ApproveByHand(i) \/ MergeByHand(i) PROVE HeadsExist'
  <2>1. UNCHANGED remote
    BY <1>6 DEF ApproveByHand, MergeByHand, workspace
  <2>2. UNCHANGED pr \/ pr' = [pr EXCEPT ![i] = "merged"]
    BY <1>6 DEF ApproveByHand, MergeByHand, IssueWorkflowUnchanged
  <2>3. QED
    BY <1>0, <2>1, <2>2 DEF HeadsExist
<1>7. QED
  BY <1>1, <1>2, <1>3, <1>4, <1>5, <1>6, PullRequestsMove

\* A step keeps the invariant, and is a step of IssueWorkflow.
LEMMA DeliveryStep ==
  ASSUME Delivers, DeliveryInv, [DeliveryNext]_deliveryVars
  PROVE  DeliveryInv' /\ [Next]_vars
<1>0. /\ TypeOK /\ AddedTypeOK /\ LoopTypeOK
      /\ JobsInOrder /\ HeadsExist /\ FilesAgree
  BY DEF DeliveryInv, DeliveryTypeOK, AddedTypeOK
<1> SUFFICES /\ [Next]_vars /\ FilesAgree'
             /\ AddedTypeOK' /\ JobsInOrder' /\ LoopTypeOK' /\ HeadsExist'
  BY <1>0, StepTyped DEF DeliveryInv, DeliveryTypeOK, AddedTypeOK
<1>a. UNCHANGED loop => LoopTypeOK'
  BY <1>0 DEF LoopTypeOK
<1>1. CASE UNCHANGED deliveryVars
  <2>1. [Next]_vars /\ FilesAgree'
    BY <1>0, <1>1, NothingSeenOfIt DEF deliveryVars, execution
  <2>2. AddedTypeOK' /\ JobsInOrder'
    BY <1>0, <1>1, NothingAddedChanges DEF deliveryVars
  <2>3. HeadsExist' /\ LoopTypeOK'
    BY <1>0, <1>1, <1>a DEF deliveryVars, vars, workspace, HeadsExist
  <2>4. QED
    BY <2>1, <2>2, <2>3
<1>2. CASE DeliveryNext
  <2>1. HeadsExist'
    BY <1>0, <1>2, HeadsExistKept
  <2>2. CASE Surroundings
    <3>1. UNCHANGED loop
      BY <2>2 DEF Surroundings, InRepository, OnFiles, OnPullRequest, NoopIsValidated, ByHand
    <3>2. QED
      BY <1>0, <1>a, <2>1, <2>2, <3>1, SurroundingsImplement, SurroundingsTyped
  <2>3. ASSUME NEW p \in Operators, DeliveryCommand(p)
        PROVE  [Next]_vars /\ FilesAgree' /\ AddedTypeOK' /\ JobsInOrder' /\ LoopTypeOK'
    <3>1. UNCHANGED <<jobs, workspace, execution, review>> /\ UNCHANGED loop
      BY <2>3 DEF DeliveryCommand
    <3>2. QED
      BY <1>0, <1>a, <2>3, <3>1, DeliveryCommandImplements, NothingAddedChanges
  <2>4. ASSUME NEW p \in Operators, JobStep(p)
        PROVE  [Next]_vars /\ FilesAgree' /\ AddedTypeOK' /\ JobsInOrder' /\ LoopTypeOK'
    <3>1. CASE StopJob(p)
      <4>1. UNCHANGED <<workspace, execution, review>> /\ EndJob(p, "failed")
        BY <3>1 DEF StopJob
      <4>2. JobTypeOK'
        BY <1>0, <4>1, JobWrites DEF AddedTypeOK
      <4>3. JobsInOrder'
        BY <1>0, <4>1, JobBookkeeping
           DEF JobsInOrder, FindsWhatItMay, At, AddedTypeOK, NoJob
      <4>4. AddedTypeOK'
        BY <1>0, <4>1, <4>2 DEF AddedTypeOK, WorkspaceTypeOK, workspace, ReviewTypeOK, review,
                                ExecutionTypeOK, execution
      <4>5. QED
        BY <1>0, <1>a, <2>4, <3>1, <4>3, <4>4, JobImplements DEF JobStep
    <3>2. QED
      BY <1>0, <1>a, <2>4, <3>1, JobImplements, WorkspaceTyped, ExecutionTyped, ReviewTyped
         DEF JobStep
  <2>5. ASSUME NEW p \in Operators, LoopStep(p)
        PROVE  [Next]_vars /\ FilesAgree' /\ AddedTypeOK' /\ JobsInOrder' /\ LoopTypeOK'
    BY <1>0, <2>5, LoopImplements, LoopTyped
  <2>6. QED
    BY <1>2, <2>1, <2>2, <2>3, <2>4, <2>5 DEF DeliveryNext
<1>3. QED
  BY <1>1, <1>2

LEMMA DeliveryStart == DeliveryInit => DeliveryInv /\ Init
<1> SUFFICES ASSUME DeliveryInit PROVE DeliveryInv
  BY DEF DeliveryInit
<1>1. TypeOK
  BY InitTyped DEF DeliveryInit
<1>2. JobTypeOK /\ JobsInOrder
  <2>1. NoJob \in Job /\ NoJob.name = "none"
    BY DEF NoJob, Job, JobSteps, NothingCopied
  <2>2. \A p \in Operators : job[p] = NoJob
    BY DEF DeliveryInit, JobInit
  <2>3. JobsInOrder
    BY <2>1, <2>2 DEF JobsInOrder, FindsWhatItMay, At
  <2>4. QED
    BY <2>1, <2>3 DEF DeliveryInit, JobInit, JobTypeOK
<1>3. WorkspaceTypeOK /\ ReviewTypeOK
  BY MaxCommitsAssumption
     DEF DeliveryInit, WorkspaceInit, WorkspaceTypeOK, ReviewInit, ReviewTypeOK
<1>4. ExecutionTypeOK
  BY MaxFailuresAssumption DEF DeliveryInit, ExecutionInit, ExecutionTypeOK
<1>5. LoopTypeOK
  BY MaxCyclesAssumption DEF DeliveryInit, LoopInit, LoopTypeOK, Loop, NoLoop
<1>6. HeadsExist
  BY DEF DeliveryInit, Init, EvidenceInit, HeadsExist
<1>7. FilesAgree
  <2> SUFFICES ASSUME NEW i \in Issues PROVE ~ArtifactPasses(i)
    BY DEF FilesAgree
  <2>1. artifact[i] = "none" /\ raw[i] = "none"
    BY DEF DeliveryInit, ExecutionInit
  <2>2. Summary(i) = {}
    BY <2>1 DEF Summary, TextOf
  <2>3. Artifact(i) = {}
    BY <2>1, <2>2 DEF Artifact, Output
  <2>4. ~WorkerArtifactValid(i)
    BY <2>2 DEF WorkerArtifactValid, HasWorkerFields
  <2>5. ~ReviewGatePhrases(Artifact(i)) /\ ~HumanGatePasses(Artifact(i))
    BY <2>3 DEF ReviewGatePhrases, HumanGatePasses, HumanApproved
  <2>6. QED
    BY <2>4, <2>5 DEF ArtifactPasses
<1>8. QED
  BY <1>1, <1>2, <1>3, <1>4, <1>5, <1>6, <1>7 DEF DeliveryInv, DeliveryTypeOK

LEMMA DeliveryInvHolds ==
  ASSUME Delivers
  PROVE  DeliverySpec => []DeliveryInv
<1>1. DeliveryInv /\ [DeliveryNext]_deliveryVars => DeliveryInv'
  BY DeliveryStep
<1>2. QED
  BY <1>1, DeliveryStart, PTL DEF DeliverySpec

\* Every variable keeps its type: files, worktrees, commits, jobs and loops.
THEOREM DeliveryTypeCorrect ==
  ASSUME Delivers
  PROVE  DeliverySpec => []DeliveryTypeOK
<1>1. DeliveryInv => DeliveryTypeOK
  BY DEF DeliveryInv
<1>2. QED
  BY <1>1, DeliveryInvHolds, PTL

\* Whatever executions, people and merges do to the files and to the pull requests, in
\* any order, they behave as IssueWorkflow takes for granted, and a gate that turns an
\* issue away is a command that stops.
THEOREM DeliveryImplementsIssueWorkflow ==
  ASSUME Delivers
  PROVE  DeliverySpec => ImplementsWorkflow
<1>1. DeliveryInit => Init
  BY DeliveryStart
<1>2. DeliveryInv /\ [DeliveryNext]_deliveryVars => [Next]_vars
  BY DeliveryStep
<1>3. QED
  BY <1>1, <1>2, DeliveryInvHolds, PTL DEF DeliverySpec, ImplementsWorkflow, Spec

-----------------------------------------------------------------------------
(* What merge apply merges was reviewed.                                   *)

\* Who is about to merge has seen an approval, and checks that passed before the gate.
MergesWhatIsReviewed(p) ==
  job[p].name = "merge" =>
    \E i \in Issues : /\ job[p].of = {i} /\ approved[i] # 0
                      /\ job[p].step \in {"gate", "call"} => passed[i] # {}

ReviewedInv ==
  /\ \A i \in Issues : Shipped(i) => merged[i] # 0
  /\ \A p \in Operators : MergesWhatIsReviewed(p)

\* An approval and checks that have passed are not taken back, nor is a merge.
LEMMA ReviewsStay ==
  ASSUME TypeOK, AddedTypeOK, HeadsExist, ReviewedInv, DeliveryNext, NEW i \in Issues
  PROVE  /\ approved[i] # 0 => approved'[i] # 0
         /\ passed[i] # {} => passed'[i] # {}
         /\ Shipped(i) => Shipped(i)'
         /\ Shipped(i)' => merged'[i] # 0
<1>0. /\ pr \in [Issues -> {"none", "open", "merged", "green"}]
      /\ remote \in [Issues -> 0..MaxCommits] /\ approved \in [Issues -> 0..MaxCommits]
      /\ merged \in [Issues -> 0..MaxCommits] /\ passed \in [Issues -> SUBSET Commits]
      /\ \A j \in Issues : Shipped(j) => merged[j] # 0
      /\ \A p \in Operators : job[p].of \subseteq Issues
  BY DEF TypeOK, EvidenceTypeOK, AddedTypeOK, WorkspaceTypeOK, ReviewTypeOK, ReviewedInv,
         JobTypeOK, Job
<1>1. CASE UNCHANGED <<pr, remote, passed, approved, merged>>
  BY <1>0, <1>1 DEF Shipped
<1>a. ASSUME NEW j \in Issues, Push(j) /\ UNCHANGED review
      PROVE  /\ approved[i] # 0 => approved'[i] # 0
             /\ passed[i] # {} => passed'[i] # {}
             /\ Shipped(i) => Shipped(i)'
             /\ Shipped(i)' => merged'[i] # 0
  BY <1>0, <1>a DEF Push, IssueWorkflowUnchanged, review, Shipped
<1>2. ASSUME NEW j \in Issues, OpenPullRequest(j) \/ ChecksPass(j) \/ MainPasses(j)
      PROVE  /\ approved[i] # 0 => approved'[i] # 0
             /\ passed[i] # {} => passed'[i] # {}
             /\ Shipped(i) => Shipped(i)'
             /\ Shipped(i)' => merged'[i] # 0
  <2>1. UNCHANGED <<approved, merged>>
    BY <1>2 DEF OpenPullRequest, ChecksPass, MainPasses, IssueWorkflowUnchanged, review
  <2>2. \/ UNCHANGED pr
        \/ pr[j] = "none" /\ pr' = [pr EXCEPT ![j] = "open"]
        \/ pr[j] = "merged" /\ pr' = [pr EXCEPT ![j] = "green"]
    BY <1>2 DEF OpenPullRequest, ChecksPass, MainPasses, IssueWorkflowUnchanged
  <2>3. Shipped(i) <=> Shipped(i)'
    BY <1>0, <2>2 DEF Shipped
  <2>4. UNCHANGED passed \/ passed' = [passed EXCEPT ![j] = @ \cup {remote[j]}]
    BY <1>2 DEF OpenPullRequest, ChecksPass, MainPasses, review
  <2>5. QED
    BY <1>0, <2>1, <2>3, <2>4
<1>3. ASSUME NEW p \in Operators, Approve(p)
      PROVE  /\ approved[i] # 0 => approved'[i] # 0
             /\ passed[i] # {} => passed'[i] # {}
             /\ Shipped(i) => Shipped(i)'
             /\ Shipped(i)' => merged'[i] # 0
  <2>1. UNCHANGED <<pr, passed, merged>>
    BY <1>3 DEF Approve, IssueWorkflowUnchanged
  <2>2. PICK j \in Issues : \/ UNCHANGED approved
                            \/ pr[j] = "open" /\ approved' = [approved EXCEPT ![j] = remote[j]]
    BY <1>0, <1>3 DEF Approve
  <2>3. approved[i] # 0 => approved'[i] # 0
    BY <1>0, <2>2 DEF HeadsExist
  <2>4. QED
    BY <1>0, <2>1, <2>3 DEF Shipped
<1>4. ASSUME NEW p \in Operators, Merge(p)
      PROVE  /\ approved[i] # 0 => approved'[i] # 0
             /\ passed[i] # {} => passed'[i] # {}
             /\ Shipped(i) => Shipped(i)'
             /\ Shipped(i)' => merged'[i] # 0
  <2>1. UNCHANGED <<passed, approved>>
    BY <1>4 DEF Merge
  <2>2. PICK j \in job[p].of : \/ UNCHANGED <<pr, merged>>
                               \/ /\ pr[j] = "open" /\ pr' = [pr EXCEPT ![j] = "merged"]
                                  /\ merged' = [merged EXCEPT ![j] = remote[j]]
    BY <1>4 DEF Merge
  <2>3. j \in Issues
    BY <1>0
  <2>4. QED
    BY <1>0, <2>1, <2>2, <2>3 DEF HeadsExist, Shipped
<1>5. ASSUME NEW j \in Issues, ApproveByHand(j) \/ MergeByHand(j)
      PROVE  /\ approved[i] # 0 => approved'[i] # 0
             /\ passed[i] # {} => passed'[i] # {}
             /\ Shipped(i) => Shipped(i)'
             /\ Shipped(i)' => merged'[i] # 0
  <2>1. UNCHANGED passed /\ pr[j] = "open"
    BY <1>5 DEF ApproveByHand, MergeByHand
  <2>2. CASE ApproveByHand(j)
    <3>1. UNCHANGED <<pr, merged>> /\ approved' = [approved EXCEPT ![j] = remote[j]]
      BY <2>2 DEF ApproveByHand, IssueWorkflowUnchanged
    <3>2. QED
      BY <1>0, <2>1, <3>1 DEF HeadsExist, Shipped
  <2>3. CASE MergeByHand(j)
    <3>1. /\ UNCHANGED approved /\ pr' = [pr EXCEPT ![j] = "merged"]
          /\ merged' = [merged EXCEPT ![j] = remote[j]]
      BY <2>3 DEF MergeByHand
    <3>2. QED
      BY <1>0, <2>1, <3>1 DEF HeadsExist, Shipped
  <2>4. QED
    BY <1>5, <2>2, <2>3
<1>6. QED
  BY <1>1, <1>a, <1>2, <1>3, <1>4, <1>5, PullRequestsMove

LEMMA ReviewedKept ==
  ASSUME DeliveryInv, ReviewedInv, DeliveryNext
  PROVE  ReviewedInv'
<1>0. /\ TypeOK /\ AddedTypeOK /\ LoopTypeOK /\ HeadsExist /\ JobTypeOK
      /\ \A p \in Operators : job[p].of \subseteq Issues
  BY DEF DeliveryInv, DeliveryTypeOK, AddedTypeOK, JobTypeOK, Job
<1>1. \A i \in Issues : /\ approved[i] # 0 => approved'[i] # 0
                        /\ passed[i] # {} => passed'[i] # {}
                        /\ Shipped(i)' => merged'[i] # 0
  BY <1>0, ReviewsStay
<1>2. ASSUME NEW p \in Operators PROVE MergesWhatIsReviewed(p)'
  <2>0. MergesWhatIsReviewed(p)
    BY DEF ReviewedInv
  <2>1. CASE job'[p] = job[p]
    BY <1>0, <1>1, <2>0, <2>1 DEF MergesWhatIsReviewed
  <2>2. CASE job'[p].name \notin {"merge", "cleanup"}
    BY <2>2 DEF MergesWhatIsReviewed
  <2>3. ASSUME NEW i \in Issues, PlanMerge(p, i) PROVE MergesWhatIsReviewed(p)'
    <3>1. approved[i] # 0 /\ Take(p, "merge", "checks", i)
      BY <2>3 DEF PlanMerge, ReviewDecision
    <3>2. job'[p].step = "checks" /\ job'[p].of = {i}
      BY <1>0, <3>1, JobBookkeeping
    <3>3. QED
      BY <1>1, <3>1, <3>2 DEF MergesWhatIsReviewed
  <2>4. ASSUME NEW i \in Issues, PlanCleanup(p, i) PROVE MergesWhatIsReviewed(p)'
    <3>1. \E step : Take(p, "cleanup", step, i)
      BY <2>4 DEF PlanCleanup
    <3>2. job'[p].name = "cleanup"
      BY <1>0, <3>1, JobBookkeeping
    <3>3. QED
      BY <3>2 DEF MergesWhatIsReviewed
  <2>5. CASE ReadChecks(p)
    <3>1. PICK i \in job[p].of : IF HeadPasses(i) THEN Proceed(p, "gate") ELSE EndJob(p, "failed")
      BY <2>5 DEF ReadChecks
    <3>2. CASE EndJob(p, "failed")
      BY <1>0, <3>2, JobBookkeeping DEF MergesWhatIsReviewed, NoJob
    <3>3. CASE HeadPasses(i) /\ Proceed(p, "gate")
      <4>1. job[p].of = {i}
        BY <2>0, <2>5, <3>1 DEF MergesWhatIsReviewed, ReadChecks, At
      <4>2. passed[i] # {}
        BY <3>3 DEF HeadPasses
      <4>3. job'[p].of = job[p].of /\ job[p].name = "merge" /\ i \in Issues
        BY <1>0, <2>5, <3>1, <3>3, JobBookkeeping DEF ReadChecks, At
      <4>4. QED
        BY <1>1, <2>0, <4>1, <4>2, <4>3 DEF MergesWhatIsReviewed
    <3>4. QED
      BY <3>1, <3>2, <3>3
  <2>6. CASE ReadReviewGate(p)
    <3>1. Proceed(p, "call") \/ EndJob(p, "failed")
      BY <2>6 DEF ReadReviewGate
    <3>2. job[p].name = "merge" /\ job[p].step = "gate"
      BY <2>6 DEF ReadReviewGate, At
    <3>3. job'[p] = NoJob \/ job'[p].of = job[p].of
      BY <1>0, <3>1, JobBookkeeping
    <3>4. QED
      BY <1>0, <1>1, <2>0, <3>2, <3>3 DEF MergesWhatIsReviewed, NoJob
  <2>7. CASE RemoveWorktree(p)
    <3>1. Proceed(p, "branch") \/ EndJob(p, "failed")
      BY <2>7 DEF RemoveWorktree
    <3>2. job[p].name = "cleanup"
      BY <2>7 DEF RemoveWorktree, At
    <3>3. job'[p].name \in {"cleanup", "none"}
      BY <1>0, <3>1, <3>2, JobBookkeeping DEF NoJob
    <3>4. QED
      BY <3>3 DEF MergesWhatIsReviewed
  <2>8. QED
    BY <1>0, <2>1, <2>2, <2>3, <2>4, <2>5, <2>6, <2>7, JobsMove
<1>3. QED
  BY <1>1, <1>2 DEF ReviewedInv

LEMMA ReviewedInvHolds ==
  ASSUME Delivers
  PROVE  DeliverySpec => []ReviewedInv
<1>1. DeliveryInit => ReviewedInv
  BY DEF DeliveryInit, Init, EvidenceInit, JobInit, NoJob, ReviewedInv, Shipped,
         MergesWhatIsReviewed
<1>2. DeliveryInv /\ ReviewedInv /\ [DeliveryNext]_deliveryVars => ReviewedInv'
  <2>1. UNCHANGED deliveryVars /\ ReviewedInv => ReviewedInv'
    BY DEF deliveryVars, vars, evidence, jobs, review, ReviewedInv, Shipped,
           MergesWhatIsReviewed
  <2>2. QED
    BY <2>1, ReviewedKept
<1>3. QED
  BY <1>1, <1>2, DeliveryInvHolds, PTL DEF DeliverySpec

\* The call of a merge ends the job; what people merge on GitHub meanwhile does not.
LEMMA OnlyTheCallMerges ==
  ASSUME DeliveryInv, DeliveryNext, NEW p \in Operators, NEW i \in Issues,
         At(p, "merge", "call"), job'[p] = NoJob, pr[i] = "open", pr'[i] = "merged"
  PROVE  i \in job[p].of
<1>0. /\ TypeOK /\ JobTypeOK /\ pr \in [Issues -> {"none", "open", "merged", "green"}]
      /\ job[p].name = "merge" /\ NoJob.name = "none"
  BY DEF DeliveryInv, DeliveryTypeOK, TypeOK, EvidenceTypeOK, At, NoJob
<1>1. job'[p] # job[p] /\ pr' # pr
  BY <1>0
<1>2. ASSUME NEW q \in Operators, Merge(q) PROVE i \in job[p].of
  <2>1. \E how : EndJob(q, how)
    BY <1>2 DEF Merge
  <2>2. q = p
    BY <1>0, <1>1, <2>1, JobBookkeeping
  <2>3. PICK j \in job[q].of : UNCHANGED pr \/ pr' = [pr EXCEPT ![j] = "merged"]
    BY <1>2 DEF Merge
  <2>4. QED
    BY <1>0, <1>1, <2>2, <2>3
<1>3. ASSUME NEW q \in Operators, Approve(q) PROVE FALSE
  BY <1>1, <1>3 DEF Approve, IssueWorkflowUnchanged
<1>4. ASSUME NEW j \in Issues,
             \/ Push(j) \/ OpenPullRequest(j) \/ ChecksPass(j) \/ MainPasses(j)
             \/ ApproveByHand(j) \/ MergeByHand(j)
      PROVE  FALSE
  <2>1. UNCHANGED jobs
    BY <1>4 DEF Push, OpenPullRequest, ChecksPass, MainPasses, ApproveByHand, MergeByHand
  <2>2. QED
    BY <1>1, <2>1 DEF jobs
<1>5. QED
  BY <1>0, <1>1, <1>2, <1>3, <1>4, PullRequestsMove

\* Whoever runs merge apply, by hand or in a loop, with a call that names no commit, after
\* readings that lie as far apart as one likes, whatever others and people on GitHub do
\* meanwhile, and whatever fails: what it merges was approved and has had checks that
\* passed.
THEOREM OnlyReviewedWorkIsMerged ==
  ASSUME Delivers
  PROVE  DeliverySpec => MergesWhatWasReviewed
<1> DEFINE Looked == [\A p \in Operators, i \in Issues :
                        At(p, "merge", "call") /\ job'[p] = NoJob
                          /\ pr[i] = "open" /\ pr'[i] = "merged"
                          => approved[i] # 0 /\ passed[i] # {}]_deliveryVars
<1>1. DeliveryInv /\ ReviewedInv /\ [DeliveryNext]_deliveryVars => Looked
  <2> SUFFICES ASSUME DeliveryInv, ReviewedInv, DeliveryNext,
                      NEW p \in Operators, NEW i \in Issues,
                      At(p, "merge", "call"), job'[p] = NoJob,
                      pr[i] = "open", pr'[i] = "merged"
               PROVE  approved[i] # 0 /\ passed[i] # {}
    OBVIOUS
  <2>1. i \in job[p].of
    BY OnlyTheCallMerges
  <2>2. QED
    BY <2>1 DEF ReviewedInv, MergesWhatIsReviewed, At
<1>2. QED
  BY <1>1, DeliveryInvHolds, ReviewedInvHolds, PTL DEF DeliverySpec, MergesWhatWasReviewed

-----------------------------------------------------------------------------
(* What is removed is finished.                                            *)

\* Who is cleaning up does so after an issue that was merged and completed.
RemovesWhatIsFinished(p) ==
  job[p].name = "cleanup" =>
    \A i \in job[p].of : i \in Issues /\ Shipped(i) /\ issueState[i] = "completed"

LEMMA CompletedStays ==
  ASSUME NoClear, TypeOK, PromotionInv, [Next]_vars, NEW i \in Issues,
         issueState[i] = "completed"
  PROVE  issueState'[i] = "completed"
<1>1. CASE EvidenceStep \/ UNCHANGED vars
  BY <1>1 DEF EvidenceStep, PullRequestAdvances, SummaryPasses, NoopGatePasses, tracker, vars
<1>2. ASSUME NEW p \in Operators, CommandStep(p) PROVE issueState'[i] = "completed"
  BY <1>2, NothingRetired
<1>3. QED
  BY <1>1, <1>2 DEF Next

LEMMA CleanupsKept ==
  ASSUME NoClear, Delivers, DeliveryInv, ReviewedInv, PromotionInv, DeliveryNext,
         \A p \in Operators : RemovesWhatIsFinished(p),
         NEW p \in Operators
  PROVE  RemovesWhatIsFinished(p)'
<1>0. /\ TypeOK /\ AddedTypeOK /\ LoopTypeOK /\ HeadsExist /\ JobTypeOK
      /\ RemovesWhatIsFinished(p)
  BY DEF DeliveryInv, DeliveryTypeOK, AddedTypeOK
<1>1. ASSUME NEW i \in Issues
      PROVE  /\ Shipped(i) => Shipped(i)'
             /\ issueState[i] = "completed" => issueState'[i] = "completed"
  <2>1. [Next]_vars
    BY DeliveryStep
  <2>2. QED
    BY <1>0, <2>1, ReviewsStay, CompletedStays
<1>2. CASE job'[p] = job[p]
  BY <1>0, <1>1, <1>2 DEF RemovesWhatIsFinished
<1>3. CASE job'[p].name \notin {"merge", "cleanup"}
  BY <1>3 DEF RemovesWhatIsFinished
<1>4. ASSUME NEW i \in Issues, PlanMerge(p, i) PROVE RemovesWhatIsFinished(p)'
  <2>1. Take(p, "merge", "checks", i)
    BY <1>4 DEF PlanMerge
  <2>2. job'[p].name = "merge"
    BY <1>0, <2>1, JobBookkeeping
  <2>3. QED
    BY <2>2 DEF RemovesWhatIsFinished
<1>5. ASSUME NEW i \in Issues, PlanCleanup(p, i) PROVE RemovesWhatIsFinished(p)'
  <2>1. Shipped(i) /\ issueState[i] # "open" /\ \E step : Take(p, "cleanup", step, i)
    BY <1>5 DEF PlanCleanup, CleanupReady, Integrated
  <2>2. issueState[i] = "completed"
    BY <1>0, <2>1 DEF PromotionInv, TypeOK, TrackerTypeOK
  <2>3. job'[p].of = {i}
    BY <1>0, <2>1, JobBookkeeping
  <2>4. QED
    BY <1>1, <2>1, <2>2, <2>3 DEF RemovesWhatIsFinished
<1>6. CASE ReadChecks(p) \/ ReadReviewGate(p)
  <2>1. job[p].name = "merge"
        /\ (EndJob(p, "failed") \/ \E step : Proceed(p, step))
    BY <1>6 DEF ReadChecks, ReadReviewGate, At
  <2>2. job'[p].name # "cleanup"
    BY <1>0, <2>1, JobBookkeeping DEF NoJob
  <2>3. QED
    BY <2>2 DEF RemovesWhatIsFinished
<1>7. CASE RemoveWorktree(p)
  <2>1. job[p].name = "cleanup" /\ (EndJob(p, "failed") \/ Proceed(p, "branch"))
    BY <1>7 DEF RemoveWorktree, At
  <2>2. job'[p].name # "cleanup" \/ job'[p].of = job[p].of
    BY <1>0, <2>1, JobBookkeeping DEF NoJob
  <2>3. QED
    BY <1>0, <1>1, <2>1, <2>2 DEF RemovesWhatIsFinished
<1>8. QED
  BY <1>0, <1>2, <1>3, <1>4, <1>5, <1>6, <1>7, JobsMove

Removed(i) ==
  (worktree[i] # "none" /\ worktree'[i] = "none") \/ (branch[i] # 0 /\ branch'[i] = 0)

\* Nothing but a cleanup of its issue removes a worktree or a branch.
LEMMA OnlyCleanupRemoves ==
  ASSUME TypeOK, AddedTypeOK, DeliveryNext, NEW i \in Issues, Removed(i)
  PROVE  \E p \in Operators : job[p].name = "cleanup" /\ i \in job[p].of
<1>0. /\ worktree \in [Issues -> {"none", "clean", "dirty"}]
      /\ branch \in [Issues -> 0..MaxCommits] /\ MaxCommits \in Nat \ {0}
      /\ \A p \in Operators : job[p].of \subseteq Issues
  BY MaxCommitsAssumption DEF AddedTypeOK, WorkspaceTypeOK, JobTypeOK, Job
<1>1. ~UNCHANGED <<worktree, branch>>
  BY DEF Removed
<1>2. CASE Surroundings
  <2>1. PICK j \in Issues : Commit(j)
    BY <1>1, <1>2 DEF Surroundings, InRepository, CheckoutChanges, Sync, Push, OnFiles,
       WriteManualSummary, PutRawAside, FilesChange, OnPullRequest, OpenPullRequest,
       ChecksPass, MainPasses, ByHand, WriteManualReview, ApproveByHand, MergeByHand,
       NoopIsValidated, workspace
  <2>2. /\ worktree' = [worktree EXCEPT ![j] = "clean"]
        /\ branch' = [branch EXCEPT ![j] = IF @ < MaxCommits THEN @ + 1 ELSE @]
    BY <2>1 DEF Commit
  <2>3. QED
    BY <1>0, <2>2 DEF Removed
<1>3. ASSUME NEW p \in Operators, DeliveryCommand(p) PROVE FALSE
  BY <1>1, <1>3 DEF DeliveryCommand, workspace
<1>4. ASSUME NEW p \in Operators, WorkspaceStep(p)
      PROVE  job[p].name = "cleanup" /\ i \in job[p].of
  <2>1. CASE AddWorktree(p)
    <3>1. PICK j \in job[p].of :
            /\ worktree' = worktree \/ worktree' = [worktree EXCEPT ![j] = "clean"]
            /\ branch' = branch \/ branch' = [branch EXCEPT ![j] = 1]
      BY <2>1 DEF AddWorktree
    <3>2. QED
      BY <1>0, <3>1 DEF Removed
  <2>2. CASE RemoveWorktree(p)
    <3>1. PICK j \in job[p].of :
            /\ worktree' = worktree \/ worktree' = [worktree EXCEPT ![j] = "none"]
            /\ branch' = branch
      BY <2>2 DEF RemoveWorktree
    <3>2. QED
      BY <1>0, <2>2, <3>1 DEF Removed, RemoveWorktree, At
  <2>3. CASE DeleteBranch(p)
    <3>1. PICK j \in job[p].of :
            /\ branch' = branch \/ branch' = [branch EXCEPT ![j] = 0]
            /\ worktree' = worktree
      BY <2>3 DEF DeleteBranch
    <3>2. QED
      BY <1>0, <2>3, <3>1 DEF Removed, DeleteBranch, At
  <2>4. QED
    BY <1>1, <1>4, <2>1, <2>2, <2>3 DEF WorkspaceStep, PlanWorktree, PlanCleanup, workspace
<1>5. ASSUME NEW p \in Operators, ExecutionStep(p) PROVE FALSE
  <2>1. RunAgent(p)
    BY <1>1, <1>5 DEF ExecutionStep, WritePrompt, PlanExecute, WriteRaw, WriteSummary,
       LoadAttempts, RecordAttempt, LoadBugs, RecordBug, FilesChange, workspace
  <2>2. PICK j \in Issues : AgentWorks(j)
    BY <1>0, <2>1 DEF RunAgent
  <2>3. \/ UNCHANGED <<worktree, branch>>
        \/ worktree' = [worktree EXCEPT ![j] = "dirty"] /\ UNCHANGED branch
        \/ /\ branch[j] \in 1..(MaxCommits - 1)
           /\ branch' = [branch EXCEPT ![j] = @ + 1]
           /\ UNCHANGED worktree
    BY <2>2 DEF AgentWorks
  <2>4. QED
    BY <1>0, <2>3 DEF Removed
<1>6. ASSUME NEW p \in Operators, ReviewStep(p) \/ StopJob(p) PROVE FALSE
  BY <1>1, <1>6 DEF ReviewStep, ApprovalStep, MergeStep, PlanReview, WriteReviewPrompt,
     RunReviewer, WriteReviewSummary, PlanApproval, Approve, PlanMerge, ReadChecks,
     ReadReviewGate, Merge, StopJob, workspace
<1>7. ASSUME NEW p \in Operators, LoopStep(p) PROVE FALSE
  <2>1. RunCommand(p)
    BY <1>1, <1>7 DEF LoopStep, StartLoop, StartRunNext, SelectIssue, PlanCycle, RunReadOnly,
       EndCycle, InterruptLoop, NothingDone, workspace
  <2>2. NothingDone \/ \E j : Takes(p, loop[p].action, j)
    BY <2>1 DEF RunCommand
  <2>3. QED
    BY <1>1, <2>2 DEF Takes, NothingDone, PlanWorktree, WritePrompt, PlanExecute, PlanMerge,
       PlanCleanup, workspace
<1>8. QED
  BY <1>2, <1>3, <1>4, <1>5, <1>6, <1>7 DEF DeliveryNext, JobStep

\* As long as no roadmap is cleared: whatever an operator or a loop was about to clean up
\* when it looked, and whoever does something else meanwhile, worktrees and branches only
\* go when their pull request was merged and their issue is completed.
THEOREM CleanupIsLast ==
  ASSUME Delivers, NoClear
  PROVE  DeliverySpec => CleanupAfterIntegration
<1> DEFINE Cleanups == \A p \in Operators : RemovesWhatIsFinished(p)
           Orderly == [\A i \in Issues : Removed(i) => merged[i] # 0 /\ issueState[i] = "completed"]_deliveryVars
<1>1. DeliveryInit => Cleanups
  BY DEF DeliveryInit, JobInit, NoJob, RemovesWhatIsFinished
<1>2. /\ DeliveryInv /\ ReviewedInv /\ PromotionInv /\ Cleanups
      /\ [DeliveryNext]_deliveryVars
      => Cleanups'
  <2>1. UNCHANGED deliveryVars /\ Cleanups => Cleanups'
    BY DEF deliveryVars, vars, evidence, tracker, jobs, Shipped, RemovesWhatIsFinished
  <2>2. QED
    BY <2>1, CleanupsKept
<1>3. DeliveryInv /\ ReviewedInv /\ Cleanups /\ [DeliveryNext]_deliveryVars => Orderly
  <2> SUFFICES ASSUME DeliveryInv, ReviewedInv, Cleanups, DeliveryNext,
                      NEW i \in Issues, Removed(i)
               PROVE  merged[i] # 0 /\ issueState[i] = "completed"
    OBVIOUS
  <2>1. PICK p \in Operators : job[p].name = "cleanup" /\ i \in job[p].of
    BY OnlyCleanupRemoves DEF DeliveryInv, DeliveryTypeOK, AddedTypeOK
  <2>2. QED
    BY <2>1 DEF RemovesWhatIsFinished, ReviewedInv
<1>4. DeliverySpec => Spec
  BY DeliveryImplementsIssueWorkflow DEF ImplementsWorkflow
<1>5. Orderly =>
        [\A i \in Issues :
           (worktree[i] # "none" /\ worktree'[i] = "none") \/ (branch[i] # 0 /\ branch'[i] = 0)
             => merged[i] # 0 /\ issueState[i] = "completed"]_deliveryVars
  BY DEF Removed
<1>6. QED
  BY <1>1, <1>2, <1>3, <1>4, <1>5, DeliveryInvHolds, ReviewedInvHolds, PromotionInvHolds, PTL
     DEF DeliverySpec, CleanupAfterIntegration

-----------------------------------------------------------------------------
(* The ledgers.                                                            *)

AttemptSteps == {"raw", "summary", "attempt", "record attempt"}
BugSteps == {"bug", "record bug"}

\* p is executing i, and that has failed.
HasFailed(p, i) == job[p].name = "execute" /\ i \in job[p].of /\ job[p].found \in Failures

\* The failures of i that are not in the delegation ledger yet, and in the bug ledger.
Unrecorded(i) == {p \in Operators : HasFailed(p, i) /\ job[p].step \in AttemptSteps}
Unreported(i) == {p \in Operators : HasFailed(p, i) /\ job[p].step \in AttemptSteps \cup BugSteps}

\* A ledger, or the copy of one, leaves room for the failures that are still to come.
Room(n, i, pending) == IsFiniteSet(pending) /\ n + Cardinality(pending) <= failures[i]

CopiesHaveRoom(p) ==
  /\ Delegating(p, "record attempt") =>
       \A i \in Issues : Room(job[p].copy[i], i, Unrecorded(i))
  /\ Delegating(p, "record bug") =>
       \A i \in Issues : Room(job[p].copy[i], i, Unreported(i))

\* An execution is of one issue, and what it reports is a failure.
ExecutesOne(p) ==
  job[p].name = "execute" =>
    /\ \E i \in Issues : job[p].of = {i}
    /\ job[p].step \in BugSteps => job[p].found \in Failures

LedgersInv ==
  /\ \A i \in Issues : /\ Room(ledger[i], i, Unrecorded(i))
                       /\ Room(bugs[i], i, Unreported(i))
  /\ \A p \in Operators : CopiesHaveRoom(p) /\ ExecutesOne(p)

\* With fewer failures to come there is as much room as before.
LEMMA LessIsPending ==
  ASSUME NEW S, NEW T \in SUBSET S, IsFiniteSet(S), NEW n \in Nat, NEW m \in Nat,
         n + Cardinality(S) <= m
  PROVE  IsFiniteSet(T) /\ n + Cardinality(T) <= m
<1>1. IsFiniteSet(T) /\ Cardinality(T) <= Cardinality(S)
  BY FS_Subset
<1>2. Cardinality(S) \in Nat /\ Cardinality(T) \in Nat
  BY <1>1, FS_CardinalityType
<1>3. QED
  BY <1>1, <1>2

\* What a step of p that is not about an execution may do with the job of p.
Elsewhere(p) ==
  \/ job'[p] = job[p]
  \/ job'[p].name \notin {"execute", "review"}
  \/ job'[p].name = "review" /\ job'[p].step \notin {"record attempt", "record bug"}

\* What a step of p that neither fails nor records may do with the job of p.
Ordinary(p) ==
  \/ Elsewhere(p)
  \/ /\ job'[p].name = "execute" /\ job'[p].step = "agent"
     /\ \E i \in Issues : job'[p].of = {i}
  \/ /\ job'[p].name = "execute" /\ job[p].name = "execute"
     /\ job'[p].of = job[p].of /\ job'[p].found = job[p].found
     /\ job[p].step \in AttemptSteps
     /\ job'[p].step \in {"summary", "attempt"}
  \/ /\ job'[p].name = job[p].name
     /\ job'[p].of = job[p].of /\ job'[p].found = job[p].found
     /\ \/ job[p].step = "attempt" /\ job'[p].step = "record attempt" /\ job'[p].copy = ledger
        \/ job[p].step = "bug" /\ job'[p].step = "record bug" /\ job'[p].copy = bugs

LedgersUntouched == UNCHANGED <<ledger, bugs, failures>>

LEMMA OrdinaryKeepsLedgers ==
  ASSUME JobTypeOK, ExecutionTypeOK, LedgersInv, NEW p \in Operators,
         LedgersUntouched, Ordinary(p), \A q \in Operators \ {p} : job'[q] = job[q]
  PROVE  LedgersInv'
<1>0. /\ ledger \in [Issues -> Nat] /\ bugs \in [Issues -> Nat] /\ failures \in [Issues -> Nat]
      /\ \A q \in Operators : job[q].copy \in [Issues -> Nat]
  BY MaxFailuresAssumption DEF ExecutionTypeOK, JobTypeOK, Job
<1>1. \A i \in Issues : Unrecorded(i)' \subseteq Unrecorded(i)
  BY DEF Ordinary, Elsewhere, Unrecorded, HasFailed, AttemptSteps
<1>2. \A i \in Issues : Unreported(i)' \subseteq Unreported(i)
  BY DEF Ordinary, Elsewhere, Unreported, HasFailed, AttemptSteps, BugSteps
<1>3. ASSUME NEW n \in Nat, NEW i \in Issues, Room(n, i, Unrecorded(i))
      PROVE  Room(n, i, Unrecorded(i))'
  BY <1>0, <1>1, <1>3, LessIsPending DEF Room, LedgersUntouched
<1>4. ASSUME NEW n \in Nat, NEW i \in Issues, Room(n, i, Unreported(i))
      PROVE  Room(n, i, Unreported(i))'
  BY <1>0, <1>2, <1>4, LessIsPending DEF Room, LedgersUntouched
<1>5. \A i \in Issues : /\ Room(ledger[i], i, Unrecorded(i))'
                        /\ Room(bugs[i], i, Unreported(i))'
  BY <1>0, <1>3, <1>4 DEF LedgersInv, Room, LedgersUntouched
<1>6. ASSUME NEW q \in Operators PROVE CopiesHaveRoom(q)'
  <2>1. CopiesHaveRoom(q)
    BY DEF LedgersInv
  <2>2. CASE job'[q] = job[q]
    BY <1>0, <1>3, <1>4, <2>1, <2>2 DEF CopiesHaveRoom, Delegating, Room, LedgersUntouched
  <2>3. CASE job'[q] # job[q]
    <3>1. /\ Delegating(q, "record attempt")' => job'[q].copy = ledger
          /\ Delegating(q, "record bug")' => job'[q].copy = bugs
      BY <2>3 DEF Ordinary, Elsewhere, Delegating
    <3>2. QED
      BY <1>5, <3>1 DEF CopiesHaveRoom, LedgersUntouched
  <2>4. QED
    BY <2>2, <2>3
<1>7. ASSUME NEW q \in Operators PROVE ExecutesOne(q)'
  BY DEF LedgersInv, ExecutesOne, Ordinary, Elsewhere, BugSteps
<1>8. QED
  BY <1>5, <1>6, <1>7 DEF LedgersInv

\* A failure makes room for itself.
LEMMA OneMoreIsPending ==
  ASSUME NEW S, NEW x, NEW T \in SUBSET (S \cup {x}), IsFiniteSet(S),
         NEW n \in Nat, NEW m \in Nat, n + Cardinality(S) <= m
  PROVE  IsFiniteSet(T) /\ n + Cardinality(T) <= m + 1
<1>1. /\ IsFiniteSet(S \cup {x}) /\ Cardinality(S) \in Nat
      /\ Cardinality(S \cup {x}) <= Cardinality(S) + 1
  BY FS_AddElement, FS_CardinalityType
<1>2. Cardinality(S \cup {x}) \in Nat
  BY <1>1, FS_CardinalityType
<1>3. IsFiniteSet(T) /\ Cardinality(T) <= Cardinality(S \cup {x})
  BY <1>1, FS_Subset
<1>4. Cardinality(T) \in Nat
  BY <1>3, FS_CardinalityType
<1>5. QED
  BY <1>1, <1>2, <1>3, <1>4

\* An entry takes the room that was kept for it.
LEMMA OneLessIsPending ==
  ASSUME NEW S, NEW x \in S, NEW T \in SUBSET (S \ {x}), IsFiniteSet(S),
         NEW n \in Nat, NEW m \in Nat, n + Cardinality(S) <= m
  PROVE  IsFiniteSet(T) /\ n + 1 + Cardinality(T) <= m
<1>1. /\ IsFiniteSet(S \ {x}) /\ Cardinality(S) \in Nat /\ Cardinality(S \ {x}) \in Nat
      /\ Cardinality(S \ {x}) = Cardinality(S) - 1
  BY FS_RemoveElement, FS_CardinalityType
<1>2. IsFiniteSet(T) /\ Cardinality(T) <= Cardinality(S \ {x})
  BY <1>1, FS_Subset
<1>3. Cardinality(T) \in Nat
  BY <1>2, FS_CardinalityType
<1>4. QED
  BY <1>1, <1>2, <1>3

LEMMA RunAgentKeepsLedgers ==
  ASSUME JobTypeOK, ExecutionTypeOK, LedgersInv, NEW p \in Operators, RunAgent(p)
  PROVE  LedgersInv'
<1>0. /\ ledger \in [Issues -> Nat] /\ bugs \in [Issues -> Nat] /\ failures \in [Issues -> Nat]
      /\ \A q \in Operators : job[q].copy \in [Issues -> Nat]
      /\ UNCHANGED <<ledger, bugs>>
      /\ job[p].name = "execute"
  BY MaxFailuresAssumption DEF ExecutionTypeOK, JobTypeOK, Job, RunAgent, At
<1>1. PICK i \in job[p].of, found \in Results :
        /\ failures' = IF found \in Failures THEN [failures EXCEPT ![i] = @ + 1] ELSE failures
        /\ Finding(p, "raw", found)
  BY DEF RunAgent
<1>2. i \in Issues /\ job[p].of = {i}
  BY <1>0, <1>1 DEF LedgersInv, ExecutesOne
<1>3. /\ job'[p].name = "execute" /\ job'[p].step = "raw" /\ job'[p].of = {i}
      /\ job'[p].found = found /\ \A q \in Operators \ {p} : job'[q] = job[q]
  BY <1>0, <1>1, <1>2, JobBookkeeping
<1>4. failures' = [failures EXCEPT ![i] = IF found \in Failures THEN @ + 1 ELSE @]
  BY <1>0, <1>1, <1>2
<1>5. ASSUME NEW n \in Nat, NEW j \in Issues, Room(n, j, Unrecorded(j))
      PROVE  Room(n, j, Unrecorded(j))'
  <2>1. /\ Unrecorded(j)' \subseteq Unrecorded(j) \cup {p}
        /\ j # i \/ found \notin Failures => Unrecorded(j)' \subseteq Unrecorded(j)
    BY <1>3 DEF Unrecorded, HasFailed
  <2>2. CASE j # i \/ found \notin Failures
    BY <1>0, <1>2, <1>4, <1>5, <2>1, <2>2, LessIsPending DEF Room
  <2>3. CASE j = i /\ found \in Failures
    BY <1>0, <1>2, <1>4, <1>5, <2>1, <2>3, OneMoreIsPending DEF Room
  <2>4. QED
    BY <2>2, <2>3
<1>6. ASSUME NEW n \in Nat, NEW j \in Issues, Room(n, j, Unreported(j))
      PROVE  Room(n, j, Unreported(j))'
  <2>1. /\ Unreported(j)' \subseteq Unreported(j) \cup {p}
        /\ j # i \/ found \notin Failures => Unreported(j)' \subseteq Unreported(j)
    BY <1>3 DEF Unreported, HasFailed
  <2>2. CASE j # i \/ found \notin Failures
    BY <1>0, <1>2, <1>4, <1>6, <2>1, <2>2, LessIsPending DEF Room
  <2>3. CASE j = i /\ found \in Failures
    BY <1>0, <1>2, <1>4, <1>6, <2>1, <2>3, OneMoreIsPending DEF Room
  <2>4. QED
    BY <2>2, <2>3
<1>7. \A j \in Issues : /\ Room(ledger[j], j, Unrecorded(j))'
                        /\ Room(bugs[j], j, Unreported(j))'
  BY <1>0, <1>5, <1>6 DEF LedgersInv, Room
<1>8. ASSUME NEW q \in Operators PROVE CopiesHaveRoom(q)' /\ ExecutesOne(q)'
  <2>1. CopiesHaveRoom(q) /\ ExecutesOne(q)
    BY DEF LedgersInv
  <2>2. CASE q = p
    BY <1>2, <1>3, <2>2 DEF CopiesHaveRoom, Delegating, ExecutesOne, BugSteps
  <2>3. CASE q # p
    BY <1>0, <1>3, <1>5, <1>6, <2>1, <2>3
       DEF CopiesHaveRoom, Delegating, ExecutesOne, Room
  <2>4. QED
    BY <2>2, <2>3
<1>9. QED
  BY <1>7, <1>8 DEF LedgersInv

LEMMA RecordAttemptKeepsLedgers ==
  ASSUME JobTypeOK, ExecutionTypeOK, LedgersInv, NEW p \in Operators, RecordAttempt(p)
  PROVE  LedgersInv'
<1>0. /\ ledger \in [Issues -> Nat] /\ bugs \in [Issues -> Nat] /\ failures \in [Issues -> Nat]
      /\ \A q \in Operators : job[q].copy \in [Issues -> Nat]
      /\ UNCHANGED <<bugs, failures>>
      /\ Delegating(p, "record attempt") /\ CopiesHaveRoom(p) /\ ExecutesOne(p)
  <2>0. ledger \in [Issues -> Nat] /\ bugs \in [Issues -> Nat] /\ failures \in [Issues -> Nat]
    BY MaxFailuresAssumption DEF ExecutionTypeOK
  <2>1. \A q \in Operators : job[q].copy \in [Issues -> Nat]
    BY DEF JobTypeOK, Job
  <2>2. UNCHANGED <<bugs, failures>> /\ Delegating(p, "record attempt")
    BY DEF RecordAttempt
  <2>3. CopiesHaveRoom(p) /\ ExecutesOne(p)
    BY DEF LedgersInv
  <2>4. QED
    BY <2>0, <2>1, <2>2, <2>3
<1>1. \/ job[p].found \in Failures /\ Proceed(p, "bug")
      \/ EndJob(p, "applied")
  BY DEF RecordAttempt
<1>2. /\ \A q \in Operators \ {p} : job'[q] = job[q]
      /\ \/ job'[p] = NoJob
         \/ /\ job'[p].name = job[p].name /\ job'[p].step = "bug" /\ job'[p].of = job[p].of
            /\ job'[p].found = job[p].found /\ job[p].found \in Failures
  BY <1>0, <1>1, JobBookkeeping
<1>3. NoJob.name = "none"
  BY DEF NoJob
<1>4. \A i \in Issues : Unrecorded(i)' \subseteq Unrecorded(i) \ {p}
  BY <1>2, <1>3 DEF Unrecorded, HasFailed, AttemptSteps
<1>5. \A i \in Issues : Unreported(i)' \subseteq Unreported(i)
  BY <1>0, <1>2, <1>3 DEF Unreported, HasFailed, AttemptSteps, BugSteps, Delegating
<1>6. ASSUME NEW n \in Nat, NEW j \in Issues, Room(n, j, Unrecorded(j))
      PROVE  Room(n, j, Unrecorded(j))'
  BY <1>0, <1>4, <1>6, LessIsPending DEF Room
<1>7. ASSUME NEW n \in Nat, NEW j \in Issues, Room(n, j, Unreported(j))
      PROVE  Room(n, j, Unreported(j))'
  BY <1>0, <1>5, <1>7, LessIsPending DEF Room
<1>8. ASSUME NEW j \in Issues PROVE Room(ledger[j], j, Unrecorded(j))'
  <2>0. Room(job[p].copy[j], j, Unrecorded(j)) /\ job[p].copy[j] \in Nat
    BY <1>0 DEF CopiesHaveRoom
  <2>1. ledger'[j] = IF j \notin job[p].of \/ job[p].name = "review" THEN job[p].copy[j]
                     ELSE IF job[p].found \notin Failures THEN 0 ELSE job[p].copy[j] + 1
    BY DEF RecordAttempt, Appended
  <2>2. CASE ledger'[j] = job[p].copy[j]
    BY <1>6, <2>0, <2>2 DEF Room
  <2>3. CASE ledger'[j] = 0
    <3>1. Room(ledger[j], j, Unrecorded(j)) /\ ledger[j] \in Nat
      BY <1>0 DEF LedgersInv
    <3>2. IsFiniteSet(Unrecorded(j)) /\ ledger[j] + Cardinality(Unrecorded(j)) <= failures[j]
      BY <3>1 DEF Room
    <3>3. Cardinality(Unrecorded(j)) \in Nat /\ failures[j] \in Nat
      BY <1>0, <3>2, FS_CardinalityType
    <3>4. 0 + Cardinality(Unrecorded(j)) <= failures[j]
      BY <3>1, <3>2, <3>3
    <3>5. QED
      BY <1>6, <2>3, <3>2, <3>4 DEF Room
  <2>4. CASE p \in Unrecorded(j) /\ ledger'[j] = job[p].copy[j] + 1
    BY <1>0, <1>4, <2>0, <2>4, OneLessIsPending DEF Room
  <2>5. j \in job[p].of /\ job[p].name # "review" /\ job[p].found \in Failures
          => p \in Unrecorded(j)
    BY <1>0 DEF Unrecorded, HasFailed, AttemptSteps, Delegating
  <2>6. QED
    BY <2>1, <2>2, <2>3, <2>4, <2>5
<1>9. ASSUME NEW j \in Issues PROVE Room(bugs[j], j, Unreported(j))'
  BY <1>0, <1>7 DEF LedgersInv, Room
<1>10. ASSUME NEW q \in Operators PROVE CopiesHaveRoom(q)' /\ ExecutesOne(q)'
  <2>1. CopiesHaveRoom(q) /\ ExecutesOne(q)
    BY DEF LedgersInv
  <2>2. CASE q = p
    BY <1>2, <1>3, <2>1, <2>2 DEF CopiesHaveRoom, Delegating, ExecutesOne
  <2>3. CASE q # p
    BY <1>0, <1>2, <1>6, <1>7, <2>1, <2>3
       DEF CopiesHaveRoom, Delegating, ExecutesOne, Room
  <2>4. QED
    BY <2>2, <2>3
<1>11. QED
  BY <1>8, <1>9, <1>10 DEF LedgersInv

LEMMA RecordBugKeepsLedgers ==
  ASSUME JobTypeOK, ExecutionTypeOK, LedgersInv, NEW p \in Operators, RecordBug(p)
  PROVE  LedgersInv'
<1>0. /\ ledger \in [Issues -> Nat] /\ bugs \in [Issues -> Nat] /\ failures \in [Issues -> Nat]
      /\ \A q \in Operators : job[q].copy \in [Issues -> Nat]
      /\ UNCHANGED <<ledger, failures>>
      /\ Delegating(p, "record bug") /\ CopiesHaveRoom(p) /\ ExecutesOne(p)
  <2>0. ledger \in [Issues -> Nat] /\ bugs \in [Issues -> Nat] /\ failures \in [Issues -> Nat]
    BY MaxFailuresAssumption DEF ExecutionTypeOK
  <2>1. \A q \in Operators : job[q].copy \in [Issues -> Nat]
    BY DEF JobTypeOK, Job
  <2>2. UNCHANGED <<ledger, failures>> /\ Delegating(p, "record bug")
    BY DEF RecordBug
  <2>3. CopiesHaveRoom(p) /\ ExecutesOne(p)
    BY DEF LedgersInv
  <2>4. QED
    BY <2>0, <2>1, <2>2, <2>3
<1>1. EndJob(p, "failed")
  BY DEF RecordBug
<1>2. job'[p] = NoJob /\ \A q \in Operators \ {p} : job'[q] = job[q]
  BY <1>1, JobBookkeeping
<1>3. NoJob.name = "none"
  BY DEF NoJob
<1>4. \A i \in Issues : Unreported(i)' \subseteq Unreported(i) \ {p}
  BY <1>2, <1>3 DEF Unreported, HasFailed
<1>5. \A i \in Issues : Unrecorded(i)' \subseteq Unrecorded(i)
  BY <1>2, <1>3 DEF Unrecorded, HasFailed
<1>6. ASSUME NEW n \in Nat, NEW j \in Issues, Room(n, j, Unrecorded(j))
      PROVE  Room(n, j, Unrecorded(j))'
  BY <1>0, <1>5, <1>6, LessIsPending DEF Room
<1>7. ASSUME NEW n \in Nat, NEW j \in Issues, Room(n, j, Unreported(j))
      PROVE  Room(n, j, Unreported(j))'
  BY <1>0, <1>4, <1>7, LessIsPending DEF Room
<1>8. ASSUME NEW j \in Issues PROVE Room(bugs[j], j, Unreported(j))'
  <2>1. Room(job[p].copy[j], j, Unreported(j)) /\ job[p].copy[j] \in Nat
    BY <1>0 DEF CopiesHaveRoom
  <2>2. bugs'[j] = IF j \notin job[p].of \/ job[p].name = "review" THEN job[p].copy[j]
                   ELSE job[p].copy[j] + 1
    BY DEF RecordBug, Appended
  <2>3. CASE bugs'[j] = job[p].copy[j]
    BY <1>7, <2>1, <2>3 DEF Room
  <2>4. CASE p \in Unreported(j) /\ bugs'[j] = job[p].copy[j] + 1
    BY <1>0, <1>4, <2>1, <2>4, OneLessIsPending DEF Room
  <2>5. j \in job[p].of /\ job[p].name # "review" => p \in Unreported(j)
    BY <1>0 DEF Unreported, HasFailed, ExecutesOne, BugSteps, Delegating
  <2>6. QED
    BY <2>2, <2>3, <2>4, <2>5
<1>9. ASSUME NEW j \in Issues PROVE Room(ledger[j], j, Unrecorded(j))'
  BY <1>0, <1>6 DEF LedgersInv, Room
<1>10. ASSUME NEW q \in Operators PROVE CopiesHaveRoom(q)' /\ ExecutesOne(q)'
  <2>1. CopiesHaveRoom(q) /\ ExecutesOne(q)
    BY DEF LedgersInv
  <2>2. CASE q = p
    BY <1>2, <1>3, <2>2 DEF CopiesHaveRoom, Delegating, ExecutesOne
  <2>3. CASE q # p
    BY <1>0, <1>2, <1>6, <1>7, <2>1, <2>3
       DEF CopiesHaveRoom, Delegating, ExecutesOne, Room
  <2>4. QED
    BY <2>2, <2>3
<1>11. QED
  BY <1>8, <1>9, <1>10 DEF LedgersInv

OthersKeepJobs(p) == \A q \in Operators \ {p} : job'[q] = job[q]

LEMMA ReviewIsElsewhere ==
  ASSUME JobTypeOK, NEW p \in Operators, ReviewStep(p)
  PROVE  LedgersUntouched /\ Elsewhere(p) /\ OthersKeepJobs(p)
<1>1. LedgersUntouched
  BY DEF ReviewStep, ApprovalStep, MergeStep, PlanReview, WriteReviewPrompt, RunReviewer,
         WriteReviewSummary, PlanApproval, Approve, PlanMerge, ReadChecks, ReadReviewGate,
         Merge, execution, LedgersUntouched
<1>2. NoJob.name = "none"
  BY DEF NoJob
<1>3. ASSUME NEW i \in Issues, PlanReview(p, i) PROVE Elsewhere(p) /\ OthersKeepJobs(p)
  <2>1. Take(p, "review", "checks", i)
    BY <1>3 DEF PlanReview
  <2>2. job'[p].name = "review" /\ job'[p].step = "checks" /\ OthersKeepJobs(p)
    BY <2>1, JobBookkeeping DEF OthersKeepJobs
  <2>3. QED
    BY <2>2 DEF Elsewhere
<1>4. ASSUME NEW i \in Issues, PlanApproval(p, i) \/ PlanMerge(p, i)
      PROVE  Elsewhere(p) /\ OthersKeepJobs(p)
  <2>1. Take(p, "approve", "call", i) \/ Take(p, "merge", "checks", i)
    BY <1>4 DEF PlanApproval, PlanMerge
  <2>2. job'[p].name \in {"approve", "merge"} /\ OthersKeepJobs(p)
    BY <2>1, JobBookkeeping DEF OthersKeepJobs
  <2>3. QED
    BY <2>2 DEF Elsewhere
<1>5. CASE WriteReviewPrompt(p) \/ RunReviewer(p) \/ WriteReviewSummary(p)
  <2>1. /\ job[p].name = "review"
        /\ \/ EndJob(p, "failed") \/ Proceed(p, "agent") \/ Proceed(p, "attempt")
           \/ \E found : Finding(p, "summary", found)
    BY <1>5 DEF WriteReviewPrompt, RunReviewer, WriteReviewSummary, At
  <2>2. /\ OthersKeepJobs(p)
        /\ \/ job'[p] = NoJob
           \/ job'[p].name = "review" /\ job'[p].step \in {"agent", "attempt", "summary"}
    BY <2>1, JobBookkeeping DEF OthersKeepJobs
  <2>3. QED
    BY <1>1, <1>2, <2>2 DEF Elsewhere
<1>6. CASE Approve(p) \/ Merge(p) \/ ReadChecks(p) \/ ReadReviewGate(p)
  <2>1. /\ job[p].name \in {"approve", "merge"}
        /\ (\E how : EndJob(p, how)) \/ (\E step : Proceed(p, step))
    BY <1>6 DEF Approve, Merge, ReadChecks, ReadReviewGate, At
  <2>2. /\ OthersKeepJobs(p)
        /\ job'[p] = NoJob \/ job'[p].name \in {"approve", "merge"}
    BY <2>1, JobBookkeeping DEF OthersKeepJobs
  <2>3. QED
    BY <1>1, <1>2, <2>2 DEF Elsewhere
<1>7. QED
  BY <1>1, <1>3, <1>4, <1>5, <1>6 DEF ReviewStep, ApprovalStep, MergeStep

LEMMA WorkspaceIsElsewhere ==
  ASSUME JobTypeOK, NEW p \in Operators, WorkspaceStep(p) \/ StopJob(p), UNCHANGED execution
  PROVE  LedgersUntouched /\ Elsewhere(p) /\ OthersKeepJobs(p)
<1>1. LedgersUntouched
  BY DEF execution, LedgersUntouched
<1>2. NoJob.name = "none"
  BY DEF NoJob
<1>3. ASSUME NEW i \in Issues, PlanWorktree(p, i) \/ PlanCleanup(p, i)
      PROVE  Elsewhere(p) /\ OthersKeepJobs(p)
  <2>1. Take(p, "create worktree", "add", i) \/ \E step : Take(p, "cleanup", step, i)
    BY <1>3 DEF PlanWorktree, PlanCleanup
  <2>2. job'[p].name \in {"create worktree", "cleanup"} /\ OthersKeepJobs(p)
    BY <2>1, JobBookkeeping DEF OthersKeepJobs
  <2>3. QED
    BY <2>2 DEF Elsewhere
<1>4. CASE AddWorktree(p) \/ RemoveWorktree(p) \/ DeleteBranch(p) \/ StopJob(p)
  <2>1. (\E how : EndJob(p, how)) \/ (job[p].name = "cleanup" /\ Proceed(p, "branch"))
    BY <1>4 DEF AddWorktree, RemoveWorktree, DeleteBranch, StopJob, At
  <2>2. OthersKeepJobs(p) /\ (job'[p] = NoJob \/ job'[p].name = "cleanup")
    BY <2>1, JobBookkeeping DEF OthersKeepJobs
  <2>3. QED
    BY <1>1, <1>2, <2>2 DEF Elsewhere
<1>5. QED
  BY <1>1, <1>3, <1>4 DEF WorkspaceStep

LEMMA ExecutionKeepsLedgers ==
  ASSUME JobTypeOK, ExecutionTypeOK, LedgersInv, NEW p \in Operators, ExecutionStep(p)
  PROVE  LedgersInv'
<1>1. CASE \/ \E i \in Issues : WritePrompt(p, i) \/ PlanExecute(p, i)
           \/ WriteRaw(p) \/ WriteSummary(p) \/ LoadAttempts(p) \/ LoadBugs(p)
  <2>1. LedgersUntouched
    BY <1>1 DEF WritePrompt, PlanExecute, WriteRaw, WriteSummary, LoadAttempts, LoadBugs,
                execution, LedgersUntouched
  <2>2. NoJob.name = "none"
    BY DEF NoJob
  <2>3. ASSUME \E i \in Issues : WritePrompt(p, i) PROVE Ordinary(p) /\ OthersKeepJobs(p)
    BY <2>3 DEF WritePrompt, Done, Ordinary, Elsewhere, OthersKeepJobs
  <2>4. ASSUME NEW i \in Issues, PlanExecute(p, i) PROVE Ordinary(p) /\ OthersKeepJobs(p)
    <3>1. Take(p, "execute", "agent", i)
      BY <2>4 DEF PlanExecute
    <3>2. /\ job'[p].name = "execute" /\ job'[p].step = "agent" /\ job'[p].of = {i}
          /\ OthersKeepJobs(p)
      BY <3>1, JobBookkeeping DEF OthersKeepJobs
    <3>3. QED
      BY <3>2 DEF Ordinary, Elsewhere
  <2>5. ASSUME WriteRaw(p) \/ WriteSummary(p) PROVE Ordinary(p) /\ OthersKeepJobs(p)
    <3>1. /\ job[p].name = "execute" /\ job[p].step \in {"raw", "summary"}
          /\ Proceed(p, "summary") \/ Proceed(p, "attempt")
      BY <2>5 DEF WriteRaw, WriteSummary, At
    <3>2. /\ job'[p].name = "execute" /\ job'[p].step \in {"summary", "attempt"}
          /\ job'[p].of = job[p].of /\ job'[p].found = job[p].found /\ OthersKeepJobs(p)
      BY <3>1, JobBookkeeping DEF OthersKeepJobs
    <3>3. QED
      BY <3>1, <3>2 DEF Ordinary, Elsewhere, AttemptSteps
  <2>6. ASSUME LoadAttempts(p) PROVE Ordinary(p) /\ OthersKeepJobs(p)
    <3>1. job[p].step = "attempt" /\ Reading(p, "record attempt", ledger)
      BY <2>6 DEF LoadAttempts, Delegating
    <3>a. \A step, file : Reading(p, step, file) =>
            /\ job'[p].name = job[p].name /\ job'[p].step = step
            /\ job'[p].of = job[p].of /\ job'[p].found = job[p].found
            /\ job'[p].copy = file /\ \A q \in Operators \ {p} : job'[q] = job[q]
      BY JobBookkeeping
    <3>2. /\ job'[p].name = job[p].name /\ job'[p].step = "record attempt"
          /\ job'[p].copy = ledger
          /\ job'[p].of = job[p].of /\ job'[p].found = job[p].found /\ OthersKeepJobs(p)
      BY <3>1, <3>a, Zenon DEF OthersKeepJobs
    <3>3. QED
      BY <3>1, <3>2 DEF Ordinary, Elsewhere
  <2>7. ASSUME LoadBugs(p) PROVE Ordinary(p) /\ OthersKeepJobs(p)
    <3>1. /\ job[p].step = "bug"
          /\ Reading(p, "record bug", bugs) \/ EndJob(p, "failed")
      BY <2>7 DEF LoadBugs, Delegating
    <3>2. /\ OthersKeepJobs(p)
          /\ \/ job'[p] = NoJob
             \/ /\ job'[p].name = job[p].name /\ job'[p].step = "record bug"
                /\ job'[p].copy = bugs
                /\ job'[p].of = job[p].of /\ job'[p].found = job[p].found
      BY <3>1, JobBookkeeping DEF OthersKeepJobs
    <3>3. QED
      BY <2>2, <3>1, <3>2 DEF Ordinary, Elsewhere
  <2>8. Ordinary(p) /\ OthersKeepJobs(p)
    BY <1>1, <2>3, <2>4, <2>5, <2>6, <2>7
  <2>9. QED
    BY <2>1, <2>8, OrdinaryKeepsLedgers DEF OthersKeepJobs
<1>2. QED
  BY <1>1, RunAgentKeepsLedgers, RecordAttemptKeepsLedgers, RecordBugKeepsLedgers
     DEF ExecutionStep

LEMMA LedgersKept ==
  ASSUME DeliveryInv, LedgersInv, DeliveryNext
  PROVE  LedgersInv'
<1>0. JobTypeOK /\ ExecutionTypeOK /\ LoopTypeOK
  BY DEF DeliveryInv, DeliveryTypeOK
<1>1. CASE UNCHANGED job /\ LedgersUntouched
  BY <1>1 DEF LedgersInv, LedgersUntouched, Room, Unrecorded, Unreported, HasFailed,
              CopiesHaveRoom, Delegating, ExecutesOne
<1>2. ASSUME NEW p \in Operators,
             \/ WorkspaceStep(p) /\ UNCHANGED execution
             \/ ExecutionStep(p)
             \/ ReviewStep(p)
             \/ StopJob(p)
      PROVE  LedgersInv'
  <2>1. CASE ExecutionStep(p)
    BY <1>0, <2>1, ExecutionKeepsLedgers
  <2>2. CASE ~ExecutionStep(p)
    <3>1. StopJob(p) => UNCHANGED execution
      BY DEF StopJob
    <3>2. LedgersUntouched /\ Elsewhere(p) /\ OthersKeepJobs(p)
      BY <1>0, <1>2, <2>2, <3>1, WorkspaceIsElsewhere, ReviewIsElsewhere
    <3>3. QED
      BY <1>0, <3>2, OrdinaryKeepsLedgers DEF OthersKeepJobs, Ordinary
  <2>3. QED
    BY <2>1, <2>2
<1>3. CASE Surroundings
  <2>1. UNCHANGED job /\ LedgersUntouched
    BY <1>3 DEF Surroundings, InRepository, CheckoutChanges, Sync, Commit, Push, OnFiles,
       WriteManualSummary, PutRawAside, OnPullRequest, OpenPullRequest, ChecksPass,
       MainPasses, ByHand, WriteManualReview, ApproveByHand, MergeByHand, NoopIsValidated,
       jobs, execution, LedgersUntouched
  <2>2. QED
    BY <1>1, <2>1
<1>4. ASSUME NEW p \in Operators, DeliveryCommand(p) PROVE LedgersInv'
  BY <1>1, <1>4 DEF DeliveryCommand, jobs, execution, LedgersUntouched
<1>5. ASSUME NEW p \in Operators, LoopStep(p) PROVE LedgersInv'
  <2>1. NothingDone => LedgersInv'
    BY <1>1 DEF NothingDone, jobs, execution, LedgersUntouched
  <2>2. CASE RunCommand(p)
    <3>1. PICK i \in Issues : NothingDone \/ Takes(p, loop[p].action, i)
      BY <1>0, <2>2 DEF RunCommand, LoopTypeOK, Loop
    <3>2. \/ NothingDone \/ UNCHANGED <<jobs, workspace, execution, review>>
          \/ WorkspaceStep(p) /\ UNCHANGED execution
          \/ ExecutionStep(p) \/ ReviewStep(p)
      BY <3>1 DEF Takes, WorkspaceStep, ExecutionStep, ReviewStep, MergeStep
    <3>3. UNCHANGED <<jobs, workspace, execution, review>> => LedgersInv'
      BY <1>1 DEF jobs, execution, LedgersUntouched
    <3>4. QED
      BY <1>2, <2>1, <3>2, <3>3
  <2>3. QED
    BY <1>5, <2>1, <2>2 DEF LoopStep, StartLoop, StartRunNext, SelectIssue, PlanCycle,
                            RunReadOnly, EndCycle, InterruptLoop
<1>6. QED
  BY <1>2, <1>3, <1>4, <1>5 DEF DeliveryNext, JobStep

LEMMA LedgersInvHolds ==
  ASSUME Delivers
  PROVE  DeliverySpec => []LedgersInv
<1>1. DeliveryInit => LedgersInv
  <2> SUFFICES ASSUME DeliveryInit PROVE LedgersInv
    OBVIOUS
  <2>1. \A p \in Operators : job[p].name = "none"
    BY DEF DeliveryInit, JobInit, NoJob
  <2>2. \A i \in Issues : Unrecorded(i) = {} /\ Unreported(i) = {}
    BY <2>1 DEF Unrecorded, Unreported, HasFailed
  <2>3. \A i \in Issues : ledger[i] = 0 /\ bugs[i] = 0 /\ failures[i] = 0
    BY DEF DeliveryInit, ExecutionInit
  <2>4. IsFiniteSet({}) /\ Cardinality({}) = 0
    BY FS_EmptySet, Zenon
  <2>5. ASSUME NEW i \in Issues, NEW pending, pending = {}
        PROVE  Room(0, i, pending)
    <3>1. IsFiniteSet(pending) /\ Cardinality(pending) = 0
      BY <2>4, <2>5, Zenon
    <3>2. QED
      BY <2>3, <3>1 DEF Room
  <2>6. QED
    BY <2>1, <2>2, <2>3, <2>5 DEF LedgersInv, CopiesHaveRoom, Delegating, ExecutesOne
<1>2. DeliveryInv /\ LedgersInv /\ [DeliveryNext]_deliveryVars => LedgersInv'
  <2>1. UNCHANGED deliveryVars /\ LedgersInv => LedgersInv'
    BY DEF deliveryVars, jobs, execution, LedgersInv, Room, Unrecorded, Unreported,
           HasFailed, CopiesHaveRoom, Delegating, ExecutesOne
  <2>2. QED
    BY <2>1, LedgersKept
<1>3. QED
  BY <1>1, <1>2, DeliveryInvHolds, PTL DEF DeliverySpec

\* However many runners write the ledgers at once, each the whole file from the copy it
\* has read, and wherever they stop: no ledger says of an issue that it has failed more
\* often than it has.
THEOREM NothingIsInvented ==
  ASSUME Delivers
  PROVE  DeliverySpec => []LedgersNeverInvent
<1>1. DeliveryInv /\ LedgersInv => LedgersNeverInvent
  <2> SUFFICES ASSUME DeliveryInv, LedgersInv, NEW i \in Issues
               PROVE  ledger[i] <= failures[i] /\ bugs[i] <= failures[i]
    BY DEF LedgersNeverInvent
  <2>1. ledger[i] \in Nat /\ bugs[i] \in Nat /\ failures[i] \in Nat
    BY MaxFailuresAssumption DEF DeliveryInv, DeliveryTypeOK, ExecutionTypeOK
  <2>2. /\ Cardinality(Unrecorded(i)) \in Nat /\ Cardinality(Unreported(i)) \in Nat
        /\ ledger[i] + Cardinality(Unrecorded(i)) <= failures[i]
        /\ bugs[i] + Cardinality(Unreported(i)) <= failures[i]
    BY FS_CardinalityType DEF LedgersInv, Room
  <2>3. QED
    BY <2>1, <2>2
<1>2. QED
  BY <1>1, DeliveryInvHolds, LedgersInvHolds, PTL
=============================================================================
