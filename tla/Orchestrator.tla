---------------------------- MODULE Orchestrator ----------------------------
(***************************************************************************)
(* The orchestrator: a loop of at most MaxCycles steps, each of which asks *)
(* for the next action and runs the command for it as a child process.     *)
(* The loop remembers the issue and the number of its cycle; what it knows *)
(* of the command is how that has ended.                                   *)
(***************************************************************************)
EXTENDS Lifecycle

VARIABLE loop   \* loop[p]: the orchestrator operator p has started

ReadOnlyActions == {"create-pr", "review-pr"}
ApplyableActions ==
  ReadOnlyActions \cup
  {"create-worktree", "claim-issue", "write-prompt", "execute-worker", "merge-pr",
   "integrate-issue", "cleanup"}

Loop ==
  [step : {"off", "select", "plan", "command", "running"},
   cycle : 0..MaxCycles,
   mode : {"issue", "next"},   \* it was given an issue, or is to select one itself
   action : ApplyableActions \cup {"none"},
   of : SUBSET Issues]

LoopTypeOK == loop \in [Operators -> Loop]

NoLoop == [step |-> "off", cycle |-> 0, mode |-> "issue", action |-> "none", of |-> {}]

LoopInit == loop = [p \in Operators |-> NoLoop]

LoopAt(p, step) == loop[p].step = step
Idle(p) == job[p] = NoJob /\ command[p] = NoCommand

\* It has been a cycle, and the limit may be reached.
NextCycle(p, step, of) ==
  loop' = [loop EXCEPT ![p] =
    IF loop[p].cycle + 1 >= MaxCycles THEN NoLoop
    ELSE [step |-> step, cycle |-> loop[p].cycle + 1, mode |-> loop[p].mode,
          action |-> "none", of |-> of]]

StopLoop(p) == loop' = [loop EXCEPT ![p] = NoLoop]

NothingDone == IssueWorkflowUnchanged /\ UNCHANGED <<jobs, workspace, execution, review>>

\* orchestrator loop --issue N --apply --execute
StartLoop(p, i) ==
  /\ MaxCycles > 0 /\ LoopAt(p, "off") /\ Idle(p)
  /\ loop' = [loop EXCEPT ![p] =
       [step |-> "plan", cycle |-> 0, mode |-> "issue", action |-> "none", of |-> {i}]]
  /\ NothingDone

\* orchestrator run-next --loop --apply --execute
StartRunNext(p) ==
  /\ MaxCycles > 0 /\ LoopAt(p, "off") /\ Idle(p)
  /\ loop' = [loop EXCEPT ![p] =
       [step |-> "select", cycle |-> 0, mode |-> "next", action |-> "none", of |-> {}]]
  /\ NothingDone

\* The loop was given a manifest, or goes by the labels of the open issues.
Selections ==
  {Selected(seen) : seen \in Readings} \cup
  {ManifestSelected(Known(seen)) : seen \in Snapshots}

\* After a completed issue the limit on the tasks of one loop may be reached.
SelectIssue(p) ==
  /\ LoopAt(p, "select")
  /\ \E selected \in Selections :
       \/ \E i \in selected :
            loop' = [loop EXCEPT ![p] =
              [step |-> "plan", cycle |-> loop[p].cycle, mode |-> "next",
               action |-> "none", of |-> {i}]]
       \/ (selected = {} \/ loop[p].cycle > 0) /\ StopLoop(p)
  /\ NothingDone

\* The step is planned: nothing is run that is not on the list, or that is left to a
\* person.  A completed issue makes way for the next.
PlanCycle(p) ==
  /\ LoopAt(p, "plan")
  /\ \E i \in loop[p].of : \E state \in Observed(i) :
       LET action == Proposal(i, state)
       IN  \/ /\ action \in ApplyableActions /\ ~TakenOver(i, action)
              /\ loop' = [loop EXCEPT ![p] =
                   [step |-> "command", cycle |-> loop[p].cycle, mode |-> loop[p].mode,
                    action |-> action, of |-> {i}]]
           \/ /\ action \notin ApplyableActions \/ TakenOver(i, action)
                   \/ MayBeTakenOver(i, action)
              /\ IF action = "none" /\ loop[p].mode = "next" THEN NextCycle(p, "select", {})
                 ELSE StopLoop(p)
  /\ NothingDone

\* pr plan and review plan only say what there is to do: the next cycle finds the same.
RunReadOnly(p) ==
  /\ LoopAt(p, "command") /\ loop[p].action \in ReadOnlyActions
  /\ NextCycle(p, "plan", loop[p].of) \/ StopLoop(p)
  /\ NothingDone

\* The command for an action, as a person would start it.
Takes(p, action, i) ==
  \/ action = "create-worktree" /\ PlanWorktree(p, i) /\ UNCHANGED <<execution, review>>
  \/ action = "write-prompt" /\ WritePrompt(p, i) /\ UNCHANGED review
  \/ action = "execute-worker" /\ PlanExecute(p, i) /\ UNCHANGED review
  \/ action = "merge-pr" /\ PlanMerge(p, i)
  \/ action = "cleanup" /\ PlanCleanup(p, i) /\ UNCHANGED <<execution, review>>
  \/ /\ \/ action = "claim-issue" /\ RunIssue(p, i)
        \/ action = "integrate-issue" /\ PlanIntegration(p, i)
     /\ UNCHANGED manifest /\ UNCHANGED <<jobs, workspace, execution, review>>

\* execute-worker is run with --worktree, which is for workers.
Accepted(action, i) ==
  CASE action = "create-worktree" -> WorktreeReady(i)
    [] action = "claim-issue"     -> "state:ready" \in Observed(i)
    [] action = "write-prompt"    -> TRUE
    [] action = "execute-worker"  -> Profile(i) = "worker" /\ ExecuteReady(i)
    [] action = "merge-pr"        -> pr[i] = "open" /\ ReviewDecision(i) = "approved"
    [] action = "integrate-issue" -> MayIntegrate(i)
    [] action = "cleanup"         -> CleanupReady(i) /\ LeftBehind(i)
    [] OTHER                      -> FALSE

RunCommand(p) ==
  /\ LoopAt(p, "command") /\ loop[p].action \notin ReadOnlyActions
  /\ \E i \in loop[p].of :
       IF Accepted(loop[p].action, i)
       THEN /\ Takes(p, loop[p].action, i)
            /\ loop' = [loop EXCEPT ![p].step = "running"]
       ELSE StopLoop(p) /\ NothingDone

\* What shows that the command has done what it was run for; a job says so itself.
Applied(p, i) ==
  CASE loop[p].action = "claim-issue"     -> "state:active" \in labels[i]
    [] loop[p].action = "integrate-issue" -> issueState[i] = "completed"
    [] OTHER                              -> exit[p] = "applied"

\* The command has ended.  A command on the labels that got a late answer has done its
\* work and is still taken to have failed.
EndCycle(p) ==
  /\ LoopAt(p, "running") /\ Idle(p)
  /\ \E i \in loop[p].of :
       \/ Applied(p, i) /\ NextCycle(p, "plan", {i})
       \/ /\ Applied(p, i) => loop[p].action \in {"claim-issue", "integrate-issue"}
          /\ StopLoop(p)
  /\ NothingDone

\* The loop is interrupted, and the command with it; or what it must see to go on cannot
\* be read.
InterruptLoop(p) ==
  /\ <<"job", "stop">> \in Faults
  /\ ~LoopAt(p, "off") /\ Idle(p)
  /\ StopLoop(p)
  /\ NothingDone

LoopStep(p) ==
  \/ \E i \in Issues : StartLoop(p, i)
  \/ StartRunNext(p) \/ SelectIssue(p)
  \/ PlanCycle(p) \/ RunReadOnly(p) \/ RunCommand(p) \/ EndCycle(p)
  \/ InterruptLoop(p)
=============================================================================
