---------------------------- MODULE Integration ----------------------------
(***************************************************************************)
(* Closing finished issues: `integration apply` after the pull request was *)
(* merged, and `integration noop` for a task that needed no change.  Both  *)
(* label the issue state:merged first and close it afterwards.             *)
(***************************************************************************)
EXTENDS Commands

\* A mutant: the state of the issue is not looked at.
OpenOrNot(i) == TRUE

\* The issue state is only refused when it was read: a failed read of it lets
\* the plan through.
MaySeeOpen(i) == issueState[i] = "open" \/ <<"view", "fail">> \in Faults

\* A mutant: a merged pull request is enough, whatever CI says of main.
PlanOnceMerged(p, i) ==
  /\ MayStart(p, "integrate")
  /\ Shipped(i)
  /\ MaySeeOpen(i)
  /\ "state:done" \in Observed(i)
  /\ Start(p, "integrate", "edit", {i})
  /\ UNCHANGED <<tracker, evidence>>

\* What integration apply wants of the pull request and of the issue.
MayIntegrate(i) ==
  pr[i] = "green" /\ MaySeeOpen(i) /\ "state:done" \in Observed(i)

PlanIntegration(p, i) ==
  /\ MayStart(p, "integrate")
  /\ MayIntegrate(i)
  /\ Start(p, "integrate", "edit", {i})
  /\ UNCHANGED <<tracker, evidence>>

\* A mutant: the gate summary of the no-op is not asked for.
PlanUnprovenNoop(p, i) ==
  /\ MayStart(p, "integrate noop")
  /\ issueState[i] = "open"
  /\ "state:done" \in Observed(i)
  /\ pr[i] = "none"
  /\ Start(p, "integrate noop", "edit", {i})
  /\ UNCHANGED <<tracker, evidence>>

\* What integration noop wants of the issue: evidence that no change was needed, and no
\* pull request.  That it has no worktree and no branch either is Delivery's to see.
MayIntegrateNoop(i) ==
  /\ issueState[i] = "open" /\ "state:done" \in Observed(i)
  /\ noopGate[i] /\ pr[i] = "none"

PlanNoopIntegration(p, i) ==
  /\ MayStart(p, "integrate noop")
  /\ MayIntegrateNoop(i)
  /\ Start(p, "integrate noop", "edit", {i})
  /\ UNCHANGED <<tracker, evidence>>

\* A mutant: the close follows a label edit that failed.
EditAndCarryOn(p) ==
  /\ Running(p, {"integrate", "integrate noop"}, "edit")
  /\ \E i \in Issues, outcome \in Outcomes("edit") :
       command[p].todo = {i} /\ Edit(i, outcome, {"state:done"}, {"state:merged"})
  /\ GoTo(p, "close")
  /\ UNCHANGED evidence

\* The label transition; when it fails nothing more is done.  A failed comment
\* is only recorded.
IntegrationEdit(p) ==
  /\ Running(p, {"integrate", "integrate noop"}, "edit")
  /\ \E i \in Issues, outcome \in Outcomes("edit") :
       /\ command[p].todo = {i}
       /\ Edit(i, outcome, {"state:done"}, {"state:merged"})
       /\ IF outcome = "ok" THEN GoTo(p, "close") ELSE Finish(p)
  /\ UNCHANGED evidence

IntegrationClose(p) ==
  /\ Running(p, {"integrate", "integrate noop"}, "close")
  /\ \E i \in Issues, outcome \in Outcomes("close") :
       command[p].todo = {i} /\ Close(i, outcome, "completed")
  /\ Finish(p)
  /\ UNCHANGED evidence

IntegrationStep(p) ==
  \/ \E i \in Issues : PlanIntegration(p, i) \/ PlanNoopIntegration(p, i)
  \/ IntegrationEdit(p)
  \/ IntegrationClose(p)
=============================================================================
