-------------------------- MODULE DeliveryLiveness --------------------------
(***************************************************************************)
(* That the work gets done.  Failures come to an end; operators keep       *)
(* starting what there is to be started, what is running goes on, and      *)
(* people do their part.                                                   *)
(***************************************************************************)
EXTENDS Delivery

Calm == INSTANCE Delivery WITH Faults <- {}

\* From some time on nothing fails any more.
FailuresEnd == <>[][Calm!DeliveryNext]_deliveryVars

\* A process that is running takes its next step.
ProcessesGoOn ==
  \A p \in Operators :
    /\ WF_deliveryVars(DeliveryCommand(p) /\ command[p] # NoCommand)
    /\ WF_deliveryVars(JobStep(p) /\ job[p] # NoJob)
    /\ WF_deliveryVars(LoopStep(p) /\ ~LoopAt(p, "off"))

\* A reviewer has nothing to object any more, in the end.
ObjectionsEnd ==
  <>[][\A p \in Operators :
         At(p, "review", "agent") /\ At(p, "review", "summary")'
           => job'[p].found = "approve"]_deliveryVars

\* An operator who is free again and again gets to everything: the loop, completing an
\* issue, reviewing and approving a pull request.
OperatorsKeepAtIt ==
  \A p \in Operators, i \in Issues :
    /\ SF_deliveryVars(StartLoop(p, i))
    /\ SF_deliveryVars(DeliveryCommand(p) /\ Running(p, {"none"}, "idle")
                         /\ (Running(p, {"complete"}, "gate"))')
    /\ SF_deliveryVars(JobStep(p) /\ PlanReview(p, i))
    /\ SF_deliveryVars(JobStep(p) /\ PlanApproval(p, i))

\* People commit, push, open the pull request, put the checkout in order, and write the
\* summary an execution has not come up with; the checks run.
PeopleDoTheirPart ==
  /\ WF_deliveryVars(InRepository /\ checkout # "clean" /\ checkout' = "clean")
  /\ \A i \in Issues :
       /\ WF_deliveryVars(InRepository /\ branch[i] < 2 /\ branch'[i] = branch[i] + 1)
       /\ WF_deliveryVars(InRepository /\ remote'[i] # remote[i])
       /\ WF_deliveryVars(OnPullRequest(i))
       /\ WF_deliveryVars(ByHand(i) /\ "state:active" \in labels[i] /\ ~ArtifactPasses(i)
                            /\ OnFiles(i))

DeliveryFairness ==
  FailuresEnd /\ ObjectionsEnd /\ ProcessesGoOn /\ OperatorsKeepAtIt /\ PeopleDoTheirPart

FairDeliverySpec == DeliverySpec /\ DeliveryFairness

\* An issue that was given a worktree is eventually closed as completed, and its worktree
\* and its branch are gone, whatever has failed, and at whatever point, before.
Delivered ==
  \A i \in Issues :
    worktree[i] # "none" ~>
      issueState[i] = "completed" /\ worktree[i] = "none" /\ branch[i] = 0
=============================================================================
