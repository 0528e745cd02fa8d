----------------------------- MODULE MCDelivery -----------------------------
(***************************************************************************)
(* Instances of Delivery for TLC.                                          *)
(***************************************************************************)
EXTENDS DeliveryLiveness, TLC

One == {1}
OneWaitsNot == 1 :> {}
OneBuild == 1 :> "build"
OneReview == 1 :> "review"
OneRank == 1 :> 0
NoSideTasks == {}

Working == {"run", "complete", "integrate"}
Closing == Working \cup {"integrate noop"}
AllTasks == JobNames
Reviewing == {"review", "approve", "write summary"}

\* Every failure a loop recovers from: not a branch without a worktree, nor an issue that
\* is labelled and not closed.  A call that is lost is a job that stops before it.
Recoverable ==
  {<<"edit", "lost">>, <<"close", "late">>, <<"job", "stop">>,
   <<"checkout", "dirty">>, <<"remove", "late">>, <<"branch", "late">>,
   <<"approve", "late">>, <<"merge", "late">>}

\* What two operators do at once, without loops: ship what was worked on by hand, also
\* past Signposter, or execute agents.
Shipping ==
  {"create worktree", "write summary", "write review", "approve", "merge",
   "merge by hand", "cleanup", "sync"}
Executing == {"create worktree", "write prompt", "execute"}
Anything ==
  {<<"edit", "lost">>, <<"close", "late">>, <<"process", "stop">>, <<"job", "stop">>,
   <<"add", "lost">>, <<"remove", "late">>, <<"branch", "late">>, <<"approve", "late">>,
   <<"merge", "late">>}
Everything == Anything \cup {<<"checkout", "behind">>}

OperatorSymmetry == Permutations(Operators)
=============================================================================
