-------------------------- MODULE MCIssueWorkflow --------------------------
(***************************************************************************)
(* Instances of IssueWorkflow for TLC.                                     *)
(***************************************************************************)
EXTENDS WorkflowRefinement, Planning, TLC

\* Two issues.  The second waits for the first: by a "Depends-On:" line, by the
\* manifest, or by both.
Pair == {1, 2}
SecondWaits == (1 :> {}) @@ (2 :> {1})
NoneWaits == (1 :> {}) @@ (2 :> {})
PairKind == (1 :> "build") @@ (2 :> "plan")
PairRank == (1 :> 1) @@ (2 :> 0)

\* None was put in by the way, or the second was.
NoSideTasks == {}
SecondByTheWay == {2}

\* A single issue.
One == {1}
OneWaitsNot == 1 :> {}
OneKind == 1 :> "build"
OneRank == 1 :> 0

Everything == CommandNames
PlannedWork == CommandNames \ {"run", "recover"}
Forward == {"claim", "release", "complete", "fail", "integrate"}
Seeded == {"claim", "run", "release", "complete", "fail", "advance"}
Retiring == {"claim", "complete", "fail", "clear"}

\* What may fail: every mutation, in both ways, and the process itself.
Unreliable ==
  {"edit", "close", "reopen"} \X {"lost", "late"} \cup {<<"process", "stop">>}
\* A close may be lost, or be reported as failed when it is not, and an edit may be lost.
LostClose == {<<"edit", "lost">>, <<"close", "late">>, <<"close", "lost">>}
UnreliableReads == Unreliable \cup {<<"view", "fail">>}

\* Where nothing is integrated, nobody looks at the CI of a merge commit: what follows
\* when it is green follows when it is merged.
MergedIsEnough == \A i \in Issues : pr[i] # "green"

OperatorSymmetry == Permutations(Operators)
=============================================================================
