------------------------------ MODULE Planning ------------------------------
(***************************************************************************)
(* What the planner says of a seeded roadmap, without changing anything:   *)
(* `planner status`, `next`, `impact` and the dashboard of `planner run`,  *)
(* each worked out from one reading of the tasks.  A loop that is given    *)
(* the manifest selects its issue in the same way.                         *)
(***************************************************************************)
EXTENDS IssueWorkflow, FiniteSets

CONSTANT
  SideTasks   \* the tasks that were put in by the way, and go before the mainline

ASSUME SideTasksAssumption == SideTasks \subseteq Issues

\* What a reading of the tasks may be.
Snapshots ==
  {seen \in [Issues -> UNION {TaskStates(i) : i \in Issues}] :
     \A i \in Issues : seen[i] \in TaskStates(i)}

\* An issue that is open and has no state label is taken for what the manifest has
\* seeded it as: a task that needs nothing was seeded ready.
Known(seen) ==
  [i \in Issues |->
     IF seen[i] = "open" /\ Needs[i] = {} THEN "state:ready" ELSE seen[i]]

MissingNeeds(seen, i) == {d \in Needs[i] : ~Completed(seen, d)}

(***************************************************************************)
(* planner status.                                                         *)
(***************************************************************************)
\* What a task is counted as; an open one nothing is missing for counts as blocked,
\* until an advance has labelled it.
CountedAs(seen, i) ==
  CASE seen[i] = "stale"         -> "blocked"
    [] seen[i] = "state:active"  -> "active"
    [] Completed(seen, i)        -> "completed"
    [] seen[i] = "state:failed"  -> "blocked"
    [] OTHER ->
  CASE MissingNeeds(seen, i) # {} -> "waiting"
    [] seen[i] = "state:ready"    -> "ready"
    [] seen[i] = "open"           -> "blocked"
    [] OTHER                      -> "pending"

(***************************************************************************)
(* planner next.                                                           *)
(***************************************************************************)
DependencyReady(seen) ==
  {i \in Issues : seen[i] = "state:ready" /\ MissingNeeds(seen, i) = {}}

\* The first side task, or else the first task.
NextTask(seen) ==
  LET ready == DependencyReady(seen)
      candidates == IF ready \cap SideTasks # {} THEN ready \cap SideTasks ELSE ready
  IN  {i \in candidates : First(i, candidates)}

(***************************************************************************)
(* planner impact.                                                         *)
(***************************************************************************)
Downstream(i) == {j \in Issues : i \in Needs[j]}

\* A mutant: only the tasks that are labelled ready are looked for.
OnlyReady(seen, i) == {j \in Downstream(i) : seen[j] = "state:ready"}

Advanceable(seen, i) == {j \in Downstream(i) : seen[j] = "open"}

\* Every task that waits adds to the score, up to a limit; side tasks add to it as well.
Score(i) ==
  LET waiting == Cardinality(Downstream(i))
      byNumber == IF waiting = 0 THEN 0 ELSE IF waiting > 3 THEN 40 ELSE 10 * waiting
  IN  byNumber + (IF Downstream(i) \cap SideTasks # {} THEN 10 ELSE 0)
               + (IF i \in SideTasks THEN 5 ELSE 0)

\* What is to be done about the tasks that wait for a completed one.
Decision(seen, i) ==
  CASE \E j \in Downstream(i) : seen[j] = "state:failed" -> "block_mainline"
    [] Downstream(i) # {} /\ Advanceable(seen, i) = {} -> "already_advanced"
    [] OTHER -> IF Score(i) >= 40 THEN "requires_reconcile" ELSE "advance_mainline"

(***************************************************************************)
(* The dashboard of planner run.                                           *)
(***************************************************************************)
\* The completed tasks an advance is suggested for.
AdvanceCandidates(seen) ==
  {i \in Issues : /\ Completed(seen, i)
                  /\ Decision(seen, i) = "advance_mainline"
                  /\ AdvanceTargets(seen, i) # {}}

\* The completed tasks whose impact a person has to look into.
LeftToReconcile(seen) ==
  {i \in Issues : Completed(seen, i) /\ Decision(seen, i) = "requires_reconcile"}

-----------------------------------------------------------------------------
\* A roadmap never comes to rest unnoticed.  However its issues have come to be labelled
\* and however often the operators have read and written past each other: unless all is
\* completed, a task is active, one has failed or cannot be read, one is next, an advance
\* is suggested, or a person is asked.  That holds although only an advance labels a task
\* that has waited, and the dashboard calls a task that nothing is missing for blocked.
RoadmapGoesOn ==
  \A snapshot \in Snapshots :
    LET seen == Known(snapshot)
    IN  \/ \A i \in Issues : CountedAs(seen, i) = "completed"
        \/ \E i \in Issues : seen[i] \in {"state:active", "state:failed", "stale"}
        \/ NextTask(seen) # {}
        \/ AdvanceCandidates(seen) \cup LeftToReconcile(seen) # {}
=============================================================================
