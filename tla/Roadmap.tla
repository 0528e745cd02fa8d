------------------------------ MODULE Roadmap ------------------------------
(***************************************************************************)
(* The planner commands that change issues of a seeded roadmap: advance    *)
(* (promote the tasks a finished one was blocking), clear (retire the      *)
(* roadmap) and recover-clear (undo a clear for what had been merged).     *)
(* Every issue is a task of the manifest.  The manifest has dependencies   *)
(* of its own: the body of a seeded issue names task keys, and none of the *)
(* "Depends-On:" lines that a claim looks for.                             *)
(***************************************************************************)
EXTENDS Commands

CONSTANT
  Needs   \* Needs[i]: the tasks that the manifest says task i depends on

ASSUME NeedsAssumption == Needs \in [Issues -> SUBSET Issues]

VARIABLE
  manifest   \* active; archived, while clear has written only the archive; cleared

ManifestTypeOK == manifest \in {"active", "archived", "cleared"}

\* A mutant: a failed task counts as completed.
FailedCounts == {"closed", "state:done", "state:merged", "state:failed"}

CompletedPlannerStates == {"closed", "state:done", "state:merged"}

Completed(seen, i) == seen[i] \in CompletedPlannerStates

\* A mutant: a task that cannot be read is taken for closed.
UnreadIsClosed(i) ==
  (IF labels[i] \cap StateLabels # {} THEN labels[i] \cap StateLabels
   ELSE IF issueState[i] = "open" THEN {"open"} ELSE {"closed"})
  \cup (IF <<"view", "fail">> \in Faults THEN {"closed"} ELSE {})

\* What may be read of a task now: the first state label, or else the state of the
\* issue, or "stale" when the view fails.
TaskStates(i) ==
  (IF labels[i] \cap StateLabels # {} THEN labels[i] \cap StateLabels
   ELSE IF issueState[i] = "open" THEN {"open"} ELSE {"closed"})
  \cup (IF <<"view", "fail">> \in Faults THEN {"stale"} ELSE {})

\* The manifest is loaded and, with --sync-github, the tasks in it are read one
\* after the other before anything is planned.
StartReading(p, name, todo, picked) ==
  /\ MayStart(p, name)
  /\ command' = [command EXCEPT ![p] =
       [name |-> name, step |-> "read", todo |-> todo, picked |-> picked,
        gates |-> {}, seen |-> NothingSeen]]
  /\ UNCHANGED <<tracker, evidence, manifest>>

ReadTask(p) ==
  /\ Running(p, {"advance", "clear", "recover"}, "read")
  /\ \E i \in command[p].todo : \E state \in TaskStates(i) :
       /\ First(i, command[p].todo)
       /\ command' = [command EXCEPT ![p].todo = @ \ {i}, ![p].seen[i] = state]
  /\ UNCHANGED <<tracker, evidence, manifest>>

HasRead(p, name) == Running(p, {name}, "read") /\ command[p].todo = {}

\* Without --sync-github the source is never seen completed.
StartAdvance(p, source) ==
  manifest # "cleared" /\ StartReading(p, "advance", Issues, {source})

\* A mutant: tasks are promoted whatever state they are in.
PromotesAnyState(seen, source) ==
  {i \in Issues : source \in Needs[i] /\ \A d \in Needs[i] : Completed(seen, d)}

AdvanceTargets(seen, source) ==
  {i \in Issues : /\ source \in Needs[i]
                  /\ seen[i] \in {"open", "unknown"}
                  /\ \A d \in Needs[i] : Completed(seen, d)}

PlanAdvance(p) ==
  /\ HasRead(p, "advance")
  /\ \E source \in command[p].picked :
       LET seen == command[p].seen
           targets == AdvanceTargets(seen, source)
       IN  IF Completed(seen, source) /\ targets # {}
           THEN Start(p, "advance", "edit", targets) ELSE Finish(p)
  /\ UNCHANGED <<tracker, evidence, manifest>>

AdvanceEdit(p) ==
  /\ Running(p, {"advance"}, "edit")
  /\ \E i \in command[p].todo, outcome \in Outcomes("edit") :
       /\ First(i, command[p].todo)
       /\ Edit(i, outcome, {}, {"state:ready"})
       /\ IF outcome = "ok" THEN Advance(p, i, "edit") ELSE Finish(p)
  /\ UNCHANGED <<evidence, manifest>>

\* The merged pull requests are fetched before the tasks are read.
StartClear(p) ==
  /\ manifest # "cleared"
  /\ \E todo \in {{}, Issues} :
       StartReading(p, "clear", todo, {i \in Issues : Shipped(i)})

\* clear refuses an existing archive, a stale task and a task with a merged pull
\* request that is not known to be completed; it will close what is not completed.
ClearRefused(seen, implemented) ==
  \/ manifest # "active"
  \/ \E i \in Issues : seen[i] = "stale"
  \/ \E i \in implemented : ~Completed(seen, i)

PlanClear(p) ==
  /\ HasRead(p, "clear")
  /\ LET seen == command[p].seen
         targets == {i \in Issues : ~Completed(seen, i)}
     IN  IF ClearRefused(seen, command[p].picked) THEN Finish(p)
         ELSE Start(p, "clear", IF targets = {} THEN "archive" ELSE "close", targets)
  /\ UNCHANGED <<tracker, evidence, manifest>>

\* A mutant: a task that could not be closed is passed over.
ClearPassesOver(p) ==
  /\ Running(p, {"clear"}, "close")
  /\ \E i \in command[p].todo, outcome \in Outcomes("close") :
       /\ First(i, command[p].todo)
       /\ Close(i, outcome, "not planned")
       /\ command' = [command EXCEPT ![p].todo = @ \ {i},
            ![p].step = IF command[p].todo = {i} THEN "archive" ELSE "close"]
  /\ UNCHANGED <<evidence, manifest>>

ClearClose(p) ==
  /\ Running(p, {"clear"}, "close")
  /\ \E i \in command[p].todo, outcome \in Outcomes("close") :
       /\ First(i, command[p].todo)
       /\ Close(i, outcome, "not planned")
       /\ IF outcome # "ok" THEN Finish(p)
          ELSE command' = [command EXCEPT ![p].todo = @ \ {i},
                 ![p].step = IF command[p].todo = {i} THEN "archive" ELSE "close"]
  /\ UNCHANGED <<evidence, manifest>>

ClearArchive(p) ==
  /\ Running(p, {"clear"}, "archive")
  /\ manifest' = IF manifest = "active" THEN "archived" ELSE manifest
  /\ GoTo(p, "rewrite")
  /\ UNCHANGED <<tracker, evidence>>

ClearRewrite(p) ==
  /\ Running(p, {"clear"}, "rewrite")
  /\ manifest' = "cleared"
  /\ Finish(p)
  /\ UNCHANGED <<tracker, evidence>>

\* recover-clear works on the archive a clear has written.
StartRecover(p) ==
  /\ manifest # "active"
  /\ \E todo \in {{}, Issues} :
       StartReading(p, "recover", todo, {i \in Issues : Shipped(i)})

\* It takes every task with a merged pull request that is not seen as merged:
\* reopen, label, close as completed, one task after the other.
PlanRecover(p) ==
  /\ HasRead(p, "recover")
  /\ LET seen == command[p].seen
         targets == {i \in command[p].picked : seen[i] # "state:merged"}
     IN  IF targets = {} \/ \E i \in Issues : seen[i] = "stale" THEN Finish(p)
         ELSE Start(p, "recover", "reopen", targets)
  /\ UNCHANGED <<tracker, evidence, manifest>>

RecoverReopen(p) ==
  /\ Running(p, {"recover"}, "reopen")
  /\ \E i \in command[p].todo, outcome \in Outcomes("reopen") :
       /\ First(i, command[p].todo)
       /\ Reopen(i, outcome)
       /\ IF outcome = "ok" THEN GoTo(p, "edit") ELSE Finish(p)
  /\ UNCHANGED <<evidence, manifest>>

RecoverEdit(p) ==
  /\ Running(p, {"recover"}, "edit")
  /\ \E i \in command[p].todo, outcome \in Outcomes("edit") :
       /\ First(i, command[p].todo)
       /\ Edit(i, outcome, {}, {"state:merged"})
       /\ IF outcome = "ok" THEN GoTo(p, "close") ELSE Finish(p)
  /\ UNCHANGED <<evidence, manifest>>

RecoverClose(p) ==
  /\ Running(p, {"recover"}, "close")
  /\ \E i \in command[p].todo, outcome \in Outcomes("close") :
       /\ First(i, command[p].todo)
       /\ Close(i, outcome, "completed")
       /\ IF outcome = "ok" THEN Advance(p, i, "reopen") ELSE Finish(p)
  /\ UNCHANGED <<evidence, manifest>>

RoadmapStep(p) ==
  \/ \E source \in Issues : StartAdvance(p, source)
  \/ StartClear(p) \/ StartRecover(p) \/ ReadTask(p)
  \/ PlanAdvance(p) \/ AdvanceEdit(p)
  \/ PlanClear(p) \/ ClearClose(p) \/ ClearArchive(p) \/ ClearRewrite(p)
  \/ PlanRecover(p) \/ RecoverReopen(p) \/ RecoverEdit(p) \/ RecoverClose(p)
=============================================================================
