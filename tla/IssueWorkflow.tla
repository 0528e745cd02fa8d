--------------------------- MODULE IssueWorkflow ---------------------------
(***************************************************************************)
(* The issue workflow of Signposter as a whole: several operators run the  *)
(* commands that move issues through their states, against one tracker,    *)
(* without any lock, while pull requests, CI runs and artifacts appear     *)
(* around them.                                                            *)
(***************************************************************************)
EXTENDS Claim, Transition, Integration, Roadmap

vars == <<labels, issueState, pr, summary, noopGate, command, manifest>>

TypeOK ==
  TrackerTypeOK /\ EvidenceTypeOK /\ CommandTypeOK /\ ManifestTypeOK

\* Issues are created open, with state:ready or without a state.  A task that needs
\* others is seeded without a state; whoever creates an issue by hand may say that it
\* is ready whatever its "Depends-On:" lines are.
Init ==
  /\ labels \in {initially \in [Issues -> {{}, {"state:ready"}}] :
                  \A i \in Issues : Needs[i] # {} => initially[i] = {}}
  /\ issueState = [i \in Issues |-> "open"]
  /\ EvidenceInit
  /\ command = [p \in Operators |-> NoCommand]
  /\ manifest = "active"

\* Evidence appears only where one of the commands in use consults it.
Consulted(names) == Used \cap names # {}

EvidenceStep ==
  /\ \E i \in Issues :
       \/ /\ Consulted({"integrate", "integrate noop", "clear", "recover"})
          /\ PullRequestAdvances(i)
       \/ Consulted({"complete"}) /\ SummaryPasses(i)
       \/ Consulted({"integrate noop"}) /\ NoopGatePasses(i)
  /\ UNCHANGED <<command, manifest>>

CommandStep(p) ==
  \/ (ClaimStep(p) \/ TransitionStep(p) \/ IntegrationStep(p) \/ Stop(p))
     /\ UNCHANGED manifest
  \/ RoadmapStep(p)

Next == EvidenceStep \/ \E p \in Operators : CommandStep(p)

Spec == Init /\ [][Next]_vars

-----------------------------------------------------------------------------
(* What holds however many operators there are, whatever fails.            *)

\* An issue that was closed as completed carries state:merged: whoever closes
\* one has labelled it first and stops when that fails, and no other command
\* that is under way with older labels takes the label off again.
CompletedMeansMerged ==
  \A i \in Issues : issueState[i] = "completed" => "state:merged" \in labels[i]

\* state:merged is only put on an issue whose pull request was merged with a
\* green merge commit, or whose no-op was validated; recover-clear alone does
\* not look at CI.
MergedMeansShipped ==
  \A i \in Issues : "state:merged" \in labels[i] =>
    pr[i] = "green" \/ noopGate[i] \/ (Shipped(i) /\ "recover" \in Used)

Finished(i) == labels[i] \cap {"state:done", "state:merged"} # {}

\* A finished issue stays finished.  Claims rely on it: they look at the
\* dependencies of an issue long before they edit its labels.
FinishedStaysFinished ==
  [][\A i \in Issues : Finished(i) => Finished(i)']_vars

\* No issue is worked on before its dependencies are finished.
DependenciesFirst ==
  \A i \in Issues :
    labels[i] \cap {"state:active", "state:done", "state:failed"} # {} =>
      \A d \in Deps[i] : Finished(d)

\* No task of the roadmap is worked on before the tasks it needs are finished.
\* No claim checks that: it holds because state:ready is kept from it until then.
RoadmapOrder ==
  \A i \in Issues :
    labels[i] \cap StateLabels # {} => \A d \in Needs[i] : Finished(d)

\* An issue becomes ready only when its dependencies, of either sort, are finished,
\* so that it may be claimed.
ReadyMeansClaimable ==
  [][\A i \in Issues :
       "state:ready" \in labels'[i] \ labels[i] =>
         \A d \in Deps[i] \cup Needs[i] : Finished(d)]_vars

Retired(i) == issueState[i] # "open" \/ Finished(i)

\* A roadmap is retired only when every task of it is closed or finished: a clear
\* that fails half way leaves the manifest alone.
RetiredMeansClosed == manifest # "active" => \A i \in Issues : Retired(i)

-----------------------------------------------------------------------------
(* What one operator alone can rely on.                                    *)

\* An issue has at most one state label.
OneState ==
  \A i \in Issues : \A s, t \in labels[i] \cap StateLabels : s = t

\* Gate labels are there exactly while the issue is active.
GateWhileActive ==
  \A i \in Issues :
    Gates(i) = IF "state:active" \in labels[i] THEN ProposedGate(i) ELSE {}

\* An issue that was claimed with a gate is done only on evidence its gate
\* accepts.
DoneMeansEvidence ==
  \A i \in Issues :
    "state:done" \in labels[i] /\ ProposedGate(i) # {} => summary[i]

\* An issue that was closed as completed is not touched any more.
CompletedIsFinal ==
  [][\A i \in Issues : issueState[i] = "completed" =>
       issueState'[i] = "completed" /\ labels'[i] = labels[i]]_vars

-----------------------------------------------------------------------------
(* What the running commands remember, and how it bears on the invariants  *)
(* above.  Between the plan of a command and its mutations other commands  *)
(* run, so what the plan relied on has to be something they cannot undo.   *)

\* A command about to close an issue as completed has labelled it, and works on
\* what its plan required.
ShipsWhatIsDue(p) ==
  /\ Running(p, {"integrate", "integrate noop", "recover"}, "close") =>
       \A i \in command[p].todo :
         First(i, command[p].todo) => "state:merged" \in labels[i]
  /\ command[p].name = "integrate" => \A i \in command[p].todo : pr[i] = "green"
  /\ command[p].name = "integrate noop" => \A i \in command[p].todo : noopGate[i]
  /\ command[p].name = "recover" =>
       /\ "recover" \in Used
       /\ \A i \in command[p].picked : Shipped(i)
       /\ command[p].step # "read" => \A i \in command[p].todo : Shipped(i)

ShippingInv ==
  /\ TypeOK
  /\ CompletedMeansMerged
  /\ MergedMeansShipped
  /\ \A p \in Operators : ShipsWhatIsDue(p)

DependenciesFinished(i) == \A d \in Deps[i] : Finished(d)

\* A claim works on issues whose dependencies are finished, and so does every
\* transition, because it has seen its issue active.
WorksInOrder(p) ==
  /\ command[p].name \in Used \cup {"none"}
  /\ command[p].name = "claim" => \A i \in command[p].picked : DependenciesFinished(i)
  /\ Running(p, {"claim"}, "edit") \/ command[p].name \in TransitionNames =>
       \A i \in command[p].todo : DependenciesFinished(i)

OrderInv ==
  /\ TypeOK
  /\ DependenciesFirst
  /\ \A p \in Operators : WorksInOrder(p)

NeedsFinished(i) == \A d \in Needs[i] : Finished(d)

\* A command past its reading works on issues that had a state when it planned, or on
\* tasks that it has seen promotable.  Nothing was cleared, so nothing is recovered.
WorksOnWhatIsReady(p) ==
  /\ command[p].name \in (Used \ {"recover"}) \cup {"none"}
  /\ command[p].step # "read" =>
       \A i \in command[p].todo \cup command[p].picked :
         NeedsFinished(i) /\ (command[p].name = "advance" => Needs[i] # {})
  /\ \A i \in Issues : Completed(command[p].seen, i) => Finished(i)

PromotionInv ==
  /\ RoadmapOrder
  /\ manifest = "active"
  /\ \A i \in Issues : issueState[i] # "not planned"
  /\ \A p \in Operators : WorksOnWhatIsReady(p)

\* A clear goes on from what it has seen completed to what it has closed, and
\* writes the manifest when there is nothing else.
RetiresWhatIsClosed(p) ==
  /\ command[p].name \in Used \cup {"none"}
  /\ \A i \in Issues : Completed(command[p].seen, i) => Retired(i)
  /\ Running(p, {"clear"}, "close") => \A i \in Issues \ command[p].todo : Retired(i)
  /\ Running(p, {"clear"}, "archive") \/ Running(p, {"clear"}, "rewrite") =>
       \A i \in Issues : Retired(i)

RetireInv ==
  /\ TypeOK
  /\ RetiredMeansClosed
  /\ \A p \in Operators : RetiresWhatIsClosed(p)

\* One operator alone finds the issues as he has left them: what his command has read
\* is still so when it acts on it, until the action that changes it.
NotLabelled(i) == labels[i] \cap StateLabels = {}

OutOfTheWay(i) == Finished(i) \/ (NotLabelled(i) /\ issueState[i] # "open")

MayBePromoted(i) ==
  /\ NotLabelled(i) /\ issueState[i] = "open"
  /\ Needs[i] # {} /\ \A d \in Needs[i] : OutOfTheWay(d)

ClaimsWhatIsReady(p) ==
  LET selected == command[p].todo
                    \cup (IF Running(p, {"claim"}, "check") THEN command[p].picked ELSE {})
  IN  command[p].name \in {"claim", "run"} =>
        \A i \in selected : /\ "state:ready" \in labels[i]
                            /\ command[p].name = "claim" => issueState[i] = "open"

MovesWhatIsActive(p) ==
  /\ command[p].name \in TransitionNames =>
       \A i \in command[p].todo : "state:active" \in labels[i] /\ command[p].gates = Gates(i)
  /\ Running(p, {"complete"}, "edit") => \A i \in command[p].todo : GatePasses(i)

ClosesWhatIsDone(p) ==
  /\ Running(p, {"integrate", "integrate noop"}, "edit") =>
       \A i \in command[p].todo : "state:done" \in labels[i] /\ MaySeeOpen(i)
  /\ Running(p, {"integrate", "integrate noop"}, "close") =>
       \A i \in command[p].todo : "state:merged" \in labels[i]

PromotesWhatIsDue(p) ==
  /\ Running(p, {"advance"}, "read") =>
       \A i \in Issues \ command[p].todo : command[p].seen[i] \in TaskStates(i)
  /\ Running(p, {"advance"}, "edit") => \A i \in command[p].todo : MayBePromoted(i)

ActsOnWhatIs(p) ==
  /\ command[p].name \in (Used \ {"recover"}) \cup {"none"}
  /\ ClaimsWhatIsReady(p) /\ MovesWhatIsActive(p)
  /\ ClosesWhatIsDone(p) /\ PromotesWhatIsDue(p)

AloneInv ==
  /\ OneState /\ GateWhileActive /\ DoneMeansEvidence
  /\ \A p \in Operators : ActsOnWhatIs(p)

-----------------------------------------------------------------------------
(* Liveness.  Operators keep working: a command that runs goes on, an      *)
(* integration that can be planned again and again is run, and the label   *)
(* edit of an integration that is tried again and again gets through.      *)

IntegrationEditSucceeds(p, i) ==
  /\ IntegrationEdit(p)
  /\ i \in command[p].todo
  /\ command'[p].step = "close"

Fairness ==
  \A p \in Operators :
    /\ WF_vars(CommandStep(p))
    /\ \A i \in Issues :
         /\ SF_vars(PlanIntegration(p, i) /\ UNCHANGED manifest)
         /\ SF_vars(IntegrationEditSucceeds(p, i) /\ UNCHANGED manifest)

FairSpec == Spec /\ Fairness

\* An issue that is done and whose pull request was merged with a green merge
\* commit is eventually closed: an integration that failed can be run again.
IntegrationResumes ==
  \A i \in Issues :
    ("state:done" \in labels[i] /\ pr[i] = "green" /\ issueState[i] = "open")
      ~> issueState[i] = "completed"
=============================================================================
