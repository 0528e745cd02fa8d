------------------------------- MODULE Claim -------------------------------
(***************************************************************************)
(* Claiming ready issues: `claim --apply` and `run --claim`, which go      *)
(* through the claim planner, and `run --issue N --claim`, which does not. *)
(***************************************************************************)
EXTENDS Commands, FiniteSets

CONSTANTS
  Rank,    \* Rank[i]: where the risk and phase labels of i put it in the claim order
  Limit    \* how many issues one claim command takes

ASSUME RankAssumption == Rank \in [Issues -> Nat]
ASSUME LimitAssumption == Limit \in Nat \ {0}

\* A mutant: the gate without its label prefix.
UnprefixedGate(i) == {"ci"}

\* The gate the dispatcher proposes for a ready issue.
ProposedGate(i) ==
  CASE Kind[i] = "risky build" -> {"gate:human"}
    [] Kind[i] = "review"      -> {"gate:review"}
    [] Kind[i] = "plan"        -> {}
    [] OTHER                   -> {"gate:ci"}

\* A mutant: a failed dependency no longer blocks.
FailedIsCompleted == {"state:done", "state:merged", "state:failed"}

CompletedDependencyStates == {"state:done", "state:merged"}

\* Every dependency can be seen in a completed state.
DependenciesClear(i) ==
  \A d \in Deps[i] : labels[d] \cap CompletedDependencyStates # {}

Before(i, j) == Rank[i] < Rank[j] \/ (Rank[i] = Rank[j] /\ i <= j)

\* The planner lists the open issues and keeps the ready ones.
ClaimList(p) ==
  /\ MayStart(p, "claim")
  /\ \E seen \in Readings :
       LET ready == {i \in Issues : issueState[i] = "open" /\ seen[i] = "state:ready"}
       IN  ready # {} /\ Start(p, "claim", "check", ready)
  /\ UNCHANGED <<tracker, evidence>>

\* One ready issue is fetched again for its body, and the state of each of its
\* dependencies is read.  A dependency that cannot be read counts as a blocker;
\* a body that cannot be read counts as a body without dependencies.
ClaimCheck(p) ==
  /\ Running(p, {"claim"}, "check")
  /\ \E i \in command[p].todo :
       \/ /\ \/ DependenciesClear(i)
             \/ <<"view", "fail">> \in Faults
          /\ command' = [command EXCEPT ![p].todo = @ \ {i}, ![p].picked = @ \cup {i}]
       \/ /\ \/ \E d \in Deps[i] : Observed(d) \ CompletedDependencyStates # {}
             \/ Deps[i] # {} /\ <<"view", "fail">> \in Faults
          /\ command' = [command EXCEPT ![p].todo = @ \ {i}]
  /\ UNCHANGED <<tracker, evidence>>

\* All are checked: the first Limit of the clear ones, in claim order, are kept.
ClaimSelect(p) ==
  /\ Running(p, {"claim"}, "check")
  /\ command[p].todo = {}
  /\ \E chosen \in SUBSET command[p].picked :
       /\ \/ chosen = command[p].picked /\ Cardinality(chosen) <= Limit
          \/ chosen # command[p].picked /\ Cardinality(chosen) = Limit
       /\ \A i \in chosen, j \in command[p].picked \ chosen : Before(i, j)
       /\ IF chosen = {} THEN Finish(p) ELSE Start(p, "claim", "edit", chosen)
  /\ UNCHANGED <<tracker, evidence>>

\* run --issue N --claim: one read of the issue, open or not, ready is enough.
RunIssue(p, i) ==
  /\ MayStart(p, "run")
  /\ "state:ready" \in Observed(i)
  /\ Start(p, "run", "edit", {i})
  /\ UNCHANGED <<tracker, evidence>>

\* The claim mutation of one selected issue; the labels are not read again.
ClaimEdit(p) ==
  /\ Running(p, {"claim", "run"}, "edit")
  /\ \E i \in command[p].todo, outcome \in Outcomes("edit") :
       /\ \A j \in command[p].todo : Before(i, j)
       /\ Edit(i, outcome, {"state:ready"}, {"state:active"} \cup ProposedGate(i))
       /\ IF outcome = "ok" THEN Advance(p, i, "edit") ELSE Finish(p)
  /\ UNCHANGED evidence

ClaimStep(p) ==
  \/ ClaimList(p)
  \/ ClaimCheck(p)
  \/ ClaimSelect(p)
  \/ \E i \in Issues : RunIssue(p, i)
  \/ ClaimEdit(p)
=============================================================================
