---------------------------- MODULE GitHubIssues ----------------------------
(***************************************************************************)
(* The issue tracker as Signposter sees it through the `gh` program: the   *)
(* labels and the open/closed state of every issue, and the calls that     *)
(* read and change them.  GitHub and `gh` are external; what is modelled   *)
(* is how the code uses them.                                              *)
(*                                                                         *)
(* A mutating call that is made ends in one of three ways:                 *)
(*   ok   - it took effect and exit code 0 was seen;                       *)
(*   lost - it had no effect and the caller saw a failure;                 *)
(*   late - it took effect, but the caller goes no further: it saw a       *)
(*          timeout or an error (of this call or of the comment that       *)
(*          follows it).                                                   *)
(***************************************************************************)
EXTENDS Integers

CONSTANTS
  Issues,   \* the issue numbers of the repository
  Deps,     \* Deps[i]: the issues on the "Depends-On:" lines of issue i
  Kind,     \* Kind[i]: what the phase, role and risk labels of i route it to
  Faults    \* the <<call, outcome>> pairs that may go wrong

StateLabels == {"state:ready", "state:active", "state:done", "state:merged",
                "state:failed"}
GateLabels == {"gate:ci", "gate:review", "gate:human"}
Kinds == {"build", "risky build", "review", "plan", "unrouted"}

ASSUME IssuesAssumption == Issues \subseteq Nat
ASSUME DepsAssumption == Deps \in [Issues -> SUBSET Issues]
ASSUME KindAssumption == Kind \in [Issues -> Kinds]

VARIABLES
  labels,      \* labels[i]: the state and gate labels of issue i
  issueState   \* issueState[i]: open, or the reason i was closed with

tracker == <<labels, issueState>>

TrackerTypeOK ==
  /\ labels \in [Issues -> SUBSET (StateLabels \cup GateLabels)]
  /\ issueState \in [Issues -> {"open", "completed", "not planned"}]

(***************************************************************************)
(* Reading.  Every reader takes the first label that starts with "state:"; *)
(* GitHub promises no order, so with several state labels any of them may  *)
(* be the one that is seen.                                                *)
(***************************************************************************)
Observed(i) ==
  IF labels[i] \cap StateLabels = {} THEN {"none"} ELSE labels[i] \cap StateLabels

Readings ==
  {seen \in [Issues -> StateLabels \cup {"none"}] :
     \A i \in Issues : seen[i] \in Observed(i)}

Gates(i) == labels[i] \cap GateLabels

(***************************************************************************)
(* Writing.                                                                *)
(***************************************************************************)
Outcomes(call) ==
  {"ok"} \cup {outcome \in {"lost", "late"} : <<call, outcome>> \in Faults}

\* gh issue edit --remove-label ... --add-label ...
Edit(i, outcome, remove, add) ==
  /\ labels' = IF outcome = "lost" THEN labels
               ELSE [labels EXCEPT ![i] = (@ \ remove) \cup add]
  /\ UNCHANGED issueState

\* gh issue close --reason ...: closing a closed issue succeeds and changes
\* nothing, not even the reason
Close(i, outcome, reason) ==
  /\ issueState' = IF outcome = "lost" \/ issueState[i] # "open" THEN issueState
                   ELSE [issueState EXCEPT ![i] = reason]
  /\ UNCHANGED labels

\* gh issue reopen
Reopen(i, outcome) ==
  /\ issueState' = IF outcome = "lost" THEN issueState
                   ELSE [issueState EXCEPT ![i] = "open"]
  /\ UNCHANGED labels
=============================================================================
