--------------------------- MODULE IssueLifecycle ---------------------------
(***************************************************************************)
(* What the issue workflow promises, with nothing of how it is carried     *)
(* out: one phase per issue, moved by atomic steps along                   *)
(*                                                                         *)
(*      new -> ready -> active -> done -> merged -> closed as completed    *)
(*                                                                         *)
(* with release and failure on the way, and retirement at any time.        *)
(***************************************************************************)
CONSTANTS
  Issues,   \* the issues
  Deps,     \* Deps[i]: the issues that i is not started before
  Needs,    \* Needs[i]: the issues that i is not ready before
  Gated     \* the issues whose work needs evidence

VARIABLES
  phase,    \* phase[i]
  closed,   \* closed[i]: open, completed, or not planned
  proven,   \* proven[i]: there is evidence that the work on i is good
  shipped   \* shipped[i]: the work on i is on the main branch and passes there,
            \*             or nothing had to be shipped

vars == <<phase, closed, proven, shipped>>

Init ==
  /\ phase \in [Issues -> {"new", "ready"}]
  /\ \A i \in Issues : Needs[i] # {} => phase[i] = "new"
  /\ closed = [i \in Issues |-> "open"]
  /\ proven = [i \in Issues |-> FALSE]
  /\ shipped = [i \in Issues |-> FALSE]

Finished(i) == phase[i] \in {"done", "merged"}

\* What a promotion accepts: a task that was closed before it had a phase too.
OutOfTheWay(i) == Finished(i) \/ (phase[i] = "new" /\ closed[i] # "open")

Move(i, from, to) ==
  /\ phase[i] = from
  /\ phase' = [phase EXCEPT ![i] = to]
  /\ UNCHANGED <<closed, proven, shipped>>

Promote(i) ==
  Needs[i] # {} /\ (\A d \in Needs[i] : OutOfTheWay(d)) /\ Move(i, "new", "ready")

Claim(i) ==
  /\ closed[i] = "open"
  /\ \A d \in Deps[i] : Finished(d)
  /\ Move(i, "ready", "active")

Release(i) == Move(i, "active", "ready")

Complete(i) == (i \in Gated => proven[i]) /\ Move(i, "active", "done")

Fail(i) == Move(i, "active", "failed")

Integrate(i) == closed[i] = "open" /\ shipped[i] /\ Move(i, "done", "merged")

CloseIssue(i) ==
  /\ closed[i] = "open"
  /\ \/ phase[i] = "merged" /\ closed' = [closed EXCEPT ![i] = "completed"]
     \/ closed' = [closed EXCEPT ![i] = "not planned"]
  /\ UNCHANGED <<phase, proven, shipped>>

Prove(i) ==
  /\ proven' = [proven EXCEPT ![i] = TRUE]
  /\ UNCHANGED <<phase, closed, shipped>>

Ship(i) ==
  /\ shipped' = [shipped EXCEPT ![i] = TRUE]
  /\ UNCHANGED <<phase, closed, proven>>

Next ==
  \E i \in Issues :
    \/ Promote(i) \/ Claim(i) \/ Release(i) \/ Complete(i) \/ Fail(i)
    \/ Integrate(i) \/ CloseIssue(i) \/ Prove(i) \/ Ship(i)

Spec == Init /\ [][Next]_vars
=============================================================================
