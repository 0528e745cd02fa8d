----------------------------- MODULE Transition -----------------------------
(***************************************************************************)
(* The transitions out of state:active: release, complete and fail.        *)
(* complete first has the gate of the issue evaluated, on a read of its    *)
(* own; the edit is made with the labels of the first read.                *)
(***************************************************************************)
EXTENDS Commands

TransitionNames == {"release", "complete", "fail"}

NewState(name) ==
  CASE name = "release"  -> "state:ready"
    [] name = "complete" -> "state:done"
    [] name = "fail"     -> "state:failed"

PlanTransition(p, name, i) ==
  /\ MayStart(p, name)
  /\ "state:active" \in Observed(i)
  /\ command' = [command EXCEPT ![p] =
       [name |-> name, step |-> IF name = "complete" THEN "gate" ELSE "edit",
        todo |-> {i}, picked |-> {}, gates |-> Gates(i), seen |-> NothingSeen]]
  /\ UNCHANGED <<tracker, evidence>>

\* A mutant: the gate is not looked at.
GateIgnored(i) == TRUE

\* An issue without a gate label passes; one with a gate label needs a summary
\* artifact that its gate accepts.
GatePasses(i) == Gates(i) = {} \/ summary[i]

EvaluateGateForComplete(p) ==
  /\ Running(p, {"complete"}, "gate")
  /\ \E i \in Issues :
       /\ command[p].todo = {i}
       /\ IF GatePasses(i) THEN GoTo(p, "edit") ELSE Finish(p)
  /\ UNCHANGED <<tracker, evidence>>

\* Mutants: what TransitionEdit could take off the issue instead.
EditRemoving(p, remove) ==
  /\ Running(p, TransitionNames, "edit")
  /\ \E i \in Issues, outcome \in Outcomes("edit") :
       /\ command[p].todo = {i}
       /\ Edit(i, outcome, remove, {NewState(command[p].name)})
  /\ Finish(p)
  /\ UNCHANGED evidence

KeepsActive(p) == EditRemoving(p, command[p].gates)
KeepsGates(p) == EditRemoving(p, {"state:active"})
ReplacesAnyState(p) == EditRemoving(p, StateLabels \cup command[p].gates)

TransitionEdit(p) ==
  /\ Running(p, TransitionNames, "edit")
  /\ \E i \in Issues, outcome \in Outcomes("edit") :
       /\ command[p].todo = {i}
       /\ Edit(i, outcome, {"state:active"} \cup command[p].gates,
               {NewState(command[p].name)})
  /\ Finish(p)
  /\ UNCHANGED evidence

TransitionStep(p) ==
  \/ \E name \in TransitionNames, i \in Issues : PlanTransition(p, name, i)
  \/ EvaluateGateForComplete(p)
  \/ TransitionEdit(p)
=============================================================================
