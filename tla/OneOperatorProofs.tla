-------------------------- MODULE OneOperatorProofs --------------------------
(***************************************************************************)
(* What one operator alone can rely on, for every set of issues and every  *)
(* failure, as long as no clear is recovered.  The argument is that his    *)
(* command finds the issues as it has left them (ActsOnWhatIs), so that    *)
(* each of its edits takes an issue from the one state it is in to the     *)
(* next one, with the gate that goes with it.                              *)
(***************************************************************************)
EXTENDS WorkflowRefinement, WorkOrderProofs

Alone == \A p, q \in Operators : p = q
NoRecovery == "recover" \notin Used

-----------------------------------------------------------------------------
(* The labels of an issue.                                                 *)

\* The labels of an issue whose state is s: the state, and the gate while it is active.
LabelsOf(i, s) == {s} \cup (IF s = "state:active" THEN ProposedGate(i) ELSE {})

LabelsInOrder == OneState /\ GateWhileActive /\ DoneMeansEvidence

LEMMA GatesAreNoStates ==
  /\ \A i : ProposedGate(i) \subseteq GateLabels
  /\ StateLabels \cap GateLabels = {}
  /\ "none" \notin StateLabels
BY DEF ProposedGate, GateLabels, StateLabels

\* An issue that carries a state carries nothing else but the gate that goes with it.
LEMMA StateTellsLabels ==
  ASSUME TypeOK, LabelsInOrder, NEW i \in Issues, NEW s \in StateLabels, s \in labels[i]
  PROVE  labels[i] = LabelsOf(i, s) /\ labels[i] \cap StateLabels = {s}
<1>1. labels[i] \subseteq StateLabels \cup GateLabels
  BY DEF TypeOK, TrackerTypeOK
<1>2. labels[i] \cap StateLabels = {s}
  BY DEF LabelsInOrder, OneState
<1>3. "state:active" \in labels[i] <=> s = "state:active"
  BY <1>2 DEF StateLabels
<1>4. labels[i] \cap GateLabels = IF s = "state:active" THEN ProposedGate(i) ELSE {}
  BY <1>3 DEF LabelsInOrder, GateWhileActive, Gates
<1>5. QED
  BY <1>1, <1>2, <1>4 DEF LabelsOf

\* An issue without a state has no label at all.
LEMMA NoStateNoLabels ==
  ASSUME TypeOK, LabelsInOrder, NEW i \in Issues, NotLabelled(i)
  PROVE  labels[i] = {}
<1>1. labels[i] \subseteq StateLabels \cup GateLabels /\ "state:active" \notin labels[i]
  BY DEF TypeOK, TrackerTypeOK, NotLabelled, StateLabels
<1>2. labels[i] \cap GateLabels = {}
  BY <1>1 DEF LabelsInOrder, GateWhileActive, Gates
<1>3. QED
  BY <1>1, <1>2 DEF NotLabelled

\* Issue i comes into the state s, from whatever state it was in.
Relabelled(i, s) == labels' = [labels EXCEPT ![i] = LabelsOf(i, s)]

LEMMA RelabellingKeepsOrder ==
  ASSUME TypeOK, LabelsInOrder, NEW i \in Issues, NEW s \in StateLabels, Relabelled(i, s),
         \A j \in Issues : summary[j] => summary'[j],
         s = "state:done" /\ ProposedGate(i) # {} => summary[i]
  PROVE  LabelsInOrder'
<1>1. /\ labels'[i] = LabelsOf(i, s)
      /\ \A j \in Issues \ {i} : labels'[j] = labels[j]
  BY DEF Relabelled, TypeOK, TrackerTypeOK
<1>2. labels'[i] \cap StateLabels = {s}
  BY <1>1, GatesAreNoStates DEF LabelsOf
<1>3. labels'[i] \cap GateLabels = IF s = "state:active" THEN ProposedGate(i) ELSE {}
  BY <1>1, GatesAreNoStates DEF LabelsOf
<1>4. \A t \in StateLabels : t \in labels'[i] => t = s
  BY <1>2
<1>5. OneState'
  BY <1>1, <1>2 DEF LabelsInOrder, OneState
<1>6. GateWhileActive'
  <2>1. "state:active" \in labels'[i] <=> s = "state:active"
    BY <1>2, <1>4 DEF StateLabels
  <2>2. QED
    BY <1>1, <1>3, <2>1 DEF LabelsInOrder, GateWhileActive, Gates
<1>7. DoneMeansEvidence'
  <2>1. "state:done" \in labels'[i] => s = "state:done"
    BY <1>4 DEF StateLabels
  <2>2. QED
    BY <1>1, <2>1 DEF LabelsInOrder, DoneMeansEvidence
<1>8. QED
  BY <1>5, <1>6, <1>7 DEF LabelsInOrder

\* What an edit comes to that takes off all an issue has, or that is lost.
LEMMA EditRelabels ==
  ASSUME TypeOK, NEW i \in Issues, NEW outcome, NEW remove, NEW s,
         Edit(i, outcome, remove, LabelsOf(i, s)), labels[i] \subseteq remove
  PROVE  UNCHANGED labels \/ Relabelled(i, s)
<1>1. (labels[i] \ remove) \cup LabelsOf(i, s) = LabelsOf(i, s)
  OBVIOUS
<1>2. QED
  BY <1>1 DEF Edit, Relabelled, TypeOK, TrackerTypeOK

-----------------------------------------------------------------------------
(* The edits.                                                              *)

\* A claim takes an issue from ready to active.
LEMMA ClaimEditMoves ==
  ASSUME TypeOK, LabelsInOrder, NEW p \in Operators, ActsOnWhatIs(p), ClaimEdit(p)
  PROVE  \E i \in command[p].todo :
           /\ i \in Issues /\ labels[i] = {"state:ready"}
           /\ UNCHANGED labels \/ Relabelled(i, "state:active")
           /\ UNCHANGED <<issueState, evidence>>
           /\ Advance(p, i, "edit") \/ Finish(p)
<1>1. PICK i \in command[p].todo, outcome \in Outcomes("edit") :
        /\ Edit(i, outcome, {"state:ready"}, {"state:active"} \cup ProposedGate(i))
        /\ Advance(p, i, "edit") \/ Finish(p)
  BY DEF ClaimEdit
<1>2. i \in Issues
  BY DEF TypeOK, CommandTypeOK, Command
<1>3. "state:ready" \in labels[i]
  BY <1>1 DEF ActsOnWhatIs, ClaimsWhatIsReady, ClaimEdit, Running
<1>4. labels[i] = {"state:ready"}
  <2>1. "state:ready" \in StateLabels
    BY DEF StateLabels
  <2>2. labels[i] = LabelsOf(i, "state:ready")
    BY <1>2, <1>3, <2>1, StateTellsLabels
  <2>3. QED
    BY <2>2 DEF LabelsOf
<1>5. UNCHANGED labels \/ Relabelled(i, "state:active")
  <2>1. {"state:active"} \cup ProposedGate(i) = LabelsOf(i, "state:active")
    BY DEF LabelsOf
  <2>2. QED
    BY <1>1, <1>2, <1>4, <2>1, EditRelabels
<1>6. UNCHANGED <<issueState, evidence>>
  BY <1>1 DEF ClaimEdit, Edit
<1>7. QED
  BY <1>1, <1>2, <1>4, <1>5, <1>6

LEMMA NewStates ==
  \A name \in TransitionNames :
    /\ NewState(name) \in StateLabels \ {"state:active"}
    /\ NewState(name) = "state:done" => name = "complete"
BY DEF TransitionNames, NewState, StateLabels

\* A transition takes an issue out of active, to done on evidence only.
LEMMA TransitionEditMoves ==
  ASSUME TypeOK, LabelsInOrder, NEW p \in Operators, ActsOnWhatIs(p), TransitionEdit(p)
  PROVE  \E i \in Issues :
           /\ command[p].name \in TransitionNames /\ command[p].todo = {i}
           /\ labels[i] = LabelsOf(i, "state:active")
           /\ UNCHANGED labels \/ Relabelled(i, NewState(command[p].name))
           /\ command[p].name = "complete" => (ProposedGate(i) # {} => summary[i])
           /\ UNCHANGED <<issueState, evidence>> /\ Finish(p)
<1> DEFINE name == command[p].name
<1>1. PICK i \in Issues, outcome \in Outcomes("edit") :
        /\ command[p].todo = {i}
        /\ Edit(i, outcome, {"state:active"} \cup command[p].gates, {NewState(name)})
  BY DEF TransitionEdit
<1>2. name \in TransitionNames /\ command[p].step = "edit" /\ Finish(p) /\ UNCHANGED evidence
  BY DEF TransitionEdit, Running
<1>3. "state:active" \in labels[i] /\ command[p].gates = Gates(i)
  BY <1>1, <1>2 DEF ActsOnWhatIs, MovesWhatIsActive
<1>4. labels[i] = LabelsOf(i, "state:active")
  <2>1. "state:active" \in StateLabels
    BY DEF StateLabels
  <2>2. QED
    BY <1>3, <2>1, StateTellsLabels
<1>5. Gates(i) = ProposedGate(i)
  BY <1>3 DEF LabelsInOrder, GateWhileActive
<1>6. UNCHANGED labels \/ Relabelled(i, NewState(name))
  <2>1. {NewState(name)} = LabelsOf(i, NewState(name))
    BY <1>2, NewStates DEF LabelsOf
  <2>2. labels[i] \subseteq {"state:active"} \cup command[p].gates
    BY <1>3, <1>4, <1>5 DEF LabelsOf
  <2>3. QED
    BY <1>1, <2>1, <2>2, EditRelabels
<1>7. name = "complete" => (ProposedGate(i) # {} => summary[i])
  BY <1>1, <1>2, <1>5 DEF ActsOnWhatIs, MovesWhatIsActive, Running, GatePasses
<1>8. UNCHANGED issueState
  BY <1>1 DEF Edit
<1>9. QED
  BY <1>1, <1>2, <1>4, <1>6, <1>7, <1>8

\* An integration takes an issue from done to merged.
LEMMA IntegrationEditMoves ==
  ASSUME TypeOK, LabelsInOrder, NEW p \in Operators, ActsOnWhatIs(p), IntegrationEdit(p)
  PROVE  \E i \in Issues :
           /\ command[p].todo = {i} /\ labels[i] = {"state:done"} /\ MaySeeOpen(i)
           /\ \/ UNCHANGED labels /\ Finish(p)
              \/ Relabelled(i, "state:merged") /\ (GoTo(p, "close") \/ Finish(p))
           /\ UNCHANGED <<issueState, evidence>>
<1>1. PICK i \in Issues, outcome \in Outcomes("edit") :
        /\ command[p].todo = {i}
        /\ Edit(i, outcome, {"state:done"}, {"state:merged"})
        /\ IF outcome = "ok" THEN GoTo(p, "close") ELSE Finish(p)
  BY DEF IntegrationEdit
<1>2. "state:done" \in labels[i] /\ MaySeeOpen(i)
  BY <1>1 DEF IntegrationEdit, ActsOnWhatIs, ClosesWhatIsDone
<1>3. labels[i] = {"state:done"}
  <2>1. "state:done" \in StateLabels
    BY DEF StateLabels
  <2>2. labels[i] = LabelsOf(i, "state:done")
    BY <1>2, <2>1, StateTellsLabels
  <2>3. QED
    BY <2>2 DEF LabelsOf
<1>4. {"state:merged"} = LabelsOf(i, "state:merged")
  BY DEF LabelsOf
<1>5. \/ UNCHANGED labels /\ Finish(p)
      \/ Relabelled(i, "state:merged") /\ (GoTo(p, "close") \/ Finish(p))
  <2>1. CASE outcome = "lost"
    BY <1>1, <2>1 DEF Edit
  <2>2. CASE outcome # "lost"
    <3>1. labels' = [labels EXCEPT ![i] = (labels[i] \ {"state:done"}) \cup {"state:merged"}]
      BY <1>1, <2>2 DEF Edit
    <3>2. (labels[i] \ {"state:done"}) \cup {"state:merged"} = LabelsOf(i, "state:merged")
      BY <1>3, <1>4
    <3>3. QED
      BY <1>1, <3>1, <3>2 DEF Relabelled
  <2>3. QED
    BY <2>1, <2>2
<1>6. UNCHANGED <<issueState, evidence>>
  BY <1>1 DEF Edit, IntegrationEdit
<1>7. QED
  BY <1>1, <1>2, <1>3, <1>5, <1>6

\* An advance makes an issue ready that had no label at all, and was due.
LEMMA AdvanceEditMoves ==
  ASSUME TypeOK, LabelsInOrder, NEW p \in Operators, ActsOnWhatIs(p), AdvanceEdit(p)
  PROVE  \E i \in command[p].todo :
           /\ i \in Issues /\ labels[i] = {} /\ MayBePromoted(i)
           /\ UNCHANGED labels \/ Relabelled(i, "state:ready")
           /\ UNCHANGED <<issueState, evidence>>
           /\ Finish(p) \/ Advance(p, i, "edit")
<1>1. PICK i \in command[p].todo, outcome \in Outcomes("edit") :
        /\ Edit(i, outcome, {}, {"state:ready"})
        /\ Finish(p) \/ Advance(p, i, "edit")
  BY DEF AdvanceEdit
<1>2. i \in Issues
  BY DEF TypeOK, CommandTypeOK, Command
<1>3. MayBePromoted(i)
  BY <1>1 DEF AdvanceEdit, ActsOnWhatIs, PromotesWhatIsDue
<1>4. labels[i] = {}
  BY <1>2, <1>3, NoStateNoLabels DEF MayBePromoted
<1>5. UNCHANGED labels \/ Relabelled(i, "state:ready")
  <2>1. {"state:ready"} = LabelsOf(i, "state:ready")
    BY DEF LabelsOf
  <2>2. QED
    BY <1>1, <1>2, <1>4, <2>1, EditRelabels
<1>6. UNCHANGED <<issueState, evidence>>
  BY <1>1 DEF AdvanceEdit, Edit
<1>7. QED
  BY <1>1, <1>2, <1>3, <1>4, <1>5, <1>6

-----------------------------------------------------------------------------
(* A command acts on what is.                                              *)

ActingNames ==
  {"claim", "run", "integrate", "integrate noop", "advance"} \cup TransitionNames

\* A command that does not depend on the labels.
LEMMA NothingToActOn ==
  ASSUME NEW p \in Operators,
         command'[p].name \in ((Used \ {"recover"}) \cup {"none"}) \ ActingNames
  PROVE  ActsOnWhatIs(p)'
BY DEF ActsOnWhatIs, ClaimsWhatIsReady, MovesWhatIsActive, ClosesWhatIsDone,
       PromotesWhatIsDue, ActingNames, TransitionNames, Running

LEMMA EndedActsOnNothing ==
  ASSUME CommandTypeOK, NEW p \in Operators, command'[p] = NoCommand
  PROVE  ActsOnWhatIs(p)'
<1>1. command'[p].name = "none"
  BY DEF NoCommand
<1>2. "none" \notin ActingNames
  BY DEF ActingNames, TransitionNames
<1>3. QED
  BY <1>1, <1>2, NothingToActOn

\* What is seen of an issue is one of its labels.
LEMMA SeenIsThere ==
  ASSUME NEW i \in Issues, NEW s \in StateLabels, s \in Observed(i)
  PROVE  s \in labels[i]
BY GatesAreNoStates DEF Observed

LEMMA ClaimActing ==
  ASSUME NEW p \in Operators, NEW name \in {"claim", "run"} \cap Used,
         command'[p].name = name,
         NEW selected, command'[p].todo \subseteq selected,
         command'[p].step = "check" => command'[p].picked \subseteq selected,
         \A i \in selected :
           "state:ready" \in labels'[i] /\ (name = "claim" => issueState'[i] = "open")
  PROVE  ActsOnWhatIs(p)'
BY DEF ActsOnWhatIs, ClaimsWhatIsReady, MovesWhatIsActive, ClosesWhatIsDone,
       PromotesWhatIsDue, TransitionNames, Running

LEMMA ClaimActs ==
  ASSUME TypeOK, LabelsInOrder, NEW p \in Operators, ActsOnWhatIs(p), ClaimStep(p)
  PROVE  ActsOnWhatIs(p)'
<1>0. /\ CommandTypeOK /\ command \in [Operators -> Command] /\ command[p] \in Command
      /\ command[p].todo \subseteq Issues /\ command[p].picked \subseteq Issues
      /\ "state:ready" \in StateLabels
  BY DEF TypeOK, CommandTypeOK, Command, StateLabels
<1>1. CASE ClaimList(p)
  <2>1. PICK seen \in Readings :
          Start(p, "claim", "check",
                {i \in Issues : issueState[i] = "open" /\ seen[i] = "state:ready"})
    BY <1>1 DEF ClaimList
  <2>2. \A i \in Issues : seen[i] = "state:ready" => "state:ready" \in labels[i]
    <3>1. \A i \in Issues : seen[i] \in Observed(i)
      BY DEF Readings
    <3>2. QED
      BY <1>0, <3>1, SeenIsThere
  <2>3. "claim" \in Used /\ UNCHANGED <<labels, issueState>>
    BY <1>1 DEF ClaimList, MayStart, tracker
  <2> DEFINE ready == {i \in Issues : issueState[i] = "open" /\ seen[i] = "state:ready"}
  <2>4. /\ command'[p].name = "claim" /\ command'[p].picked = {}
        /\ command'[p].todo = ready
    BY <1>0, <2>1, Bookkeeping
  <2>5. \A i \in ready : "state:ready" \in labels'[i] /\ issueState'[i] = "open"
    BY <2>2, <2>3
  <2> HIDE DEF ready
  <2>6. command'[p].todo \subseteq ready /\ command'[p].picked \subseteq ready
    BY <2>4
  <2>7. QED
    BY <2>3, <2>4, <2>5, <2>6, ClaimActing
<1>2. CASE ClaimCheck(p)
  <2>1. PICK i \in command[p].todo :
          \/ command' = [command EXCEPT ![p] =
               [command[p] EXCEPT !.todo = @ \ {i}, !.picked = @ \cup {i}]]
          \/ command' = [command EXCEPT ![p] = [command[p] EXCEPT !.todo = @ \ {i}]]
    BY <1>0, <1>2 DEF ClaimCheck
  <2> DEFINE selected == command[p].todo \cup command[p].picked
  <2>2. /\ command'[p].name = command[p].name
        /\ command'[p].todo \subseteq selected /\ command'[p].picked \subseteq selected
    <3>1. /\ command'[p].name = command[p].name
          /\ command'[p].todo = command[p].todo \ {i}
          /\ \/ command'[p].picked = command[p].picked
             \/ command'[p].picked = command[p].picked \cup {i}
      <4>1. CASE command' = [command EXCEPT ![p] =
                   [command[p] EXCEPT !.todo = @ \ {i}, !.picked = @ \cup {i}]]
        BY <1>0, <4>1 DEF Command
      <4>2. CASE command' = [command EXCEPT ![p] = [command[p] EXCEPT !.todo = @ \ {i}]]
        BY <1>0, <4>2 DEF Command
      <4>3. QED
        BY <2>1, <4>1, <4>2
    <3>2. QED
      BY <2>1, <3>1
  <2>3. command[p].name = "claim" /\ command[p].step = "check"
        /\ UNCHANGED <<labels, issueState>>
    BY <1>2 DEF ClaimCheck, Running, tracker
  <2>4. "claim" \in Used
    BY <2>3 DEF ActsOnWhatIs
  <2>5. \A j \in selected : "state:ready" \in labels'[j] /\ issueState'[j] = "open"
    BY <2>3 DEF ActsOnWhatIs, ClaimsWhatIsReady, Running
  <2> HIDE DEF selected
  <2>6. QED
    BY <2>2, <2>3, <2>4, <2>5, ClaimActing
<1>3. CASE ClaimSelect(p)
  <2>1. PICK chosen \in SUBSET command[p].picked :
          Finish(p) \/ Start(p, "claim", "edit", chosen)
    BY <1>3 DEF ClaimSelect
  <2>2. command[p].name = "claim" /\ command[p].step = "check"
        /\ UNCHANGED <<labels, issueState>>
    BY <1>3 DEF ClaimSelect, Running, tracker
  <2>3. \/ command'[p] = NoCommand
        \/ /\ command'[p].name = "claim" /\ command'[p].picked \subseteq chosen
           /\ command'[p].todo \subseteq chosen
    BY <1>0, <2>1, Bookkeeping
  <2>4. "claim" \in Used
    BY <2>2 DEF ActsOnWhatIs
  <2>5. \A i \in chosen : "state:ready" \in labels'[i] /\ issueState'[i] = "open"
    BY <2>2 DEF ActsOnWhatIs, ClaimsWhatIsReady, Running
  <2>6. QED
    BY <1>0, <2>3, <2>4, <2>5, EndedActsOnNothing, ClaimActing
<1>4. ASSUME NEW i \in Issues, RunIssue(p, i) PROVE ActsOnWhatIs(p)'
  <2>1. "run" \in Used /\ "state:ready" \in labels[i] /\ UNCHANGED labels
    BY <1>0, <1>4, SeenIsThere DEF RunIssue, MayStart, tracker
  <2>2. /\ command'[p].name = "run" /\ command'[p].picked = {}
        /\ command'[p].todo = {i}
    BY <1>0, <1>4, Bookkeeping DEF RunIssue
  <2>3. QED
    BY <2>1, <2>2, ClaimActing
<1>5. CASE ClaimEdit(p)
  <2>1. PICK i \in command[p].todo :
          /\ UNCHANGED labels \/ Relabelled(i, "state:active")
          /\ UNCHANGED issueState
          /\ Advance(p, i, "edit") \/ Finish(p)
    BY <1>5, ClaimEditMoves
  <2>2. command[p].name \in {"claim", "run"} /\ command[p].step = "edit"
    BY <1>5 DEF ClaimEdit, Running
  <2>3. \A j \in Issues \ {i} : labels'[j] = labels[j]
    BY <2>1 DEF Relabelled, TypeOK, TrackerTypeOK
  <2>4. \/ command'[p] = NoCommand
        \/ /\ command'[p].name = command[p].name /\ command'[p].step = "edit"
           /\ command'[p].todo = command[p].todo \ {i}
    BY <1>0, <2>1, Bookkeeping
  <2>5. CASE command'[p] = NoCommand
    BY <1>0, <2>5, EndedActsOnNothing
  <2>6. CASE command'[p] # NoCommand
    <3>1. \A j \in command[p].todo \ {i} :
            /\ "state:ready" \in labels'[j]
            /\ command[p].name = "claim" => issueState'[j] = "open"
      BY <1>0, <2>1, <2>2, <2>3 DEF ActsOnWhatIs, ClaimsWhatIsReady
    <3>2. command[p].name \in Used
      BY <2>2 DEF ActsOnWhatIs
    <3>3. QED
      BY <2>2, <2>4, <2>6, <3>1, <3>2, ClaimActing
  <2>7. QED
    BY <2>5, <2>6
<1>6. QED
  BY <1>1, <1>2, <1>3, <1>4, <1>5 DEF ClaimStep

LEMMA TransitionActing ==
  ASSUME NEW p \in Operators, NEW name \in TransitionNames \cap Used,
         command'[p].name = name,
         \A i \in command'[p].todo :
           /\ "state:active" \in labels'[i] /\ command'[p].gates = Gates(i)'
           /\ name = "complete" /\ command'[p].step = "edit" => (GatePasses(i))'
  PROVE  ActsOnWhatIs(p)'
<1>1. name \in Used \ {"recover"}
  BY DEF TransitionNames
<1>2. MovesWhatIsActive(p)'
  BY DEF MovesWhatIsActive, Running
<1>3. ClaimsWhatIsReady(p)' /\ ClosesWhatIsDone(p)' /\ PromotesWhatIsDue(p)'
  BY DEF ClaimsWhatIsReady, ClosesWhatIsDone, PromotesWhatIsDue, TransitionNames, Running
<1>4. QED
  BY <1>1, <1>2, <1>3 DEF ActsOnWhatIs

LEMMA TransitionActs ==
  ASSUME TypeOK, NEW p \in Operators, ActsOnWhatIs(p), TransitionStep(p)
  PROVE  ActsOnWhatIs(p)'
<1>0. /\ CommandTypeOK /\ command \in [Operators -> Command] /\ command[p] \in Command
  BY DEF TypeOK, CommandTypeOK
<1>1. ASSUME NEW name \in TransitionNames, NEW i \in Issues, PlanTransition(p, name, i)
      PROVE  ActsOnWhatIs(p)'
  <2>1. name \in Used /\ "state:active" \in Observed(i) /\ UNCHANGED labels
    BY <1>1 DEF PlanTransition, MayStart, tracker
  <2>2. "state:active" \in labels[i]
    <3>1. "state:active" \in StateLabels
      BY DEF StateLabels
    <3>2. QED
      BY <2>1, <3>1, SeenIsThere
  <2>3. command'[p] =
          [name |-> name, step |-> IF name = "complete" THEN "gate" ELSE "edit",
           todo |-> {i}, picked |-> {}, gates |-> Gates(i), seen |-> NothingSeen]
    BY <1>0, <1>1 DEF PlanTransition
  <2>4. /\ command'[p].name = name /\ command'[p].todo = {i}
        /\ command'[p].gates = Gates(i)
        /\ name = "complete" => command'[p].step # "edit"
    BY <2>3
  <2>5. Gates(i)' = Gates(i)
    BY <2>1 DEF Gates
  <2>6. QED
    BY <2>1, <2>2, <2>4, <2>5, TransitionActing
<1>2. CASE EvaluateGateForComplete(p)
  <2>1. PICK i \in Issues :
          /\ command[p].todo = {i}
          /\ IF GatePasses(i) THEN GoTo(p, "edit") ELSE Finish(p)
    BY <1>2 DEF EvaluateGateForComplete
  <2>2. command[p].name = "complete" /\ UNCHANGED <<tracker, evidence>>
    BY <1>2 DEF EvaluateGateForComplete, Running
  <2>3. CASE Finish(p)
    BY <1>0, <2>3, Bookkeeping, EndedActsOnNothing
  <2>4. CASE GatePasses(i) /\ GoTo(p, "edit")
    <3>1. command'[p] = [command[p] EXCEPT !.step = "edit"]
      BY <1>0, <2>4 DEF GoTo
    <3>2. /\ command'[p].name = "complete" /\ command'[p].todo = {i}
          /\ command'[p].gates = command[p].gates
      BY <1>0, <2>1, <2>2, <3>1 DEF Command
    <3>3. /\ "complete" \in TransitionNames \cap Used
          /\ "state:active" \in labels[i] /\ command[p].gates = Gates(i)
      BY <2>1, <2>2 DEF ActsOnWhatIs, MovesWhatIsActive, TransitionNames
    <3>4. labels' = labels /\ Gates(i)' = Gates(i) /\ GatePasses(i)' = GatePasses(i)
      BY <2>2 DEF tracker, evidence, Gates, GatePasses
    <3>5. QED
      BY <2>4, <3>2, <3>3, <3>4, TransitionActing
  <2>5. QED
    BY <2>1, <2>3, <2>4
<1>3. CASE TransitionEdit(p)
  BY <1>0, <1>3, Bookkeeping, EndedActsOnNothing DEF TransitionEdit
<1>4. QED
  BY <1>1, <1>2, <1>3 DEF TransitionStep

LEMMA IntegrationActing ==
  ASSUME NEW p \in Operators, NEW name \in {"integrate", "integrate noop"} \cap Used,
         command'[p].name = name,
         \A i \in command'[p].todo :
           \/ /\ command'[p].step = "edit"
              /\ "state:done" \in labels'[i] /\ MaySeeOpen(i)'
           \/ command'[p].step = "close" /\ "state:merged" \in labels'[i]
  PROVE  ActsOnWhatIs(p)'
<1>1. ClosesWhatIsDone(p)'
  BY DEF ClosesWhatIsDone, Running
<1>2. ClaimsWhatIsReady(p)' /\ MovesWhatIsActive(p)' /\ PromotesWhatIsDue(p)'
  BY DEF ClaimsWhatIsReady, MovesWhatIsActive, PromotesWhatIsDue, TransitionNames, Running
<1>3. QED
  BY <1>1, <1>2 DEF ActsOnWhatIs

LEMMA IntegrationActs ==
  ASSUME TypeOK, LabelsInOrder, NEW p \in Operators, ActsOnWhatIs(p), IntegrationStep(p)
  PROVE  ActsOnWhatIs(p)'
<1>0. /\ CommandTypeOK /\ "state:done" \in StateLabels
  BY DEF TypeOK, StateLabels
<1>1. ASSUME NEW i \in Issues, PlanIntegration(p, i) \/ PlanNoopIntegration(p, i)
      PROVE  ActsOnWhatIs(p)'
  <2>1. PICK name \in {"integrate", "integrate noop"} \cap Used :
          Start(p, name, "edit", {i})
    <3>1. CASE PlanIntegration(p, i)
      BY <3>1, Zenon DEF PlanIntegration, MayStart
    <3>2. CASE PlanNoopIntegration(p, i)
      BY <3>2, Zenon DEF PlanNoopIntegration, MayStart
    <3>3. QED
      BY <1>1, <3>1, <3>2
  <2>2. /\ "state:done" \in Observed(i) /\ MaySeeOpen(i)
        /\ UNCHANGED <<labels, issueState>>
    BY <1>1 DEF PlanIntegration, MayIntegrate, PlanNoopIntegration, MayIntegrateNoop,
                MaySeeOpen, tracker
  <2>3. "state:done" \in labels'[i] /\ MaySeeOpen(i)'
    BY <1>0, <2>2, SeenIsThere DEF MaySeeOpen
  <2>4. /\ command'[p].name = name /\ command'[p].step = "edit"
        /\ command'[p].todo = {i}
    BY <2>1 DEF Start, TypeOK, CommandTypeOK
  <2>5. QED
    BY <2>3, <2>4, IntegrationActing
<1>2. CASE IntegrationEdit(p)
  <2>1. PICK i \in Issues :
          /\ command[p].todo = {i}
          /\ Finish(p) \/ (Relabelled(i, "state:merged") /\ GoTo(p, "close"))
    BY <1>2, IntegrationEditMoves
  <2>2. CASE Finish(p)
    BY <1>0, <2>2, Bookkeeping, EndedActsOnNothing
  <2>3. CASE Relabelled(i, "state:merged") /\ GoTo(p, "close")
    <3>1. /\ command'[p].name = command[p].name /\ command'[p].step = "close"
          /\ command'[p].todo = {i}
      BY <1>0, <2>1, <2>3, Bookkeeping
    <3>2. command[p].name \in {"integrate", "integrate noop"} \cap Used
      BY <1>2 DEF IntegrationEdit, Running, ActsOnWhatIs
    <3>3. "state:merged" \in labels'[i]
      BY <2>3 DEF Relabelled, LabelsOf, TypeOK, TrackerTypeOK
    <3>4. QED
      BY <3>1, <3>2, <3>3, IntegrationActing
  <2>4. QED
    BY <2>1, <2>2, <2>3
<1>3. CASE IntegrationClose(p)
  BY <1>0, <1>3, Bookkeeping, EndedActsOnNothing DEF IntegrationClose
<1>4. QED
  BY <1>1, <1>2, <1>3 DEF IntegrationStep

LEMMA AdvanceActing ==
  ASSUME NEW p \in Operators, "advance" \in Used, command'[p].name = "advance",
         command'[p].step = "read" =>
           \A i \in Issues \ command'[p].todo : command'[p].seen[i] \in TaskStates(i)',
         command'[p].step = "edit" => \A i \in command'[p].todo : MayBePromoted(i)'
  PROVE  ActsOnWhatIs(p)'
<1>1. PromotesWhatIsDue(p)'
  BY DEF PromotesWhatIsDue, Running
<1>2. ClaimsWhatIsReady(p)' /\ MovesWhatIsActive(p)' /\ ClosesWhatIsDone(p)'
  BY DEF ClaimsWhatIsReady, MovesWhatIsActive, ClosesWhatIsDone, TransitionNames, Running
<1>3. QED
  BY <1>1, <1>2 DEF ActsOnWhatIs

\* Nothing is read of a task but what is so, and nothing changes while the tasks are read.
LEMMA ReadingActs ==
  ASSUME TypeOK, NEW p \in Operators, ActsOnWhatIs(p),
         \/ \E source \in Issues : StartAdvance(p, source)
         \/ ReadTask(p)
  PROVE  ActsOnWhatIs(p)'
<1>0. CommandTypeOK /\ command \in [Operators -> Command] /\ command[p] \in Command
  BY DEF TypeOK, CommandTypeOK
<1>1. CASE \E source \in Issues : StartAdvance(p, source)
  <2>1. PICK source \in Issues : StartReading(p, "advance", Issues, {source})
    BY <1>1 DEF StartAdvance
  <2>2. "advance" \in Used
    BY <2>1 DEF StartReading, MayStart
  <2>3. command'[p] = [name |-> "advance", step |-> "read", todo |-> Issues,
                       picked |-> {source}, gates |-> {}, seen |-> NothingSeen]
    BY <1>0, <2>1 DEF StartReading
  <2>4. QED
    BY <2>2, <2>3, AdvanceActing
<1>2. CASE ReadTask(p)
  <2>1. PICK i \in command[p].todo : \E state \in TaskStates(i) :
          command' = [command EXCEPT ![p].todo = @ \ {i}, ![p].seen[i] = state]
    BY <1>2 DEF ReadTask
  <2>2. PICK state \in TaskStates(i) :
          command' = [command EXCEPT ![p] =
            [command[p] EXCEPT !.todo = @ \ {i}, !.seen = [@ EXCEPT ![i] = state]]]
    BY <1>0, <2>1 DEF Command
  <2>3. /\ command'[p].name = command[p].name /\ command'[p].step = command[p].step
        /\ command'[p].todo = command[p].todo \ {i}
        /\ command'[p].seen = [command[p].seen EXCEPT ![i] = state]
    BY <1>0, <2>2 DEF Command
  <2>4. /\ command[p].name \in {"advance", "clear", "recover"} /\ command[p].step = "read"
        /\ UNCHANGED <<labels, issueState>>
    BY <1>2 DEF ReadTask, Running, tracker
  <2>5. command[p].name \in Used \ {"recover"}
    BY <2>4 DEF ActsOnWhatIs
  <2>6. CASE command[p].name = "clear"
    BY <2>3, <2>5, <2>6, NothingToActOn DEF ActingNames, TransitionNames
  <2>7. CASE command[p].name = "advance"
    <3>1. \A j \in Issues : TaskStates(j)' = TaskStates(j)
      BY <2>4 DEF TaskStates
    <3>2. \A j \in Issues \ command[p].todo : command[p].seen[j] \in TaskStates(j)
      BY <2>4, <2>7 DEF ActsOnWhatIs, PromotesWhatIsDue, Running
    <3>3. command[p].seen \in [Issues -> Sightings]
      BY <1>0 DEF Command
    <3>4. \A j \in Issues \ command'[p].todo : command'[p].seen[j] \in TaskStates(j)'
      BY <2>2, <2>3, <3>1, <3>2, <3>3
    <3>5. QED
      BY <2>3, <2>4, <2>5, <2>7, <3>4, AdvanceActing
  <2>8. QED
    BY <2>4, <2>5, <2>6, <2>7
<1>3. QED
  BY <1>1, <1>2

LEMMA AdvanceActs ==
  ASSUME TypeOK, LabelsInOrder, NEW p \in Operators, ActsOnWhatIs(p),
         PlanAdvance(p) \/ AdvanceEdit(p)
  PROVE  ActsOnWhatIs(p)'
<1>0. /\ CommandTypeOK /\ command \in [Operators -> Command] /\ command[p] \in Command
      /\ command[p].todo \subseteq Issues /\ TrackerTypeOK
  BY DEF TypeOK, CommandTypeOK, Command
<1>1. CASE PlanAdvance(p)
  <2> DEFINE seen == command[p].seen
  <2>1. PICK source \in command[p].picked :
          Finish(p) \/ Start(p, "advance", "edit", AdvanceTargets(seen, source))
    BY <1>1 DEF PlanAdvance
  <2>2. /\ command[p].name = "advance" /\ command[p].step = "read"
        /\ command[p].todo = {} /\ UNCHANGED <<labels, issueState>>
    BY <1>1 DEF PlanAdvance, HasRead, Running, tracker
  <2>3. \A i \in Issues : seen[i] \in TaskStates(i)
    BY <2>2 DEF ActsOnWhatIs, PromotesWhatIsDue, Running
  <2>4. ASSUME NEW i \in AdvanceTargets(seen, source) PROVE MayBePromoted(i)
    <3>1. /\ i \in Issues /\ source \in Needs[i] /\ seen[i] \in {"open", "unknown"}
          /\ \A d \in Needs[i] : Completed(seen, d)
      BY DEF AdvanceTargets
    <3>2. NotLabelled(i) /\ issueState[i] = "open"
      BY <2>3, <3>1 DEF TaskStates, NotLabelled, StateLabels
    <3>3. ASSUME NEW d \in Needs[i] PROVE OutOfTheWay(d)
      <4>1. d \in Issues /\ seen[d] \in {"closed", "state:done", "state:merged"}
        BY <3>1, <3>3, NeedsAssumption DEF Completed, CompletedPlannerStates
      <4>2. QED
        BY <2>3, <4>1 DEF TaskStates, OutOfTheWay, Finished, NotLabelled, StateLabels
    <3>4. QED
      BY <3>1, <3>2, <3>3 DEF MayBePromoted
  <2>5. \A i \in AdvanceTargets(seen, source) : MayBePromoted(i)'
    BY <2>2, <2>4 DEF MayBePromoted, OutOfTheWay, NotLabelled, Finished
  <2>6. CASE Finish(p)
    BY <1>0, <2>6, Bookkeeping, EndedActsOnNothing
  <2>7. CASE Start(p, "advance", "edit", AdvanceTargets(seen, source))
    <3>1. "advance" \in Used
      BY <2>2 DEF ActsOnWhatIs
    <3>2. /\ command'[p].name = "advance" /\ command'[p].step = "edit"
          /\ command'[p].todo = AdvanceTargets(seen, source)
      BY <1>0, <2>7, Bookkeeping
    <3>3. QED
      BY <2>5, <3>1, <3>2, AdvanceActing
  <2>8. QED
    BY <2>1, <2>6, <2>7
<1>2. CASE AdvanceEdit(p)
  <2>1. PICK i \in command[p].todo :
          /\ MayBePromoted(i)
          /\ UNCHANGED labels \/ Relabelled(i, "state:ready")
          /\ UNCHANGED issueState
          /\ Finish(p) \/ Advance(p, i, "edit")
    BY <1>2, AdvanceEditMoves
  <2>2. command[p].name = "advance" /\ command[p].step = "edit" /\ "advance" \in Used
    BY <1>2 DEF AdvanceEdit, Running, ActsOnWhatIs
  <2>3. \A j \in Issues \ {i} : labels'[j] = labels[j]
    BY <1>0, <2>1 DEF Relabelled, TrackerTypeOK
  <2>4. ASSUME NEW j \in command[p].todo \ {i} PROVE MayBePromoted(j)'
    <3>1. MayBePromoted(j) /\ j \in Issues
      BY <1>0, <2>2 DEF ActsOnWhatIs, PromotesWhatIsDue, Running
    <3>2. NotLabelled(j)' /\ issueState'[j] = "open"
      BY <2>1, <2>3, <2>4, <3>1 DEF MayBePromoted, NotLabelled
    <3>3. ASSUME NEW d \in Needs[j] PROVE OutOfTheWay(d)'
      <4>1. d \in Issues /\ OutOfTheWay(d)
        BY <3>1, <3>3, NeedsAssumption DEF MayBePromoted
      <4>2. ~OutOfTheWay(i)
        BY <2>1 DEF MayBePromoted, OutOfTheWay, NotLabelled, Finished, StateLabels
      <4>3. d # i
        BY <4>1, <4>2
      <4>4. labels'[d] = labels[d] /\ issueState'[d] = issueState[d]
        BY <2>1, <2>3, <4>1, <4>3
      <4>5. QED
        BY <4>1, <4>4 DEF OutOfTheWay, NotLabelled, Finished
    <3>4. QED
      BY <3>1, <3>2, <3>3 DEF MayBePromoted
  <2>5. \/ command'[p] = NoCommand
        \/ /\ command'[p].name = "advance" /\ command'[p].step = "edit"
           /\ command'[p].todo = command[p].todo \ {i}
    BY <1>0, <2>1, <2>2, Bookkeeping
  <2>6. CASE command'[p] = NoCommand
    BY <1>0, <2>6, EndedActsOnNothing
  <2>7. CASE command'[p] # NoCommand
    BY <2>2, <2>4, <2>5, <2>7, AdvanceActing
  <2>8. QED
    BY <2>6, <2>7
<1>3. QED
  BY <1>1, <1>2

\* A clear depends on no label, and nothing is recovered.
LEMMA OtherStepsAct ==
  ASSUME NoRecovery, TypeOK, NEW p \in Operators, ActsOnWhatIs(p),
         \/ StartClear(p) \/ PlanClear(p) \/ ClearClose(p) \/ ClearArchive(p)
         \/ ClearRewrite(p) \/ StartRecover(p) \/ PlanRecover(p) \/ RecoverReopen(p)
         \/ RecoverEdit(p) \/ RecoverClose(p) \/ Stop(p)
  PROVE  /\ ActsOnWhatIs(p)'
         /\ StartClear(p) \/ PlanClear(p) \/ ClearClose(p) \/ ClearArchive(p)
              \/ ClearRewrite(p) \/ Stop(p)
<1>0. /\ CommandTypeOK /\ command \in [Operators -> Command] /\ command[p] \in Command
      /\ command[p].name # "recover"
  BY DEF TypeOK, CommandTypeOK, ActsOnWhatIs
<1>1. StartClear(p) \/ PlanClear(p) \/ ClearClose(p) \/ ClearArchive(p)
        \/ ClearRewrite(p) \/ Stop(p)
  BY <1>0 DEF StartRecover, StartReading, MayStart, PlanRecover, HasRead, RecoverReopen,
              RecoverEdit, RecoverClose, Running, NoRecovery
<1>2. SUFFICES command'[p] = NoCommand \/ (command'[p].name = "clear" /\ "clear" \in Used)
  <2>1. CASE command'[p] = NoCommand
    BY <1>0, <1>1, <2>1, EndedActsOnNothing
  <2>2. CASE command'[p].name = "clear" /\ "clear" \in Used
    BY <1>1, <2>2, NothingToActOn DEF ActingNames, TransitionNames
  <2>3. QED
    BY <1>2, <2>1, <2>2
<1>3. CASE StartClear(p)
  <2>1. PICK todo \in {{}, Issues} :
          StartReading(p, "clear", todo, {i \in Issues : Shipped(i)})
    BY <1>3 DEF StartClear
  <2>2. QED
    BY <1>0, <2>1, ReadingBookkeeping DEF StartReading, MayStart
<1>4. CASE Stop(p) \/ ClearRewrite(p)
  BY <1>0, <1>4, Bookkeeping DEF Stop, ClearRewrite
<1>5. CASE PlanClear(p) \/ ClearClose(p) \/ ClearArchive(p)
  <2>1. command[p].name = "clear" /\ "clear" \in Used
    <3>1. command[p].name = "clear"
      BY <1>5 DEF PlanClear, HasRead, ClearClose, ClearArchive, Running
    <3>2. QED
      BY <3>1 DEF ActsOnWhatIs
  <2>2. CASE PlanClear(p)
    <3>1. Finish(p) \/ \E step, todo : Start(p, "clear", step, todo)
      BY <2>2 DEF PlanClear
    <3>2. QED
      BY <1>0, <2>1, <3>1, Bookkeeping
  <2>3. CASE ClearClose(p)
    <3>1. PICK i \in command[p].todo, step \in {"archive", "close"} :
            \/ Finish(p)
            \/ command' = [command EXCEPT ![p] =
                 [command[p] EXCEPT !.todo = @ \ {i}, !.step = step]]
      BY <2>3 DEF ClearClose
    <3>2. CASE Finish(p)
      BY <1>0, <3>2, Bookkeeping
    <3>3. CASE command' = [command EXCEPT ![p] =
                 [command[p] EXCEPT !.todo = @ \ {i}, !.step = step]]
      <4>1. command'[p].name = command[p].name
        BY <1>0, <3>3 DEF Command
      <4>2. QED
        BY <2>1, <4>1
    <3>4. QED
      BY <3>1, <3>2, <3>3
  <2>4. CASE ClearArchive(p)
    BY <1>0, <2>1, <2>4, Bookkeeping DEF ClearArchive
  <2>5. QED
    BY <1>5, <2>2, <2>3, <2>4
<1>6. QED
  BY <1>1, <1>3, <1>4, <1>5

LEMMA CommandActs ==
  ASSUME NoRecovery, TypeOK, LabelsInOrder, NEW p \in Operators, ActsOnWhatIs(p),
         CommandStep(p)
  PROVE  ActsOnWhatIs(p)'
<1>1. CASE ClaimStep(p) \/ TransitionStep(p) \/ IntegrationStep(p)
  BY <1>1, ClaimActs, TransitionActs, IntegrationActs
<1>2. CASE \/ (\E source \in Issues : StartAdvance(p, source)) \/ ReadTask(p)
           \/ PlanAdvance(p) \/ AdvanceEdit(p)
  BY <1>2, ReadingActs, AdvanceActs
<1>3. CASE \/ StartClear(p) \/ PlanClear(p) \/ ClearClose(p) \/ ClearArchive(p)
           \/ ClearRewrite(p) \/ StartRecover(p) \/ PlanRecover(p) \/ RecoverReopen(p)
           \/ RecoverEdit(p) \/ RecoverClose(p) \/ Stop(p)
  BY <1>3, OtherStepsAct
<1>4. QED
  BY <1>1, <1>2, <1>3 DEF CommandStep, RoadmapStep

-----------------------------------------------------------------------------
(* What a step of the operator does to the issues.                         *)

Promotes(i) == labels[i] = {} /\ MayBePromoted(i) /\ Relabelled(i, "state:ready")

Claims(p, i) ==
  /\ ClaimEdit(p) /\ i \in command[p].todo
  /\ labels[i] = {"state:ready"} /\ Relabelled(i, "state:active")

Moves(i, name) ==
  /\ labels[i] = LabelsOf(i, "state:active") /\ Relabelled(i, NewState(name))
  /\ name = "complete" => (ProposedGate(i) # {} => summary[i])

Merges(p, i) ==
  /\ IntegrationEdit(p) /\ i \in command[p].todo
  /\ labels[i] = {"state:done"} /\ MaySeeOpen(i) /\ Relabelled(i, "state:merged")

\* Each edit that gets through is one move of the lifecycle.
LEMMA LabelSteps ==
  ASSUME NoRecovery, TypeOK, LabelsInOrder, NEW p \in Operators, ActsOnWhatIs(p),
         CommandStep(p)
  PROVE  \/ UNCHANGED labels
         \/ /\ UNCHANGED <<issueState, evidence>>
            /\ \E i \in Issues :
                 \/ Promotes(i) \/ Claims(p, i) \/ Merges(p, i)
                 \/ \E name \in TransitionNames : Moves(i, name)
<1>1. CASE ClaimEdit(p)
  BY <1>1, ClaimEditMoves DEF Claims
<1>2. CASE TransitionEdit(p)
  BY <1>2, TransitionEditMoves DEF Moves
<1>3. CASE IntegrationEdit(p)
  <2>1. PICK i \in Issues :
          /\ command[p].todo = {i} /\ labels[i] = {"state:done"} /\ MaySeeOpen(i)
          /\ UNCHANGED labels \/ Relabelled(i, "state:merged")
          /\ UNCHANGED <<issueState, evidence>>
    BY <1>3, IntegrationEditMoves
  <2>2. i \in command[p].todo
    BY <2>1
  <2>3. QED
    BY <1>3, <2>1, <2>2 DEF Merges
<1>4. CASE AdvanceEdit(p)
  BY <1>4, AdvanceEditMoves DEF Promotes
<1>5. CASE RecoverEdit(p)
  BY <1>5 DEF RecoverEdit, Running, ActsOnWhatIs
<1>6. UNCHANGED labels \/ ClaimEdit(p) \/ TransitionEdit(p) \/ IntegrationEdit(p)
        \/ AdvanceEdit(p) \/ RecoverEdit(p)
  BY DEF CommandStep, ClaimStep, ClaimList, ClaimCheck, ClaimSelect, RunIssue,
         TransitionStep, PlanTransition, EvaluateGateForComplete,
         IntegrationStep, PlanIntegration, MayIntegrate, PlanNoopIntegration,
         MayIntegrateNoop, IntegrationClose,
         Stop, RoadmapStep, StartAdvance, StartClear, StartRecover, StartReading,
         ReadTask, PlanAdvance, PlanClear, ClearClose, ClearArchive,
         ClearRewrite, PlanRecover, RecoverReopen, RecoverClose,
         Close, Reopen, tracker
<1>7. QED
  BY <1>1, <1>2, <1>3, <1>4, <1>5, <1>6

\* An issue is closed once, as completed only when it is merged.
ClosesAs(i, reason) ==
  /\ issueState[i] = "open" /\ issueState' = [issueState EXCEPT ![i] = reason]
  /\ reason = "completed" => "state:merged" \in labels[i]

LEMMA ClosingSteps ==
  ASSUME NoRecovery, TypeOK, NEW p \in Operators, ActsOnWhatIs(p), CommandStep(p)
  PROVE  \/ UNCHANGED issueState
         \/ /\ UNCHANGED labels
            /\ \E i \in Issues, reason \in {"completed", "not planned"} : ClosesAs(i, reason)
<1>0. command[p].name # "recover"
  BY DEF ActsOnWhatIs
<1>1. CASE IntegrationClose(p)
  <2>1. PICK i \in Issues, outcome \in Outcomes("close") :
          command[p].todo = {i} /\ Close(i, outcome, "completed")
    BY <1>1 DEF IntegrationClose
  <2>2. "state:merged" \in labels[i]
    BY <1>1, <2>1 DEF IntegrationClose, ActsOnWhatIs, ClosesWhatIsDone
  <2>3. QED
    BY <2>1, <2>2 DEF Close, ClosesAs
<1>2. CASE ClearClose(p)
  <2>1. command[p].todo \subseteq Issues
    BY DEF TypeOK, CommandTypeOK, Command
  <2>2. PICK i \in Issues, outcome \in Outcomes("close") : Close(i, outcome, "not planned")
    BY <1>2, <2>1 DEF ClearClose
  <2>3. QED
    BY <2>2 DEF Close, ClosesAs
<1>3. CASE RecoverClose(p) \/ RecoverReopen(p)
  BY <1>0, <1>3 DEF RecoverClose, RecoverReopen, Running
<1>4. UNCHANGED issueState \/ IntegrationClose(p) \/ ClearClose(p) \/ RecoverClose(p)
        \/ RecoverReopen(p)
  BY DEF CommandStep, ClaimStep, ClaimList, ClaimCheck, ClaimSelect, RunIssue, ClaimEdit,
         TransitionStep, PlanTransition, EvaluateGateForComplete, TransitionEdit,
         IntegrationStep, PlanIntegration, MayIntegrate, PlanNoopIntegration,
         MayIntegrateNoop, IntegrationEdit,
         Stop, RoadmapStep, StartAdvance, StartClear, StartRecover, StartReading,
         ReadTask, PlanAdvance, AdvanceEdit, PlanClear, ClearArchive,
         ClearRewrite, PlanRecover, RecoverEdit, Edit, tracker
<1>5. QED
  BY <1>1, <1>2, <1>3, <1>4

LEMMA LabelsStayInOrder ==
  ASSUME NoRecovery, TypeOK, LabelsInOrder, NEW p \in Operators, ActsOnWhatIs(p),
         CommandStep(p)
  PROVE  LabelsInOrder'
<1>1. summary' = summary
  BY OthersKept DEF evidence
<1>2. CASE UNCHANGED labels
  BY <1>1, <1>2 DEF LabelsInOrder, OneState, GateWhileActive, Gates, DoneMeansEvidence
<1>3. ASSUME NEW i \in Issues, NEW s \in StateLabels, Relabelled(i, s),
             s = "state:done" /\ ProposedGate(i) # {} => summary[i]
      PROVE  LabelsInOrder'
  BY <1>1, <1>3, RelabellingKeepsOrder
<1>4. CASE \E i \in Issues : Promotes(i) \/ Claims(p, i) \/ Merges(p, i)
  <2>1. PICK i \in Issues, s \in StateLabels \ {"state:done"} : Relabelled(i, s)
    BY <1>4 DEF Promotes, Claims, Merges, StateLabels
  <2>2. QED
    BY <1>3, <2>1
<1>5. CASE \E i \in Issues, name \in TransitionNames : Moves(i, name)
  <2>1. PICK i \in Issues, name \in TransitionNames : Moves(i, name)
    BY <1>5
  <2>2. NewState(name) \in StateLabels /\ (NewState(name) = "state:done" => name = "complete")
    BY NewStates
  <2>3. QED
    BY <1>3, <2>1, <2>2 DEF Moves
<1>6. QED
  BY <1>2, <1>4, <1>5, LabelSteps

-----------------------------------------------------------------------------
(* The invariant.                                                          *)

LEMMA AloneInvStarts == Init => AloneInv
<1> SUFFICES ASSUME Init PROVE AloneInv
  OBVIOUS
<1>1. ASSUME NEW i \in Issues PROVE labels[i] \in {{}, {"state:ready"}}
  BY DEF Init
<1>2. OneState /\ GateWhileActive /\ DoneMeansEvidence
  BY <1>1 DEF OneState, GateWhileActive, Gates, GateLabels, DoneMeansEvidence
<1>3. ASSUME NEW p \in Operators PROVE ActsOnWhatIs(p)
  <2>1. command[p].name = "none"
    BY DEF Init, NoCommand
  <2>2. QED
    BY <2>1 DEF ActsOnWhatIs, ClaimsWhatIsReady, MovesWhatIsActive, ClosesWhatIsDone,
                PromotesWhatIsDue, TransitionNames, Running
<1>4. QED
  BY <1>2, <1>3 DEF AloneInv

\* Evidence that appears takes nothing back.
LEMMA EvidenceKeepsAlone ==
  ASSUME TypeOK, AloneInv, EvidenceStep \/ UNCHANGED vars,
         \A i \in Issues : summary[i] => summary'[i]
  PROVE  AloneInv'
<1>1. UNCHANGED <<labels, issueState, command>>
  BY DEF EvidenceStep, PullRequestAdvances, SummaryPasses, NoopGatePasses, tracker, vars
<1>2. OneState' /\ GateWhileActive' /\ DoneMeansEvidence'
  BY <1>1 DEF AloneInv, OneState, GateWhileActive, Gates, DoneMeansEvidence
<1>3. ASSUME NEW p \in Operators PROVE ActsOnWhatIs(p)'
  <2>1. ActsOnWhatIs(p)
    BY DEF AloneInv
  <2>2. ClaimsWhatIsReady(p)' /\ ClosesWhatIsDone(p)' /\ PromotesWhatIsDue(p)'
    BY <1>1, <2>1 DEF ActsOnWhatIs, ClaimsWhatIsReady, ClosesWhatIsDone, PromotesWhatIsDue,
                      MaySeeOpen, TaskStates, MayBePromoted, OutOfTheWay, NotLabelled,
                      Finished, Running
  <2>3. MovesWhatIsActive(p)'
    <3>1. command[p].todo \subseteq Issues
      BY DEF TypeOK, CommandTypeOK, Command
    <3>2. QED
      BY <1>1, <2>1, <3>1 DEF ActsOnWhatIs, MovesWhatIsActive, GatePasses, Gates, Running
  <2>4. QED
    BY <1>1, <2>1, <2>2, <2>3 DEF ActsOnWhatIs
<1>4. QED
  BY <1>2, <1>3 DEF AloneInv

LEMMA AloneInvKept ==
  ASSUME Alone, NoRecovery, TypeOK, AloneInv, [Next]_vars
  PROVE  AloneInv'
<1>1. LabelsInOrder /\ \A p \in Operators : ActsOnWhatIs(p)
  BY DEF AloneInv, LabelsInOrder
<1>2. ASSUME NEW p \in Operators, CommandStep(p) PROVE AloneInv'
  <2>1. \A q \in Operators : q = p
    BY DEF Alone
  <2>2. QED
    BY <1>1, <1>2, <2>1, CommandActs, LabelsStayInOrder DEF AloneInv, LabelsInOrder
<1>3. CASE EvidenceStep \/ UNCHANGED vars
  <2>1. \A i \in Issues : summary[i] => summary'[i]
    BY <1>3 DEF EvidenceStep, PullRequestAdvances, SummaryPasses, NoopGatePasses, vars,
                TypeOK, EvidenceTypeOK
  <2>2. QED
    BY <1>3, <2>1, EvidenceKeepsAlone
<1>4. QED
  BY <1>2, <1>3 DEF Next

LEMMA AloneInvHolds ==
  ASSUME Alone, NoRecovery
  PROVE  Spec => []AloneInv
<1>1. TypeOK /\ AloneInv /\ [Next]_vars => AloneInv'
  BY AloneInvKept
<1>2. QED
  BY <1>1, AloneInvStarts, TypeCorrect, PTL DEF Spec

\* One operator alone never leaves an issue with two states, wherever his commands are
\* interrupted and whichever of their calls fail: each edit takes off all that the issue
\* has.
THEOREM OneStateAtATime ==
  ASSUME Alone, NoRecovery
  PROVE  Spec => []OneState
<1>1. AloneInv => OneState
  BY DEF AloneInv
<1>2. QED
  BY <1>1, AloneInvHolds, PTL

\* One operator alone finds on every issue that is being worked on the gate its claim has
\* proposed, and a gate on no other issue.
THEOREM GatesAreOnActiveIssues ==
  ASSUME Alone, NoRecovery
  PROVE  Spec => []GateWhileActive
<1>1. AloneInv => GateWhileActive
  BY DEF AloneInv
<1>2. QED
  BY <1>1, AloneInvHolds, PTL

\* With one operator alone no issue that was claimed with a gate comes to state:done but
\* on a summary that its gate accepts: what complete has evaluated it finds when it edits.
THEOREM GatedWorkIsDoneOnEvidence ==
  ASSUME Alone, NoRecovery
  PROVE  Spec => []DoneMeansEvidence
<1>1. AloneInv => DoneMeansEvidence
  BY DEF AloneInv
<1>2. QED
  BY <1>1, AloneInvHolds, PTL

LEMMA CompletedIsLeftAlone ==
  ASSUME NoRecovery, TypeOK, LabelsInOrder, CompletedMeansMerged,
         NEW p \in Operators, ActsOnWhatIs(p), CommandStep(p),
         NEW i \in Issues, issueState[i] = "completed"
  PROVE  issueState'[i] = "completed" /\ labels'[i] = labels[i]
<1>1. "state:merged" \in labels[i]
  BY DEF CompletedMeansMerged
<1>2. issueState'[i] = "completed"
  BY ClosingSteps DEF ClosesAs, TypeOK, TrackerTypeOK
<1>3. ASSUME NEW j \in Issues, NEW s, "state:merged" \notin labels[j], Relabelled(j, s)
      PROVE  labels'[i] = labels[i]
  BY <1>1, <1>3 DEF Relabelled, TypeOK, TrackerTypeOK
<1>4. CASE \E j \in Issues : Promotes(j) \/ Claims(p, j) \/ Merges(p, j)
  <2>1. PICK j \in Issues : "state:merged" \notin labels[j] /\ \E s : Relabelled(j, s)
    BY <1>4 DEF Promotes, Claims, Merges
  <2>2. QED
    BY <1>2, <1>3, <2>1
<1>5. CASE \E j \in Issues, name \in TransitionNames : Moves(j, name)
  <2>1. PICK j \in Issues, name \in TransitionNames : Moves(j, name)
    BY <1>5
  <2>2. "state:merged" \notin LabelsOf(j, "state:active")
    BY DEF LabelsOf, ProposedGate
  <2>3. QED
    BY <1>2, <1>3, <2>1, <2>2 DEF Moves
<1>6. QED
  BY <1>2, <1>4, <1>5, LabelSteps

\* One operator alone is done with an issue that he has closed as completed, unless he
\* recovers a clear: it is neither reopened nor relabelled.
THEOREM CompletedIssuesAreLeftAlone ==
  ASSUME Alone, NoRecovery
  PROVE  Spec => CompletedIsFinal
<1> DEFINE Left == \A i \in Issues : issueState[i] = "completed" =>
                     issueState'[i] = "completed" /\ labels'[i] = labels[i]
<1>1. TypeOK /\ AloneInv /\ CompletedMeansMerged /\ [Next]_vars => [Left]_vars
  <2> SUFFICES ASSUME TypeOK, AloneInv, CompletedMeansMerged, [Next]_vars PROVE Left
    OBVIOUS
  <2>1. ASSUME NEW p \in Operators, CommandStep(p) PROVE Left
    BY <2>1, CompletedIsLeftAlone DEF AloneInv, LabelsInOrder
  <2>2. CASE EvidenceStep \/ UNCHANGED vars
    BY <2>2 DEF EvidenceStep, PullRequestAdvances, SummaryPasses, NoopGatePasses, tracker, vars
  <2>3. QED
    BY <2>1, <2>2 DEF Next
<1>2. QED
  BY <1>1, AloneInvHolds, TypeCorrect, OnlyMergedWorkIsCompleted, PTL
     DEF Spec, CompletedIsFinal

-----------------------------------------------------------------------------
(* The refinement.                                                         *)

LEMMA OneStateTellsPhase ==
  ASSUME NEW carried, NEW s, carried \cap StateLabels = {s}
  PROVE  PhaseFrom(carried) = PhaseOf(s)
<1>1. (CHOOSE t \in {s} : TRUE) = s
  <2>1. \E t \in {s} : TRUE
    OBVIOUS
  <2>2. (CHOOSE t \in {s} : TRUE) \in {s}
    BY <2>1, Zenon
  <2>3. QED
    BY <2>2
<1>2. carried \cap StateLabels # {}
  OBVIOUS
<1>3. QED
  BY <1>1, <1>2 DEF PhaseFrom

LEMMA PhaseTold ==
  ASSUME TypeOK, LabelsInOrder, NEW i \in Issues
  PROVE  /\ \A s \in StateLabels : s \in labels[i] => Phase[i] = PhaseOf(s)
         /\ NotLabelled(i) => Phase[i] = "new"
<1>1. ASSUME NEW s \in StateLabels, s \in labels[i] PROVE Phase[i] = PhaseOf(s)
  <2>1. labels[i] \cap StateLabels = {s}
    BY <1>1, StateTellsLabels
  <2>2. QED
    BY <2>1, OneStateTellsPhase DEF Phase
<1>2. ASSUME NotLabelled(i) PROVE Phase[i] = "new"
  BY <1>2 DEF NotLabelled, Phase, PhaseFrom
<1>3. QED
  BY <1>1, <1>2

LEMMA PhaseMoves ==
  ASSUME TypeOK, NEW i \in Issues, NEW s \in StateLabels, Relabelled(i, s)
  PROVE  Phase' = [Phase EXCEPT ![i] = PhaseOf(s)]
<1>1. /\ labels'[i] \cap StateLabels = {s}
      /\ \A j \in Issues \ {i} : labels'[j] = labels[j]
  <2>1. labels'[i] = LabelsOf(i, s) /\ \A j \in Issues \ {i} : labels'[j] = labels[j]
    BY DEF Relabelled, TypeOK, TrackerTypeOK
  <2>2. QED
    BY <2>1, GatesAreNoStates DEF LabelsOf
<1>2. Phase'[i] = PhaseOf(s)
  BY <1>1, OneStateTellsPhase DEF Phase
<1>3. \A j \in Issues \ {i} : Phase'[j] = Phase[j]
  BY <1>1 DEF Phase
<1>4. QED
  BY <1>2, <1>3 DEF Phase

LEMMA Phases ==
  /\ PhaseOf("state:ready") = "ready" /\ PhaseOf("state:active") = "active"
  /\ PhaseOf("state:done") = "done" /\ PhaseOf("state:merged") = "merged"
  /\ PhaseOf("state:failed") = "failed"
  /\ {"state:ready", "state:active", "state:done", "state:merged", "state:failed"}
       \subseteq StateLabels
BY DEF PhaseOf, StateLabels

LEMMA FinishedTold ==
  ASSUME TypeOK, LabelsInOrder, NEW i \in Issues
  PROVE  /\ Finished(i) => Lifecycle!Finished(i)
         /\ OutOfTheWay(i) => Lifecycle!OutOfTheWay(i)
<1>1. Finished(i) => Lifecycle!Finished(i)
  BY PhaseTold, Phases DEF Finished, Lifecycle!Finished
<1>2. QED
  BY <1>1, PhaseTold DEF OutOfTheWay, Lifecycle!OutOfTheWay

\* An edit that gets through is a move of the lifecycle.
LEMMA MoveTold ==
  ASSUME TypeOK, LabelsInOrder, UNCHANGED <<issueState, evidence>>,
         NEW i \in Issues, NEW from, NEW s \in StateLabels, Relabelled(i, s), Phase[i] = from
  PROVE  Lifecycle!Move(i, from, PhaseOf(s))
<1>1. Phase' = [Phase EXCEPT ![i] = PhaseOf(s)]
  BY PhaseMoves
<1>2. UNCHANGED <<issueState, pr, summary, noopGate>>
  BY DEF evidence
<1>3. QED
  BY <1>1, <1>2 DEF Lifecycle!Move

LifecycleInv == TypeOK /\ AloneInv /\ OrderInv /\ ShippingInv

LEMMA EditsImplement ==
  ASSUME PlannerClaimsOnly, BodiesReadable, LifecycleInv,
         NEW p \in Operators, UNCHANGED <<issueState, evidence>>, NEW i \in Issues,
         \/ Promotes(i) \/ Claims(p, i) \/ Merges(p, i)
         \/ \E name \in TransitionNames : Moves(i, name)
  PROVE  Lifecycle!Next
<1>0. /\ TypeOK /\ LabelsInOrder /\ ActsOnWhatIs(p) /\ WorksInOrder(p) /\ ShipsWhatIsDue(p)
      /\ command[p].todo \subseteq Issues
  BY DEF LifecycleInv, AloneInv, LabelsInOrder, OrderInv, ShippingInv, TypeOK, CommandTypeOK,
         Command
<1>1. CASE Promotes(i)
  <2>1. Needs[i] # {} /\ \A d \in Needs[i] : d \in Issues /\ OutOfTheWay(d)
    BY <1>1, NeedsAssumption DEF Promotes, MayBePromoted
  <2>2. \A d \in Needs[i] : Lifecycle!OutOfTheWay(d)
    BY <1>0, <2>1, FinishedTold
  <2>3. Phase[i] = "new"
    BY <1>0, <1>1, PhaseTold DEF Promotes, NotLabelled
  <2>4. Lifecycle!Move(i, "new", "ready")
    BY <1>0, <1>1, <2>3, MoveTold, Phases DEF Promotes
  <2>5. Lifecycle!Promote(i)
    BY <2>1, <2>2, <2>4 DEF Lifecycle!Promote
  <2>6. QED
    BY <2>5 DEF Lifecycle!Next
<1>2. CASE Claims(p, i)
  <2>1. Running(p, {"claim"}, "edit") /\ i \in command[p].todo
    BY <1>0, <1>2 DEF Claims, ClaimEdit, Running, ActsOnWhatIs, PlannerClaimsOnly
  <2>2. issueState[i] = "open" /\ DependenciesFinished(i)
    BY <1>0, <2>1 DEF ActsOnWhatIs, ClaimsWhatIsReady, WorksInOrder, Running
  <2>3. \A d \in Deps[i] : d \in Issues /\ Finished(d)
    BY <2>2, DepsAssumption DEF DependenciesFinished
  <2>4. \A d \in Deps[i] : Lifecycle!Finished(d)
    BY <1>0, <2>3, FinishedTold
  <2>5. Phase[i] = "ready"
    BY <1>0, <1>2, PhaseTold, Phases DEF Claims
  <2>6. Lifecycle!Move(i, "ready", "active")
    BY <1>0, <1>2, <2>5, MoveTold, Phases DEF Claims
  <2>7. Lifecycle!Claim(i)
    BY <2>2, <2>4, <2>6 DEF Lifecycle!Claim
  <2>8. QED
    BY <2>7 DEF Lifecycle!Next
<1>3. CASE Merges(p, i)
  <2>1. issueState[i] = "open"
    BY <1>3 DEF Merges, MaySeeOpen, BodiesReadable
  <2>2. pr[i] = "green" \/ noopGate[i]
    BY <1>0, <1>3 DEF Merges, IntegrationEdit, Running, ShipsWhatIsDue
  <2>3. Phase[i] = "done"
    BY <1>0, <1>3, PhaseTold, Phases DEF Merges
  <2>4. Lifecycle!Move(i, "done", "merged")
    BY <1>0, <1>3, <2>3, MoveTold, Phases DEF Merges
  <2>5. Lifecycle!Integrate(i)
    BY <2>1, <2>2, <2>4 DEF Lifecycle!Integrate
  <2>6. QED
    BY <2>5 DEF Lifecycle!Next
<1>4. ASSUME NEW name \in TransitionNames, Moves(i, name) PROVE Lifecycle!Next
  <2>1. Phase[i] = "active"
    BY <1>0, <1>4, PhaseTold, Phases DEF Moves, LabelsOf
  <2>2. Lifecycle!Move(i, "active", PhaseOf(NewState(name)))
    BY <1>0, <1>4, <2>1, MoveTold, NewStates DEF Moves
  <2>3. CASE name = "complete"
    <3>1. i \in {j \in Issues : ProposedGate(j) # {}} => summary[i]
      BY <1>4, <2>3 DEF Moves
    <3>2. PhaseOf(NewState(name)) = "done"
      BY <2>3, Phases DEF NewState
    <3>3. Lifecycle!Complete(i)
      BY <2>2, <3>1, <3>2 DEF Lifecycle!Complete
    <3>4. QED
      BY <3>3 DEF Lifecycle!Next
  <2>4. CASE name = "release"
    <3>1. PhaseOf(NewState(name)) = "ready"
      BY <2>4, Phases DEF NewState
    <3>2. Lifecycle!Release(i)
      BY <2>2, <3>1 DEF Lifecycle!Release
    <3>3. QED
      BY <3>2 DEF Lifecycle!Next
  <2>5. CASE name = "fail"
    <3>1. PhaseOf(NewState(name)) = "failed"
      BY <2>5, Phases DEF NewState
    <3>2. Lifecycle!Fail(i)
      BY <2>2, <3>1 DEF Lifecycle!Fail
    <3>3. QED
      BY <3>2 DEF Lifecycle!Next
  <2>6. QED
    BY <2>3, <2>4, <2>5 DEF TransitionNames
<1>5. QED
  BY <1>1, <1>2, <1>3, <1>4

LEMMA CommandsImplement ==
  ASSUME NoRecovery, PlannerClaimsOnly, BodiesReadable, LifecycleInv,
         NEW p \in Operators, CommandStep(p)
  PROVE  Lifecycle!Next \/ UNCHANGED Lifecycle!vars
<1>0. TypeOK /\ LabelsInOrder /\ ActsOnWhatIs(p)
  BY DEF LifecycleInv, AloneInv, LabelsInOrder
<1>1. UNCHANGED <<pr, summary, noopGate>>
  BY <1>0, OthersKept DEF evidence
<1>2. CASE UNCHANGED <<labels, issueState>>
  BY <1>1, <1>2 DEF Lifecycle!vars, Phase
<1>3. CASE /\ UNCHANGED <<issueState, evidence>>
           /\ \E i \in Issues :
                \/ Promotes(i) \/ Claims(p, i) \/ Merges(p, i)
                \/ \E name \in TransitionNames : Moves(i, name)
  BY <1>3, EditsImplement
<1>4. CASE /\ UNCHANGED labels
           /\ \E i \in Issues, reason \in {"completed", "not planned"} : ClosesAs(i, reason)
  <2>1. PICK i \in Issues, reason \in {"completed", "not planned"} : ClosesAs(i, reason)
    BY <1>4
  <2>2. reason = "completed" => Phase[i] = "merged"
    BY <1>0, <2>1, PhaseTold, Phases DEF ClosesAs
  <2>3. UNCHANGED Phase
    BY <1>4 DEF Phase
  <2>4. Lifecycle!CloseIssue(i)
    BY <1>1, <2>1, <2>2, <2>3 DEF Lifecycle!CloseIssue, ClosesAs
  <2>5. QED
    BY <2>4 DEF Lifecycle!Next
<1>5. QED
  BY <1>0, <1>2, <1>3, <1>4, LabelSteps, ClosingSteps

LEMMA EvidenceImplements ==
  ASSUME TypeOK, EvidenceStep
  PROVE  Lifecycle!Next \/ UNCHANGED Lifecycle!vars
<1>1. PICK i \in Issues : PullRequestAdvances(i) \/ SummaryPasses(i) \/ NoopGatePasses(i)
  BY DEF EvidenceStep
<1>2. UNCHANGED <<labels, issueState>> /\ UNCHANGED Phase
  BY <1>1 DEF PullRequestAdvances, SummaryPasses, NoopGatePasses, tracker, Phase
<1> DEFINE shipped == [j \in Issues |-> pr[j] = "green" \/ noopGate[j]]
<1>3. CASE SummaryPasses(i)
  <2>1. summary' = [summary EXCEPT ![i] = TRUE] /\ UNCHANGED <<pr, noopGate>>
    BY <1>3 DEF SummaryPasses
  <2>2. Lifecycle!Prove(i)
    BY <1>2, <2>1 DEF Lifecycle!Prove
  <2>3. QED
    BY <2>2 DEF Lifecycle!Next
<1>4. CASE PullRequestAdvances(i) \/ NoopGatePasses(i)
  <2>1. UNCHANGED summary
    BY <1>4 DEF PullRequestAdvances, NoopGatePasses
  <2>2. \A j \in Issues \ {i} : pr'[j] = pr[j] /\ noopGate'[j] = noopGate[j]
    BY <1>4 DEF PullRequestAdvances, NoopGatePasses, TypeOK, EvidenceTypeOK
  <2>3. shipped[i] => shipped'[i]
    BY <1>4 DEF PullRequestAdvances, NoopGatePasses, TypeOK, EvidenceTypeOK
  <2>4. UNCHANGED shipped \/ shipped' = [shipped EXCEPT ![i] = TRUE]
    BY <2>2, <2>3
  <2>5. CASE UNCHANGED shipped
    BY <1>2, <2>1, <2>5 DEF Lifecycle!vars
  <2>6. CASE shipped' = [shipped EXCEPT ![i] = TRUE]
    <3>1. Lifecycle!Ship(i)
      BY <1>2, <2>1, <2>6 DEF Lifecycle!Ship
    <3>2. QED
      BY <3>1 DEF Lifecycle!Next
  <2>7. QED
    BY <2>4, <2>5, <2>6
<1>5. QED
  BY <1>1, <1>3, <1>4

LEMMA LifecycleStarts == Init => Lifecycle!Init
<1> SUFFICES ASSUME Init PROVE Lifecycle!Init
  OBVIOUS
<1>1. ASSUME NEW i \in Issues
      PROVE  Phase[i] \in {"new", "ready"} /\ (Needs[i] # {} => Phase[i] = "new")
  <2>1. labels[i] \in {{}, {"state:ready"}} /\ (Needs[i] # {} => labels[i] = {})
    BY DEF Init
  <2>2. CASE labels[i] = {}
    BY <2>2 DEF Phase, PhaseFrom
  <2>3. CASE labels[i] = {"state:ready"}
    <3>1. labels[i] \cap StateLabels = {"state:ready"}
      BY <2>3 DEF StateLabels
    <3>2. Phase[i] = PhaseOf("state:ready")
      BY <3>1, OneStateTellsPhase DEF Phase
    <3>3. QED
      BY <2>1, <2>3, <3>2, Phases
  <2>4. QED
    BY <2>1, <2>2, <2>3
<1>2. Phase \in [Issues -> {"new", "ready"}]
  BY <1>1 DEF Phase
<1>3. /\ issueState = [i \in Issues |-> "open"] /\ summary = [i \in Issues |-> FALSE]
      /\ [i \in Issues |-> pr[i] = "green" \/ noopGate[i]] = [i \in Issues |-> FALSE]
  BY DEF Init, EvidenceInit
<1>4. QED
  BY <1>1, <1>2, <1>3 DEF Lifecycle!Init

\* One operator alone, who claims through the planner, can read every issue and recovers
\* no clear, moves the issues only along the lifecycle, one phase after the other, wherever
\* his commands are interrupted and whichever of their calls fail.
THEOREM WorkflowImplementsLifecycle ==
  ASSUME Alone, NoRecovery, PlannerClaimsOnly, BodiesReadable
  PROVE  Spec => ImplementsLifecycle
<1>1. LifecycleInv /\ [Next]_vars => [Lifecycle!Next]_(Lifecycle!vars)
  <2> SUFFICES ASSUME LifecycleInv, [Next]_vars
               PROVE  Lifecycle!Next \/ UNCHANGED Lifecycle!vars
    OBVIOUS
  <2>1. CASE UNCHANGED vars
    BY <2>1 DEF vars, Lifecycle!vars, Phase
  <2>2. CASE EvidenceStep
    BY <2>2, EvidenceImplements DEF LifecycleInv
  <2>3. QED
    BY <2>1, <2>2, CommandsImplement DEF Next
<1>2. Spec => []LifecycleInv
  BY TypeCorrect, AloneInvHolds, OrderInvHolds, ShippingInvHolds, PTL DEF LifecycleInv
<1>3. QED
  BY <1>1, <1>2, LifecycleStarts, PTL DEF Spec, ImplementsLifecycle, Lifecycle!Spec
=============================================================================
