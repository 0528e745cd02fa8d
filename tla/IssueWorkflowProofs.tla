------------------------ MODULE IssueWorkflowProofs ------------------------
(***************************************************************************)
(* Proofs about IssueWorkflow, for every set of issues, every dependency   *)
(* relation, any number of operators, every choice of commands and every   *)
(* failure.                                                                *)
(***************************************************************************)
EXTENDS IssueWorkflow, TLAPS

-----------------------------------------------------------------------------
(* Type correctness.                                                       *)

\* The names that occur in the modules.
LEMMA Vocabulary ==
  /\ "claim" \in CommandNames /\ "run" \in CommandNames /\ "advance" \in CommandNames
  /\ "integrate" \in CommandNames /\ "integrate noop" \in CommandNames
  /\ "clear" \in CommandNames /\ "recover" \in CommandNames
  /\ TransitionNames \subseteq CommandNames
  /\ "check" \in Steps /\ "gate" \in Steps /\ "edit" \in Steps /\ "close" \in Steps
  /\ "archive" \in Steps /\ "rewrite" \in Steps /\ "reopen" \in Steps
  /\ "read" \in Steps /\ NothingSeen \in [Issues -> Sightings]
BY DEF CommandNames, TransitionNames, Steps, NothingSeen, Sightings

\* What the calls that write to the tracker leave well typed.
LEMMA TrackerWrites ==
  ASSUME TrackerTypeOK, NEW i \in Issues, NEW outcome
  PROVE
    /\ \A remove : \A add \in SUBSET (StateLabels \cup GateLabels) :
         Edit(i, outcome, remove, add) => TrackerTypeOK'
    /\ \A reason \in {"completed", "not planned"} :
         Close(i, outcome, reason) => TrackerTypeOK'
    /\ Reopen(i, outcome) => TrackerTypeOK'
<1> USE DEF TrackerTypeOK
<1>1. \A remove : \A add \in SUBSET (StateLabels \cup GateLabels) :
        Edit(i, outcome, remove, add) => TrackerTypeOK'
  BY DEF Edit
<1>2. \A reason \in {"completed", "not planned"} :
        Close(i, outcome, reason) => TrackerTypeOK'
  BY DEF Close
<1>3. Reopen(i, outcome) => TrackerTypeOK'
  BY DEF Reopen
<1>4. QED
  BY <1>1, <1>2, <1>3

\* What the bookkeeping of a command leaves well typed.
LEMMA CommandWrites ==
  ASSUME CommandTypeOK, NEW p \in Operators
  PROVE
    /\ \A name \in CommandNames, step \in Steps, todo \in SUBSET Issues :
         Start(p, name, step, todo) => CommandTypeOK'
    /\ \A step \in Steps : GoTo(p, step) => CommandTypeOK'
    /\ \A i \in Issues, step \in Steps : Advance(p, i, step) => CommandTypeOK'
    /\ Finish(p) => CommandTypeOK'
<1> USE DEF CommandTypeOK
<1>1. ASSUME NEW name \in CommandNames, NEW step \in Steps,
             NEW todo \in SUBSET Issues, Start(p, name, step, todo)
      PROVE  CommandTypeOK'
  <2>1. [name |-> name, step |-> step, todo |-> todo, picked |-> {}, gates |-> {},
         seen |-> NothingSeen] \in Command
    BY Vocabulary DEF Command
  <2>2. QED
    BY <1>1, <2>1 DEF Start
<1>2. ASSUME NEW step \in Steps, GoTo(p, step)
      PROVE  CommandTypeOK'
  <2>1. [command[p] EXCEPT !.step = step] \in Command
    BY DEF Command
  <2>2. command' = [command EXCEPT ![p] = [command[p] EXCEPT !.step = step]]
    BY <1>2 DEF GoTo
  <2>3. QED
    BY <2>1, <2>2
<1>3. ASSUME Finish(p) PROVE CommandTypeOK'
  <2>1. NoCommand \in Command
    BY Vocabulary DEF NoCommand, Command, Steps
  <2>2. QED
    BY <1>3, <2>1 DEF Finish
<1>4. ASSUME NEW i \in Issues, NEW step \in Steps, Advance(p, i, step)
      PROVE  CommandTypeOK'
  <2>1. CASE command[p].todo = {i}
    BY <1>3, <1>4, <2>1 DEF Advance
  <2>2. CASE command[p].todo # {i}
    <3> DEFINE next == [command[p] EXCEPT !.todo = @ \ {i}, !.step = step]
    <3>1. next \in Command
      BY DEF Command
    <3>2. command' = [command EXCEPT ![p] = next]
      BY <1>4, <2>2 DEF Advance
    <3>3. QED
      BY <3>1, <3>2
  <2>3. QED
    BY <2>1, <2>2
<1>5. QED
  BY <1>1, <1>2, <1>3, <1>4

LEMMA EvidenceTyped == TypeOK /\ EvidenceStep => TypeOK'
<1> SUFFICES ASSUME TypeOK, EvidenceStep PROVE TypeOK'
  OBVIOUS
<1> USE DEF TypeOK, TrackerTypeOK, EvidenceTypeOK, CommandTypeOK, ManifestTypeOK, tracker
<1>1. PICK i \in Issues : PullRequestAdvances(i) \/ SummaryPasses(i) \/ NoopGatePasses(i)
  BY DEF EvidenceStep
<1>2. UNCHANGED <<command, manifest, labels, issueState>>
  BY <1>1 DEF EvidenceStep, PullRequestAdvances, SummaryPasses, NoopGatePasses
<1>3. EvidenceTypeOK'
  BY <1>1 DEF PullRequestAdvances, SummaryPasses, NoopGatePasses
<1>4. QED
  BY <1>2, <1>3

LEMMA ClaimTyped ==
  ASSUME TypeOK, NEW p \in Operators, ClaimStep(p), UNCHANGED manifest
  PROVE  TypeOK'
<1> SUFFICES TrackerTypeOK' /\ EvidenceTypeOK' /\ CommandTypeOK'
  BY DEF TypeOK, ManifestTypeOK
<1>0. /\ TrackerTypeOK /\ EvidenceTypeOK /\ CommandTypeOK
      /\ command[p].todo \subseteq Issues /\ command[p].picked \subseteq Issues
  BY DEF TypeOK, CommandTypeOK, Command
<1>a. UNCHANGED tracker => TrackerTypeOK'
  BY <1>0 DEF tracker, TrackerTypeOK
<1>b. UNCHANGED evidence => EvidenceTypeOK'
  BY <1>0 DEF evidence, EvidenceTypeOK
<1>1. CASE ClaimList(p)
  <2>1. PICK seen \in Readings :
          Start(p, "claim", "check",
                {i \in Issues : issueState[i] = "open" /\ seen[i] = "state:ready"})
    BY <1>1 DEF ClaimList
  <2>2. {i \in Issues : issueState[i] = "open" /\ seen[i] = "state:ready"}
          \in SUBSET Issues
    OBVIOUS
  <2>3. CommandTypeOK'
    BY <1>0, <2>1, <2>2, CommandWrites, Vocabulary
  <2>4. QED
    BY <1>1, <1>a, <1>b, <2>3 DEF ClaimList
<1>2. CASE ClaimCheck(p)
  <2>1. PICK i \in Issues :
          \/ command' = [command EXCEPT ![p] =
               [command[p] EXCEPT !.todo = @ \ {i}, !.picked = @ \cup {i}]]
          \/ command' = [command EXCEPT ![p] = [command[p] EXCEPT !.todo = @ \ {i}]]
    BY <1>0, <1>2 DEF ClaimCheck
  <2>2. /\ [command[p] EXCEPT !.todo = @ \ {i}, !.picked = @ \cup {i}] \in Command
        /\ [command[p] EXCEPT !.todo = @ \ {i}] \in Command
    BY <1>0 DEF CommandTypeOK, Command
  <2>3. CommandTypeOK'
    BY <1>0, <2>1, <2>2 DEF CommandTypeOK
  <2>4. QED
    BY <1>2, <1>a, <1>b, <2>3 DEF ClaimCheck
<1>3. CASE ClaimSelect(p)
  <2>1. PICK chosen \in SUBSET command[p].picked :
          Finish(p) \/ Start(p, "claim", "edit", chosen)
    BY <1>3 DEF ClaimSelect
  <2>2. chosen \in SUBSET Issues
    BY <1>0
  <2>3. CommandTypeOK'
    BY <1>0, <2>1, <2>2, CommandWrites, Vocabulary
  <2>4. QED
    BY <1>3, <1>a, <1>b, <2>3 DEF ClaimSelect
<1>4. ASSUME NEW i \in Issues, RunIssue(p, i)
      PROVE  TrackerTypeOK' /\ EvidenceTypeOK' /\ CommandTypeOK'
  <2>1. {i} \in SUBSET Issues
    OBVIOUS
  <2>2. CommandTypeOK'
    BY <1>0, <1>4, <2>1, CommandWrites, Vocabulary DEF RunIssue
  <2>3. QED
    BY <1>4, <1>a, <1>b, <2>2 DEF RunIssue
<1>5. CASE ClaimEdit(p)
  <2>1. PICK i \in Issues, outcome \in Outcomes("edit") :
          /\ Edit(i, outcome, {"state:ready"}, {"state:active"} \cup ProposedGate(i))
          /\ Advance(p, i, "edit") \/ Finish(p)
    BY <1>0, <1>5 DEF ClaimEdit
  <2>2. {"state:active"} \cup ProposedGate(i) \in SUBSET (StateLabels \cup GateLabels)
    BY DEF ProposedGate, StateLabels, GateLabels
  <2>3. TrackerTypeOK'
    BY <1>0, <2>1, <2>2, TrackerWrites
  <2>4. CommandTypeOK'
    BY <1>0, <2>1, CommandWrites, Vocabulary
  <2>5. QED
    BY <1>5, <1>b, <2>3, <2>4 DEF ClaimEdit
<1>6. QED
  BY <1>1, <1>2, <1>3, <1>4, <1>5 DEF ClaimStep

LEMMA TransitionTyped ==
  ASSUME TypeOK, NEW p \in Operators, TransitionStep(p), UNCHANGED manifest
  PROVE  TypeOK'
<1> SUFFICES TrackerTypeOK' /\ EvidenceTypeOK' /\ CommandTypeOK'
  BY DEF TypeOK, ManifestTypeOK
<1>0. TrackerTypeOK /\ EvidenceTypeOK /\ CommandTypeOK /\ command[p] \in Command
  BY DEF TypeOK, CommandTypeOK
<1>a. UNCHANGED tracker => TrackerTypeOK'
  BY <1>0 DEF tracker, TrackerTypeOK
<1>b. UNCHANGED evidence => EvidenceTypeOK'
  BY <1>0 DEF evidence, EvidenceTypeOK
<1>1. ASSUME NEW name \in TransitionNames, NEW i \in Issues, PlanTransition(p, name, i)
      PROVE  TrackerTypeOK' /\ EvidenceTypeOK' /\ CommandTypeOK'
  <2> DEFINE plan == [name |-> name,
                      step |-> IF name = "complete" THEN "gate" ELSE "edit",
                      todo |-> {i}, picked |-> {}, gates |-> Gates(i), seen |-> NothingSeen]
  <2>1. plan \in Command
    BY Vocabulary DEF Command, Gates
  <2>2. CommandTypeOK'
    BY <1>0, <1>1, <2>1 DEF PlanTransition, CommandTypeOK
  <2>3. QED
    BY <1>1, <1>a, <1>b, <2>2 DEF PlanTransition
<1>2. CASE EvaluateGateForComplete(p)
  <2>1. CommandTypeOK'
    BY <1>0, <1>2, CommandWrites, Vocabulary DEF EvaluateGateForComplete
  <2>2. QED
    BY <1>2, <1>a, <1>b, <2>1 DEF EvaluateGateForComplete
<1>3. CASE TransitionEdit(p)
  <2>1. PICK i \in Issues, outcome \in Outcomes("edit") :
          Edit(i, outcome, {"state:active"} \cup command[p].gates,
               {NewState(command[p].name)})
    BY <1>3 DEF TransitionEdit
  <2>2. {NewState(command[p].name)} \in SUBSET (StateLabels \cup GateLabels)
    BY <1>3 DEF TransitionEdit, Running, TransitionNames, NewState, StateLabels
  <2>3. TrackerTypeOK'
    BY <1>0, <2>1, <2>2, TrackerWrites
  <2>4. CommandTypeOK'
    BY <1>0, <1>3, CommandWrites DEF TransitionEdit
  <2>5. QED
    BY <1>3, <1>b, <2>3, <2>4 DEF TransitionEdit
<1>4. QED
  BY <1>1, <1>2, <1>3 DEF TransitionStep

LEMMA IntegrationTyped ==
  ASSUME TypeOK, NEW p \in Operators, IntegrationStep(p), UNCHANGED manifest
  PROVE  TypeOK'
<1> SUFFICES TrackerTypeOK' /\ EvidenceTypeOK' /\ CommandTypeOK'
  BY DEF TypeOK, ManifestTypeOK
<1>0. TrackerTypeOK /\ EvidenceTypeOK /\ CommandTypeOK
  BY DEF TypeOK
<1>a. UNCHANGED tracker => TrackerTypeOK'
  BY <1>0 DEF tracker, TrackerTypeOK
<1>b. UNCHANGED evidence => EvidenceTypeOK'
  BY <1>0 DEF evidence, EvidenceTypeOK
<1>1. ASSUME NEW i \in Issues, PlanIntegration(p, i) \/ PlanNoopIntegration(p, i)
      PROVE  TrackerTypeOK' /\ EvidenceTypeOK' /\ CommandTypeOK'
  <2>1. {i} \in SUBSET Issues
    OBVIOUS
  <2>2. CommandTypeOK'
    BY <1>0, <1>1, <2>1, CommandWrites, Vocabulary DEF PlanIntegration, MayIntegrate, PlanNoopIntegration, MayIntegrateNoop
  <2>3. QED
    BY <1>1, <1>a, <1>b, <2>2 DEF PlanIntegration, MayIntegrate, PlanNoopIntegration, MayIntegrateNoop
<1>2. CASE IntegrationEdit(p)
  <2>1. {"state:merged"} \in SUBSET (StateLabels \cup GateLabels)
    BY DEF StateLabels
  <2>2. TrackerTypeOK'
    BY <1>0, <1>2, <2>1, TrackerWrites DEF IntegrationEdit
  <2>3. CommandTypeOK'
    BY <1>0, <1>2, CommandWrites, Vocabulary DEF IntegrationEdit
  <2>4. QED
    BY <1>2, <1>b, <2>2, <2>3 DEF IntegrationEdit
<1>3. CASE IntegrationClose(p)
  <2>1. TrackerTypeOK'
    BY <1>0, <1>3, TrackerWrites DEF IntegrationClose
  <2>2. CommandTypeOK'
    BY <1>0, <1>3, CommandWrites DEF IntegrationClose
  <2>3. QED
    BY <1>3, <1>b, <2>1, <2>2 DEF IntegrationClose
<1>4. QED
  BY <1>1, <1>2, <1>3 DEF IntegrationStep

LEMMA ReadingTyped ==
  ASSUME TypeOK, NEW p \in Operators,
         \/ \E source \in Issues : StartAdvance(p, source)
         \/ StartClear(p) \/ StartRecover(p) \/ ReadTask(p)
  PROVE  TypeOK'
<1>0. /\ TrackerTypeOK /\ EvidenceTypeOK /\ CommandTypeOK /\ ManifestTypeOK
      /\ command[p] \in Command /\ command[p].todo \subseteq Issues
  BY DEF TypeOK, CommandTypeOK, Command
<1>1. SUFFICES CommandTypeOK' /\ UNCHANGED <<tracker, evidence, manifest>>
  BY <1>0 DEF TypeOK, TrackerTypeOK, EvidenceTypeOK, ManifestTypeOK, tracker, evidence
<1>2. ASSUME NEW name \in CommandNames, NEW todo \in SUBSET Issues,
             NEW picked \in SUBSET Issues, StartReading(p, name, todo, picked)
      PROVE  CommandTypeOK' /\ UNCHANGED <<tracker, evidence, manifest>>
  <2>1. [name |-> name, step |-> "read", todo |-> todo, picked |-> picked,
         gates |-> {}, seen |-> NothingSeen] \in Command
    BY Vocabulary DEF Command
  <2>2. QED
    BY <1>0, <1>2, <2>1 DEF StartReading, CommandTypeOK
<1>3. CASE \E source \in Issues : StartAdvance(p, source)
  <2>1. PICK source \in Issues : StartReading(p, "advance", Issues, {source})
    BY <1>3 DEF StartAdvance
  <2>2. {source} \in SUBSET Issues /\ Issues \in SUBSET Issues
    OBVIOUS
  <2>3. QED
    BY <1>2, <2>1, <2>2, Vocabulary
<1>4. CASE StartClear(p) \/ StartRecover(p)
  <2>1. {i \in Issues : Shipped(i)} \in SUBSET Issues
    OBVIOUS
  <2>2. PICK name \in {"clear", "recover"}, todo \in {{}, Issues} :
          StartReading(p, name, todo, {i \in Issues : Shipped(i)})
    BY <1>4 DEF StartClear, StartRecover
  <2>3. QED
    BY <1>2, <2>1, <2>2, Vocabulary
<1>5. CASE ReadTask(p)
  <2>1. PICK i \in command[p].todo : \E state \in TaskStates(i) :
          command' = [command EXCEPT ![p].todo = @ \ {i}, ![p].seen[i] = state]
    BY <1>5 DEF ReadTask
  <2>2. PICK state \in TaskStates(i) :
          command' = [command EXCEPT ![p] =
            [command[p] EXCEPT !.todo = @ \ {i}, !.seen = [@ EXCEPT ![i] = state]]]
    BY <1>0, <2>1 DEF CommandTypeOK, Command
  <2>3. state \in Sightings
    BY <1>0, <2>2 DEF TaskStates, Sightings, StateLabels
  <2>4. [command[p] EXCEPT !.todo = @ \ {i}, !.seen = [@ EXCEPT ![i] = state]] \in Command
    BY <1>0, <2>3 DEF Command
  <2>5. CommandTypeOK'
    BY <1>0, <2>2, <2>4 DEF CommandTypeOK
  <2>6. QED
    BY <1>5, <2>5 DEF ReadTask
<1>6. QED
  BY <1>3, <1>4, <1>5

LEMMA AdvanceTyped ==
  ASSUME TypeOK, NEW p \in Operators,
         PlanAdvance(p) \/ AdvanceEdit(p)
  PROVE  TypeOK'
<1>0. TrackerTypeOK /\ EvidenceTypeOK /\ CommandTypeOK /\ ManifestTypeOK
  BY DEF TypeOK
<1>1. CASE PlanAdvance(p)
  <2>1. PICK source \in command[p].picked :
          \/ Start(p, "advance", "edit", AdvanceTargets(command[p].seen, source))
          \/ Finish(p)
    BY <1>1 DEF PlanAdvance
  <2>2. AdvanceTargets(command[p].seen, source) \in SUBSET Issues
    BY DEF AdvanceTargets
  <2>3. CommandTypeOK'
    BY <1>0, <2>1, <2>2, CommandWrites, Vocabulary
  <2>4. QED
    BY <1>0, <1>1, <2>3 DEF PlanAdvance, TypeOK, TrackerTypeOK, EvidenceTypeOK,
                            ManifestTypeOK, tracker, evidence
<1>2. CASE AdvanceEdit(p)
  <2>1. command[p].todo \subseteq Issues
    BY <1>0 DEF CommandTypeOK, Command
  <2>2. PICK i \in Issues, outcome \in Outcomes("edit") :
          /\ Edit(i, outcome, {}, {"state:ready"})
          /\ Advance(p, i, "edit") \/ Finish(p)
    BY <1>2, <2>1 DEF AdvanceEdit
  <2>3. {"state:ready"} \in SUBSET (StateLabels \cup GateLabels)
    BY DEF StateLabels
  <2>4. TrackerTypeOK'
    BY <1>0, <2>2, <2>3, TrackerWrites
  <2>5. CommandTypeOK'
    BY <1>0, <2>2, CommandWrites, Vocabulary
  <2>6. QED
    BY <1>0, <1>2, <2>4, <2>5 DEF AdvanceEdit, TypeOK, EvidenceTypeOK, ManifestTypeOK, evidence
<1>3. QED
  BY <1>1, <1>2

LEMMA ClearTyped ==
  ASSUME TypeOK, NEW p \in Operators,
         PlanClear(p) \/ ClearClose(p) \/ ClearArchive(p) \/ ClearRewrite(p)
  PROVE  TypeOK'
<1>0. /\ TrackerTypeOK /\ EvidenceTypeOK /\ CommandTypeOK /\ ManifestTypeOK
      /\ command[p] \in Command /\ command[p].todo \subseteq Issues
  BY DEF TypeOK, CommandTypeOK, Command
<1>1. CASE PlanClear(p)
  <2>1. PICK step \in {"archive", "close"}, todo \in SUBSET Issues :
          Finish(p) \/ Start(p, "clear", step, todo)
    BY <1>1 DEF PlanClear
  <2>2. CommandTypeOK'
    BY <1>0, <2>1, CommandWrites, Vocabulary
  <2>3. QED
    BY <1>0, <1>1, <2>2 DEF PlanClear, TypeOK, TrackerTypeOK, EvidenceTypeOK,
                            ManifestTypeOK, tracker, evidence
<1>2. CASE ClearClose(p)
  <2>1. PICK i \in Issues, outcome \in Outcomes("close") :
          /\ Close(i, outcome, "not planned")
          /\ IF outcome # "ok" THEN Finish(p)
             ELSE command' = [command EXCEPT ![p].todo = @ \ {i},
                    ![p].step = IF command[p].todo = {i} THEN "archive" ELSE "close"]
    BY <1>0, <1>2 DEF ClearClose
  <2> DEFINE next == [command[p] EXCEPT !.todo = @ \ {i},
                        !.step = IF command[p].todo = {i} THEN "archive" ELSE "close"]
  <2>2. next \in Command
    BY <1>0, Vocabulary DEF Command
  <2>3. Finish(p) \/ command' = [command EXCEPT ![p] = next]
    BY <2>1
  <2>4. CommandTypeOK'
    <3> HIDE DEF next
    <3>1. CASE Finish(p)
      BY <1>0, <3>1, CommandWrites
    <3>2. CASE command' = [command EXCEPT ![p] = next]
      BY <1>0, <2>2, <3>2 DEF CommandTypeOK
    <3>3. QED
      BY <2>3, <3>1, <3>2
  <2>5. TrackerTypeOK'
    BY <1>0, <2>1, TrackerWrites
  <2>6. QED
    BY <1>0, <1>2, <2>4, <2>5 DEF ClearClose, TypeOK, EvidenceTypeOK, ManifestTypeOK, evidence
<1>3. CASE ClearArchive(p) \/ ClearRewrite(p)
  <2>1. CommandTypeOK'
    BY <1>0, <1>3, CommandWrites, Vocabulary DEF ClearArchive, ClearRewrite
  <2>2. ManifestTypeOK'
    BY <1>0, <1>3 DEF ClearArchive, ClearRewrite, ManifestTypeOK
  <2>3. QED
    BY <1>0, <1>3, <2>1, <2>2 DEF ClearArchive, ClearRewrite, TypeOK, TrackerTypeOK,
                                  EvidenceTypeOK, tracker, evidence
<1>4. QED
  BY <1>1, <1>2, <1>3

LEMMA RecoverTyped ==
  ASSUME TypeOK, NEW p \in Operators,
         PlanRecover(p) \/ RecoverReopen(p) \/ RecoverEdit(p) \/ RecoverClose(p)
  PROVE  TypeOK'
<1>0. /\ TrackerTypeOK /\ EvidenceTypeOK /\ CommandTypeOK /\ ManifestTypeOK
      /\ command[p].todo \subseteq Issues /\ command[p].picked \subseteq Issues
  BY DEF TypeOK, CommandTypeOK, Command
<1>1. CASE PlanRecover(p)
  <2>1. PICK todo \in SUBSET command[p].picked :
          Finish(p) \/ Start(p, "recover", "reopen", todo)
    BY <1>1 DEF PlanRecover
  <2>2. todo \in SUBSET Issues
    BY <1>0
  <2>3. CommandTypeOK'
    BY <1>0, <2>1, <2>2, CommandWrites, Vocabulary
  <2>4. QED
    BY <1>0, <1>1, <2>3 DEF PlanRecover, TypeOK, TrackerTypeOK, EvidenceTypeOK,
                            ManifestTypeOK, tracker, evidence
<1>2. CASE RecoverReopen(p)
  <2>1. PICK i \in Issues, outcome \in Outcomes("reopen") :
          Reopen(i, outcome) /\ (GoTo(p, "edit") \/ Finish(p))
    BY <1>0, <1>2 DEF RecoverReopen
  <2>2. TrackerTypeOK' /\ CommandTypeOK'
    BY <1>0, <2>1, TrackerWrites, CommandWrites, Vocabulary
  <2>3. QED
    BY <1>0, <1>2, <2>2 DEF RecoverReopen, TypeOK, EvidenceTypeOK, ManifestTypeOK, evidence
<1>3. CASE RecoverEdit(p)
  <2>1. PICK i \in Issues, outcome \in Outcomes("edit") :
          Edit(i, outcome, {}, {"state:merged"}) /\ (GoTo(p, "close") \/ Finish(p))
    BY <1>0, <1>3 DEF RecoverEdit
  <2>2. {"state:merged"} \in SUBSET (StateLabels \cup GateLabels)
    BY DEF StateLabels
  <2>3. TrackerTypeOK' /\ CommandTypeOK'
    BY <1>0, <2>1, <2>2, TrackerWrites, CommandWrites, Vocabulary
  <2>4. QED
    BY <1>0, <1>3, <2>3 DEF RecoverEdit, TypeOK, EvidenceTypeOK, ManifestTypeOK, evidence
<1>4. CASE RecoverClose(p)
  <2>1. PICK i \in Issues, outcome \in Outcomes("close") :
          Close(i, outcome, "completed") /\ (Advance(p, i, "reopen") \/ Finish(p))
    BY <1>0, <1>4 DEF RecoverClose
  <2>2. TrackerTypeOK' /\ CommandTypeOK'
    BY <1>0, <2>1, TrackerWrites, CommandWrites, Vocabulary
  <2>3. QED
    BY <1>0, <1>4, <2>2 DEF RecoverClose, TypeOK, EvidenceTypeOK, ManifestTypeOK, evidence
<1>5. QED
  BY <1>1, <1>2, <1>3, <1>4

LEMMA StopTyped ==
  ASSUME TypeOK, NEW p \in Operators, Stop(p), UNCHANGED manifest
  PROVE  TypeOK'
<1>1. CommandTypeOK'
  BY CommandWrites DEF Stop, TypeOK
<1>2. QED
  BY <1>1 DEF Stop, TypeOK, TrackerTypeOK, EvidenceTypeOK, ManifestTypeOK, tracker, evidence

LEMMA InitTyped == Init => TypeOK
<1> SUFFICES ASSUME Init PROVE TypeOK
  OBVIOUS
<1>1. TrackerTypeOK /\ EvidenceTypeOK /\ ManifestTypeOK
  BY DEF Init, EvidenceInit, TrackerTypeOK, EvidenceTypeOK, ManifestTypeOK, StateLabels
<1>2. NoCommand \in Command
  BY Vocabulary DEF NoCommand, Command, Steps
<1>3. CommandTypeOK
  BY <1>2 DEF Init, CommandTypeOK
<1>4. QED
  BY <1>1, <1>3 DEF TypeOK

LEMMA StepTyped == TypeOK /\ [Next]_vars => TypeOK'
<1> SUFFICES ASSUME TypeOK, [Next]_vars PROVE TypeOK'
  OBVIOUS
<1>1. CASE UNCHANGED vars
  BY <1>1 DEF vars, TypeOK, TrackerTypeOK, EvidenceTypeOK, CommandTypeOK, ManifestTypeOK
<1>2. CASE EvidenceStep
  BY <1>2, EvidenceTyped
<1>3. ASSUME NEW p \in Operators, CommandStep(p) PROVE TypeOK'
  BY <1>3, ClaimTyped, TransitionTyped, IntegrationTyped, StopTyped,
     ReadingTyped, AdvanceTyped, ClearTyped, RecoverTyped
     DEF CommandStep, RoadmapStep
<1>4. QED
  BY <1>1, <1>2, <1>3 DEF Next

\* Every variable keeps its type, whatever the operators run and whatever fails.
THEOREM TypeCorrect == Spec => []TypeOK
BY InitTyped, StepTyped, PTL DEF Spec
=============================================================================
