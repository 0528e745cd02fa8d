----------------------------- MODULE SeedProofs -----------------------------
(***************************************************************************)
(* Seeding, for any roadmap and any number of planners; and what a planner *)
(* on its own can rely on.                                                 *)
(***************************************************************************)
EXTENDS Seed, TLAPS

USE TasksAssumption, DependsOnAssumption, NoIssueAssumption

LEMMA StartTyped == NothingMapped \in Mapping /\ NoManifest \in Manifest /\ Idle \in Command
BY DEF NoManifest, NothingMapped, Manifest, Mapping, Idle, Working, Steps, Command

LEMMA InitTyped == Init => TypeOK
BY StartTyped DEF Init, TypeOK

LEMMA BecomesTyped ==
  ASSUME TypeOK, NEW p \in Planners, NEW record \in Command, Becomes(p, record)
  PROVE  /\ command' \in [Planners -> Command]
         /\ command'[p] = record
         /\ \A q \in Planners : q # p => command'[q] = command[q]
BY DEF TypeOK, Becomes

\* Every step of a command keeps the types, whatever command it is.
LEMMA PrepareSeedTyped ==
  ASSUME TypeOK, NEW p \in Planners, PrepareSeed(p)
  PROVE  /\ TypeOK'
         /\ command'[p] = Working("load", NoManifest, {})
         /\ \A q \in Planners : q # p => command'[q] = command[q]
<1>1. Working("load", NoManifest, {}) \in Command
  BY StartTyped DEF Working, Command, Steps
<1>2. manifest' \in Manifest
  BY StartTyped DEF PrepareSeed, TypeOK, Manifest
<1>3. QED
  BY <1>1, <1>2, BecomesTyped DEF PrepareSeed, TypeOK

LEMMA LoadManifestTyped ==
  ASSUME TypeOK, NEW p \in Planners, LoadManifest(p)
  PROVE  /\ TypeOK'
         /\ \/ command'[p] = Idle
            \/ LET todo == Unmapped(manifest.mapping)
               IN  command'[p] = Working(IF todo = {} THEN "finish" ELSE "create", manifest, todo)
         /\ \A q \in Planners : q # p => command'[q] = command[q]
<1> DEFINE todo == Unmapped(manifest.mapping)
           loaded == Working(IF todo = {} THEN "finish" ELSE "create", manifest, todo)
<1>1. loaded \in Command
  BY DEF Working, TypeOK, Command, Steps, Unmapped
<1>2. Becomes(p, loaded) \/ Becomes(p, Idle)
  BY DEF LoadManifest, Finish
<1>3. QED
  BY <1>1, <1>2, BecomesTyped, StartTyped DEF LoadManifest, TypeOK

LEMMA CreateIssueTyped ==
  ASSUME TypeOK, NEW p \in Planners, CreateIssue(p)
  PROVE  /\ TypeOK'
         /\ \A q \in Planners : q # p => command'[q] = command[q]
         /\ \E t \in command[p].todo :
              /\ First(t, command[p].todo)
              /\ \/ \E n \in Numbers :
                      /\ ~Given(n)
                      /\ issues' = issues \cup {[number |-> n, task |-> t]}
                      /\ command'[p] = [command[p] EXCEPT !.step = "record", !.created = n]
                      /\ manifest' = manifest
                 \/ /\ \/ issues' = issues
                       \/ /\ <<"create", "late">> \in Faults
                          /\ \E n \in Numbers :
                               issues' = issues \cup {[number |-> n, task |-> t]}
                    /\ command'[p] = Idle
                    /\ manifest' = [command[p].copy EXCEPT !.status = "partial"]
<1>1. PICK t \in command[p].todo, outcome \in Outcomes("create") :
        /\ First(t, command[p].todo)
        /\ \/ /\ outcome # "lost"
              /\ \E n \in Numbers :
                   /\ ~Given(n)
                   /\ issues' = issues \cup {[number |-> n, task |-> t]}
                   /\ IF outcome = "ok"
                      THEN Becomes(p, [command[p] EXCEPT !.step = "record", !.created = n])
                      ELSE Finish(p)
           \/ outcome = "lost" /\ Finish(p) /\ UNCHANGED issues
        /\ manifest' = IF outcome = "ok" THEN manifest
                       ELSE [command[p].copy EXCEPT !.status = "partial"]
  BY DEF CreateIssue
<1>2. command[p] \in Command /\ t \in Tasks
  BY DEF TypeOK, Command
<1>3. [command[p].copy EXCEPT !.status = "partial"] \in Manifest
  BY <1>2 DEF Command, Manifest
<1>4. ASSUME NEW n \in Numbers
      PROVE  /\ [command[p] EXCEPT !.step = "record", !.created = n] \in Command
             /\ issues \cup {[number |-> n, task |-> t]} \subseteq [number : Numbers, task : Tasks]
  <2>1. [command[p] EXCEPT !.step = "record", !.created = n] \in Command
    BY <1>2 DEF Command, Steps
  <2>2. issues \cup {[number |-> n, task |-> t]} \subseteq [number : Numbers, task : Tasks]
    BY <1>2 DEF TypeOK
  <2>3. QED
    BY <2>1, <2>2
<1>5. CASE outcome = "ok"
  <2>1. PICK n \in Numbers :
          /\ ~Given(n)
          /\ issues' = issues \cup {[number |-> n, task |-> t]}
          /\ Becomes(p, [command[p] EXCEPT !.step = "record", !.created = n])
    BY <1>1, <1>5
  <2>2. manifest' = manifest /\ shown' = shown
    BY <1>1, <1>5 DEF CreateIssue
  <2>3. /\ command' \in [Planners -> Command]
        /\ command'[p] = [command[p] EXCEPT !.step = "record", !.created = n]
        /\ \A q \in Planners : q # p => command'[q] = command[q]
    BY <1>4, <2>1, BecomesTyped
  <2>4. TypeOK'
    BY <1>4, <2>1, <2>2, <2>3 DEF TypeOK
  <2>5. QED
    BY <1>1, <2>1, <2>2, <2>3, <2>4
<1>6. CASE outcome # "ok"
  <2>1. Becomes(p, Idle) /\ shown' = shown
    BY <1>1, <1>6 DEF Finish, CreateIssue
  <2>2. manifest' = [command[p].copy EXCEPT !.status = "partial"]
    BY <1>1, <1>6
  <2>3. \/ issues' = issues
        \/ /\ <<"create", "late">> \in Faults
           /\ \E n \in Numbers : issues' = issues \cup {[number |-> n, task |-> t]}
    BY <1>1, <1>6 DEF Outcomes
  <2>4. /\ command' \in [Planners -> Command]
        /\ command'[p] = Idle
        /\ \A q \in Planners : q # p => command'[q] = command[q]
    BY <2>1, BecomesTyped, StartTyped
  <2>5. TypeOK'
    BY <1>3, <1>4, <2>1, <2>2, <2>3, <2>4 DEF TypeOK
  <2>6. QED
    BY <1>1, <2>2, <2>3, <2>4, <2>5
<1>7. QED
  BY <1>5, <1>6

LEMMA RecordIssueTyped ==
  ASSUME TypeOK, NEW p \in Planners, RecordIssue(p)
  PROVE  /\ TypeOK'
         /\ \A q \in Planners : q # p => command'[q] = command[q]
         /\ \E t \in command[p].todo :
              LET copy == [status  |-> "partial",
                           mapping |-> [command[p].copy.mapping EXCEPT ![t] = command[p].created]]
                  todo == command[p].todo \ {t}
              IN  /\ First(t, command[p].todo)
                  /\ manifest' = copy
                  /\ command'[p] = Working(IF todo = {} THEN "finish" ELSE "create", copy, todo)
<1>1. PICK t \in command[p].todo :
        LET copy == [status  |-> "partial",
                     mapping |-> [command[p].copy.mapping EXCEPT ![t] = command[p].created]]
            todo == command[p].todo \ {t}
        IN  /\ First(t, command[p].todo)
            /\ manifest' = copy
            /\ Becomes(p, Working(IF todo = {} THEN "finish" ELSE "create", copy, todo))
  BY DEF RecordIssue
<1> DEFINE copy == [status  |-> "partial",
                    mapping |-> [command[p].copy.mapping EXCEPT ![t] = command[p].created]]
           todo == command[p].todo \ {t}
           next == Working(IF todo = {} THEN "finish" ELSE "create", copy, todo)
<1>2. command[p] \in Command
  BY DEF TypeOK
<1>3. [command[p].copy.mapping EXCEPT ![t] = command[p].created] \in Mapping
  BY <1>2 DEF Command, Manifest, Mapping
<1>4. copy \in Manifest
  BY <1>3 DEF Manifest
<1>5. next \in Command
  <2> HIDE DEF copy
  <2>1. QED
    BY <1>2, <1>4 DEF Working, Command, Steps
<1>6. Becomes(p, next) /\ manifest' = copy /\ First(t, command[p].todo)
  BY <1>1
<1> HIDE DEF copy, next
<1>7. /\ command' \in [Planners -> Command]
      /\ command'[p] = next
      /\ \A q \in Planners : q # p => command'[q] = command[q]
  BY <1>5, <1>6, BecomesTyped
<1>8. TypeOK'
  BY <1>4, <1>6, <1>7 DEF TypeOK, RecordIssue
<1>9. QED
  BY <1>6, <1>7, <1>8 DEF copy, next

LEMMA FinishTyped ==
  ASSUME TypeOK, NEW p \in Planners, Finish(p), UNCHANGED <<issues, shown>>,
         manifest' \in Manifest
  PROVE  /\ TypeOK'
         /\ command'[p] = Idle
         /\ \A q \in Planners : q # p => command'[q] = command[q]
BY BecomesTyped, StartTyped DEF TypeOK, Finish

LEMMA FinishSeedTyped ==
  ASSUME TypeOK, NEW p \in Planners, FinishSeed(p)
  PROVE  manifest' \in Manifest
BY DEF FinishSeed, TypeOK, Command, Manifest

LEMMA StartSyncTyped ==
  ASSUME TypeOK, NEW p \in Planners, StartSync(p)
  PROVE  /\ TypeOK'
         /\ command'[p].step = "edit" /\ command'[p].copy = manifest
         /\ command'[p].todo \subseteq Tasks \ Unmapped(manifest.mapping)
         /\ \A q \in Planners : q # p => command'[q] = command[q]
<1>1. PICK todo \in SUBSET (Tasks \ Unmapped(manifest.mapping)) :
        Becomes(p, Working("edit", manifest, todo))
  BY DEF StartSync
<1>2. Working("edit", manifest, todo) \in Command
  BY DEF Working, Command, Steps, TypeOK
<1>3. QED
  BY <1>1, <1>2, BecomesTyped DEF Working, StartSync, TypeOK

LEMMA SyncBodyTyped ==
  ASSUME TypeOK, NEW p \in Planners, SyncBody(p)
  PROVE  /\ TypeOK'
         /\ \A q \in Planners : q # p => command'[q] = command[q]
         /\ \/ command'[p] = Idle
            \/ /\ command'[p].step \in {"edit", "save"}
               /\ command'[p].copy = command[p].copy
         /\ \A n \in Numbers, d \in Tasks :
              shown'[n][d] \in {NoIssue, shown[n][d], command[p].copy.mapping[d]}
<1>1. PICK t \in command[p].todo :
        /\ \/ shown' = shown
           \/ shown' = [shown EXCEPT ![command[p].copy.mapping[t]] =
                [d \in Tasks |-> IF d \in DependsOn[t] THEN command[p].copy.mapping[d]
                                 ELSE NoIssue]]
        /\ \/ Becomes(p, Idle)
           \/ \E step \in {"save", "edit"} :
                Becomes(p, [command[p] EXCEPT !.todo = command[p].todo \ {t}, !.step = step])
  BY DEF SyncBody, Finish
<1>2. command[p] \in Command /\ command[p].copy.mapping \in Mapping
  BY DEF TypeOK, Command, Manifest
<1>3. ASSUME NEW step \in {"save", "edit"}
      PROVE  [command[p] EXCEPT !.todo = command[p].todo \ {t}, !.step = step] \in Command
  BY <1>2 DEF Command, Steps
<1>4. [d \in Tasks |-> IF d \in DependsOn[t] THEN command[p].copy.mapping[d] ELSE NoIssue]
        \in Mapping
  BY <1>2 DEF Mapping
<1>5. shown' \in [Numbers -> Mapping]
  BY <1>1, <1>4 DEF TypeOK
<1>6. \A n \in Numbers, d \in Tasks :
        shown'[n][d] \in {NoIssue, shown[n][d], command[p].copy.mapping[d]}
  BY <1>1 DEF TypeOK
<1>7. /\ command' \in [Planners -> Command]
      /\ \A q \in Planners : q # p => command'[q] = command[q]
      /\ \/ command'[p] = Idle
         \/ /\ command'[p].step \in {"edit", "save"}
            /\ command'[p].copy = command[p].copy
  <2>1. CASE Becomes(p, Idle)
    BY <2>1, BecomesTyped, StartTyped
  <2>2. ASSUME NEW step \in {"save", "edit"},
               Becomes(p, [command[p] EXCEPT !.todo = command[p].todo \ {t}, !.step = step])
        PROVE  /\ command' \in [Planners -> Command]
               /\ \A q \in Planners : q # p => command'[q] = command[q]
               /\ command'[p].step \in {"edit", "save"}
               /\ command'[p].copy = command[p].copy
    <3>1. /\ command'[p] = [command[p] EXCEPT !.todo = command[p].todo \ {t}, !.step = step]
          /\ command' \in [Planners -> Command]
          /\ \A q \in Planners : q # p => command'[q] = command[q]
      BY <1>3, <2>2, BecomesTyped
    <3>2. QED
      BY <1>2, <3>1 DEF Command
  <2>3. QED
    BY <1>1, <2>1, <2>2
<1>8. QED
  BY <1>5, <1>6, <1>7 DEF TypeOK, SyncBody

LEMMA SaveSyncTyped ==
  ASSUME TypeOK, NEW p \in Planners, SaveSync(p)
  PROVE  manifest' \in Manifest
BY DEF SaveSync, TypeOK, Command

\* Every step keeps the types, and no command moves but the one that takes it.
LEMMA OthersDoNotMove ==
  ASSUME TypeOK, NEW p \in Planners, SeedStep(p) \/ SyncStep(p) \/ Stop(p)
  PROVE  TypeOK' /\ \A q \in Planners : q # p => command'[q] = command[q]
<1>1. FinishSeed(p) \/ SaveSync(p) \/ Stop(p) =>
        Finish(p) /\ UNCHANGED <<issues, shown>> /\ manifest' \in Manifest
  BY FinishSeedTyped, SaveSyncTyped DEF FinishSeed, SaveSync, Stop, TypeOK
<1>2. FinishSeed(p) \/ SaveSync(p) \/ Stop(p) =>
        TypeOK' /\ \A q \in Planners : q # p => command'[q] = command[q]
  BY <1>1, FinishTyped
<1>3. QED
  BY <1>2, PrepareSeedTyped, LoadManifestTyped, CreateIssueTyped,
     RecordIssueTyped, StartSyncTyped, SyncBodyTyped DEF SeedStep, SyncStep

\* Everything in the model keeps its type, however many planners and whatever fails.
THEOREM SeedTypeCorrect == Spec => []TypeOK
<1>1. TypeOK /\ [Next]_vars => TypeOK'
  <2> SUFFICES ASSUME TypeOK, [Next]_vars PROVE TypeOK'
    OBVIOUS
  <2>1. CASE UNCHANGED vars
    BY <2>1 DEF vars, TypeOK
  <2>2. QED
    BY <2>1, OthersDoNotMove DEF Next
<1>2. QED
  BY InitTyped, <1>1, PTL DEF Spec

-----------------------------------------------------------------------------
LEMMA FirstIsOne ==
  ASSUME NEW todo \in SUBSET Tasks, NEW s, NEW t, First(s, todo), First(t, todo)
  PROVE  s = t
BY DEF First

\* The copy of a manifest stays true, as issues are only added.
LEMMA StaysTrue ==
  ASSUME NEW copy, CopyIsTrue(copy), issues \subseteq issues'
  PROVE  CopyIsTrue(copy)'
BY DEF CopyIsTrue

LEMMA StartIsTrue == CopyIsTrue(NoManifest) /\ CopyIsTrue(Idle.copy)
BY DEF CopyIsTrue, Idle, Working, NoManifest, NothingMapped

LEMMA IdleCommandInv ==
  ASSUME NEW p \in Planners, command'[p] \in {Idle, Working("load", NoManifest, {})}
  PROVE  CommandInv(p)'
<1>1. CopyIsTrue(NoManifest)'
  BY DEF CopyIsTrue, NoManifest, NothingMapped
<1>2. command'[p].copy = NoManifest /\ command'[p].step \in {"idle", "load"}
  BY DEF Idle, Working
<1>3. QED
  BY <1>1, <1>2 DEF CommandInv

\* A command that does not move keeps its part of the invariant.
LEMMA CommandInvKept ==
  ASSUME NEW q \in Planners, CommandInv(q), command'[q] = command[q], issues \subseteq issues'
  PROVE  CommandInv(q)'
<1>1. CopyIsTrue(command[q].copy)'
  BY StaysTrue DEF CommandInv, CopyIsTrue
<1>2. QED
  BY <1>1 DEF CommandInv, CopyIsTrue

LEMMA CreateIssueTrue ==
  ASSUME CopyInv, NEW p \in Planners, CreateIssue(p)
  PROVE  issues \subseteq issues' /\ CopyIsTrue(manifest)' /\ CommandInv(p)'
<1>0. TypeOK /\ CopyIsTrue(manifest) /\ CommandInv(p) /\ command[p] \in Command
  BY DEF CopyInv, CommandInv, TypeOK
<1>1. PICK t \in command[p].todo :
        /\ First(t, command[p].todo)
        /\ \/ \E n \in Numbers :
                /\ ~Given(n)
                /\ issues' = issues \cup {[number |-> n, task |-> t]}
                /\ command'[p] = [command[p] EXCEPT !.step = "record", !.created = n]
                /\ manifest' = manifest
           \/ /\ \/ issues' = issues
                 \/ /\ <<"create", "late">> \in Faults
                    /\ \E n \in Numbers :
                         issues' = issues \cup {[number |-> n, task |-> t]}
              /\ command'[p] = Idle
              /\ manifest' = [command[p].copy EXCEPT !.status = "partial"]
  BY <1>0, CreateIssueTyped
<1>2. issues \subseteq issues'
  BY <1>1
<1>3. CASE \E n \in Numbers :
             /\ issues' = issues \cup {[number |-> n, task |-> t]}
             /\ command'[p] = [command[p] EXCEPT !.step = "record", !.created = n]
             /\ manifest' = manifest
  <2>1. PICK n \in Numbers :
          /\ issues' = issues \cup {[number |-> n, task |-> t]}
          /\ command'[p] = [command[p] EXCEPT !.step = "record", !.created = n]
          /\ manifest' = manifest
    BY <1>3
  <2>2. /\ command'[p].step = "record" /\ command'[p].created = n
        /\ command'[p].copy = command[p].copy /\ command'[p].todo = command[p].todo
    BY <1>0, <2>1 DEF Command
  <2>3. \A s \in Tasks : First(s, command[p].todo) => s = t
    BY <1>0, <1>1, FirstIsOne DEF Command
  <2>4. CopyIsTrue(command[p].copy)' /\ CopyIsTrue(manifest)'
    BY <1>0, <1>2, <2>1, <2>2, StaysTrue DEF CommandInv, CopyIsTrue
  <2>5. command[p].step = "create"
    BY DEF CreateIssue
  <2>6. QED
    BY <1>0, <1>2, <2>1, <2>2, <2>3, <2>4, <2>5 DEF CommandInv
<1>4. CASE command'[p] = Idle /\ manifest' = [command[p].copy EXCEPT !.status = "partial"]
  <2>1. manifest'.status = "partial" /\ manifest'.mapping = command[p].copy.mapping
    BY <1>0, <1>4 DEF Command, Manifest
  <2>2. CopyIsTrue(manifest)'
    BY <1>0, <1>2, <2>1 DEF CopyIsTrue, CommandInv
  <2>3. QED
    BY <1>2, <1>4, <2>2, IdleCommandInv
<1>5. QED
  BY <1>1, <1>3, <1>4

LEMMA RecordIssueTrue ==
  ASSUME CopyInv, NEW p \in Planners, RecordIssue(p)
  PROVE  issues \subseteq issues' /\ CopyIsTrue(manifest)' /\ CommandInv(p)'
<1>0. TypeOK /\ CommandInv(p) /\ command[p] \in Command
  BY DEF CopyInv, CommandInv, TypeOK
<1>1. issues' = issues /\ command[p].step = "record"
  BY DEF RecordIssue
<1>2. PICK t \in command[p].todo :
        LET copy == [status  |-> "partial",
                     mapping |-> [command[p].copy.mapping EXCEPT ![t] = command[p].created]]
            todo == command[p].todo \ {t}
        IN  /\ First(t, command[p].todo)
            /\ manifest' = copy
            /\ command'[p] = Working(IF todo = {} THEN "finish" ELSE "create", copy, todo)
  BY <1>0, RecordIssueTyped
<1> DEFINE mapping == [command[p].copy.mapping EXCEPT ![t] = command[p].created]
           todo == command[p].todo \ {t}
<1>3. command[p].copy.mapping \in Mapping /\ t \in Tasks /\ command[p].created # NoIssue
  <2>1. [number |-> command[p].created, task |-> t] \in issues
    BY <1>0, <1>1, <1>2 DEF CommandInv, Command
  <2>2. QED
    BY <1>0, <2>1 DEF Command, Manifest, TypeOK
<1>4. \A s \in Tasks : mapping[s] # NoIssue => [number |-> mapping[s], task |-> s] \in issues
  BY <1>0, <1>1, <1>2, <1>3 DEF CommandInv, CopyIsTrue, Mapping
<1>5. Unmapped(mapping) = todo
  BY <1>0, <1>1, <1>3 DEF CommandInv, Unmapped, Mapping, Command
<1>6. /\ manifest'.status = "partial" /\ manifest'.mapping = mapping
      /\ command'[p].copy = manifest' /\ command'[p].todo = todo
      /\ command'[p].step = IF todo = {} THEN "finish" ELSE "create"
  BY <1>2 DEF Working
<1> HIDE DEF mapping, todo
<1>7. CopyIsTrue(manifest)'
  BY <1>1, <1>4, <1>6 DEF CopyIsTrue
<1>8. QED
  BY <1>1, <1>5, <1>6, <1>7 DEF CommandInv, CopyIsTrue

\* The steps that write no issue and no manifest of their own making.
LEMMA CopyTrue ==
  ASSUME CopyInv, NEW p \in Planners,
         PrepareSeed(p) \/ LoadManifest(p) \/ FinishSeed(p) \/ SyncStep(p) \/ Stop(p)
  PROVE  issues' = issues /\ CopyIsTrue(manifest)' /\ CommandInv(p)'
<1>0. TypeOK /\ CopyIsTrue(manifest) /\ CommandInv(p) /\ command[p] \in Command
  BY DEF CopyInv, CommandInv, TypeOK
<1>1. issues' = issues
  BY DEF PrepareSeed, LoadManifest, FinishSeed, SyncStep, StartSync, SyncBody, SaveSync, Stop
<1>2. \A copy : CopyIsTrue(copy) =>
        \A t \in Tasks : copy.mapping[t] # NoIssue =>
          [number |-> copy.mapping[t], task |-> t] \in issues'
  BY <1>1 DEF CopyIsTrue
<1>3. CASE PrepareSeed(p)
  <2>1. manifest' = manifest \/ manifest' = [NoManifest EXCEPT !.status = "dry-run"]
    BY <1>3 DEF PrepareSeed
  <2>2. CopyIsTrue(manifest)'
    BY <1>0, <1>1, <2>1 DEF CopyIsTrue, NoManifest, NothingMapped
  <2>3. QED
    BY <1>0, <1>1, <1>3, <2>2, PrepareSeedTyped, IdleCommandInv
<1>4. CASE LoadManifest(p)
  <2>1. manifest' = manifest
    BY <1>4 DEF LoadManifest
  <2>2. CopyIsTrue(manifest)'
    BY <1>0, <1>1, <2>1 DEF CopyIsTrue
  <2>3. CASE command'[p] = Idle
    BY <1>1, <2>2, <2>3, IdleCommandInv
  <2>4. CASE command'[p] = Working(IF Unmapped(manifest.mapping) = {} THEN "finish" ELSE "create",
                                   manifest, Unmapped(manifest.mapping))
    <3>1. /\ command'[p].copy = manifest /\ command'[p].todo = Unmapped(manifest.mapping)
          /\ command'[p].step = IF Unmapped(manifest.mapping) = {} THEN "finish" ELSE "create"
      BY <2>4 DEF Working
    <3>2. QED
      BY <1>1, <2>1, <2>2, <3>1 DEF CommandInv, CopyIsTrue
  <2>5. QED
    BY <1>0, <1>4, <2>3, <2>4, LoadManifestTyped
<1>5. CASE FinishSeed(p)
  <2>1. manifest' = [command[p].copy EXCEPT !.status = "applied"] /\ command[p].step = "finish"
    BY <1>5 DEF FinishSeed
  <2>2. manifest'.mapping = command[p].copy.mapping
    BY <1>0, <2>1 DEF Command, Manifest
  <2>3. CopyIsTrue(manifest)'
    BY <1>0, <1>1, <2>1, <2>2 DEF CopyIsTrue, CommandInv
  <2>4. manifest' \in Manifest /\ UNCHANGED <<issues, shown>> /\ Finish(p)
    BY <1>0, <1>5, FinishSeedTyped DEF FinishSeed
  <2>5. QED
    BY <1>0, <1>1, <2>3, <2>4, FinishTyped, IdleCommandInv
<1>6. CASE StartSync(p)
  <2>1. manifest' = manifest /\ command'[p].step = "edit" /\ command'[p].copy = manifest
    BY <1>0, <1>6, StartSyncTyped DEF StartSync
  <2>2. QED
    BY <1>0, <1>1, <2>1 DEF CommandInv, CopyIsTrue
<1>7. CASE SyncBody(p)
  <2>1. manifest' = manifest
    BY <1>7 DEF SyncBody
  <2>2. \/ command'[p] = Idle
        \/ command'[p].step \in {"edit", "save"} /\ command'[p].copy = command[p].copy
    BY <1>0, <1>7, SyncBodyTyped
  <2>3. CASE command'[p] = Idle
    BY <1>0, <1>1, <2>1, <2>3, IdleCommandInv DEF CopyIsTrue
  <2>4. CASE command'[p].step \in {"edit", "save"} /\ command'[p].copy = command[p].copy
    BY <1>0, <1>1, <2>1, <2>4 DEF CommandInv, CopyIsTrue
  <2>5. QED
    BY <2>2, <2>3, <2>4
<1>8. CASE SaveSync(p) \/ Stop(p)
  <2>1. manifest' \in {manifest, command[p].copy}
    BY <1>8 DEF SaveSync, Stop
  <2>2. CopyIsTrue(manifest)'
    BY <1>0, <1>1, <2>1 DEF CopyIsTrue, CommandInv
  <2>3. manifest' \in Manifest /\ UNCHANGED <<issues, shown>> /\ Finish(p)
    BY <1>0, <1>8, <2>1 DEF SaveSync, Stop, Command, TypeOK
  <2>4. QED
    BY <1>0, <1>1, <2>2, <2>3, FinishTyped, IdleCommandInv
<1>9. QED
  BY <1>3, <1>4, <1>5, <1>6, <1>7, <1>8 DEF SyncStep

LEMMA CopyStep ==
  ASSUME CopyInv, NEW p \in Planners, SeedStep(p) \/ SyncStep(p) \/ Stop(p)
  PROVE  CopyInv'
<1>1. issues \subseteq issues' /\ CopyIsTrue(manifest)' /\ CommandInv(p)'
  BY CreateIssueTrue, RecordIssueTrue, CopyTrue DEF SeedStep
<1>2. TypeOK' /\ \A q \in Planners : q # p => command'[q] = command[q]
  BY OthersDoNotMove DEF CopyInv
<1>3. ASSUME NEW q \in Planners PROVE CommandInv(q)'
  <2>1. CommandInv(q)
    BY DEF CopyInv, CommandInv
  <2>2. QED
    BY <1>1, <1>2, <2>1, CommandInvKept
<1>4. QED
  BY <1>1, <1>2, <1>3 DEF CopyInv, CommandInv

LEMMA CopyInvHolds == Spec => []CopyInv
<1>1. Init => CopyInv
  <2>1. Init => \A p \in Planners : command[p] = Idle
    BY DEF Init
  <2>2. Idle.copy = NoManifest /\ Idle.step = "idle"
    BY DEF Idle, Working
  <2>3. QED
    BY <2>1, <2>2, InitTyped, StartIsTrue DEF CommandInv, Init, CopyInv
<1>2. CopyInv /\ [Next]_vars => CopyInv'
  <2> SUFFICES ASSUME CopyInv, [Next]_vars PROVE CopyInv'
    OBVIOUS
  <2>1. CASE UNCHANGED vars
    BY <2>1 DEF CommandInv, vars, CopyInv, TypeOK, CopyIsTrue
  <2>2. QED
    BY <2>1, CopyStep DEF Next
<1>3. QED
  BY <1>1, <1>2, PTL DEF Spec

\* However many planners share the manifest and whatever fails, a task is only mapped
\* to an issue that was created for it.
THEOREM MappingsAreTrue == Spec => []MappedToOwnIssue
<1>1. CopyInv => MappedToOwnIssue
  BY DEF CopyInv, CopyIsTrue, MappedToOwnIssue
<1>2. QED
  BY <1>1, CopyInvHolds, PTL

\* However many they are, a seeding is only declared applied when every task has its
\* issue, also by the one whose copy of the manifest is not the latest.
THEOREM AppliedIsComplete == Spec => []AppliedMeansMapped
<1>1. CopyInv => AppliedMeansMapped
  BY DEF CopyInv, CopyIsTrue, AppliedMeansMapped
<1>2. QED
  BY <1>1, CopyInvHolds, PTL

-----------------------------------------------------------------------------
(* One planner. *)

Alone(p) == Planners = {p}
EveryIssueIsSeen == <<"create", "late">> \notin Faults /\ <<"record", "stop">> \notin Faults

\* The first task that is still to be created has no issue in the manifest.
LEMMA FirstIsUnmapped ==
  ASSUME NEW p \in Planners, CopyIsManifestInv(p), command[p].step \in {"create", "record", "finish"}
  PROVE  /\ command[p].todo = Unmapped(manifest.mapping)
         /\ command[p].copy.mapping = manifest.mapping
BY DEF CommandInv, CopyIsManifestInv, CopyInv, Unmapped

\* Besides the recording of a new issue, no step changes what the manifest maps.
LEMMA MappingSame ==
  ASSUME NEW p \in Planners, CopyIsManifestInv(p), SeedStep(p) \/ SyncStep(p) \/ Stop(p), ~RecordIssue(p)
  PROVE  manifest'.mapping = manifest.mapping
<1>0. TypeOK /\ CopyIsTrue(manifest) /\ command[p] \in Command
  BY DEF CopyIsManifestInv, CopyInv, TypeOK
<1>1. CASE UNCHANGED manifest
  BY <1>1
<1>2. CASE PrepareSeed(p) /\ manifest.status = "absent"
  <2>1. manifest' = [NoManifest EXCEPT !.status = "dry-run"]
    BY <1>2 DEF PrepareSeed
  <2>2. manifest'.mapping = NothingMapped
    BY <2>1 DEF NoManifest
  <2>3. QED
    BY <1>0, <1>2, <2>2 DEF CopyIsTrue
<1>3. CASE /\ command[p].step \in {"create", "finish", "save"}
           /\ \E status : manifest' = [command[p].copy EXCEPT !.status = status]
  BY <1>0, <1>3 DEF CopyIsManifestInv, Command, Manifest
<1>4. CASE SaveSync(p)
  BY <1>4 DEF SaveSync, CopyIsManifestInv
<1>5. \/ UNCHANGED manifest
      \/ PrepareSeed(p) /\ manifest.status = "absent"
      \/ /\ command[p].step \in {"create", "finish", "save"}
         /\ \E status : manifest' = [command[p].copy EXCEPT !.status = status]
      \/ SaveSync(p)
  <2>1. PrepareSeed(p) => UNCHANGED manifest \/ manifest.status = "absent"
    BY DEF PrepareSeed
  <2>2. CreateIssue(p) =>
          \/ UNCHANGED manifest
          \/ /\ command[p].step = "create"
             /\ \E status : manifest' = [command[p].copy EXCEPT !.status = status]
    BY DEF CreateIssue
  <2>3. FinishSeed(p) =>
          /\ command[p].step = "finish"
          /\ \E status : manifest' = [command[p].copy EXCEPT !.status = status]
    BY DEF FinishSeed
  <2>4. LoadManifest(p) \/ StartSync(p) \/ SyncBody(p) \/ Stop(p) => UNCHANGED manifest
    BY DEF LoadManifest, StartSync, SyncBody, Stop
  <2>5. QED
    BY <2>1, <2>2, <2>3, <2>4 DEF SeedStep, SyncStep
<1>6. QED
  BY <1>1, <1>2, <1>3, <1>4, <1>5

\* What is mapped stays mapped.
LEMMA MappingGrows ==
  ASSUME NEW p \in Planners, CopyIsManifestInv(p), SeedStep(p) \/ SyncStep(p) \/ Stop(p)
  PROVE  \A t \in Tasks : manifest.mapping[t] # NoIssue =>
           manifest'.mapping[t] = manifest.mapping[t]
<1>1. CASE RecordIssue(p)
  <2>1. TypeOK /\ command[p].step = "record" /\ manifest.mapping \in Mapping
    BY <1>1 DEF CopyIsManifestInv, CopyInv, RecordIssue, TypeOK, Manifest
  <2>2. PICK t \in command[p].todo :
          manifest' = [status  |-> "partial",
                       mapping |-> [command[p].copy.mapping EXCEPT ![t] = command[p].created]]
    BY <1>1, <2>1, RecordIssueTyped
  <2>3. t \in Unmapped(manifest.mapping) /\ command[p].copy.mapping = manifest.mapping
    BY <2>1, <2>2, FirstIsUnmapped
  <2>4. manifest'.mapping = [manifest.mapping EXCEPT ![t] = command[p].created]
    BY <2>2, <2>3
  <2>5. QED
    BY <2>1, <2>3, <2>4 DEF Unmapped, Mapping
<1>2. QED
  BY <1>1, MappingSame

\* The step of a command whose copy is not used any more, or is the manifest.
CopyIsManifest(p) ==
  command[p].step \notin {"idle", "load"} => command[p].copy.mapping = manifest.mapping

LEMMA CopyStaysManifest ==
  ASSUME NEW p \in Planners, CopyIsManifestInv(p), SeedStep(p) \/ SyncStep(p) \/ Stop(p)
  PROVE  CopyIsManifest(p)'
<1>0. TypeOK /\ command[p] \in Command
  BY DEF CopyIsManifestInv, CopyInv, TypeOK
<1>1. CASE command'[p] \in {Idle, Working("load", NoManifest, {})}
  BY <1>1 DEF Idle, Working, CopyIsManifest
<1>2. CASE command'[p].copy = manifest /\ UNCHANGED manifest
  BY <1>2 DEF CopyIsManifest
<1>3. CASE command'[p].copy = command[p].copy /\ UNCHANGED manifest
           /\ command[p].step \notin {"idle", "load"}
  BY <1>3 DEF CopyIsManifest, CopyIsManifestInv
<1>4. CASE command'[p].copy = manifest'
  BY <1>4 DEF CopyIsManifest
<1>5. FinishSeed(p) \/ SaveSync(p) \/ Stop(p) \/ PrepareSeed(p) =>
        command'[p] \in {Idle, Working("load", NoManifest, {})}
  BY <1>0, FinishSeedTyped, SaveSyncTyped, FinishTyped, PrepareSeedTyped
     DEF FinishSeed, SaveSync, Stop, TypeOK
<1>6. LoadManifest(p) =>
        \/ command'[p] = Idle
        \/ command'[p].copy = manifest /\ UNCHANGED manifest
  BY <1>0, LoadManifestTyped DEF LoadManifest, Working
<1>7. StartSync(p) => command'[p].copy = manifest /\ UNCHANGED manifest
  BY <1>0, StartSyncTyped DEF StartSync
<1>8. SyncBody(p) =>
        \/ command'[p] = Idle
        \/ /\ command'[p].copy = command[p].copy /\ UNCHANGED manifest
           /\ command[p].step \notin {"idle", "load"}
  BY <1>0, SyncBodyTyped DEF SyncBody
<1>9. CreateIssue(p) =>
        \/ command'[p] = Idle
        \/ /\ command'[p].copy = command[p].copy /\ UNCHANGED manifest
           /\ command[p].step \notin {"idle", "load"}
  <2>1. CreateIssue(p) =>
          \/ command'[p] = Idle
          \/ /\ manifest' = manifest
             /\ \E n \in Numbers :
                  command'[p] = [command[p] EXCEPT !.step = "record", !.created = n]
    BY <1>0, CreateIssueTyped
  <2>2. CreateIssue(p) => command[p].step \notin {"idle", "load"}
    BY DEF CreateIssue
  <2>3. QED
    BY <1>0, <2>1, <2>2 DEF Command
<1>10. RecordIssue(p) => command'[p].copy = manifest'
  <2> HAVE RecordIssue(p)
  <2>1. PICK t \in command[p].todo :
          LET copy == [status  |-> "partial",
                       mapping |-> [command[p].copy.mapping EXCEPT ![t] = command[p].created]]
              todo == command[p].todo \ {t}
          IN  /\ manifest' = copy
              /\ command'[p] = Working(IF todo = {} THEN "finish" ELSE "create", copy, todo)
    BY <1>0, RecordIssueTyped
  <2>2. QED
    BY <2>1 DEF Working
<1>11. QED
  BY <1>1, <1>2, <1>3, <1>4, <1>5, <1>6, <1>7, <1>8, <1>9, <1>10 DEF SeedStep, SyncStep

\* Every issue is in the manifest, or about to be recorded.
IssueKnown(p, issue) ==
  \/ manifest.mapping[issue.task] = issue.number
  \/ /\ command[p].step = "record"
     /\ issue.number = command[p].created
     /\ First(issue.task, command[p].todo)

LEMMA IssuesStayKnown ==
  ASSUME EveryIssueIsSeen, NEW p \in Planners, SoloInv(p),
         SeedStep(p) \/ SyncStep(p) \/ Stop(p)
  PROVE  \A issue \in issues' : IssueKnown(p, issue)'
<1>0. /\ CopyIsManifestInv(p) /\ TypeOK /\ command[p] \in Command /\ manifest.mapping \in Mapping
      /\ \A issue \in issues : IssueKnown(p, issue)
  BY DEF SoloInv, CopyIsManifestInv, CopyInv, TypeOK, Manifest, IssueKnown
<1>1. CASE RecordIssue(p)
  <2>1. command[p].step = "record" /\ issues' = issues
    BY <1>1 DEF RecordIssue
  <2>2. PICK t \in command[p].todo :
          /\ First(t, command[p].todo)
          /\ manifest' = [status  |-> "partial",
                          mapping |-> [command[p].copy.mapping EXCEPT ![t] = command[p].created]]
    BY <1>0, <1>1, RecordIssueTyped
  <2>3. t \in Unmapped(manifest.mapping) /\ command[p].copy.mapping = manifest.mapping
    BY <1>0, <2>1, <2>2, FirstIsUnmapped
  <2>4. manifest'.mapping = [manifest.mapping EXCEPT ![t] = command[p].created]
    BY <2>2, <2>3
  <2>5. ASSUME NEW issue \in issues PROVE manifest'.mapping[issue.task] = issue.number
    <3>1. issue.task \in Tasks /\ issue.number \in Numbers
      BY <1>0 DEF TypeOK
    <3>2. CASE manifest.mapping[issue.task] = issue.number
      <4>1. issue.task # t
        BY <2>3, <3>1, <3>2 DEF Unmapped
      <4>2. QED
        BY <1>0, <2>4, <3>1, <3>2, <4>1 DEF Mapping
    <3>3. CASE issue.number = command[p].created /\ First(issue.task, command[p].todo)
      <4>1. issue.task = t
        BY <1>0, <2>2, <3>3, FirstIsOne DEF Command
      <4>2. QED
        BY <1>0, <2>4, <3>1, <3>3, <4>1 DEF Mapping
    <3>4. QED
      BY <1>0, <3>2, <3>3 DEF IssueKnown
  <2>6. QED
    BY <2>1, <2>5 DEF IssueKnown
<1>2. CASE CreateIssue(p)
  <2>1. \A issue \in issues : manifest'.mapping[issue.task] = issue.number
    BY <1>0, <1>2, MappingSame DEF IssueKnown, CreateIssue, RecordIssue
  <2>2. PICK t \in command[p].todo :
          /\ First(t, command[p].todo)
          /\ \/ issues' = issues
             \/ \E n \in Numbers :
                  /\ issues' = issues \cup {[number |-> n, task |-> t]}
                  /\ command'[p] = [command[p] EXCEPT !.step = "record", !.created = n]
    BY <1>0, <1>2, CreateIssueTyped DEF EveryIssueIsSeen
  <2>3. ASSUME NEW n \in Numbers, issues' = issues \cup {[number |-> n, task |-> t]},
               command'[p] = [command[p] EXCEPT !.step = "record", !.created = n]
        PROVE  \A issue \in issues' : IssueKnown(p, issue)'
    <3>1. /\ command'[p].step = "record" /\ command'[p].created = n
          /\ command'[p].todo = command[p].todo
      BY <1>0, <2>3 DEF Command
    <3>2. First(t, command'[p].todo)
      BY <2>2, <3>1
    <3>3. QED
      BY <2>1, <2>3, <3>1, <3>2 DEF IssueKnown, First
  <2>4. QED
    BY <2>1, <2>2, <2>3 DEF IssueKnown
<1>3. CASE ~RecordIssue(p) /\ ~CreateIssue(p)
  <2>1. command[p].step # "record" /\ issues' = issues
    <3>1. PrepareSeed(p) \/ StartSync(p) => command[p].step = "idle"
      BY DEF PrepareSeed, StartSync, Idle, Working
    <3>2. LoadManifest(p) \/ FinishSeed(p) \/ SyncBody(p) \/ SaveSync(p) \/ Stop(p) =>
            command[p].step # "record"
      BY DEF LoadManifest, FinishSeed, SyncBody, SaveSync, Stop, EveryIssueIsSeen
    <3>3. issues' = issues
      BY <1>3 DEF SeedStep, SyncStep, PrepareSeed, LoadManifest, FinishSeed,
           StartSync, SyncBody, SaveSync, Stop
    <3>4. QED
      BY <1>3, <3>1, <3>2, <3>3 DEF SeedStep, SyncStep
  <2>2. manifest'.mapping = manifest.mapping
    BY <1>0, <1>3, MappingSame
  <2>3. QED
    BY <1>0, <2>1, <2>2 DEF IssueKnown
<1>4. QED
  BY <1>1, <1>2, <1>3

BodyIsRight == \A n \in Numbers, d \in Tasks : shown[n][d] \in {NoIssue, manifest.mapping[d]}

LEMMA BodiesStayRight ==
  ASSUME NEW p \in Planners, CopyIsManifestInv(p), SeedStep(p) \/ SyncStep(p) \/ Stop(p)
  PROVE  BodyIsRight'
<1>1. \A n \in Numbers, d \in Tasks : shown'[n][d] \in {NoIssue, manifest.mapping[d]}
  <2>1. CASE SyncBody(p)
    <3>1. TypeOK /\ command[p].copy.mapping = manifest.mapping
      BY <2>1 DEF SyncBody, CopyIsManifestInv, CopyInv
    <3>2. \A n \in Numbers, d \in Tasks :
            shown'[n][d] \in {NoIssue, shown[n][d], command[p].copy.mapping[d]}
      BY <2>1, <3>1, SyncBodyTyped
    <3>3. QED
      BY <3>1, <3>2 DEF CopyIsManifestInv
  <2>2. CASE UNCHANGED shown
    BY <2>2 DEF CopyIsManifestInv
  <2>3. QED
    BY <2>1, <2>2 DEF SeedStep, SyncStep, PrepareSeed, LoadManifest, CreateIssue, RecordIssue,
         FinishSeed, StartSync, SaveSync, Stop
<1>2. QED
  BY <1>1, MappingGrows DEF BodyIsRight

LEMMA CopyIsManifestStep ==
  ASSUME NEW p \in Planners, CopyIsManifestInv(p), SeedStep(p) \/ SyncStep(p) \/ Stop(p)
  PROVE  CopyIsManifestInv(p)'
<1>1. CopyInv'
  BY CopyStep DEF CopyIsManifestInv
<1>2. QED
  BY <1>1, CopyStaysManifest, BodiesStayRight DEF CopyIsManifestInv, CopyIsManifest, BodyIsRight

LEMMA CopyIsManifestInvHolds ==
  ASSUME NEW p, Alone(p)
  PROVE  Spec => []CopyIsManifestInv(p)
<1>1. p \in Planners
  BY DEF Alone
<1>2. Init => CopyIsManifestInv(p)
  <2>1. Init => CopyInv
    BY InitTyped, StartIsTrue DEF CommandInv, Init, CopyInv, Idle, Working
  <2>2. Init => command[p].step = "idle"
    BY <1>1 DEF Init, Idle, Working
  <2>3. QED
    BY <2>1, <2>2 DEF Init, CopyIsManifestInv, NothingMapped
<1>3. CopyIsManifestInv(p) /\ [Next]_vars => CopyIsManifestInv(p)'
  <2> SUFFICES ASSUME CopyIsManifestInv(p), [Next]_vars PROVE CopyIsManifestInv(p)'
    OBVIOUS
  <2>1. CASE UNCHANGED vars
    BY <2>1 DEF CommandInv, vars, CopyIsManifestInv, CopyInv, TypeOK, CopyIsTrue
  <2>2. CASE Next
    BY <1>1, <2>2, CopyIsManifestStep DEF Next, Alone
  <2>3. QED
    BY <2>1, <2>2
<1>4. QED
  BY <1>2, <1>3, PTL DEF Spec

LEMMA SoloInvHolds ==
  ASSUME EveryIssueIsSeen, NEW p, Alone(p)
  PROVE  Spec => []SoloInv(p)
<1>1. p \in Planners
  BY DEF Alone
<1>2. Init /\ CopyIsManifestInv(p) => SoloInv(p)
  BY DEF Init, SoloInv
<1>3. SoloInv(p) /\ [Next]_vars /\ CopyIsManifestInv(p)' => SoloInv(p)'
  <2> SUFFICES ASSUME SoloInv(p), [Next]_vars, CopyIsManifestInv(p)' PROVE SoloInv(p)'
    OBVIOUS
  <2>1. CASE UNCHANGED vars
    BY <2>1 DEF vars, SoloInv
  <2>2. CASE Next
    BY <1>1, <2>2, IssuesStayKnown DEF Next, Alone, SoloInv, IssueKnown
  <2>3. QED
    BY <2>1, <2>2
<1>4. QED
  BY <1>2, <1>3, CopyIsManifestInvHolds, PTL DEF Spec

\* What a single planner has written into the bodies is what the manifest says, however
\* often it fails, is interrupted and starts again.
THEOREM OnePlannerTellsTheTruth ==
  ASSUME NEW p, Alone(p)
  PROVE  Spec => []BodiesTellTheTruth
<1>1. CopyIsManifestInv(p) => BodiesTellTheTruth
  BY DEF CopyIsManifestInv, CopyInv, TypeOK, BodiesTellTheTruth
<1>2. QED
  BY <1>1, CopyIsManifestInvHolds, PTL

\* The same planner keeps the issue of every task.
THEOREM OnePlannerKeepsTheMapping ==
  ASSUME NEW p, Alone(p)
  PROVE  Spec => MappingKept
<1>1. CopyIsManifestInv(p) /\ [Next]_vars =>
        [\A t \in Tasks : manifest.mapping[t] # NoIssue =>
           manifest'.mapping[t] = manifest.mapping[t]]_vars
  <2>1. p \in Planners
    BY DEF Alone
  <2>2. QED
    BY <2>1, MappingGrows DEF Next, Alone
<1>2. QED
  BY <1>1, CopyIsManifestInvHolds, PTL DEF Spec, MappingKept

\* If the issues it creates are all seen and recorded, it creates none twice.
THEOREM OnePlannerCreatesOnce ==
  ASSUME EveryIssueIsSeen, NEW p, Alone(p)
  PROVE  Spec => []NoDuplicates
<1>1. SoloInv(p) => NoDuplicates
  <2> SUFFICES ASSUME SoloInv(p), NEW a \in issues, NEW b \in issues, a.task = b.task
               PROVE  a = b
    BY DEF NoDuplicates
  <2>1. /\ p \in Planners /\ CopyIsManifestInv(p)
        /\ a \in [number : Numbers, task : Tasks] /\ b \in [number : Numbers, task : Tasks]
    BY DEF Alone, SoloInv, CopyIsManifestInv, CopyInv, TypeOK
  <2>2. command[p].step = "record" /\ First(a.task, command[p].todo) =>
          manifest.mapping[a.task] = NoIssue
    BY <2>1, FirstIsUnmapped DEF First, Unmapped
  <2>3. a.number = b.number
    BY <2>1, <2>2 DEF SoloInv
  <2>4. QED
    BY <2>1, <2>3
<1>2. QED
  BY <1>1, SoloInvHolds, PTL
=============================================================================
