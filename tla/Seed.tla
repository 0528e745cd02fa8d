-------------------------------- MODULE Seed --------------------------------
(***************************************************************************)
(* Seeding a roadmap: `planner seed --apply` creates a GitHub issue for    *)
(* every task of the manifest, one by one, and writes the whole manifest   *)
(* after each; run again, it goes on with the tasks that have no issue.    *)
(* `planner sync-bodies --apply` then writes the numbers of dependencies   *)
(* into the issue bodies.  Both work on the copy of the manifest they have *)
(* loaded.                                                                 *)
(*                                                                         *)
(* A call to create an issue may be lost, or late: the issue is there, but *)
(* its number is not seen (the call fails, or prints no issue URL).        *)
(***************************************************************************)
EXTENDS Naturals

CONSTANTS
  Tasks,      \* the tasks of the manifest, numbered in its order
  DependsOn,  \* DependsOn[t]: the tasks t depends on
  Numbers,    \* the issue numbers GitHub may give out
  NoIssue,    \* no number
  Planners,   \* the terminals planner commands are run from
  Faults      \* the <<call, outcome>> pairs that may go wrong

ASSUME TasksAssumption == Tasks \subseteq Nat
ASSUME DependsOnAssumption == DependsOn \in [Tasks -> SUBSET Tasks]
ASSUME NoIssueAssumption == NoIssue \notin Numbers

VARIABLES
  issues,    \* the issues that were created: which number for which task
  shown,     \* shown[n][d]: the number that the body of issue n gives for task d
  manifest,  \* the manifest file
  command    \* command[p]: what the command planner p is running remembers

vars == <<issues, shown, manifest, command>>

Mapping == [Tasks -> Numbers \cup {NoIssue}]
Manifest == [status : {"absent", "dry-run", "partial", "applied"}, mapping : Mapping]
Steps == {"idle", "load", "create", "record", "finish", "edit", "save"}
Command == [step : Steps, copy : Manifest, todo : SUBSET Tasks,
            created : Numbers \cup {NoIssue}]

TypeOK ==
  /\ issues \subseteq [number : Numbers, task : Tasks]
  /\ shown \in [Numbers -> Mapping]
  /\ manifest \in Manifest
  /\ command \in [Planners -> Command]

NothingMapped == [t \in Tasks |-> NoIssue]
NoManifest == [status |-> "absent", mapping |-> NothingMapped]
Working(step, copy, todo) ==
  [step |-> step, copy |-> copy, todo |-> todo, created |-> NoIssue]
Idle == Working("idle", NoManifest, {})

Init ==
  /\ issues = {}
  /\ shown = [n \in Numbers |-> NothingMapped]
  /\ manifest = NoManifest
  /\ command = [p \in Planners |-> Idle]

-----------------------------------------------------------------------------
Given(n) == \E issue \in issues : issue.number = n

\* A mutant: the tasks that have an issue already are not passed over.
EveryTask(mapping) == Tasks

Unmapped(mapping) == {t \in Tasks : mapping[t] = NoIssue}

\* There is nothing left to seed.
IsApplied(m) == m.status = "applied" /\ Tasks # {} /\ Unmapped(m.mapping) = {}

\* Two tasks with the same issue are an error of the manifest.
NoIssueShared(mapping) ==
  \A s, t \in Tasks : mapping[s] = mapping[t] /\ mapping[s] # NoIssue => s = t

First(t, todo) == t \in todo /\ \A u \in todo : t <= u

Outcomes(call) ==
  {"ok"} \cup {outcome \in {"lost", "late"} : <<call, outcome>> \in Faults}

Becomes(p, record) == command' = [command EXCEPT ![p] = record]
Finish(p) == Becomes(p, Idle)

-----------------------------------------------------------------------------
(* planner seed --apply *)

\* A mutant: the manifest is prepared afresh each time.
PrepareAfresh(p) ==
  /\ command[p] = Idle
  /\ ~IsApplied(manifest)
  /\ manifest' = [NoManifest EXCEPT !.status = "dry-run"]
  /\ Becomes(p, Working("load", NoManifest, {}))
  /\ UNCHANGED <<issues, shown>>

\* A mutant: a manifest left partial by a failure is refused.
RefusePartial(p) ==
  /\ command[p] = Idle
  /\ manifest.status \notin {"partial", "applied"}
  /\ manifest' = [manifest EXCEPT !.status = "dry-run"]
  /\ Becomes(p, Working("load", NoManifest, {}))
  /\ UNCHANGED <<issues, shown>>

\* A mutant: the status of the preparation is written as that of the manifest.
PrepareReady(p) ==
  /\ command[p] = Idle
  /\ ~IsApplied(manifest)
  /\ manifest' = [manifest EXCEPT !.status = "ready"]
  /\ Becomes(p, Working("load", NoManifest, {}))
  /\ UNCHANGED <<issues, shown>>

\* The manifest is written if there is none, and otherwise used as it is, unless it
\* is inconsistent or all done.
PrepareSeed(p) ==
  /\ command[p] = Idle
  /\ NoIssueShared(manifest.mapping)
  /\ ~IsApplied(manifest)
  /\ manifest' = IF manifest.status = "absent"
                 THEN [NoManifest EXCEPT !.status = "dry-run"] ELSE manifest
  /\ Becomes(p, Working("load", NoManifest, {}))
  /\ UNCHANGED <<issues, shown>>

\* The bodies are written, the labels are looked up, and the manifest is loaded.
LoadManifest(p) ==
  /\ command[p].step = "load"
  /\ IF NoIssueShared(manifest.mapping)
     THEN LET todo == Unmapped(manifest.mapping)
          IN  Becomes(p, Working(IF todo = {} THEN "finish" ELSE "create", manifest, todo))
     ELSE Finish(p)
  /\ UNCHANGED <<issues, shown, manifest>>

\* The next issue is created.  When its number is not seen, the manifest is written
\* as partial, and that is the end.
CreateIssue(p) ==
  /\ command[p].step = "create"
  /\ \E t \in command[p].todo, outcome \in Outcomes("create") :
       /\ First(t, command[p].todo)
       /\ \/ /\ outcome # "lost"
             /\ \E n \in Numbers :
                  /\ ~Given(n)
                  /\ issues' = issues \cup {[number |-> n, task |-> t]}
                  /\ IF outcome = "ok"
                     THEN Becomes(p, [command[p] EXCEPT !.step = "record", !.created = n])
                     ELSE Finish(p)
          \/ outcome = "lost" /\ Finish(p) /\ UNCHANGED issues
       /\ manifest' = IF outcome = "ok" THEN manifest
                      ELSE [command[p].copy EXCEPT !.status = "partial"]
  /\ UNCHANGED shown

\* A mutant: its number goes to the first task without one in the manifest, read anew.
RecordInFile(p) ==
  /\ command[p].step = "record"
  /\ \E t \in Unmapped(manifest.mapping) :
       LET copy == [status  |-> "partial",
                    mapping |-> [manifest.mapping EXCEPT ![t] = command[p].created]]
           todo == Unmapped(copy.mapping)
       IN  /\ First(t, Unmapped(manifest.mapping))
           /\ manifest' = copy
           /\ Becomes(p, Working(IF todo = {} THEN "finish" ELSE "create", copy, todo))
  /\ UNCHANGED <<issues, shown>>

\* Its number is put into the copy of the manifest, and the copy is written.
RecordIssue(p) ==
  /\ command[p].step = "record"
  /\ \E t \in command[p].todo :
       LET copy == [status  |-> "partial",
                    mapping |-> [command[p].copy.mapping EXCEPT ![t] = command[p].created]]
           todo == command[p].todo \ {t}
       IN  /\ First(t, command[p].todo)
           /\ manifest' = copy
           /\ Becomes(p, Working(IF todo = {} THEN "finish" ELSE "create", copy, todo))
  /\ UNCHANGED <<issues, shown>>

\* A mutant: the manifest on disk is declared applied, not the copy.
FinishFile(p) ==
  /\ command[p].step = "finish"
  /\ manifest' = [manifest EXCEPT !.status = "applied"]
  /\ Finish(p)
  /\ UNCHANGED <<issues, shown>>

\* Every task has an issue in the copy, which is written as applied.
FinishSeed(p) ==
  /\ command[p].step = "finish"
  /\ manifest' = [command[p].copy EXCEPT !.status = "applied"]
  /\ Finish(p)
  /\ UNCHANGED <<issues, shown>>

-----------------------------------------------------------------------------
(* planner sync-bodies --apply, for some or all of the tasks *)

\* Only what has an issue can be selected.
StartSync(p) ==
  /\ command[p] = Idle
  /\ manifest.status # "absent"
  /\ \E todo \in SUBSET (Tasks \ Unmapped(manifest.mapping)) :
       /\ todo # {}
       /\ Becomes(p, Working("edit", manifest, todo))
  /\ UNCHANGED <<issues, shown, manifest>>

\* A mutant: a dependency is given the number of the issue itself.
SyncOwnNumber(p) ==
  /\ command[p].step = "edit"
  /\ \E t \in command[p].todo :
       LET number == command[p].copy.mapping[t]
           todo == command[p].todo \ {t}
       IN  /\ First(t, command[p].todo)
           /\ shown' = [shown EXCEPT ![number] =
                [d \in Tasks |-> IF d \in DependsOn[t] THEN number ELSE NoIssue]]
           /\ Becomes(p, [command[p] EXCEPT !.todo = todo,
                            !.step = IF todo = {} THEN "save" ELSE "edit"])
  /\ UNCHANGED <<issues, manifest>>

\* The body of the next issue is written with the numbers the manifest gave for its
\* dependencies; at the first failure that is the end, and the manifest is not written.
SyncBody(p) ==
  /\ command[p].step = "edit"
  /\ \E t \in command[p].todo, outcome \in Outcomes("edit") :
       LET mapping == command[p].copy.mapping
           todo == command[p].todo \ {t}
       IN  /\ First(t, command[p].todo)
           /\ shown' = IF outcome = "lost" THEN shown
                ELSE [shown EXCEPT ![mapping[t]] =
                        [d \in Tasks |-> IF d \in DependsOn[t] THEN mapping[d] ELSE NoIssue]]
           /\ IF outcome # "ok" THEN Finish(p)
              ELSE Becomes(p, [command[p] EXCEPT !.todo = todo,
                                 !.step = IF todo = {} THEN "save" ELSE "edit"])
  /\ UNCHANGED <<issues, manifest>>

\* The copy is written back.
SaveSync(p) ==
  /\ command[p].step = "save"
  /\ manifest' = command[p].copy
  /\ Finish(p)
  /\ UNCHANGED <<issues, shown>>

\* A command is interrupted, or its label preflight fails.  Whether it may also be
\* interrupted between the creation of an issue and the manifest is a fault of its own.
Stop(p) ==
  /\ command[p] # Idle
  /\ <<"process", "stop">> \in Faults
  /\ command[p].step = "record" => <<"record", "stop">> \in Faults
  /\ Finish(p)
  /\ UNCHANGED <<issues, shown, manifest>>

SeedStep(p) ==
  PrepareSeed(p) \/ LoadManifest(p) \/ CreateIssue(p) \/ RecordIssue(p) \/ FinishSeed(p)
SyncStep(p) == StartSync(p) \/ SyncBody(p) \/ SaveSync(p)

Next == \E p \in Planners : SeedStep(p) \/ SyncStep(p) \/ Stop(p)

Spec == Init /\ [][Next]_vars

-----------------------------------------------------------------------------
(* What holds however many commands share the manifest, whatever fails.    *)

\* A task is never mapped to an issue that was created for another one, or to none.
MappedToOwnIssue ==
  \A t \in Tasks : manifest.mapping[t] # NoIssue =>
    [number |-> manifest.mapping[t], task |-> t] \in issues

\* Seeding is only declared applied when every task has an issue; after that no
\* command seeds any more.
AppliedMeansMapped == manifest.status = "applied" => Unmapped(manifest.mapping) = {}

-----------------------------------------------------------------------------
(* What one planner at a time can rely on, whatever fails.                 *)

\* A task keeps the issue it was mapped to.
MappingKept ==
  [][\A t \in Tasks : manifest.mapping[t] # NoIssue =>
       manifest'.mapping[t] = manifest.mapping[t]]_vars

\* A body that names an issue for a dependency names the right one.
BodiesTellTheTruth ==
  \A issue \in issues : \A d \in DependsOn[issue.task] :
    shown[issue.number][d] \in {NoIssue, manifest.mapping[d]}

-----------------------------------------------------------------------------
(* And if the number of every issue that is created is seen and recorded.  *)

\* Seeding again and again after failures creates no issue twice.
NoDuplicates ==
  \A a, b \in issues : a.task = b.task => a = b

-----------------------------------------------------------------------------
(* The inductive invariants. *)

CopyIsTrue(copy) ==
  /\ \A t \in Tasks : copy.mapping[t] # NoIssue =>
       [number |-> copy.mapping[t], task |-> t] \in issues
  /\ copy.status = "applied" => Unmapped(copy.mapping) = {}
  /\ copy.status = "absent" => copy.mapping = NothingMapped

\* A command has something to create as long as it creates, and nothing left when it
\* declares the seeding applied.
CommandInv(p) ==
  /\ CopyIsTrue(command[p].copy)
  /\ command[p].step \in {"create", "record", "finish"} =>
       Unmapped(command[p].copy.mapping) = command[p].todo
  /\ command[p].step = "finish" => command[p].todo = {}
  /\ command[p].step = "record" =>
       \A t \in Tasks : First(t, command[p].todo) =>
         [number |-> command[p].created, task |-> t] \in issues

\* Every copy of the manifest, on disk or in a command, is true to the issues.
CopyInv ==
  /\ TypeOK
  /\ CopyIsTrue(manifest)
  /\ \A p \in Planners : CommandInv(p)

\* With p as the only planner: its copy is the manifest, and so is what the bodies say.
CopyIsManifestInv(p) ==
  /\ CopyInv
  /\ command[p].step \notin {"idle", "load"} => command[p].copy.mapping = manifest.mapping
  /\ \A n \in Numbers, d \in Tasks : shown[n][d] \in {NoIssue, manifest.mapping[d]}

\* When its created issues are all seen and recorded as well: only the issue it is about
\* to record is not in the manifest.
SoloInv(p) ==
  /\ CopyIsManifestInv(p)
  /\ \A issue \in issues :
       \/ manifest.mapping[issue.task] = issue.number
       \/ /\ command[p].step = "record"
          /\ issue.number = command[p].created
          /\ First(issue.task, command[p].todo)

-----------------------------------------------------------------------------
(* Liveness: a seeding that is not applied is run again and again, and no  *)
(* step of it is for ever interrupted before it or fails.                  *)

Created(p, t) == CreateIssue(p) /\ First(t, command[p].todo) /\ command'[p].step = "record"

FairSpec ==
  /\ Spec
  /\ \A p \in Planners :
       /\ WF_vars(command[p] # Idle /\ (SeedStep(p) \/ SyncStep(p) \/ Stop(p)))
       /\ SF_vars(PrepareSeed(p)) /\ SF_vars(LoadManifest(p)) /\ SF_vars(FinishSeed(p))
       /\ \A t \in Tasks : SF_vars(Created(p, t))

\* Every task gets its issue in the end.
SeedingCompletes == <>[](manifest.status = "applied")
=============================================================================
