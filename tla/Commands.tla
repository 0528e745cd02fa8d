------------------------------ MODULE Commands ------------------------------
(***************************************************************************)
(* The short-lived processes of Signposter.  Every command of the CLI that *)
(* mutates GitHub first reads what it needs, decides, and then issues its  *)
(* `gh` mutations one by one; nothing is locked and nothing is persisted   *)
(* between the steps, so a record per operator holds everything a running  *)
(* command remembers.                                                      *)
(***************************************************************************)
EXTENDS Evidence

CONSTANTS
  Operators,  \* the terminals (people, scripts, loops) commands are run from
  Used        \* the commands these operators use

CommandNames == {"claim", "run", "release", "complete", "fail", "integrate",
                 "integrate noop", "advance", "clear", "recover"}
Steps == {"idle", "read", "check", "gate", "edit", "close", "archive", "rewrite",
          "reopen"}

\* What a planner command has seen of a task: its state label, or else whether its
\* issue is open; nothing yet; or that it could not be read.
Sightings == StateLabels \cup {"open", "closed", "unknown", "stale"}

ASSUME UsedAssumption == Used \subseteq CommandNames

VARIABLE
  command   \* command[p]: what the command operator p is running remembers

Command ==
  [name : CommandNames \cup {"none"},
   step : Steps,            \* the next thing it does
   todo : SUBSET Issues,    \* the issues it still has to go through
   picked : SUBSET Issues,  \* the ones it has selected so far
   gates : SUBSET GateLabels,  \* the gate labels its plan has read
   seen : [Issues -> Sightings]]  \* the tasks as it has read them

CommandTypeOK == command \in [Operators -> Command]

NothingSeen == [i \in Issues |-> "unknown"]

NoCommand ==
  [name |-> "none", step |-> "idle", todo |-> {}, picked |-> {}, gates |-> {},
   seen |-> NothingSeen]

MayStart(p, name) == name \in Used /\ command[p] = NoCommand

Running(p, names, step) == command[p].name \in names /\ command[p].step = step

Start(p, name, step, todo) ==
  command' = [command EXCEPT ![p] =
    [name |-> name, step |-> step, todo |-> todo, picked |-> {}, gates |-> {},
     seen |-> NothingSeen]]

GoTo(p, step) == command' = [command EXCEPT ![p].step = step]

Finish(p) == command' = [command EXCEPT ![p] = NoCommand]

\* The command is done with issue i: it goes on at `step` with the rest of its
\* issues if it has any left.
Advance(p, i, step) ==
  IF command[p].todo = {i}
  THEN Finish(p)
  ELSE command' = [command EXCEPT ![p].todo = @ \ {i}, ![p].step = step]

\* Issues are gone through by number.
First(i, todo) == i \in todo /\ \A j \in todo : i <= j

(***************************************************************************)
(* A running command may stop between two of its steps: it is interrupted, *)
(* a read or the label preflight before the next mutation fails, or an     *)
(* exception ends it.  Nothing it remembers survives.                      *)
(***************************************************************************)
Stop(p) ==
  /\ <<"process", "stop">> \in Faults
  /\ command[p] # NoCommand
  /\ Finish(p)
  /\ UNCHANGED <<tracker, evidence>>
=============================================================================
