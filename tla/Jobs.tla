-------------------------------- MODULE Jobs --------------------------------
(***************************************************************************)
(* The commands of Signposter that leave the labels alone: they create and *)
(* remove worktrees, execute agents, review and merge pull requests.  Like *)
(* the commands of IssueWorkflow each is a short process that reads, plans *)
(* and then acts in several calls, with nothing locked.  An operator runs  *)
(* one command at a time, of either sort.                                  *)
(***************************************************************************)
EXTENDS Planning

CONSTANTS
  Tasks,      \* the jobs that are used
  Manual,     \* those of them that operators start themselves, and not only their loops
  MaxCycles,  \* how many jobs and commands a loop runs, 0 when nobody starts one
  MaxCommits  \* how many commits the branch of an issue may see, the base being the first

JobNames == {"create worktree", "cleanup", "sync", "write prompt", "execute",
             "write summary", "review", "write review", "approve", "merge",
             "merge by hand"}
JobSteps == {"idle", "add", "remove", "branch", "agent", "raw", "summary", "attempt",
             "record attempt", "bug", "record bug", "checks", "gate", "call"}

\* What an execution comes to: the text it leaves and how it exits.  good: exits with 0
\* and shows what the gate wants; vague: exits with 0 and does not; failed: exits with
\* another code or times out, and does not; broken: the same, but shows it; unsafe: fails
\* with a text that names a provider failure.
Results == {"good", "vague", "failed", "broken", "unsafe"}
Failures == {"failed", "broken", "unsafe"}

\* What a review comes to.
Verdicts == {"approve", "changes"}

ASSUME TasksAssumption == Tasks \subseteq JobNames /\ Manual \subseteq JobNames
ASSUME MaxCyclesAssumption == MaxCycles \in Nat
ASSUME MaxCommitsAssumption == MaxCommits \in Nat \ {0}

VARIABLES
  job,   \* job[p]: what the job operator p is running remembers
  exit   \* exit[p]: how the last one ended

jobs == <<job, exit>>

Job ==
  [name : JobNames \cup {"none"},
   step : JobSteps,
   of : SUBSET Issues,                            \* the issue it is about
   found : Results \cup Verdicts \cup {"nothing"},  \* what the agent has come to
   copy : [Issues -> Nat]]                        \* the file it has read, or the commit

JobTypeOK ==
  /\ job \in [Operators -> Job]
  /\ exit \in [Operators -> {"applied", "failed"}]

NothingCopied == [i \in Issues |-> 0]

NoJob ==
  [name |-> "none", step |-> "idle", of |-> {}, found |-> "nothing",
   copy |-> NothingCopied]

JobInit ==
  /\ job = [p \in Operators |-> NoJob]
  /\ exit = [p \in Operators |-> "applied"]

MayTake(p, name) == name \in Tasks /\ job[p] = NoJob /\ command[p] = NoCommand

At(p, name, step) == job[p].name = name /\ job[p].step = step

Take(p, name, step, i) ==
  /\ job' = [job EXCEPT ![p] =
       [name |-> name, step |-> step, of |-> {i}, found |-> "nothing",
        copy |-> NothingCopied]]
  /\ exit' = [exit EXCEPT ![p] = "applied"]

Proceed(p, step) ==
  /\ job' = [job EXCEPT ![p].step = step]
  /\ UNCHANGED exit

\* It goes on at `step` with the file it has read.
Reading(p, step, file) ==
  /\ job' = [job EXCEPT ![p].step = step, ![p].copy = file]
  /\ UNCHANGED exit

\* It goes on at `step` with what the agent has come to.
Finding(p, step, found) ==
  /\ job' = [job EXCEPT ![p].step = step, ![p].found = found]
  /\ UNCHANGED exit

\* How a job has ended is of no interest to anybody but a loop.
EndJob(p, how) ==
  /\ job' = [job EXCEPT ![p] = NoJob]
  /\ exit' = [exit EXCEPT ![p] = IF MaxCycles > 0 THEN how ELSE "applied"]

\* A command of a single step.
Done(p) ==
  /\ exit' = [exit EXCEPT ![p] = "applied"]
  /\ UNCHANGED job

IssueWorkflowUnchanged == UNCHANGED <<labels, issueState, pr, summary, noopGate, command,
                                      manifest>>
=============================================================================
