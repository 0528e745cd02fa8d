-------------------------------- MODULE Gates --------------------------------
(***************************************************************************)
(* What Signposter makes of the text of an artifact.  A text is the set of *)
(* signs it bears, each of which stands for the phrases, lines or headings *)
(* the code looks for.  Nothing here changes anything.                     *)
(***************************************************************************)
EXTENDS Integers

\* What speaks for the work: fields of the summary, what it says was changed and tried,
\* what it says was left alone, and the turns of phrase the gates take for success.
Assurances ==
  {"exit 0", "clean", "complete", "accepted", "sections", "files", "code", "tests",
   "docs only", "docs fields", "no change", "checks", "smoke", "untouched", "in scope",
   "worker phrases", "reviewer phrases", "approval"}

\* What speaks against it: a provider that failed, an exception, an error or a failure
\* that is not just talked about, a finding, a refusal, and work that is not finished.
Objections == {"failover", "traceback", "failure", "finding", "refusal", "incomplete"}

\* A mutant: a code that is no number counts as one of a failure.
UnreadCode(text) == 1

\* "Non-zero exit code": the code is looked for in the text of the summary, and what is
\* behind the colon of "**Exit Code:** 1" is "** 1", which is no number.  It stays 0.
ExitCodeRead(text) == 0

Failover(text) == "failover" \in text
Traceback(text) == "traceback" \in text

\* A failure that is reported, and not one that is quoted, or tested for.
Failure(text) == "failure" \in text
Disqualified(text) == Failure(text) \/ "incomplete" \in text

(***************************************************************************)
(* The worker's summary and gate:ci.                                       *)
(***************************************************************************)
DocsFieldsMissing(text) == "docs only" \in text /\ "docs fields" \notin text

\* The fields a worker summary must have, wherever in it they are.
HasWorkerFields(text) ==
  /\ {"exit 0", "clean", "complete", "accepted", "sections", "files", "checks",
      "untouched", "in scope"} \subseteq text
  /\ ~DocsFieldsMissing(text)

Core == {"exit 0", "clean", "complete", "accepted"}

ScopedCode(text) ==
  /\ ~Disqualified(text) /\ ~Traceback(text)
  /\ Core \cup {"files", "checks", "in scope", "code", "tests", "untouched"} \subseteq text

ScopedTests(text) ==
  /\ ~Disqualified(text) /\ ~Traceback(text)
  /\ Core \cup {"files", "checks", "tests", "untouched", "in scope"} \subseteq text
  /\ "code" \notin text

ValidatedNoop(text) ==
  /\ ~Disqualified(text) /\ ~Traceback(text)
  /\ Core \cup {"checks", "smoke", "no change", "untouched", "in scope"} \subseteq text

ScopedDocs(text) ==
  "incomplete" \notin text /\ {"docs only", "clean", "files"} \subseteq text

\* Three phrases of success are enough, whatever else is missing.
CiGatePasses(text) ==
  /\ ExitCodeRead(text) = 0
  /\ ~Failover(text) /\ ~Traceback(text) /\ ~Failure(text)
  /\ \/ "worker phrases" \in text
     \/ ScopedDocs(text) \/ ScopedCode(text) \/ ScopedTests(text) \/ ValidatedNoop(text)

(***************************************************************************)
(* gate:review and gate:human.                                             *)
(***************************************************************************)
ReviewGatePhrases(text) ==
  ExitCodeRead(text) = 0 /\ "finding" \notin text /\ "reviewer phrases" \in text

\* A person has approved in so many words, has seen to scope and checks, and says what
\* was not touched.
HumanApproved(text) == "approval" \in text
ScopeReviewed(text) == "in scope" \in text
ChecksRecorded(text) == "checks" \in text
SafetyRecorded(text) == "untouched" \in text

HumanGatePasses(text) ==
  /\ ExitCodeRead(text) = 0
  /\ "refusal" \notin text
  /\ HumanApproved(text) /\ ScopeReviewed(text)
  /\ ChecksRecorded(text) /\ SafetyRecorded(text)

(***************************************************************************)
(* The summary of a review of a pull request.                              *)
(***************************************************************************)
Answers ==
  {"approve", "confident", "low risk", "scope matches", "CI considered",
   "merge recommended", "automerge answered"}

OpinionSafe(text) == ~Failover(text)

OpinionPasses(text) == OpinionSafe(text) /\ Answers \subseteq text

(***************************************************************************)
(* How an execution has ended, from its exit code and its output.          *)
(***************************************************************************)
\* The status is the first that fits.
ExecutionStatus(ended, text) ==
  CASE ended = "timed out"       -> "timeout"
    [] ended = "exited with 0"   -> "success"
    [] "credentials" \in text    -> "auth-provider-failure"
    [] "model" \in text          -> "unsupported-model"
    [] Failover(text)            -> "failover-or-stale-runtime"
    [] "idle" \in text           -> "runtime-stall"
    [] "drift" \in text          -> "config-drift"
    [] OTHER                     -> "runtime-error"

\* The CI run of a commit on the branch that was merged into, the newest one only.
MainCi(run) ==
  CASE run = "success" -> "pass"
    [] run \in {"failure", "cancelled", "timed out", "action required"} -> "failing"
    [] run \in {"queued", "in progress"} -> "pending"
    [] OTHER -> "unknown"

\* All the checks of a pull request at once.
PullRequestCi(checks) ==
  CASE "failing" \in checks -> "failing"
    [] "pending" \in checks -> "pending"
    [] "success" \in checks -> "pass"
    [] OTHER                -> "unknown"

\* On another branch than main the checks of the pull request will do when there is no run.
IntegrationCi(base, run, checks) ==
  IF base # "main" /\ MainCi(run) = "unknown" /\ PullRequestCi(checks) = "pass"
  THEN "pass" ELSE MainCi(run)

\* The statuses that count as failures of a delegation.
FailureStatuses ==
  {"auth-provider-failure", "config-drift", "failover-or-stale-runtime", "runtime-error",
   "runtime-stall", "timeout", "unsupported-model"}

\* Those of them that are entered in the bug ledger.
RuntimeBugStatuses ==
  FailureStatuses \ {"auth-provider-failure", "config-drift"}
=============================================================================
