-------------------------- MODULE FixVerification --------------------------
(***************************************************************************)
(* fix_verification/: a patch that a model proposed for a finding is       *)
(* applied to a temporary copy of the target, where the re-tests run one   *)
(* after the other; the verdict says whether the fix is verified.          *)
(*                                                                         *)
(* A process (git, a re-test) passes, fails, times out, or cannot be       *)
(* started ("error"), always in a session of its own.                      *)
(***************************************************************************)
EXTENDS Naturals, Sequences

CONSTANTS
    PatchFiles,     \* files of the target
    FoundIn,        \* the file of the finding
    MaxChecks       \* bound on the number of re-tests

ASSUME FixFiles == FoundIn \in PatchFiles /\ MaxChecks \in Nat

VARIABLES
    fixStage,   \* where verify is
    patch,      \* the diff: the files it names, and those it touches
    checks,     \* the re-tests, in order
    results,    \* status of the re-tests that ran
    copy,       \* the temporary copy: "none", "clean", "patched", "partial"
    applied,    \* PatchApplicationResult.status
    verdict

fixVars == <<fixStage, patch, checks, results, copy, applied, verdict>>

Process == {"passed", "failed", "timed_out", "error"}

\* blocked: _check_argv_error refuses the command.
Checks == [kind : {"static", "runtime"}, blocked : BOOLEAN]

\* names: the files of the +++ lines, /dev/null left out.
\* touches: the files git apply changes.  Neither contains the other: a
\* deletion, a rename, a copy, a change of mode, a binary patch and an empty
\* new file need no +++ line, and a path without the prefix b/ is taken
\* whole from the line, while git apply strips its first component.
Patches == [names : SUBSET PatchFiles, touches : SUBSET PatchFiles]

NoPatch == [names |-> {}, touches |-> {}]

FixTypeOK ==
    /\ fixStage \in {"request", "scope", "copy", "try", "apply", "test", "judge", "done", "raised"}
    /\ patch \in Patches
    /\ checks \in Seq(Checks)
    /\ results \in Seq(Process)
    /\ copy \in {"none", "clean", "patched", "partial"}
    /\ applied \in {"none", "rejected", "error", "applied"}
    /\ verdict \in {"none", "verified", "not_verified", "inconclusive"}

FixInit ==
    /\ fixStage = "request"
    /\ patch = NoPatch
    /\ checks = <<>>
    /\ results = <<>>
    /\ copy = "none"
    /\ applied = "none"
    /\ verdict = "none"

---------------------------------------------------------------------------
\* propose and the conditions of verify

\* Only for a confirmed finding, for this finding, and not empty.
Request(confirmed, same, p) ==
    /\ fixStage = "request"
    /\ patch' = p
    /\ fixStage' = IF confirmed /\ same /\ p # NoPatch THEN "scope" ELSE "raised"
    /\ checks' \in UNION {[1 .. n -> Checks] : n \in 0 .. MaxChecks}
    /\ UNCHANGED <<results, copy, applied, verdict>>

\* _patch_scope_error looks at the +++ lines alone.
ScopeError(p) == p.names # {FoundIn}

CheckScope ==
    /\ fixStage = "scope"
    /\ IF ScopeError(patch) THEN applied' = "rejected" /\ fixStage' = "judge"
                            ELSE fixStage' = "copy" /\ UNCHANGED applied
    /\ UNCHANGED <<patch, checks, results, copy, verdict>>

---------------------------------------------------------------------------
\* The temporary copy

CopyTarget ==
    /\ fixStage = "copy"
    /\ \/ copy' = "clean" /\ fixStage' = "try"
       \/ copy' = "none" /\ fixStage' = "raised"    \* copytree raises
    /\ UNCHANGED <<patch, checks, results, applied, verdict>>

\* git apply --check: it also rejects what it could not try.
TryPatch ==
    /\ fixStage = "try"
    /\ \E o \in Process :
          IF o = "passed" THEN fixStage' = "apply" /\ UNCHANGED <<applied, copy>>
                          ELSE applied' = "rejected" /\ copy' = "none" /\ fixStage' = "judge"
    /\ UNCHANGED <<patch, checks, results, verdict>>

\* A git apply that is stopped may have written a part.
ApplyPatch ==
    /\ fixStage = "apply"
    /\ \E o \in Process :
          IF o = "passed"
          THEN applied' = "applied" /\ copy' = "patched" /\ fixStage' = "test"
          ELSE applied' = "error" /\ copy' = "none" /\ fixStage' = "judge"
    /\ UNCHANGED <<patch, checks, results, verdict>>

RunCheck ==
    /\ fixStage = "test"
    /\ Len(results) < Len(checks)
    /\ \E o \in IF checks[Len(results) + 1].blocked THEN {"error"} ELSE Process :
          results' = Append(results, o)
    /\ UNCHANGED <<fixStage, patch, checks, copy, applied, verdict>>

\* The end of the with statement removes the copy.
RemoveCopy ==
    /\ fixStage = "test"
    /\ Len(results) = Len(checks)
    /\ copy' = "none"
    /\ fixStage' = "judge"
    /\ UNCHANGED <<patch, checks, results, applied, verdict>>

---------------------------------------------------------------------------
\* _fix_verdict

Ended(status) == \E i \in DOMAIN results : results[i] = status

KindsTested == {checks[i].kind : i \in DOMAIN results}

\* Mutant: a re-test that did not complete is not counted.
FixVerdictOfCompleted ==
    IF applied # "applied" \/ Ended("failed") THEN "not_verified"
    ELSE IF checks = <<>> \/ KindsTested # {"static", "runtime"} THEN "inconclusive"
    ELSE "verified"

FixVerdict ==
    IF applied # "applied" THEN "not_verified"
    ELSE IF checks = <<>> \/ Ended("error") \/ Ended("timed_out") THEN "inconclusive"
    ELSE IF Ended("failed") THEN "not_verified"
    ELSE IF KindsTested # {"static", "runtime"} THEN "inconclusive"
    ELSE "verified"

Judge ==
    /\ fixStage = "judge"
    /\ verdict' = FixVerdict
    /\ fixStage' = "done"
    /\ UNCHANGED <<patch, checks, results, copy, applied>>

FixStep == CheckScope \/ CopyTarget \/ TryPatch \/ ApplyPatch \/ RunCheck \/ RemoveCopy \/ Judge

FixCall == \E confirmed, same \in BOOLEAN, p \in Patches : Request(confirmed, same, p)

FixNext == FixCall \/ FixStep

FixSpec == FixInit /\ [][FixNext]_fixVars

---------------------------------------------------------------------------
\* Properties

\* A fix is verified only after git apply, on a diff whose +++ lines name the
\* file of the finding alone, and when every re-test that was asked for
\* passed, a static and a runtime one among them; and whatever happened, the
\* copy is gone.  Nothing is said of patch.touches: the scope does not bound
\* what the patch changes.
VerifiedIsEarned ==
    /\ fixStage \in {"judge", "done", "raised"} => copy = "none"
    /\ verdict = "verified" =>
          /\ applied = "applied"
          /\ patch.names = {FoundIn}
          /\ Len(results) = Len(checks)
          /\ \A i \in DOMAIN results : results[i] = "passed" /\ ~checks[i].blocked
          /\ {"static", "runtime"} = {checks[i].kind : i \in DOMAIN checks}
===========================================================================
