---------------------------- MODULE SnapshotRead -----------------------------
(* One request of a snapshot and what its answer means: which answers the client
   asks again (src/github/api.ts), what an error is taken for
   (src/github/api-error.ts, src/sections/contract/errors.ts), and what a
   section's read makes of it (src/sections/contract/requests.ts).

   An answer is a status, 0 where the transport gave none, the seconds GitHub
   asks the client to wait (a rate limit, whatever status carries it), and
   whether the body has the documented shape.                                 *)
EXTENDS Naturals, Sequences, SequencesExt

CONSTANTS
  NoWait,         \* the answer names no time to wait
  MaxRetries,     \* MAX_RETRIES
  MaxRetryWait    \* MAX_RETRY_WAIT_S

ASSUME ReadAssumption == NoWait \notin Nat /\ MaxRetries \in Nat /\ MaxRetryWait \in Nat

Answer(status) == [status |-> status, wait |-> NoWait, whole |-> TRUE]
Limited(seconds) == [Answer(403) EXCEPT !.wait = seconds]

(* The faults GitHub or the transport answers a request with. *)
FaultKinds == {"near", "far", "server", "conflict", "lost", "shape"}
Fault(kind) ==
  CASE kind = "near"     -> Limited(MaxRetryWait)
    [] kind = "far"      -> Limited(MaxRetryWait + 1)
    [] kind = "server"   -> Answer(500)
    [] kind = "conflict" -> Answer(409)
    [] kind = "lost"     -> Answer(0)
    [] kind = "shape"    -> [Answer(200) EXCEPT !.whole = FALSE]

(* The throttling and the retry plugin count their attempts apart; a failure of
   the transport reaches the retry plugin as a server error does.            *)
Fresh == [limited |-> 0, server |-> 0]
IsLimited(answer) == answer.wait # NoWait
WaitsOut(answer, tries) ==
  IsLimited(answer) /\ answer.wait <= MaxRetryWait /\ tries.limited < MaxRetries
AsksAgain(answer, tries) ==
  (answer.status >= 500 \/ answer.status = 0) /\ tries.server < MaxRetries
Retried(answer, tries) == WaitsOut(answer, tries) \/ AsksAgain(answer, tries)
Counted(answer, tries) ==
  IF IsLimited(answer) THEN [tries EXCEPT !.limited = @ + 1] ELSE [tries EXCEPT !.server = @ + 1]

(* classifyApiError, and the failure of a section it becomes. *)
Class(answer) ==
  IF IsLimited(answer) THEN "rate-limit"
  ELSE IF answer.status \in {403, 404} THEN "permission" ELSE "other"
FailureFor(answer) ==
  CASE Class(answer) = "rate-limit"  -> "rate-limit"
    [] Class(answer) = "permission"  -> "permission-denied"
    [] answer.status = 0             -> "transport"
    [] answer.status = 200           -> "malformed"
    [] answer.status >= 500          -> "server-error"
    [] OTHER                         -> "validation"

Answered(answer) == answer.status = 200 /\ answer.whole
(* A probe tolerates the 404 it declares; a rate limit is tolerated nowhere. *)
ReadsAbsent(answer) == answer.status = 404 /\ Class(answer) # "rate-limit"

(* The walk of a list: a page that failed is the whole answer, and so is a 409,
   which the paginate plugin alone would take for the end of the list.        *)
EndsWalkOnConflict(answer, more) == answer.status = 409 \/ (Answered(answer) /\ ~ more)
EndsWalk(answer, more) == Answered(answer) /\ ~ more

(* A denial skips the section under warn and fails it under fail; anything else
   fails it.  The denial of one read behind a grant of its own is a note.     *)
FailedRow(failure, policy) ==
  IF failure = "permission-denied" /\ policy = "warn" THEN "skipped" ELSE "failed"
NotesDenial(answer, policy) == FailureFor(answer) = "permission-denied" /\ policy = "warn"
=============================================================================
