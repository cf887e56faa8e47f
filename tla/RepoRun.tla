------------------------------ MODULE RepoRun ------------------------------
(***************************************************************************)
(* One repository's run: runForRepo() of src/engine/orchestrate.ts with    *)
(* executePlan() of src/engine/execute.ts and the client's retries.  The   *)
(* run probes every active section (strict policy), resolves and masks the *)
(* secrets, then plans and executes the sections in their fixed order.     *)
(* GitHub is shared with others, who may edit it or change the token's     *)
(* grants between any two requests; answers may be lost or be errors.      *)
(*                                                                         *)
(* A section's declared content is a set of items; a plan is the items     *)
(* whose live state differs, one operation each.  Which order a section    *)
(* puts its operations in is the section's business (see ListSection), so  *)
(* here any order is possible.                                             *)
(***************************************************************************)
EXTENDS Integers, FiniteSets

CONSTANTS
  N,            \* SECTIONS is 1..N, in the order the engine walks it
  Items,        \* the units of declared state a plan compares and writes
  SectionOf,    \* the section an item belongs to
  KindOf,       \* what the operation on an item is, see Kinds
  Tolerant,     \* the items whose operation declares `tolerate`
  Options,      \* the run options an operator may choose
  MaxRetries,   \* MAX_RETRIES of the client
  MaxEdits,     \* bound: outside edits of the repository or of the grants
  MaxFaults     \* bound: faults of the API

NoItem == "no item"

Sections == 1..N

(* create and remove answer 422 and 404 when the item already is as
   declared; put does not mind.  resend is a sealed secret, written on every
   run and never drift.  report is drift no operation can mend.            *)
Kinds == {"create", "put", "remove", "resend", "report"}

OptionSpace ==
  [mode : {"check", "apply"}, policy : {"fail", "warn"},
   declared : SUBSET Sections, only : SUBSET Sections, required : SUBSET Sections,
   secrets : SUBSET Sections, env : SUBSET Sections]

ASSUME NAssumption == N \in Nat

ASSUME ItemsAssumption ==
  /\ SectionOf \in [Items -> Sections]
  /\ KindOf \in [Items -> Kinds]
  /\ Tolerant \subseteq Items
  /\ NoItem \notin Items

ASSUME OptionsAssumption == Options \subseteq OptionSpace

ASSUME BoundsAssumption == MaxRetries \in Nat /\ MaxEdits \in Nat /\ MaxFaults \in Nat

VARIABLES
  opts,     \* the options of the current or last run
  live,     \* GitHub: the items whose live state is the declared one
  grant,    \* GitHub: what the token may do in each section
  pc,       \* where the run is
  cur,      \* the section being probed, planned or executed
  denied,   \* preflightProbe()'s list: the sections whose read was denied
  masked,   \* the sections whose plaintexts were masked and may be resolved
  todo,     \* the current plan's operations not yet begun
  op,       \* the operation whose request is in flight
  tries,    \* the retries the client has made of it
  landed,   \* executePlan()'s count of landed requests
  changes,  \* executePlan() has a change line to show
  notes,    \* the section has a note to show
  rows,     \* the outcome rows
  result    \* the result word, "none" before the run ends

(* History, never read by the modelled code. *)
VARIABLES
  wrote,    \* the items this run changed on GitHub
  lost,     \* of them, those whose answers never arrived
  differed, \* the items this run's plans found different from the declaration
  noted,    \* the items whose operation a tolerated answer ended
  stale,    \* the items an outsider edited after this run planned them
  blind,    \* the sections whose preflight read failed without being denied
  moved,    \* whether a grant changed since the run began
  edits,    \* outside edits so far
  faults    \* API faults so far

program == <<opts, pc, cur, denied, masked, todo, op, tries, landed, changes, notes, rows, result>>
history == <<wrote, lost, differed, noted, stale, blind, moved, edits, faults>>
vars == <<program, live, grant, history>>

-----------------------------------------------------------------------------

Statuses == {"none", "excluded", "skipped", "failed", "clean", "drift", "applied"}

(* What a row's detail tells: nothing the operator should know of a write, that
   requests landed before a failure, change lines, notes, or that no changes
   were needed.                                                            *)
Details == {"quiet", "partially applied", "changes", "notes", "no changes needed"}

RowSpace == [status : Statuses, detail : Details]

Row(status, detail) == [status |-> status, detail |-> detail]
NoRow == Row("none", "quiet")

Active(o) == {s \in o.declared : o.only = {} \/ s \in o.only}

(* collectSecretReferences() over the active sections. *)
References == Active(opts) \cap opts.secrets

ItemsOf(s) == {i \in Items : SectionOf[i] = s}

(* The drift a plan reports: a re-sent secret has none. *)
DriftIn(s) == {i \in ItemsOf(s) : i \notin live /\ KindOf[i] # "resend"}

(* A plan's operations: one per drift something can mend, and every sealed
   secret of the section, whose live value nobody can read.                *)
OpsOfEverything(s) == {i \in ItemsOf(s) : KindOf[i] # "report"}
OpsOfIntolerant(s) == {i \in DriftIn(s) : KindOf[i] # "report"} \ Tolerant
OpsOf(s) == {i \in DriftIn(s) : KindOf[i] # "report"}
              \cup {i \in ItemsOf(s) : KindOf[i] = "resend" /\ s \in opts.secrets}

TypeOK ==
  /\ opts \in OptionSpace
  /\ live \subseteq Items
  /\ grant \in [Sections -> {"none", "read", "write"}]
  /\ pc \in {"preflight", "resolve", "loop", "exec", "done"}
  /\ cur \in 1..(N + 1) /\ (pc = "exec" => cur \in Sections)
  /\ denied \subseteq Sections /\ masked \subseteq Sections
  /\ todo \subseteq Items
  /\ op \in Items \cup {NoItem}
  /\ tries \in 0..MaxRetries
  /\ landed \in Nat
  /\ changes \in BOOLEAN /\ notes \in BOOLEAN
  /\ rows \in [Sections -> RowSpace]
  /\ result \in {"none", "failed", "drift", "partial", "clean", "applied"}
  /\ wrote \subseteq Items /\ lost \subseteq Items /\ differed \subseteq Items
  /\ noted \subseteq Items /\ stale \subseteq Items
  /\ blind \subseteq Sections /\ moved \in BOOLEAN
  /\ edits \in 0..MaxEdits /\ faults \in 0..MaxFaults

-----------------------------------------------------------------------------
(* Starting a run.  Nothing of an earlier run is left: the action is       *)
(* stateless, and a re-run reads everything again.                         *)

FirstPhase(o) ==
  IF o.mode = "check" THEN "loop"
  ELSE IF o.policy = "fail" THEN "preflight" ELSE "resolve"

Init ==
  /\ opts \in Options
  /\ live \in SUBSET Items
  /\ grant \in [Sections -> {"none", "read", "write"}]
  /\ pc = "done" /\ cur = 1 /\ result = "none"
  /\ denied = {} /\ masked = {} /\ todo = {} /\ op = NoItem /\ tries = 0
  /\ landed = 0 /\ changes = FALSE /\ notes = FALSE
  /\ rows = [s \in Sections |-> NoRow]
  /\ wrote = {} /\ lost = {} /\ differed = {} /\ noted = {} /\ stale = {}
  /\ blind = {} /\ moved = FALSE /\ edits = 0 /\ faults = 0

StartRun ==
  /\ pc = "done"
  /\ \E o \in Options : opts' = o /\ pc' = FirstPhase(o)
  /\ cur' = 1 /\ result' = "none" /\ denied' = {} /\ masked' = {}
  /\ rows' = [s \in Sections |-> NoRow]
  /\ wrote' = {} /\ lost' = {} /\ differed' = {} /\ noted' = {} /\ stale' = {}
  /\ blind' = {} /\ moved' = FALSE
  /\ UNCHANGED <<live, grant, todo, op, tries, landed, changes, notes, edits, faults>>

-----------------------------------------------------------------------------
(* Preflight: planning is the read-only probe. *)

executing == <<todo, op, tries, landed, changes, notes>>
effects == <<wrote, lost, noted>>

(* A probe that fails without being denied counts as readable: the section
   loop will surface the failure.                                          *)
ProbeSection ==
  /\ pc = "preflight" /\ cur <= N
  /\ denied' = IF cur \in Active(opts) /\ grant[cur] = "none" THEN denied \cup {cur} ELSE denied
  /\ cur' = cur + 1
  /\ UNCHANGED <<opts, live, grant, pc, masked, executing, rows, result, history>>

ProbeFails ==
  /\ pc = "preflight" /\ cur <= N /\ cur \in Active(opts)
  /\ faults < MaxFaults /\ faults' = faults + 1
  /\ blind' = blind \cup {cur}
  /\ cur' = cur + 1
  /\ UNCHANGED <<opts, live, grant, pc, denied, masked, executing, rows, result,
                 effects, differed, stale, moved, edits>>

BarrierOpenToAny == Active(opts) \ denied # {} \/ denied = {}
BarrierOpen == denied = {}

ConcludePreflight ==
  /\ pc = "preflight" /\ cur = N + 1
  /\ IF BarrierOpen THEN pc' = "resolve" /\ cur' = 1 /\ UNCHANGED result
                    ELSE pc' = "done" /\ result' = "failed" /\ UNCHANGED cur
  /\ UNCHANGED <<opts, live, grant, denied, masked, executing, rows, history>>

-----------------------------------------------------------------------------
(* resolveTools(): every reference of every active section, or nothing.    *)

UnresolvedIfNoneResolves == IF References \cap opts.env = {} THEN References ELSE {}
Unresolved == References \ opts.env

ResolveSecrets ==
  /\ pc = "resolve"
  /\ IF Unresolved = {}
     THEN /\ masked' = References \cap opts.env
          /\ pc' = "loop"
          /\ UNCHANGED <<rows, result>>
     ELSE /\ rows' = [s \in Sections |-> IF s \in Unresolved THEN Row("failed", "quiet") ELSE NoRow]
          /\ result' = "failed"
          /\ pc' = "done"
          /\ UNCHANGED masked
  /\ UNCHANGED <<opts, live, grant, cur, denied, executing, history>>

-----------------------------------------------------------------------------
(* Rows. *)

(* failedOutcome() of a failure that is not a denial. *)
FailedRow(n) == Row("failed", IF n > 0 THEN "partially applied" ELSE "quiet")

(* deniedOutcome(): warn spares a section only when it is not required and no
   request landed.                                                         *)
DeniedRowWhateverLanded(s, n) ==
  IF opts.policy = "warn" /\ s \notin opts.required THEN Row("skipped", "quiet") ELSE FailedRow(n)

DeniedRow(s, n) ==
  IF opts.policy = "warn" /\ s \notin opts.required /\ n = 0
  THEN Row("skipped", "quiet")
  ELSE FailedRow(n)

(* ranOutcome() of an applied section, with appliedDetail(). *)
AppliedRow ==
  Row("applied", IF changes THEN "changes" ELSE IF notes THEN "notes" ELSE "no changes needed")

(* ranOutcome() of a checked section. *)
CheckedRow(s) == IF DriftIn(s) = {} THEN Row("clean", "quiet") ELSE Row("drift", "quiet")

(* The section's row is pushed, its plan is dropped and the loop goes on. *)
Settle(row) ==
  /\ rows' = [rows EXCEPT ![cur] = row]
  /\ cur' = cur + 1
  /\ pc' = "loop"
  /\ todo' = {} /\ op' = NoItem /\ tries' = 0
  /\ landed' = 0 /\ changes' = FALSE /\ notes' = FALSE

AtSection == pc = "loop" /\ cur <= N

-----------------------------------------------------------------------------
(* The section loop. *)

SkipUndeclared ==
  /\ AtSection /\ cur \notin opts.declared
  /\ cur' = cur + 1
  /\ UNCHANGED <<opts, live, grant, pc, denied, masked, executing, rows, result, history>>

ExcludeSection ==
  /\ AtSection /\ cur \in opts.declared \ Active(opts)
  /\ Settle(Row("excluded", "quiet"))
  /\ UNCHANGED <<opts, live, grant, denied, masked, result, history>>

(* Only apply has the tools to execute with. *)
ExecutesAlways == TRUE
Executes == opts.mode = "apply"

(* The plan is read afresh; the preflight's is not kept. *)
PlanSection ==
  /\ AtSection /\ cur \in Active(opts) /\ grant[cur] # "none"
  /\ differed' = differed \cup DriftIn(cur)
  /\ stale' = stale \ ItemsOf(cur)
  /\ IF ~Executes
     THEN Settle(CheckedRow(cur))
     ELSE /\ todo' = OpsOf(cur)
          /\ notes' = (\E i \in DriftIn(cur) : KindOf[i] = "report")
          /\ pc' = "exec"
          /\ UNCHANGED <<cur, rows, op, tries, landed, changes>>
  /\ UNCHANGED <<opts, live, grant, denied, masked, result, effects, blind, moved, edits, faults>>

PlanDenied ==
  /\ AtSection /\ cur \in Active(opts) /\ grant[cur] = "none"
  /\ Settle(DeniedRow(cur, 0))
  /\ UNCHANGED <<opts, live, grant, denied, masked, result, history>>

PlanFails ==
  /\ AtSection /\ cur \in Active(opts)
  /\ faults < MaxFaults /\ faults' = faults + 1
  /\ Settle(FailedRow(0))
  /\ UNCHANGED <<opts, live, grant, denied, masked, result,
                 effects, differed, stale, blind, moved, edits>>

(* repoResult(): a failure outranks everything, then drift, then a skip. *)
SkipOutranksFailure ==
  LET has(status) == \E s \in Sections : rows[s].status = status
  IN  IF has("skipped") THEN "partial" ELSE IF has("failed") THEN "failed"
      ELSE IF opts.mode = "check" THEN IF has("drift") THEN "drift" ELSE "clean" ELSE "applied"

RepoResult ==
  LET has(status) == \E s \in Sections : rows[s].status = status
  IN  IF has("failed") THEN "failed"
      ELSE IF has("drift") /\ opts.mode = "check" THEN "drift"
      ELSE IF has("skipped") THEN "partial"
      ELSE IF opts.mode = "check" THEN "clean" ELSE "applied"

ConcludeRun ==
  /\ pc = "loop" /\ cur = N + 1
  /\ result' = RepoResult
  /\ pc' = "done"
  /\ UNCHANGED <<opts, live, grant, cur, denied, masked, executing, rows, history>>

-----------------------------------------------------------------------------
(* executePlan(): the operations, one request at a time. *)

InFlight == pc = "exec" /\ op # NoItem

(* The before hook passed and the payload is built.  A sealed secret is read
   through the resolver, which throws on a reference resolveTools() did not
   resolve: SecretsMaskedFirst says that it never meets one.               *)
BeginOp ==
  /\ pc = "exec" /\ op = NoItem
  /\ \E i \in todo :
       /\ op' = i
       /\ todo' = todo \ {i}
  /\ tries' = 0
  /\ UNCHANGED <<opts, live, grant, pc, cur, denied, masked, landed, changes, notes, rows, result, history>>

(* The item already is as declared, and GitHub refuses the request for it. *)
Conflicts(i) == i \in live /\ KindOf[i] \in {"create", "remove"}

Accepted(i) == grant[cur] = "write" /\ ~Conflicts(i)

(* The operation is over and the plan goes on. *)
EndOp == op' = NoItem /\ tries' = 0 /\ UNCHANGED <<pc, cur, rows, todo>>

(* landed++ comes before the change thunk and the capture hook. *)
CountLanded == landed + 1

(* GitHub takes the write, its answer arrives and its change line renders. *)
OpLands ==
  /\ InFlight /\ Accepted(op)
  /\ live' = live \cup {op} /\ wrote' = wrote \cup {op} /\ lost' = lost \ {op}
  /\ landed' = CountLanded /\ changes' = TRUE
  /\ EndOp
  /\ UNCHANGED <<opts, grant, denied, masked, notes, result,
                 differed, noted, stale, blind, moved, edits, faults>>

(* It landed, and then its change thunk or capture hook failed: the echo
   disagrees with what was set.                                            *)
OpUnverified ==
  /\ InFlight /\ Accepted(op)
  /\ faults < MaxFaults /\ faults' = faults + 1
  /\ live' = live \cup {op} /\ wrote' = wrote \cup {op} /\ lost' = lost \ {op}
  /\ Settle(FailedRow(CountLanded))
  /\ UNCHANGED <<opts, grant, denied, masked, result,
                 differed, noted, stale, blind, moved, edits>>

(* A 5xx or no answer at all, whether or not GitHub took the write: the client
   sends the request again while retries are left, whatever its method.    *)
AnswerLost ==
  /\ InFlight
  /\ faults < MaxFaults /\ faults' = faults + 1
  /\ \/ /\ Accepted(op)
        /\ live' = live \cup {op} /\ wrote' = wrote \cup {op} /\ lost' = lost \cup {op}
     \/ UNCHANGED <<live, wrote, lost>>
  /\ IF tries < MaxRetries
     THEN /\ tries' = tries + 1
          /\ UNCHANGED <<pc, cur, rows, todo, op, landed, changes, notes>>
     ELSE Settle(FailedRow(landed))
  /\ UNCHANGED <<opts, grant, denied, masked, result,
                 differed, noted, stale, blind, moved, edits>>

(* A 403, or the 404 of an item that is not there, read as a denial unless the
   operation tolerates it.                                                 *)
OpDenied ==
  /\ InFlight
  /\ \/ grant[cur] # "write"
     \/ Conflicts(op) /\ KindOf[op] = "remove" /\ op \notin Tolerant
  /\ Settle(DeniedRow(cur, landed))
  /\ UNCHANGED <<opts, live, grant, denied, masked, result, history>>

(* A tolerated status: a note, and the plan goes on. *)
OpTolerated ==
  /\ InFlight /\ op \in Tolerant /\ grant[cur] = "write"
  /\ \/ Conflicts(op) /\ UNCHANGED faults
     \/ faults < MaxFaults /\ faults' = faults + 1
  /\ notes' = TRUE /\ noted' = noted \cup {op}
  /\ EndOp
  /\ UNCHANGED <<opts, live, grant, denied, masked, landed, changes, result,
                 wrote, lost, differed, stale, blind, moved, edits>>

(* The 422 of a create that lost its race. *)
OpConflicts ==
  /\ InFlight /\ grant[cur] = "write"
  /\ Conflicts(op) /\ KindOf[op] = "create" /\ op \notin Tolerant
  /\ Settle(FailedRow(landed))
  /\ UNCHANGED <<opts, live, grant, denied, masked, result, history>>

(* Every other end: the before hook or the payload fails with nothing sent, a
   validation error, a rate limit beyond the wait, a refused tolerated status. *)
OpFails ==
  /\ InFlight
  /\ faults < MaxFaults /\ faults' = faults + 1
  /\ Settle(FailedRow(landed))
  /\ UNCHANGED <<opts, live, grant, denied, masked, result,
                 effects, differed, stale, blind, moved, edits>>

FinishSection ==
  /\ pc = "exec" /\ op = NoItem /\ todo = {}
  /\ Settle(AppliedRow)
  /\ UNCHANGED <<opts, live, grant, denied, masked, result, history>>

-----------------------------------------------------------------------------
(* The others: people, other workflows, the token's owner. *)

EditLive ==
  /\ edits < MaxEdits /\ edits' = edits + 1
  /\ \E i \in Items :
       /\ live' = IF i \in live THEN live \ {i} ELSE live \cup {i}
       /\ stale' = stale \cup {i}
  /\ UNCHANGED <<program, grant, wrote, lost, differed, noted, blind, moved, faults>>

EditGrant ==
  /\ edits < MaxEdits /\ edits' = edits + 1
  /\ \E s \in Sections, g \in {"none", "read", "write"} :
       /\ g # grant[s]
       /\ grant' = [grant EXCEPT ![s] = g]
  /\ moved' = TRUE
  /\ UNCHANGED <<program, live, effects, differed, stale, blind, faults>>

Gates == ProbeSection \/ ProbeFails \/ ConcludePreflight \/ ResolveSecrets
Loop == SkipUndeclared \/ ExcludeSection \/ PlanSection \/ PlanDenied \/ PlanFails \/ ConcludeRun
Exec == \/ BeginOp \/ OpLands \/ OpUnverified \/ AnswerLost \/ OpDenied
        \/ OpTolerated \/ OpConflicts \/ OpFails \/ FinishSection

Step == Gates \/ Loop \/ Exec

Next == StartRun \/ Step \/ EditLive \/ EditGrant

Spec == Init /\ [][Next]_vars

(* Every await of the program returns and the workflow is scheduled again;
   nothing is assumed of the others.                                       *)
FairSpec == Spec /\ WF_vars(Step) /\ WF_vars(StartRun)

-----------------------------------------------------------------------------
(* Properties. *)

Ended == pc = "done" /\ result # "none"

(* A strict apply run that could see, before its first write, a section its
   token cannot read writes nothing at all and fails: "a mid-apply permission
   failure would leave settings half-applied" (orchestrate.ts).  Only a probe
   that failed for another reason is blind to the denial.                  *)
PreflightBarrier ==
  opts.mode = "apply" /\ opts.policy = "fail" /\ ~moved
    /\ (\E s \in Active(opts) \ blind : grant[s] = "none")
  => wrote = {} /\ (Ended => result = "failed")

(* Every reference of every active section is resolved and masked before the
   first request that could carry or follow one: an early section never runs
   while a later section's secret is missing.                              *)
SecretsMaskedFirst == op # NoItem \/ wrote # {} => References \subseteq masked

(* A row reading "skipped" is the warn policy sparing an optional section in
   which GitHub confirmed no write of this run.                            *)
SkipConfirmsNothing ==
  \A s \in Sections : rows[s].status = "skipped" =>
    opts.policy = "warn" /\ s \notin opts.required /\ wrote \cap ItemsOf(s) \subseteq lost

(* The same without the exception for lost answers: "a denial after some
   operations landed is a partial mutation, never a skip" (orchestrate.ts). *)
SkipWroteNothing ==
  \A s \in Sections : rows[s].status = "skipped" => wrote \cap ItemsOf(s) = {}

(* A failed section some of whose writes GitHub confirmed says that it is
   partially applied, wherever in its plan it failed: in a later request, or in
   verifying the very write that landed.                                   *)
PartialIsSaid ==
  \A s \in Sections : rows[s] = FailedRow(0) => wrote \cap ItemsOf(s) \subseteq lost

(* "no changes needed" is said of a section only when the run changed nothing
   in it, a write whose answer was lost and whose retry was tolerated included. *)
NoChangesMeansNone ==
  \A s \in Sections : rows[s].detail = "no changes needed" => wrote \cap ItemsOf(s) = {}

(* A section reported applied, or clean, is as declared in everything a plan
   can mend, unless an outsider touched it since the plan or a tolerated answer
   (whose note is shown) left it.                                          *)
GreenMeansReconciled ==
  \A s \in Sections : \A i \in ItemsOf(s) \ (stale \cup noted) :
    /\ rows[s].status = "applied" /\ KindOf[i] # "report"
         /\ (KindOf[i] = "resend" => s \in opts.secrets) => i \in live
    /\ rows[s].status = "clean" /\ KindOf[i] # "resend" => i \in live

(* A run that passed its gates has a row for each declared section, and its
   word is decided by the worst of them: one failure anywhere fails the run and
   a healthy word covers every active section.                             *)
VerdictCoversRows ==
  Ended /\ denied = {} /\ ~(opts.mode = "apply" /\ Unresolved # {}) =>
    /\ \A s \in Sections : rows[s] = NoRow <=> s \notin opts.declared
    /\ result = "failed" <=> \E s \in Sections : rows[s].status = "failed"
    /\ result \in {"applied", "clean"} => \A s \in Active(opts) : rows[s].status = result

(* A write goes to the section under execution, for an item its plan found
   different or a sealed secret, and never into a section whose row is already
   pushed: one section's failure neither stops the later ones nor lets its own
   remaining operations run.                                               *)
WriteDiscipline ==
  [][\A i \in wrote' \ wrote :
       /\ pc = "exec" /\ SectionOf[i] = cur /\ rows[cur] = NoRow
       /\ i \in differed \/ (KindOf[i] = "resend" /\ cur \in opts.secrets)]_vars

(* What the rows say is what was written: the three together. *)
RowsTellTheTruth == SkipConfirmsNothing /\ PartialIsSaid /\ NoChangesMeansNone

(* "The engine is idempotent, so fixing the token and re-running converges"
   (permissions.md): once the grants stay sufficient, the secrets are
   there and the runs apply, they end applied, with everything mendable as
   declared, whatever earlier runs left half done.                         *)
Reconciled ==
  \A s \in Active(opts) : \A i \in ItemsOf(s) :
    KindOf[i] \in {"create", "put", "remove"} => i \in live
Reconverges ==
  <>[]((\A s \in Sections : grant[s] = "write") /\ opts.mode = "apply" /\ Unresolved = {})
    => <>[](Reconciled /\ (Ended => result = "applied"))

-----------------------------------------------------------------------------
(* Why the properties hold: what is true between any two steps. *)

(* The gates write nothing and push no row. *)
GatesQuiet ==
  pc \in {"preflight", "resolve"} =>
    /\ opts.mode = "apply" /\ wrote = {} /\ lost = {} /\ noted = {}
    /\ \A s \in Sections : rows[s] = NoRow
    /\ pc = "resolve" => cur = 1

(* An operation the current section's plan holds. *)
Planned(i) ==
  /\ i \in Items /\ SectionOf[i] = cur
  /\ i \in differed \/ (KindOf[i] = "resend" /\ cur \in opts.secrets)

Working ==
  /\ pc = "exec" => opts.mode = "apply" /\ cur \in Active(opts) /\ rows[cur] = NoRow
  /\ op # NoItem => Planned(op)
  /\ \A i \in todo : Planned(i)
  /\ pc # "exec" => todo = {} /\ op = NoItem /\ landed = 0 /\ ~changes /\ ~notes

(* Rows and effects belong to the sections already walked. *)
RowsBehind == \A s \in Sections : rows[s] # NoRow => s < cur \/ pc = "done"

EffectsBehind ==
  /\ lost \subseteq wrote
  /\ \A i \in wrote \cup noted :
       /\ opts.mode = "apply" /\ SectionOf[i] \in Active(opts)
       /\ pc = "loop" => SectionOf[i] < cur
       /\ pc = "exec" => SectionOf[i] <= cur

SecretsReady ==
  (pc \in {"loop", "exec"} /\ opts.mode = "apply") \/ wrote # {}
  => References \subseteq masked \cap opts.env

(* What `landed`, `changes` and `notes` say of the section under execution. *)
Counted ==
  pc = "exec" =>
    /\ landed = 0 => wrote \cap ItemsOf(cur) \subseteq lost
    /\ landed > 0 => changes
    /\ lost \cap ItemsOf(cur) \subseteq {op} \cup noted
    /\ noted \cap ItemsOf(cur) # {} => notes

IInv ==
  /\ GatesQuiet /\ Working /\ RowsBehind /\ EffectsBehind /\ SecretsReady /\ Counted
  /\ SkipConfirmsNothing /\ PartialIsSaid /\ NoChangesMeansNone

(* Why a strict apply run never passes a section it may not read: a probe put it
   on the list, or was blind to it; past the barrier there is none.          *)
NoneDenied == \A s \in Active(opts) \ blind : grant[s] # "none"
BarrierSaw ==
  opts.mode = "apply" /\ opts.policy = "fail" /\ ~moved =>
    /\ pc = "preflight" => \A s \in Active(opts) \ blind : s < cur /\ grant[s] = "none" => s \in denied
    /\ pc \in {"resolve", "loop", "exec"} => NoneDenied
    /\ pc = "done" => NoneDenied \/ (wrote = {} /\ result \in {"none", "failed"})

(* Why the result word covers the rows: each section walked has the row its
   declaration asks for, in the words of the run's mode.                    *)
RowWords(o) ==
  {"failed", "skipped"} \cup (IF o.mode = "check" THEN {"clean", "drift"} ELSE {"applied"})
RowOfSection(s) ==
  /\ s \notin opts.declared => rows[s] = NoRow
  /\ s \in opts.declared \ Active(opts) => rows[s].status = "excluded"
  /\ s \in Active(opts) => rows[s].status \in RowWords(opts)
RowsSoFar == pc \in {"loop", "exec"} => \A s \in Sections : s < cur => RowOfSection(s)

(* Why green is green: whatever the plan under execution set out to mend is
   mended, in flight or still to do.                                        *)
WorkRemains ==
  pc = "exec" =>
    \A i \in ItemsOf(cur) \ (stale \cup noted) :
      KindOf[i] # "report" /\ (KindOf[i] = "resend" => cur \in opts.secrets) => i \in live \cup todo \cup {op}

(* The run implements its contract. *)
Contract == INSTANCE RunContract WITH running <- pc # "done"
ImplementsContract == Contract!Spec
=============================================================================
