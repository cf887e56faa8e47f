----------------------------- MODULE SectionRun -----------------------------
(***************************************************************************)
(* One section of a settings file applied over and over against GitHub.    *)
(* The sections that are not lists of the factory have a plan function of  *)
(* their own; each is a module of operators, and this module is what       *)
(* happens around them: a run reads GitHub, plans once, and sends the plan *)
(* one operation at a time.  It may die at any of them, others edit the    *)
(* repository between any two, and the next run starts over from what      *)
(* GitHub then holds.                                                      *)
(***************************************************************************)
EXTENDS Integers, Sequences, FiniteSets

CONSTANTS
  Unset, Off,           \* "not declared" or "no value", and null
  Upper, Fold,          \* the name folds of secrets and of environments
  MaxPinned, NoTimer,   \* GitHub's cap on pins, and wait_timer: 0
  Unverifiable,         \* the expressions the pattern check cannot verify
  Canonical, Matches,   \* GitHub's spelling of names, the wildcard patterns
  OrgTemplate,          \* the organization's claim keys
  Permissions,          \* the words of a grant
  InvitationRoles,      \* the roles an invitation can carry
  BypassMax,            \* what the bypass list holds at most
  PatchName,            \* the PATCH's name of a language the GET reports
  FullRef, RuleDefaults, \* refs in full, the parameters GitHub fills in
  Cases                 \* [section, doc, live, edits, faults]: a document, what
                        \* GitHub first holds, and the bounds on disturbances

Env == INSTANCE Environments
Pat == INSTANCE Patterns
Brn == INSTANCE Branches
Rep == INSTANCE Repository
Act == INSTANCE ActionsSettings
Acc == INSTANCE Access
Lim == INSTANCE InteractionLimits
Sml == INSTANCE SmallSections
Rul == INSTANCE Rulesets

VARIABLES
  section,      \* the section under test
  doc,          \* its declared value
  live,         \* GitHub
  pc,           \* "idle" between two runs, "exec" while a plan is executed
  plan,         \* the operations not yet sent
  memo,         \* what the run has read or captured while executing
  row,          \* how the last run ended
  cause         \* what ended it when it failed

(* History. *)
VARIABLES
  before,       \* what GitHub held when the last run planned
  interfered,   \* others edited since
  edits, faults \* disturbances left

history == <<before, interfered, edits, faults>>
vars == <<section, doc, live, pc, plan, memo, row, cause, history>>

-----------------------------------------------------------------------------
(* The sections. *)

Sections ==
  {"environments", "values", "patterns", "branches", "repository", "actions", "collaborators",
   "teams", "limits", "properties", "pages", "setup", "workflows", "suites", "ruleset"}

PlanOf(s, d, l) ==
  CASE s = "environments" -> Env!EnvPlan(d, l)
    [] s = "values" -> Env!FamilyPlan(d, l)
    [] s = "patterns" -> Pat!PatternPlan(d, l)
    [] s = "branches" -> Brn!BranchPlan(d, l)
    [] s = "repository" -> Rep!RepositoryPlan(d, l)
    [] s = "actions" -> Act!ActionsPlan(d, l)
    [] s = "collaborators" -> Acc!CollaboratorPlan(d, l)
    [] s = "teams" -> Acc!TeamPlan(d, l)
    [] s = "limits" -> Lim!LimitPlan(d, l)
    [] s = "properties" -> Sml!PropertyPlan(d, l)
    [] s = "pages" -> Sml!PagesPlan(d, l)
    [] s = "setup" -> Sml!SetupPlan(d, l)
    [] s = "workflows" -> Sml!WorkflowPlan(d, l)
    [] s = "suites" -> Sml!SuitePlan(d, l)
    [] s = "ruleset" -> Rul!RulesetPlan(d, l)

(* A before hook or a payload thunk fails, and the request is never sent. *)
Refuses(op) ==
  CASE section = "environments" -> Env!EnvRefuses(op, live, memo)
    [] section = "branches" -> Brn!BranchRefuses(op, live)
    [] section = "ruleset" -> op.refused
    [] OTHER -> FALSE
Notes(op) ==
  CASE section = "environments" -> Env!EnvNotes(op, live, memo)
    [] section = "values" -> Env!FamilyNotes(op, live, memo)
    [] OTHER -> memo

Accepts(op) ==
  CASE section = "environments" -> Env!EnvAccepts(op, live, memo)
    [] section = "values" -> Env!FamilyAccepts(op, live, memo)
    [] section = "patterns" -> Pat!PatternAccepts(op, live)
    [] section = "branches" -> Brn!BranchAccepts(op, live)
    [] section = "repository" -> Rep!RepositoryAccepts(op, live)
    [] section = "actions" -> Act!ActionsAccepts(op, live)
    [] section = "collaborators" -> Acc!CollaboratorAccepts(op, live)
    [] section = "limits" -> Lim!LimitAccepts(op, live)
    [] section = "properties" -> Sml!PropertyAccepts(op, live)
    [] section = "pages" -> Sml!PagesAccepts(op, live)
    [] section = "setup" -> Sml!SetupAccepts(op, live)
    [] section = "workflows" -> Sml!WorkflowAccepts(op, live)
    [] section = "ruleset" -> Rul!RulesetAccepts(op, live)
    [] OTHER -> TRUE
(* GitHub refuses for a reason no plan can help: the repository is archived or
   cannot have the feature, a property or a rule is not defined, a rollout is
   under way, the token may not write.                                     *)
Outside(op) ==
  \/ section \in {"repository", "properties", "setup"} /\ ~Accepts(op)
  \/ section = "ruleset" /\ Rul!NeverTaken(op, live)
(* What GitHub may hold once it took the write. *)
After(op) ==
  CASE section = "environments" -> {Env!EnvAfter(op, live, memo)}
    [] section = "values" -> {Env!FamilyAfter(op, live, memo)}
    [] section = "patterns" -> {Pat!PatternAfter(op, live)}
    [] section = "branches" -> Brn!BranchAfter(op, live)
    [] section = "repository" -> {Rep!RepositoryAfter(op, live)}
    [] section = "actions" -> {Act!ActionsAfter(op, live)}
    [] section = "collaborators" -> {Acc!CollaboratorAfter(op, live)}
    [] section = "teams" -> {Acc!TeamAfter(op, live)}
    [] section = "limits" -> {Lim!LimitAfter(op, live)}
    [] section = "properties" -> {Sml!PropertyAfter(op, live)}
    [] section = "pages" -> {Sml!PagesAfter(op, live)}
    [] section = "setup" -> Sml!SetupAfter(op, live)
    [] section = "workflows" -> {Sml!WorkflowAfter(op, live)}
    [] section = "suites" -> {Sml!SuiteAfter(op, live)}
    [] section = "ruleset" -> Rul!RulesetAfter(op, live)
(* The section finds what it wrote in the answer. *)
Confirms(op, after) ==
  CASE section = "branches" -> Brn!ReadBack(op, after)
    [] section = "repository" -> Rep!EchoVerified(op, after)
    [] OTHER -> TRUE

Meets ==
  CASE section = "environments" -> Env!EnvMeets(doc, live, before)
    [] section = "values" -> Env!FamilyMeets(doc, live)
    [] section = "patterns" -> Pat!PatternsMeet(doc, live)
    [] section = "branches" -> Brn!BranchesMeet(doc, live)
    [] section = "repository" -> Rep!RepositoryMeets(doc, live)
    [] section = "actions" -> Act!ActionsMeets(doc, live)
    [] section = "collaborators" -> Acc!CollaboratorsMeet(doc, live)
    [] section = "teams" -> Acc!TeamsMeet(doc, live)
    [] section = "limits" -> Lim!LimitsMeet(doc, live)
    [] section = "properties" -> Sml!PropertiesMeet(doc, live)
    [] section = "pages" -> Sml!PagesMeet(doc, live)
    [] section = "setup" -> Sml!SetupMeets(doc, live)
    [] section = "workflows" -> Sml!WorkflowsMeet(doc, live)
    [] section = "suites" -> Sml!SuitesMeet(doc, live)
    [] section = "ruleset" -> Rul!RulesetMeets(doc, live)
Spares ==
  CASE section = "environments" -> Env!EnvSpares(doc, before, live)
    [] section = "values" -> Env!FamilySpares(doc, before, live)
    [] section = "patterns" -> Pat!PatternsSpare(doc, before, live)
    [] section = "branches" -> Brn!BranchesSpare(doc, before, live)
    [] section = "repository" -> Rep!RepositorySpares(doc, before, live)
    [] section = "actions" -> Act!ActionsSpares(doc, before, live)
    [] section = "collaborators" -> Acc!CollaboratorsSpare(doc, before, live)
    [] section = "teams" -> Acc!TeamsSpare(doc, before, live)
    [] section = "limits" -> Lim!LimitsSpare(doc, before, live)
    [] section = "properties" -> Sml!PropertiesSpare(doc, before, live)
    [] section = "pages" -> Sml!PagesSpare(doc, before, live)
    [] section = "setup" -> Sml!SetupSpares(doc, before, live)
    [] section = "workflows" -> Sml!WorkflowsSpare(doc, before, live)
    [] section = "suites" -> Sml!SuitesSpare(doc, before, live)
    [] section = "ruleset" -> Rul!RulesetSpares(doc, before, live)

(* The document a snapshot writes: Unset when there is nothing to declare. *)
Snapshot ==
  CASE section = "environments" -> Env!EnvSnapshot(live)
    [] section = "values" -> Env!FamilySnapshot(doc.kind, live)
    [] section = "patterns" -> Pat!PatternSnapshot(live)
    [] section = "branches" -> Brn!BranchSnapshot(live)
    [] section = "repository" -> Rep!RepositorySnapshot(live)
    [] section = "actions" -> Act!ActionsSnapshot(live)
    [] section = "collaborators" -> Acc!CollaboratorSnapshot(live)
    [] section = "teams" -> Acc!TeamSnapshot(live)
    [] section = "limits" -> Lim!LimitSnapshot(live)
    [] section = "properties" -> Sml!PropertySnapshot(live)
    [] section = "pages" -> Sml!PagesSnapshot(live)
    [] section = "setup" -> Sml!SetupSnapshot(live)
    [] section = "workflows" -> Sml!WorkflowSnapshot(live)
    [] section = "ruleset" -> Rul!RulesetSnapshot(live)
    [] OTHER -> Unset
(* The drift a snapshot may show: an expired invitation it does not declare.  *)
Excused(op) == section = "collaborators" /\ Acc!ExpiredCancelled(op, live)
(* The drift that is documented to stay whatever a run does: keys GitHub never
   answers with, a limit set above the repository, an organization's default,
   a visibility the host does not offer.                                   *)
Lasting(op) ==
  \/ section = "repository" /\ Rep!RewritesUnseen(op, live)
  \/ section = "actions" /\ Act!RewritesUnseen(op, live)
  \/ section = "setup" /\ Sml!RewritesUnseen(op, live)
  \/ section = "limits" /\ op.role \in {"put", "remove"} /\ Lim!InheritedLimit(live)
  \/ section = "properties" /\ Sml!OnlyReverts(op, live)
  \/ section = "pages" /\ Sml!OnlyUnsettable(op, live)

Edits ==
  CASE section = "environments" -> Env!EnvEdits(live)
    [] section = "values" -> Env!FamilyEdits(live)
    [] section = "patterns" -> Pat!PatternEdits(live)
    [] section = "branches" -> Brn!BranchEdits(live)
    [] section = "repository" -> Rep!RepositoryEdits(live)
    [] section = "actions" -> Act!ActionsEdits(live)
    [] section = "collaborators" -> Acc!CollaboratorEdits(live)
    [] section = "teams" -> Acc!TeamEdits(live)
    [] section = "limits" -> Lim!LimitEdits(live)
    [] section = "properties" -> Sml!PropertyEdits(live)
    [] section = "pages" -> Sml!PagesEdits(live)
    [] section = "setup" -> Sml!SetupEdits(live)
    [] section = "workflows" -> Sml!WorkflowEdits(live)
    [] section = "suites" -> Sml!SuiteEdits(live)
    [] section = "ruleset" -> Rul!RulesetEdits(live)
(* A rollout GitHub has under way ends. *)
Settled == IF section = "setup" THEN Sml!RolledOut(live) ELSE live

-----------------------------------------------------------------------------
(* Runs. *)

NoMemo == <<>>

Init ==
  \E c \in Cases :
    /\ section = c.section /\ doc = c.doc /\ live = c.live
    /\ pc = "idle" /\ plan = <<>> /\ memo = NoMemo /\ row = "none" /\ cause = "none"
    /\ before = c.live /\ interfered = FALSE
    /\ edits = c.edits /\ faults = c.faults

EndWith(word, why) == row' = word /\ cause' = why /\ pc' = "idle" /\ plan' = <<>> /\ memo' = NoMemo

(* plan(): every run reads the section afresh. *)
PlanSection ==
  /\ pc = "idle"
  /\ LET p == PlanOf(section, doc, live)
     IN  IF p.failed THEN EndWith("failed", "plan")
         ELSE plan' = p.ops /\ pc' = "exec" /\ memo' = NoMemo /\ row' = "none" /\ cause' = "none"
  /\ before' = live /\ interfered' = FALSE
  /\ UNCHANGED <<section, doc, live, edits, faults>>

(* executePlan() over the operations, in the plan's order. *)
InFlight == pc = "exec" /\ plan # <<>>

HookRefuses ==
  /\ InFlight /\ Refuses(Head(plan))
  /\ EndWith("failed", "hook")
  /\ UNCHANGED <<section, doc, live, history>>

Sending == InFlight /\ ~Refuses(Head(plan))

Lands ==
  /\ Sending /\ Accepts(Head(plan))
  /\ live' \in {after \in After(Head(plan)) : Confirms(Head(plan), after)}
  /\ memo' = Notes(Head(plan)) /\ plan' = Tail(plan)
  /\ UNCHANGED <<section, doc, pc, row, cause, history>>

(* The write landed, and its answer fails the section. *)
Unconfirmed ==
  /\ Sending /\ Accepts(Head(plan))
  /\ live' \in {after \in After(Head(plan)) : ~Confirms(Head(plan), after)}
  /\ EndWith("failed", "answer")
  /\ UNCHANGED <<section, doc, history>>

Rejected ==
  /\ Sending /\ ~Accepts(Head(plan))
  /\ EndWith("failed", IF Outside(Head(plan)) THEN "outside" ELSE "github")
  /\ UNCHANGED <<section, doc, live, history>>

(* The run dies, with the request in flight taken or not. *)
RunDies ==
  /\ Sending /\ faults > 0
  /\ faults' = faults - 1
  /\ live' \in {live} \cup (IF Accepts(Head(plan)) THEN After(Head(plan)) ELSE {})
  /\ EndWith("failed", "fault")
  /\ UNCHANGED <<section, doc, before, interfered, edits>>

FinishSection ==
  /\ pc = "exec" /\ plan = <<>>
  /\ EndWith("applied", "none")
  /\ UNCHANGED <<section, doc, live, history>>

OthersEdit ==
  /\ edits > 0
  /\ edits' = edits - 1
  /\ live' \in Edits \ {live}
  /\ interfered' = TRUE
  /\ UNCHANGED <<section, doc, pc, plan, memo, row, cause, before, faults>>

Settles ==
  /\ Settled # live
  /\ live' = Settled
  /\ UNCHANGED <<section, doc, pc, plan, memo, row, cause, history>>

Step == PlanSection \/ HookRefuses \/ Lands \/ Unconfirmed \/ Rejected \/ RunDies \/ FinishSection
Next == Step \/ Settles \/ OthersEdit

(* Every await returns, the workflow is scheduled again, and what GitHub started
   ends.                                                                   *)
FairSpec == Init /\ [][Next]_vars /\ WF_vars(Step) /\ WF_vars(Settles)

-----------------------------------------------------------------------------
(* Properties. *)

(* A run nobody disturbed that ends applied leaves GitHub as the document says,
   judged against a definition of its own and not against the plan.        *)
AppliedMeansReconciled == row = "applied" /\ ~interfered => Meets

(* GitHub takes every operation of a plan nobody disturbed, in the plan's order,
   whatever state earlier runs and their deaths left: the cap on pins is never
   exceeded on the way, a scope exists before its secrets, a key is its scope's,
   a name is free when it is created.                                      *)
PlanIsFeasible == cause = "github" => interfered

(* What the document does not declare is as it was, at every moment of a run,
   also in the middle and after a death.                                   *)
UndeclaredSpared == ~interfered => Spares

(* A snapshot of what GitHub holds, taken as the document, is a clean check: its
   plan fails nowhere and shows no drift.                                  *)
Drifts(p) == p.failed \/ \E i \in DOMAIN p.ops : p.ops[i].drift /\ ~Excused(p.ops[i])
SnapshotIsClean == pc = "idle" /\ Snapshot # Unset => ~Drifts(PlanOf(section, Snapshot, live))

(* A write planned from a pattern as it was read never lands on the pattern
   someone has edited since.                                               *)
StaleWriteRefused ==
  [][section = "patterns" /\ edits' = edits =>
       \A n \in DOMAIN live.patterns :
         Pat!StalePattern(n, before, live) =>
           n \in DOMAIN live'.patterns /\ live'.patterns[n] = live.patterns[n]]_vars

(* Scheduled runs bring GitHub to the document once nobody disturbs it, and a
   check then finds nothing left to change, or keep
   refusing it for a reason: GitHub cannot be as the document says, a write of it
   would lose what the document omits, or GitHub takes no write.           *)
Justified ==
  \/ cause \in {"plan", "hook", "answer"} /\ ~Meets
  \/ cause = "hook" /\ section = "environments" /\ Env!WouldReset(doc, live)
  \/ cause = "hook" /\ section = "ruleset" /\ Rul!WouldRemove(doc, live)
  \/ cause = "outside"
Clean(p) == ~p.failed /\ \A i \in DOMAIN p.ops : p.ops[i].drift => Lasting(p.ops[i])
Reconverges == []<>(row = "applied" /\ Meets /\ Clean(PlanOf(section, doc, live))) \/ []<>Justified
=============================================================================
