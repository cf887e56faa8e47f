------------------------------ MODULE FleetRun ------------------------------
(***************************************************************************)
(* A run over a fleet, src/flows: the targets are resolved, the slugs that *)
(* must stay hidden are decided and masked, each target is processed       *)
(* through a channel that is public or sealed, its private report is       *)
(* delivered, and the run is concluded.  What a target's processing does   *)
(* to the repository is RepoRun; here it is its result word and its lines. *)
(*                                                                         *)
(* A repository's visibility is known by a probe or by discovery, each of  *)
(* which may fail, and may change at any time after.  Slugs are compared   *)
(* folded in the code; here each repository has one spelling.              *)
(***************************************************************************)
EXTENDS Integers, Sequences, FiniteSets, SequencesExt

CONSTANTS
  Slugs,      \* repository names
  Self,       \* the repository the workflow runs in
  Actual,     \* the visibilities a repository may have
  Configs,    \* the configurations a run may have, see ConfigSpace
  MaxChanges, \* bound: repositories whose visibility changes during the run
  MaxFaults   \* bound: requests that fail, targets that crash

Channels == {"none", "issue", "issue-on-failure", "artifact"}
Proven == {"private", "internal"}
Visibility == {"public", "unknown"} \cup Proven

(* central: the repos-dir files' repositories; warned: that directory holds
   files that earn a warning; remote: the repos input's or what discovery
   keeps; filtered: what it filters out; rejected: discovered names that are no
   slugs.                                                                  *)
ConfigSpace ==
  [policy : {"redact", "show"}, channel : Channels, check : BOOLEAN,
   defaults : {"none", "valid", "invalid"}, central : Seq(Slugs), warned : BOOLEAN,
   discover : BOOLEAN, remote : Seq(Slugs), filtered : SUBSET Slugs,
   rejected : SUBSET Slugs]

(* parseConfig() pairs no report channel with `show`; resolveCentralTargets()
   and parseReposInput() refuse duplicates; only discovery filters and rejects. *)
Admitted(c) ==
  /\ c.policy = "show" => c.channel = "none"
  /\ IsInjective(c.central) /\ IsInjective(c.remote)
  /\ ~c.discover => c.filtered = {} /\ c.rejected = {}
  /\ c.rejected \subseteq ToSet(c.remote) \ ToSet(c.central)
  /\ c.filtered \cap ToSet(c.remote) = {}

ASSUME FleetConstants ==
  /\ Self \in Slugs /\ Actual \subseteq {"public"} \cup Proven
  /\ MaxChanges \in Nat /\ MaxFaults \in Nat
  /\ \A c \in Configs : c \in ConfigSpace /\ Admitted(c)

VARIABLES
  cfg,       \* the run's configuration
  actual,    \* GitHub: the visibility of each repository
  pc,        \* where the run is
  vis,       \* visibilityBySlug: the visibilities resolved so far
  private,   \* filteredPrivateSlugs
  masked,    \* the mask registry
  at,        \* the place of the target reached, 0 before the loop
  result,    \* the result of that target
  rows,      \* the targets concluded
  queued,    \* the artifact channel's accumulated reports
  end        \* how the run ended

(* History. *)
VARIABLES
  named,     \* slugs a public line has named
  starred,   \* slugs the mask registry has had to remove from a public line
  marked,    \* targets whose processing was told to inject the report's marker
  account,   \* what became of each target's report
  moved,     \* repositories whose visibility changed
  faults

runVars == <<vis, private, masked, at, result, rows, queued, end>>
history == <<named, starred, marked, account, moved, faults>>
vars == <<cfg, actual, pc, runVars, history>>

Phases == {"defaults", "list", "resolve", "announce",
           "work", "report", "row", "flush", "conclude", "done"}
Results == {"failed", "drift", "partial", "skipped", "healthy"}
Accounts == {"none", "withheld", "delivered", "nothing", "queued", "uploaded", "warned"}

(* A target's row: its public label, a slug or a numbered placeholder, and its
   result; the target itself is history.                                   *)
Row == [target : Slugs, display : [slug : Slugs \cup {"-"}, n : Nat], result : Results]

-----------------------------------------------------------------------------
(* Targets and redaction. *)

Ordered == cfg.central \o cfg.remote

(* dedupeTargets(): the places of Ordered that are targets.  A central file wins
   over the repos input.                                                   *)
Kept(i) == i <= Len(cfg.central) \/ Ordered[i] \notin ToSet(cfg.central)
Places == {i \in DOMAIN Ordered : Kept(i)}
Ignored == ToSet(cfg.remote) \cap ToSet(cfg.central)
Target == Ordered[at]

(* The loop's next target, in a set of at most one. *)
Following(i) == {j \in Places : j > i /\ \A k \in Places : k > i => j <= k}

VisibilityOf(s) == IF s \in DOMAIN vis THEN vis[s] ELSE "unknown"

(* planRedaction(): a target is hidden unless it is proven public. *)
HiddenIfProven(s) ==
  cfg.policy = "redact" /\ s \in ToSet(Ordered) /\ s # Self /\ VisibilityOf(s) \in Proven
Hidden(s) ==
  cfg.policy = "redact" /\ s \in ToSet(Ordered) /\ s # Self /\ VisibilityOf(s) # "public"

(* Every slug the run must mask: hidden targets and what discovery filtered. *)
MaskedTargets == {s \in ToSet(Ordered) : Hidden(s)}
MaskedSlugs ==
  IF cfg.policy = "show" THEN {} ELSE MaskedTargets \cup (private \ {Self})

(* Placeholders are numbered in target order. *)
Place(s) == CHOOSE i \in Places : Ordered[i] = s
Display(s) ==
  IF Hidden(s)
    THEN [slug |-> "-", n |-> Cardinality({t \in MaskedTargets : Place(t) <= Place(s)})]
    ELSE [slug |-> s, n |-> 0]

(* A report leaves only for a hidden target that is proven private. *)
DeliverableIfHidden(s) == cfg.channel # "none" /\ Hidden(s)
Deliverable(s) == cfg.channel # "none" /\ Hidden(s) /\ VisibilityOf(s) \in Proven

(* runOutcome(): the exit code over a set of result words. *)
ExitCode(words) ==
  IF "failed" \in words \/ (cfg.check /\ "drift" \in words) THEN 1 ELSE 0

-----------------------------------------------------------------------------
(* Public lines.  The registry removes what it holds from every line; the trace
   of a request names its repository unless that is held back or masked.   *)

Say(text) ==
  /\ named' = named \cup (text \ masked)
  /\ starred' = starred \cup (text \cap masked)

Traced(s, held) == IF held THEN {} ELSE {s} \ masked

Lines(s) == IF Hidden(s) THEN {} ELSE {s}

Fault == faults < MaxFaults /\ faults' = faults + 1
NoFault == UNCHANGED faults

-----------------------------------------------------------------------------
Init ==
  /\ cfg \in Configs
  /\ actual \in [Slugs -> Actual]
  /\ pc = "defaults"
  /\ vis = <<>> /\ private = {} /\ masked = {}
  /\ at = 0 /\ result = "healthy" /\ rows = <<>> /\ queued = {}
  /\ end = [kind |-> "running", exit |-> 0]
  /\ named = {} /\ starred = {} /\ marked = {} /\ moved = {} /\ faults = 0
  /\ account = [s \in Slugs |-> "none"]

(* A configuration problem: one error line that names no target. *)
FailRun ==
  /\ pc' = "done"
  /\ end' = [kind |-> "fatal", exit |-> 1]
  /\ UNCHANGED <<cfg, actual, vis, private, masked, at, result, rows, queued,
                 marked, account, moved>>

(* The defaults file is read and validated before anything is resolved. *)
ReadDefaults ==
  /\ pc = "defaults"
  /\ \/ /\ cfg.defaults = "invalid"
        /\ FailRun /\ UNCHANGED <<named, starred, faults>>
     \/ /\ cfg.defaults # "invalid"
        /\ pc' = "list"
        /\ UNCHANGED <<cfg, actual, runVars, history>>

(* remoteFleet(): discovery tells the visibility of what it lists. *)
ListFleet ==
  /\ pc = "list"
  /\ pc' = "resolve"
  /\ private' = {s \in cfg.filtered : actual[s] # "public"}
  /\ vis' = IF cfg.discover /\ cfg.policy = "redact"
              THEN [s \in ToSet(cfg.remote) |-> IF s = Self THEN "public" ELSE actual[s]]
              ELSE <<>>
  /\ UNCHANGED <<cfg, actual, masked, at, result, rows, queued, end, history>>

(* Discovery fails: the central warnings are spoken all the same, unmasked. *)
CentralWarnings == IF cfg.warned THEN ToSet(cfg.central) ELSE {}
DiscoveryFails ==
  /\ pc = "list" /\ cfg.discover /\ Fault
  /\ Say(CentralWarnings)
  /\ FailRun

(* resolveVisibilities(): one probe per slug that neither discovery nor the self
   carve-out answers, in target order; a probe that fails proves nothing.  *)
Unresolved ==
  IF cfg.policy = "redact" THEN ToSet(Ordered) \ DOMAIN vis ELSE {}
NextUnresolved == {s \in Unresolved : \A t \in Unresolved : Place(s) <= Place(t)}

Resolved(s, v) == [t \in DOMAIN vis \cup {s} |-> IF t = s THEN v ELSE vis[t]]

Probe ==
  /\ pc = "resolve"
  /\ \E s \in NextUnresolved :
       \/ /\ s = Self /\ vis' = Resolved(s, "public")
          /\ UNCHANGED <<named, starred>> /\ NoFault
       \/ /\ s # Self /\ vis' = Resolved(s, actual[s])
          /\ Say(Traced(s, TRUE)) /\ NoFault
       \/ /\ s # Self /\ vis' = Resolved(s, "unknown")
          /\ Say(Traced(s, TRUE)) /\ Fault
  /\ UNCHANGED <<cfg, actual, pc, private, masked, at, result, rows, queued, end,
                 marked, account, moved>>

MaskFleet ==
  /\ pc = "resolve" /\ Unresolved = {}
  /\ pc' = "announce"
  /\ masked' = masked \cup MaskedSlugs
  /\ UNCHANGED <<cfg, actual, vis, private, at, result, rows, queued, end, history>>

(* The central warnings, one notice per discovery filter, which lists public
   repositories alone under `redact`, and one per ignored duplicate.       *)
Announced ==
  CentralWarnings
    \cup (IF cfg.policy = "show" THEN cfg.filtered ELSE cfg.filtered \ private)
    \cup UNION {Lines(s) : s \in Ignored}

Announce ==
  /\ pc = "announce"
  /\ Say(Announced) /\ NoFault
  /\ \/ /\ Following(0) = {} /\ FailRun
     \/ /\ at' \in Following(0) /\ pc' = "work"
        /\ UNCHANGED <<cfg, actual, vis, private, masked, result, rows, queued, end,
                       marked, account, moved>>

-----------------------------------------------------------------------------
(* One target.  Its lines go through its channel: spoken with the slug, or kept
   for its report.                                                         *)

Injects(s) ==
  Deliverable(s) /\ s \notin cfg.rejected /\ cfg.channel \in {"issue", "issue-on-failure"}

Tell(s) == marked' = IF Injects(s) THEN marked \cup {s} ELSE marked

(* What processTarget() may return: a rejected name or an unread file fails, a
   remote target without a file and without defaults is skipped.           *)
WorkResults(s) ==
  IF s \in cfg.rejected THEN {"failed"}
  ELSE {"failed", "partial", "healthy"}
         \cup (IF cfg.check THEN {"drift"} ELSE {})
         \cup (IF s \notin ToSet(cfg.central) /\ cfg.defaults = "none" THEN {"skipped"} ELSE {})

ProcessTarget ==
  /\ pc = "work"
  /\ pc' = "report"
  /\ result' \in WorkResults(Target)
  /\ Tell(Target)
  /\ Say(Lines(Target) \cup Traced(Target, FALSE)) /\ NoFault
  /\ UNCHANGED <<cfg, actual, vis, private, masked, at, rows, queued, end, account, moved>>

(* attempt(): a crash is the target's failure and closes like any other. *)
CrashEndsRun ==
  /\ pc' = "flush" /\ end' = [end EXCEPT !.kind = "thrown"]
  /\ UNCHANGED result
CrashFailsTarget ==
  /\ pc' = "report" /\ result' = "failed"
  /\ UNCHANGED end
TargetCrashes ==
  /\ pc = "work" /\ Target \notin cfg.rejected
  /\ CrashFailsTarget
  /\ Say(Lines(Target)) /\ Fault
  /\ Tell(Target)
  /\ UNCHANGED <<cfg, actual, vis, private, masked, at, rows, queued, account, moved>>

(* withDelivery(): what becomes of the report of a closed target.  The channel
   speaks of a target by its placeholder.                                  *)
ReportFate(s) ==
  IF cfg.channel = "none" \/ ~Hidden(s) THEN {"none"}
  ELSE IF ~Deliverable(s) THEN {"withheld"}
  ELSE IF cfg.channel = "artifact" THEN {"queued"}
  ELSE IF s \in cfg.rejected THEN {"warned"}
  ELSE {"delivered"}
         \cup (IF cfg.channel = "issue-on-failure" /\ ExitCode({result}) = 0
                 THEN {"nothing"} ELSE {})

Account(fate) ==
  /\ pc' = "row"
  /\ account' = [account EXCEPT ![Target] = fate]
  /\ queued' = IF fate = "queued" THEN queued \cup {Target} ELSE queued

CloseTarget ==
  /\ pc = "report"
  /\ \/ \E fate \in ReportFate(Target) : Account(fate) /\ NoFault
     \/ "delivered" \in ReportFate(Target) /\ Account("warned") /\ Fault
  /\ UNCHANGED <<cfg, actual, vis, private, masked, at, result, rows, end,
                 named, starred, marked, moved>>

(* Composing the report throws: nothing catches it before the flush. *)
ReportThrows ==
  /\ pc = "report" /\ Deliverable(Target) /\ Fault
  /\ pc' = "flush"
  /\ end' = [end EXCEPT !.kind = "thrown"]
  /\ UNCHANGED <<cfg, actual, vis, private, masked, at, result, rows, queued,
                 named, starred, marked, account, moved>>

(* The target's one public line and its row; then the next target. *)
PushRow ==
  /\ pc = "row"
  /\ rows' = Append(rows, [target |-> Target, display |-> Display(Target), result |-> result])
  /\ \/ at' \in Following(at) /\ pc' = "work"
     \/ Following(at) = {} /\ pc' = "flush" /\ UNCHANGED at
  /\ UNCHANGED <<cfg, actual, vis, private, masked, result, queued, end, history>>

(* The finally of withDelivery(): the queued reports leave as one artifact. *)
UploadedAs(fate) == [s \in Slugs |-> IF s \in queued THEN fate ELSE account[s]]
FlushUnlessThrown ==
  /\ pc = "flush"
  /\ pc' = "conclude"
  /\ account' = IF end.kind = "thrown" THEN account ELSE UploadedAs("uploaded")
  /\ NoFault
  /\ UNCHANGED <<cfg, actual, runVars, named, starred, marked, moved>>
Flush ==
  /\ pc = "flush"
  /\ pc' = "conclude"
  /\ \/ account' = UploadedAs("uploaded") /\ NoFault
     \/ queued # {} /\ account' = UploadedAs("warned") /\ Fault
  /\ UNCHANGED <<cfg, actual, runVars, named, starred, marked, moved>>

Words == {rows[i].result : i \in DOMAIN rows}
Conclude ==
  /\ pc = "conclude"
  /\ pc' = "done"
  /\ end' = IF end.kind = "thrown" THEN end
            ELSE [kind |-> "concluded", exit |-> ExitCode(Words)]
  /\ UNCHANGED <<cfg, actual, vis, private, masked, at, result, rows, queued, history>>

(* A repository's visibility changes while the run goes on. *)
ChangeVisibility ==
  /\ pc # "done" /\ Cardinality(moved) < MaxChanges
  /\ \E s \in Slugs, v \in Actual :
       /\ v # actual[s]
       /\ actual' = [actual EXCEPT ![s] = v]
       /\ moved' = moved \cup {s}
  /\ UNCHANGED <<cfg, pc, runVars, named, starred, marked, account, faults>>

Next ==
  \/ ReadDefaults \/ ListFleet \/ DiscoveryFails \/ Probe \/ MaskFleet \/ Announce
  \/ ProcessTarget \/ TargetCrashes \/ CloseTarget \/ ReportThrows \/ PushRow
  \/ Flush \/ Conclude \/ ChangeVisibility

Spec == Init /\ [][Next]_vars
-----------------------------------------------------------------------------
(* Properties. *)

(* Every variable has its type, and a loop phase has a target. *)
TypeOK ==
  /\ cfg \in Configs /\ actual \in [Slugs -> Actual] /\ pc \in Phases
  /\ DOMAIN vis \subseteq Slugs /\ \A s \in DOMAIN vis : vis[s] \in Visibility
  /\ private \subseteq Slugs /\ masked \subseteq Slugs /\ queued \subseteq Slugs
  /\ pc \in {"work", "report", "row"} => at \in Places
  /\ result \in Results
  /\ rows \in Seq(Row)
  /\ end \in [kind : {"running", "fatal", "thrown", "concluded"}, exit : {0, 1}]
  /\ named \cup starred \cup marked \cup moved \subseteq Slugs
  /\ account \in [Slugs -> Accounts] /\ faults \in 0..MaxFaults

(* What the operator asked to hide, judged by GitHub and not by the run. *)
Secret(s) ==
  cfg.policy = "redact" /\ s # Self /\ s \notin moved /\ actual[s] # "public"

(* No public line names a repository that is not public, whether a probe failed,
   discovery filtered it out or its processing crashed, and none would name it
   if the mask were not there; excepted are the warnings about the repos-dir
   directory, whose file names the admin repository shows anyway
   (planRedaction, openTargetChannel, formatSkipNotice).                   *)
SecretsStaySecret ==
  \A s \in Slugs : Secret(s) =>
    /\ s \in named => s \in CentralWarnings /\ end.kind = "fatal"
    /\ s \in starred => s \in CentralWarnings

(* When the run names its first repository, every slug it must hide, including
   those it will never act on, is registered; excepted again is the run that
   ends before it has resolved anything (maskFleet).                       *)
MasksComeFirst ==
  [][named' # named /\ end'.kind # "fatal" =>
       \A s \in ToSet(Ordered) \cup cfg.filtered : Secret(s) => s \in masked]_vars

(* A report, or the label that marks its issue, goes only to a repository that
   was proven private: never under `show`, never to the admin repository, never
   after a probe that proved nothing (withDelivery).                       *)
ReportsOnlyWhereProven ==
  \A s \in Slugs :
    s \in marked \/ account[s] \in {"delivered", "queued", "uploaded"}
      => cfg.policy = "redact" /\ s # Self /\ (s \in moved \/ actual[s] \in Proven)

(* A run that concludes has one row per target, in order, each under a label of
   its own, and exits 1 exactly when one of them failed or, in check mode,
   drifted.  A target that crashes is such a failure and stops no later one:
   only a report that cannot be composed ends a run early (runMulti).      *)
EveryTargetConcludes ==
  /\ end.kind = "thrown" => Deliverable(Target)
  /\ end.kind = "concluded" =>
    /\ {rows[i].target : i \in DOMAIN rows} = ToSet(Ordered)
    /\ \A i, j \in DOMAIN rows : i < j => Place(rows[i].target) < Place(rows[j].target)
    /\ \A i, j \in DOMAIN rows : rows[i].display = rows[j].display => i = j
    /\ end.exit = 1 <=>
         \E i \in DOMAIN rows :
             rows[i].result = "failed" \/ (cfg.check /\ rows[i].result = "drift")

(* At the end of a run with a report channel, even of one that threw, what became
   of the report of every hidden target it concluded has been settled: it was
   delivered or uploaded, or a line said that it was not (withDelivery).   *)
ReportsAreSettled ==
  pc = "done" /\ cfg.channel # "none" =>
    \A i \in DOMAIN rows :
      rows[i].display.n > 0
        => account[rows[i].target] \in {"delivered", "uploaded", "withheld", "nothing", "warned"}
=============================================================================
