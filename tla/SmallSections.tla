---------------------------- MODULE SmallSections ----------------------------
(***************************************************************************)
(* The sections with one resource and one or two writes: custom_properties *)
(* (one bulk PATCH), pages (create, then update), the two setups of code   *)
(* scanning and code quality (a PATCH that starts a run), workflows (a     *)
(* switch per file) and check_suite_preferences (written blind).           *)
(***************************************************************************)
EXTENDS SectionData

CONSTANT PatchName      \* a language as the GET names it: the PATCH's name, or Unset

SmallOp(role, name, val, drift) == [role |-> role, name |-> name, val |-> val, drift |-> drift]
KeepsOthers(declared, before, after) == \A k \in DOMAIN before \ DOMAIN declared : after[k] = before[k]

-----------------------------------------------------------------------------
(* Custom properties: [values, defaults, defined].  A value is a pair of "one"
   or "many" and a set, so that a list is compared as one; a property with none
   is absent, or on the organization's default.                            *)

ValueOf(name, live) == IF name \in DOMAIN live.values THEN live.values[name] ELSE Off
PropertyPlan(d, live) ==
  LET changed == {n \in DOMAIN d.entries : d.entries[n] # ValueOf(n, live)}
      unset == IF d.policy = "keep" THEN {} ELSE DOMAIN live.values \ DOMAIN d.entries
      body == [n \in changed \cup unset |-> IF n \in changed THEN d.entries[n] ELSE Off]
  IN  [failed |-> FALSE, ops |-> If(DOMAIN body # {}, SmallOp("update", Unset, body, TRUE))]

(* GitHub takes all of the body or nothing: every property has to be defined. *)
PropertyAccepts(op, live) == DOMAIN op.val \subseteq live.defined
PropertyAfter(op, live) ==
  LET unset == {n \in DOMAIN op.val : op.val[n] = Off}
      reverted == unset \cap DOMAIN live.defaults
      written == [n \in (DOMAIN op.val \ unset) \cup reverted |->
                    IF n \in reverted THEN live.defaults[n] ELSE op.val[n]]
  IN  [live EXCEPT !.values = Overlaid(Without(@, unset), written)]

(* An unset property with a default has that value again, and no run of a
   repository can change it.                                               *)
PropertiesMeet(d, live) ==
  /\ \A n \in DOMAIN d.entries :
       ValueOf(n, live) = d.entries[n] \/ (d.entries[n] = Off /\ n \in DOMAIN live.defaults)
  /\ d.policy = "delete" => DOMAIN live.values \subseteq DOMAIN d.entries \cup DOMAIN live.defaults
PropertiesSpare(d, before, after) ==
  d.policy = "keep" =>
    \A n \in DOMAIN before.values \ DOMAIN d.entries : ValueOf(n, after) = before.values[n]
(* An unset a default answers, which the drift line announces. *)
OnlyReverts(op, live) == \A n \in DOMAIN op.val : op.val[n] = Off /\ n \in DOMAIN live.defaults
PropertySnapshot(live) ==
  IF DOMAIN live.values = {} THEN Unset ELSE [policy |-> "keep", entries |-> live.values]
PropertyEdits(live) ==
  {[live EXCEPT !.values = Without(@, {n})] : n \in DOMAIN live.values}
  \cup {[live EXCEPT !.values = With(@, n, <<"one", {"theirs"}>>)] : n \in live.defined}

-----------------------------------------------------------------------------
(* Pages: [site, hosted].  The site is Unset or a record; the create takes two
   of its keys; visibility can be set on a hosted organization alone.      *)

SiteKeys == {"build_type", "source", "https_enforced", "public"}
CreateKeys == {"build_type", "source"}
NewSite == [k \in SiteKeys |-> CASE k = "build_type" -> "legacy" [] k = "source" -> "gh-pages /"
                                 [] k = "https_enforced" -> FALSE [] k = "public" -> TRUE]

(* wireSource(): a source without a path is the root's. *)
Wire(d) == [k \in DOMAIN d |-> IF k = "source" THEN Canonical[d[k]] ELSE d[k]]

PagesPlan(d, live) ==
  LET created == [k \in DOMAIN d \cap CreateKeys |-> Wire(d)[k]]
  IN  [failed |-> FALSE,
       ops |-> IF d = Off THEN If(live.site # Unset, SmallOp("remove", Unset, Unset, TRUE))
               ELSE IF live.site = Unset
               THEN <<SmallOp("create", Unset, created, TRUE)>>
                    \o If(DOMAIN d \ CreateKeys # {}, SmallOp("update", Unset, Wire(d), TRUE))
               ELSE If(Changes(Wire(d), live.site) # {}, SmallOp("update", Unset, Wire(d), TRUE))]

PagesAccepts(op, live) == IF op.role = "create" THEN live.site = Unset ELSE live.site # Unset
Settable(live) == IF live.hosted THEN SiteKeys ELSE SiteKeys \ {"public"}
Carried(body, live) == [k \in DOMAIN body \cap Settable(live) |-> body[k]]
PagesAfter(op, live) ==
  CASE op.role = "create" -> [live EXCEPT !.site = Overlaid(NewSite, op.val)]
    [] op.role = "update" -> [live EXCEPT !.site = Overlaid(@, Carried(op.val, live))]
    [] op.role = "remove" -> [live EXCEPT !.site = Unset]

PagesMeet(d, live) ==
  IF d = Off THEN live.site = Unset
  ELSE live.site # Unset /\ Changes(Carried(Wire(d), live), live.site) = {}
PagesSpare(d, before, after) ==
  d # Off /\ before.site # Unset => after.site # Unset /\ KeepsOthers(d, before.site, after.site)
(* What the notes say never converges: a site made private without the host for it,
   a key GitHub never answers with.                                        *)
OnlyUnsettable(op, live) ==
  op.role = "update" /\ live.site # Unset /\ Changes(op.val, live.site) \cap Settable(live) = {}
PagesSnapshot(live) == live.site
PagesEdits(live) ==
  {[live EXCEPT !.site = Unset], [live EXCEPT !.site = NewSite]}

-----------------------------------------------------------------------------
(* A setup: [state, languages, rollout].  state and languages are what the GET
   reports, languages in its own vocabulary; rollout is the configuration run a
   PATCH started, Unset or what the setup becomes when it ends.            *)

(* inPatchVocabulary(): names folded, those the PATCH does not know set aside. *)
InPatchNames(names) == {PatchName[n] : n \in {n \in names : PatchName[n] # Unset}}
Reported(live) == [state |-> live.state, languages |-> InPatchNames(live.languages)]

SetupPlan(d, live) ==
  [failed |-> FALSE, ops |-> If(Changes(d, Reported(live)) # {}, SmallOp("update", Unset, d, TRUE))]

(* A 409 while a run is in progress; else a 202, and the run has yet to end, or a
   200, and it is done.                                                    *)
SetupAccepts(op, live) == live.rollout = Unset
InGetNames(languages, live) ==
  {n \in live.languages : PatchName[n] = Unset} \cup {n \in DOMAIN PatchName : PatchName[n] \in languages}
SetupTarget(d, live) ==
  [state |-> IF "state" \in DOMAIN d THEN d["state"] ELSE live.state,
   languages |-> IF "languages" \in DOMAIN d THEN InGetNames(d["languages"], live) ELSE live.languages]
RolledOut(live) ==
  IF live.rollout = Unset THEN live
  ELSE [state |-> live.rollout.state, languages |-> live.rollout.languages, rollout |-> Unset]

SetupAfter(op, live) ==
  LET run == [live EXCEPT !.rollout = SetupTarget(op.val, live)]
  IN  {run, RolledOut(run)}

(* Applied: in force, or what the run in progress ends in; but for the keys GitHub
   never answers with, which a note names and every run sends again.       *)
SetupMeets(d, live) == AllSeenAgrees(d, Reported(RolledOut(live)))
RewritesUnseen(op, live) == AllSeenAgrees(op.val, Reported(live))
SetupSpares(d, before, after) == KeepsOthers(d, Reported(before), Reported(RolledOut(after)))
SetupSnapshot(live) == Reported(live)
SetupEdits(live) == IF live.rollout = Unset THEN {[live EXCEPT !.state = "off"]} ELSE {}

-----------------------------------------------------------------------------
(* Workflows: a partial function from paths to states. *)

EffectiveState(state) == IF state = "active" THEN "active" ELSE "disabled"
HasFile(path, live) == path \in DOMAIN live /\ live[path] # "deleted"

(* No operation creates a workflow file: a path without one is skipped. *)
WorkflowPlan(d, live) ==
  LET switched == Listed({p \in DOMAIN d : HasFile(Canonical[p], live)
                                              /\ EffectiveState(live[Canonical[p]]) # d[p]})
      Switch(p) == SmallOp(IF d[p] = "active" THEN "enable" ELSE "disable", Canonical[p], Unset, TRUE)
  IN  [failed |-> FALSE, ops |-> [i \in DOMAIN switched |-> Switch(switched[i])]]

WorkflowAccepts(op, live) == HasFile(op.name, live)
WorkflowAfter(op, live) ==
  [live EXCEPT ![op.name] = IF op.role = "enable" THEN "active" ELSE "disabled_manually"]
WorkflowsMeet(d, live) ==
  \A p \in DOMAIN d : HasFile(Canonical[p], live) => EffectiveState(live[Canonical[p]]) = d[p]
WorkflowsSpare(d, before, after) ==
  \A p \in DOMAIN before : (\A q \in DOMAIN d : Canonical[q] # p) => after[p] = before[p]
WorkflowSnapshot(live) ==
  LET present == {p \in DOMAIN live : HasFile(p, live)}
  IN  IF present = {} THEN Unset ELSE [p \in present |-> EffectiveState(live[p])]
WorkflowEdits(live) ==
  {[live EXCEPT ![p] = state] : p \in DOMAIN live, state \in {"active", "disabled_inactivity", "deleted"}}

-----------------------------------------------------------------------------
(* Check suite preferences: no read, so every run writes all of them and none
   shows drift.                                                            *)
SuitePlan(d, live) == [failed |-> FALSE, ops |-> <<SmallOp("update", Unset, d, FALSE)>>]
SuiteAfter(op, live) == Overlaid(live, op.val)
SuitesMeet(d, live) == Changes(d, live) = {}
SuitesSpare(d, before, after) == KeepsOthers(d, before, after)
SuiteEdits(live) == {[live EXCEPT ![a] = ~@] : a \in DOMAIN live}
=============================================================================
