----------------------------- MODULE Repository -----------------------------
(***************************************************************************)
(* The repository section: one diff-gated PATCH, the topics replaced       *)
(* whole, a probe and a write per toggle, Git LFS sent blind, and the two  *)
(* settings only GraphQL has, verified in the mutation's answer.           *)
(*                                                                         *)
(* The file: [fields, topics, toggles, lfs, routed], fields, toggles and   *)
(* routed being partial functions.  GitHub: [fields, topics, on,           *)
(* inapplicable, enforced, lfs, routed, restricted]: the fields it echoes, *)
(* the toggles that are on, those the repository cannot have, those its    *)
(* owner decides, and the routed keys it answers without obeying.          *)
(***************************************************************************)
EXTENDS SectionData

Toggles == {"alerts", "reporting", "releases"}

RepositoryOp(role, name, val, drift) == [role |-> role, name |-> name, val |-> val, drift |-> drift]

PatchOps(d, live) ==
  If(Changes(d.fields, live.fields) # {}, RepositoryOp("update", Unset, d.fields, TRUE))

(* normalizeTopics(): compared as sets after the fold, replaced whole.      *)
TopicOps(d, live) ==
  If(d.topics # Unset /\ Names(d.topics) # live.topics,
     RepositoryOp("topics", Unset, Names(d.topics), TRUE))

(* Each toggle's own GET, where 404 is off, and its own PUT or DELETE.      *)
IsOn(t, live) == t \in live.on
ToggleOps(d, live) ==
  LET flipped == Listed({t \in DOMAIN d.toggles : d.toggles[t] # IsOn(t, live)})
  IN  [i \in DOMAIN flipped |-> RepositoryOp("toggle", flipped[i], d.toggles[flipped[i]], TRUE)]

(* No endpoint reads Git LFS back: sent on every apply, never drift.        *)
LfsOps(d) == If(d.lfs # Unset, RepositoryOp("lfs", Unset, d.lfs, FALSE))

(* The routed keys that diverged travel in one mutation; a declared one whose
   live value cannot be read fails the plan.                               *)
Unreadable(d, live) == {k \in DOMAIN d.routed : live.routed[k] = Unset}
RoutedOps(d, live) ==
  LET diverged == {k \in DOMAIN d.routed : d.routed[k] # live.routed[k]}
  IN  If(diverged # {}, RepositoryOp("updateFeatures", Unset, [k \in diverged |-> d.routed[k]], TRUE))

(* The PATCH first: it may be what brings the repository back for the rest. *)
RepositoryPlan(d, live) ==
  [failed |-> Unreadable(d, live) # {},
   ops |-> PatchOps(d, live) \o TopicOps(d, live) \o ToggleOps(d, live) \o LfsOps(d)
           \o RoutedOps(d, live)]

-----------------------------------------------------------------------------
(* GitHub.  An archived repository takes no write but the PATCH that brings it
   back, and a toggle it cannot have is never switched on.                 *)
Archived(live) == live.fields["archived"] = TRUE
Unarchives(op) == op.role = "update" /\ "archived" \in DOMAIN op.val /\ op.val["archived"] = FALSE

RepositoryAccepts(op, live) ==
  /\ Archived(live) => Unarchives(op)
  /\ op.role = "toggle" /\ op.val => op.name \notin live.inapplicable

(* The answers that are tolerated and change nothing: the owner decides (409),
   it was off already (404, 422).                                          *)
Tolerated(op, live) ==
  op.role = "toggle" /\ (op.name \in live.enforced \/ (~op.val /\ op.name \in live.inapplicable))

RepositoryAfter(op, live) ==
  CASE Tolerated(op, live) -> live
    [] op.role = "toggle" -> [live EXCEPT !.on = IF op.val THEN @ \cup {op.name} ELSE @ \ {op.name}]
    [] op.role = "update" -> [live EXCEPT !.fields = Overlaid(@, Echoed(op.val, @))]
    [] op.role = "topics" -> [live EXCEPT !.topics = op.val]
    [] op.role = "lfs" -> [live EXCEPT !.lfs = op.val]
    [] op.role = "updateFeatures" ->
         [live EXCEPT !.routed =
            [k \in DOMAIN @ |-> IF k \in DOMAIN op.val \ live.restricted THEN op.val[k] ELSE @[k]]]

(* verifiedRoutedChange(): the mutation's echo carries every value that was set. *)
EchoVerified(op, after) ==
  op.role = "updateFeatures" => \A k \in DOMAIN op.val : after.routed[k] = op.val[k]

-----------------------------------------------------------------------------
(* What the section promises, said without the plan. *)

(* A field GitHub does not echo and a toggle its owner decides are out of reach,
   and the notes say so.                                                   *)
RepositoryMeets(d, live) ==
  /\ AllSeenAgrees(d.fields, live.fields)
  /\ d.topics # Unset => live.topics = Names(d.topics)
  /\ \A t \in DOMAIN d.toggles \ live.enforced : IsOn(t, live) = d.toggles[t]
  /\ d.lfs \in {Unset, live.lfs}
  /\ \A k \in DOMAIN d.routed : live.routed[k] = d.routed[k]

(* The rewrite a note announces: only of keys GitHub never answers with.     *)
RewritesUnseen(op, live) == op.role = "update" /\ AllSeenAgrees(op.val, live.fields)

RepositorySpares(d, before, after) ==
  /\ \A f \in DOMAIN before.fields \ DOMAIN d.fields : after.fields[f] = before.fields[f]
  /\ d.topics = Unset => after.topics = before.topics
  /\ \A t \in (before.on \cup after.on) \ DOMAIN d.toggles : IsOn(t, after) = IsOn(t, before)
  /\ d.lfs = Unset => after.lfs = before.lfs
  /\ \A k \in DOMAIN before.routed \ DOMAIN d.routed : after.routed[k] = before.routed[k]

(* snapshot(): a null field, no topics and an unreadable routed key are left
   out; so are the toggles when every probe answered 404, which a token without
   the grant would see as well.                                            *)
Concealable(t, live) == ~IsOn(t, live) /\ (t = "reporting" => t \in live.inapplicable)
RepositorySnapshot(live) ==
  [fields |-> [f \in {f \in DOMAIN live.fields : live.fields[f] # Off} |-> live.fields[f]],
   topics |-> IF live.topics = {} THEN Unset ELSE live.topics,
   toggles |-> [t \in {t \in Toggles : \E u \in Toggles : ~Concealable(u, live)} |-> IsOn(t, live)],
   lfs |-> Unset,
   routed |-> [k \in {k \in DOMAIN live.routed : live.routed[k] # Unset} |-> live.routed[k]]]

(* What others do: archive, edit a field, flip a toggle, change the topics. *)
RepositoryEdits(live) ==
  {[live EXCEPT !.fields["archived"] = b] : b \in BOOLEAN}
  \cup {[live EXCEPT !.fields["description"] = "theirs"], [live EXCEPT !.topics = {}]}
  \cup {[live EXCEPT !.on = @ \ {t}] : t \in live.on \ live.enforced}
  \cup {[live EXCEPT !.routed[k] = "all"] : k \in DOMAIN live.routed \ live.restricted}
=============================================================================
