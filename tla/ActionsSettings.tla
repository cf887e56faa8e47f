--------------------------- MODULE ActionsSettings ---------------------------
(***************************************************************************)
(* The actions section: the keys of the file spread over a base            *)
(* permissions PUT, a workflow-token PUT, and an endpoint of their own for *)
(* each routed key, all diff-gated.                                        *)
(*                                                                         *)
(* The file: [base, workflow, selected, routed, cache, oidc]; base,        *)
(* workflow, routed and cache are partial functions, selected a set or     *)
(* Unset, oidc Unset or [use_default, keys].  GitHub: the same, complete;  *)
(* its allowlist is readable under the policy "selected" alone.            *)
(***************************************************************************)
EXTENDS SectionData

CONSTANT OrgTemplate    \* the organization's claim keys, taken when the file lists none

ValidActions(d) ==
  d.selected # Unset /\ "allowed_actions" \in DOMAIN d.base => d.base["allowed_actions"] = "selected"

ActionsOp(role, name, val) == [role |-> role, name |-> name, val |-> val, drift |-> TRUE]

(* baseBodies(): an allowlist implies its policy, any base key that Actions are
   on.                                                                     *)
Given(f, x, v) == IF x \in DOMAIN f THEN f ELSE With(f, x, v)
PermissionsBody(d) ==
  LET body == IF d.selected = Unset THEN d.base ELSE Given(d.base, "allowed_actions", "selected")
  IN  IF DOMAIN body = {} THEN body ELSE Given(body, "enabled", TRUE)

Readable(live) == live.base["allowed_actions"] = "selected" /\ live.selected # Unset
AllowlistDrifts(d, live) == d.selected # Unset /\ (Readable(live) => d.selected # live.selected)

(* The claim keys are compared in order, and only a custom template's own.  *)
TemplateDrifts(oidc, held) ==
  \/ Changes(Without(oidc, {"keys"}), held) # {}
  \/ ~oidc.use_default /\ oidc.keys \notin {Unset, held.keys}
OidcDrifts(d, live) == d.oidc # Unset /\ TemplateDrifts(d.oidc, live.oidc)

(* One operation per endpoint that differs from what the file declares of it.
   The routed and the cache keys have an endpoint each; theirs are unrelated,
   so the table's order is left out.                                       *)
BodyOps(role, body, held) == If(Changes(body, held) # {}, ActionsOp(role, Unset, body))
AllowlistOps(d, live) == If(AllowlistDrifts(d, live), ActionsOp("putSelected", Unset, d.selected))
KeyedOps(role, declared, held) ==
  LET keys == Listed(Changes(declared, held))
  IN  [i \in DOMAIN keys |-> ActionsOp(role, keys[i], declared[keys[i]])]
EndpointRoutedOps(d, live) == KeyedOps("putRouted", d.routed, live.routed)
CacheOps(d, live) == KeyedOps("putCache", d.cache, live.cache)
OidcOps(d, live) == If(OidcDrifts(d, live), ActionsOp("putOidcSub", Unset, d.oidc))
RoutedOps(d, live) ==
  AllowlistOps(d, live) \o EndpointRoutedOps(d, live) \o CacheOps(d, live) \o OidcOps(d, live)

(* The base permissions first: the allowlist's PUT is refused before them.  *)
ActionsPlan(d, live) ==
  [failed |-> FALSE,
   ops |-> BodyOps("putPermissions", PermissionsBody(d), live.base)
           \o BodyOps("putWorkflow", d.workflow, live.workflow)
           \o RoutedOps(d, live)]

-----------------------------------------------------------------------------
(* GitHub: a body sets the keys it carries that GitHub knows; the allowlist is a
   409 under any other policy.                                             *)
ActionsAccepts(op, live) == op.role = "putSelected" => live.base["allowed_actions"] = "selected"

Template(oidc) ==
  [use_default |-> oidc.use_default,
   keys |-> IF oidc.use_default THEN Unset ELSE IF oidc.keys = Unset THEN OrgTemplate ELSE oidc.keys]
ActionsAfter(op, live) ==
  CASE op.role = "putPermissions" -> [live EXCEPT !.base = Overlaid(@, Echoed(op.val, @))]
    [] op.role = "putWorkflow" -> [live EXCEPT !.workflow = Overlaid(@, op.val)]
    [] op.role = "putSelected" -> [live EXCEPT !.selected = op.val]
    [] op.role = "putRouted" -> [live EXCEPT !.routed[op.name] = op.val]
    [] op.role = "putCache" -> [live EXCEPT !.cache[op.name] = op.val]
    [] op.role = "putOidcSub" -> [live EXCEPT !.oidc = Template(op.val)]

-----------------------------------------------------------------------------
(* What the section promises, said without the plan. *)
ActionsMeets(d, live) ==
  /\ AllSeenAgrees(d.base, live.base) /\ AllSeenAgrees(d.workflow, live.workflow)
  /\ AllSeenAgrees(d.routed, live.routed) /\ AllSeenAgrees(d.cache, live.cache)
  /\ d.selected # Unset => live.base["allowed_actions"] = "selected" /\ live.selected = d.selected
  /\ d.oidc # Unset => live.oidc = Template(d.oidc)
       \/ (d.oidc.keys = Unset /\ live.oidc.use_default = d.oidc.use_default)
       \/ (d.oidc.use_default /\ live.oidc.use_default)

(* The rewrite a note announces: of base and template keys GitHub never answers with. *)
RewritesUnseen(op, live) ==
  \/ op.role = "putPermissions" /\ AllSeenAgrees(op.val, live.base)
  \/ op.role = "putOidcSub" /\ ~TemplateDrifts(Echoed(op.val, live.oidc), live.oidc)

(* Every key no entry names: `enabled` only when no base key is written.    *)
Kept(declared, old, new) == \A k \in DOMAIN old \ DOMAIN declared : new[k] = old[k]
ActionsSpares(d, before, after) ==
  /\ Kept(PermissionsBody(d), before.base, after.base) /\ Kept(d.workflow, before.workflow, after.workflow)
  /\ Kept(d.routed, before.routed, after.routed) /\ Kept(d.cache, before.cache, after.cache)
  /\ d.selected = Unset => after.selected = before.selected
  /\ d.oidc = Unset => after.oidc = before.oidc

(* snapshot(): an allowlist appears under its own policy alone. *)
ActionsSnapshot(live) == [live EXCEPT !.selected = IF Readable(live) THEN @ ELSE Unset]

(* What others do: switch the policy, change the allowlist, reorder the claims. *)
ActionsEdits(live) ==
  {[live EXCEPT !.base["allowed_actions"] = p] : p \in {"all", "selected"}}
  \cup {[live EXCEPT !.base["enabled"] = FALSE], [live EXCEPT !.cache["size"] = 9],
        [live EXCEPT !.oidc = [use_default |-> FALSE, keys |-> <<"repo", "ref">>]]}
  \cup (IF Readable(live) THEN {[live EXCEPT !.selected = {}]} ELSE {})
=============================================================================
