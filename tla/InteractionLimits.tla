-------------------------- MODULE InteractionLimits --------------------------
(***************************************************************************)
(* The interaction_limits section: a base limit that expires by itself and *)
(* is armed again by every run, the cap on open pull requests, and the     *)
(* list of those who may pass it.                                          *)
(*                                                                         *)
(* The file: Off (null), or [limit, cap, bypass], each Unset when omitted. *)
(* GitHub: [base, cap, bypass]; base is Unset or [limit, origin], cap is   *)
(* Unset where the repository cannot have one (405).                       *)
(***************************************************************************)
EXTENDS SectionData

CONSTANT BypassMax      \* BYPASS_MAX: what the list holds at most

LimitOp(role, val, drift) == [role |-> role, val |-> val, drift |-> drift]

InheritedLimit(live) == live.base # Unset /\ live.base.origin # "repository"
LimitDrifts(limit, live) == live.base = Unset \/ live.base.limit # limit
CapDrifts(cap, live) == cap # Unset /\ live.cap # Unset /\ \E k \in DOMAIN cap : cap[k] # live.cap[k]

(* bypassDelta(): removals before additions. *)
BypassOps(bypass, live) ==
  LET gone == live.bypass \ Names(bypass)
      new == Names(bypass) \ live.bypass
  IN  If(gone # {}, LimitOp("bypassRemove", gone, TRUE)) \o If(new # {}, LimitOp("bypassAdd", new, TRUE))

(* null clears the base limit alone. *)
LimitPlan(d, live) ==
  [failed |-> FALSE,
   ops |-> IF d = Off THEN If(live.base # Unset, LimitOp("remove", Unset, TRUE))
           ELSE If(d.limit # Unset, LimitOp("put", d.limit, LimitDrifts(d.limit, live)))
                \o If(CapDrifts(d.cap, live), LimitOp("capPatch", d.cap, TRUE))
                \o (IF d.bypass = Unset THEN <<>> ELSE BypassOps(d.bypass, live))]

(* GitHub: a full list takes nobody; a limit set above the repository answers
   409 and stays, a cap the repository cannot have 405, and both are tolerated. *)
LimitAccepts(op, live) ==
  op.role = "bypassAdd" => Cardinality(live.bypass \cup op.val) <= BypassMax
LimitAfter(op, live) ==
  CASE op.role \in {"put", "remove"} /\ InheritedLimit(live) -> live
    [] op.role = "capPatch" /\ live.cap = Unset -> live
    [] op.role = "put" -> [live EXCEPT !.base = [limit |-> op.val, origin |-> "repository"]]
    [] op.role = "remove" -> [live EXCEPT !.base = Unset]
    [] op.role = "capPatch" -> [live EXCEPT !.cap = Overlaid(@, op.val)]
    [] op.role = "bypassRemove" -> [live EXCEPT !.bypass = @ \ op.val]
    [] op.role = "bypassAdd" -> [live EXCEPT !.bypass = @ \cup op.val]

(* What the section promises, said without the plan; a limit set above and a cap
   the repository cannot have stay drift.                                  *)
LimitsMeet(d, live) ==
  IF d = Off THEN live.base = Unset \/ InheritedLimit(live)
  ELSE /\ d.limit # Unset => InheritedLimit(live) \/ ~LimitDrifts(d.limit, live)
       /\ ~CapDrifts(d.cap, live)
       /\ d.bypass # Unset => live.bypass = Names(d.bypass)

LimitsSpare(d, before, after) ==
  /\ InheritedLimit(before) => after.base = before.base
  /\ d = Off => [after EXCEPT !.base = before.base] = before
  /\ d # Off =>
       /\ d.limit = Unset => after.base = before.base
       /\ d.cap = Unset => after.cap = before.cap
       /\ d.bypass = Unset => after.bypass = before.bypass
       /\ d.bypass # Unset => before.bypass \cap Names(d.bypass) \subseteq after.bypass

(* snapshot(): only what the repository itself owns. *)
LimitSnapshot(live) ==
  LET limit == IF live.base = Unset \/ InheritedLimit(live) THEN Unset ELSE live.base.limit
      cap == IF live.cap = Unset \/ live.cap["enabled"] # TRUE THEN Unset ELSE live.cap
      bypass == IF live.cap = Unset \/ live.bypass = {} THEN Unset ELSE live.bypass
  IN  IF limit = Unset /\ cap = Unset /\ bypass = Unset THEN Unset
      ELSE [limit |-> limit, cap |-> cap, bypass |-> bypass]

(* The limit expires; others take it over, fill the list, switch the cap off. *)
LimitEdits(live) ==
  {[live EXCEPT !.base = Unset], [live EXCEPT !.base = [limit |-> "existing", origin |-> "organization"]]}
  \cup (IF Cardinality(live.bypass) < BypassMax THEN {[live EXCEPT !.bypass = @ \cup {"zed"}]} ELSE {})
  \cup (IF live.cap = Unset THEN {} ELSE {[live EXCEPT !.cap["enabled"] = FALSE]})
=============================================================================
