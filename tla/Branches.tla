------------------------------ MODULE Branches ------------------------------
(***************************************************************************)
(* The branches section: classic branch protection.  An entry is           *)
(* [name, protection].  A literal name applies through the REST PUT, which *)
(* replaces the controls, then the signatures sub-endpoint and, for the    *)
(* two keys REST has no field for, the rule mutation; a wildcard through   *)
(* the rule mutations alone.                                               *)
(*                                                                         *)
(* A protection is Off (null) or [rest, signatures, bypass, deploy]: rest  *)
(* a partial function from REST controls to values, the others Unset when  *)
(* omitted, deploy Off when null.  GitHub: [rules, branches, actors,       *)
(* deployable, born]; rules is a partial function from patterns to         *)
(* [id, rest, signatures, bypass, deploy], complete and under GitHub's own *)
(* spelling of names.                                                      *)
(***************************************************************************)
EXTENDS SectionData

CONSTANT Matches    \* the wildcard patterns, each with the branches it matches

Controls == {"checks", "linear"}
Bare == [rest |-> [c \in Controls |-> Off], signatures |-> FALSE, bypass |-> {}, deploy |-> Off]
IsWildcard(name) == name \in DOMAIN Matches
Deploys(deploy) == IF deploy = Off THEN Off ELSE Names(deploy)

(* The rule REST reads a branch's protection from: its own, else the oldest
   wildcard that matches it.                                               *)
Matching(name, live) == {p \in DOMAIN live.rules : IsWildcard(p) /\ name \in Matches[p]}
Protecting(name, live) ==
  IF name \in DOMAIN live.rules THEN name
  ELSE IF Matching(name, live) = {} THEN Unset
  ELSE CHOOSE p \in Matching(name, live) : \A q \in Matching(name, live) : live.rules[p].id <= live.rules[q].id
Held(pattern, live) == IF pattern \in DOMAIN live.rules THEN live.rules[pattern] ELSE Bare

-----------------------------------------------------------------------------
(* Planning.  `late` are the actors an operation's mutation names, `before`
   those its before hook resolves.                                         *)

BranchOp(role, name, id, val, late) ==
  [role |-> role, name |-> name, id |-> id, val |-> val, late |-> late, before |-> {}, drift |-> TRUE]

(* restPayload(): what the declaration omits, the PUT switches off, and a live
   control it omits is drift.                                              *)
Wanted(p, c) == IF c \in DOMAIN p.rest THEN p.rest[c] ELSE Off
Payload(p) == [c \in Controls |-> Wanted(p, c)]
PutPlanned(e, live) ==
  Protecting(e.name, live) = Unset \/ Payload(e.protection) # Held(Protecting(e.name, live), live).rest

(* routedKeyDrift(), against the rule of that very pattern. *)
RoutedDiffers(p, rule) ==
  \/ p.bypass # Unset /\ Names(p.bypass) # rule.bypass
  \/ p.deploy # Unset /\ Deploys(p.deploy) # rule.deploy
Actors(p) == IF p.bypass = Unset THEN {} ELSE p.bypass
RoutedOnly(p) == [p EXCEPT !.rest = <<>>, !.signatures = Unset]

(* The signatures toggle and the routed keys are applied again behind a PUT:
   GitHub does not say whether it keeps them.                              *)
ToggleDue(wanted, held, put) == wanted # Unset /\ (wanted # held \/ put)
RoutedDue(p, rule, put) ==
  (p.bypass # Unset \/ p.deploy # Unset) /\ (RoutedDiffers(p, rule) \/ put)
LiteralOps(e, live) ==
  LET p == e.protection
      held == Held(Protecting(e.name, live), live)
      put == PutPlanned(e, live)
      id == IF e.name \in DOMAIN live.rules THEN live.rules[e.name].id ELSE Unset
  IN  IF p = Off
      THEN If(Protecting(e.name, live) # Unset, BranchOp("removeProtection", e.name, Unset, Off, {}))
      ELSE If(put, BranchOp("putProtection", e.name, Unset, Payload(p), {}))
           \o If(ToggleDue(p.signatures, held.signatures, put),
                 BranchOp(IF p.signatures THEN "sigPost" ELSE "sigDelete", e.name, Unset, p.signatures, {}))
           \o If(RoutedDue(p, Held(e.name, live), put),
                 BranchOp("updateRule", e.name, id, RoutedOnly(p), Actors(p)))

(* planWildcardEntry(): an existing rule is compared and written by the declared
   keys alone.                                                             *)
WildcardOps(e, live) ==
  LET p == e.protection
      rule == live.rules[e.name]
  IN  IF e.name \notin DOMAIN live.rules
      THEN If(p # Off, BranchOp("createRule", e.name, Unset, p, Actors(p)))
      ELSE IF p = Off THEN <<BranchOp("deleteRule", e.name, rule.id, Off, {})>>
      ELSE If(\/ \E c \in DOMAIN p.rest : p.rest[c] # rule.rest[c]
              \/ p.signatures \notin {Unset, rule.signatures}
              \/ RoutedDiffers(p, rule),
              BranchOp("updateRule", e.name, rule.id, p, Actors(p)))

(* withActorsResolvedFirst(): every actor any mutation names, ahead of the first
   write of all.                                                           *)
ActorsResolvedFirst(ops) ==
  IF ops = <<>> THEN ops ELSE [ops EXCEPT ![1].before = UNION {ops[i].late : i \in DOMAIN ops}]

EntryOps(e, live) == IF IsWildcard(e.name) THEN WildcardOps(e, live) ELSE LiteralOps(e, live)

(* A literal entry for a branch that does not exist fails the plan. *)
MissingBranch(e, live) ==
  /\ ~IsWildcard(e.name) /\ e.protection # Off
  /\ Protecting(e.name, live) = Unset /\ e.name \notin live.branches
BranchPlan(d, live) ==
  [failed |-> \E i \in DOMAIN d : MissingBranch(d[i], live),
   ops |-> ActorsResolvedFirst(FlattenSeq([i \in DOMAIN d |-> EntryOps(d[i], live)]))]

-----------------------------------------------------------------------------
(* Sending. *)

(* An actor nobody knows, or a rule that cannot be found under its pattern when
   the plan did not carry its id.                                          *)
BranchRefuses(op, live) ==
  \/ ~(Names(op.before) \subseteq live.actors)
  \/ op.role = "updateRule" /\ op.id = Unset /\ op.name \notin DOMAIN live.rules

Target(op, live) ==
  IF op.id = Unset THEN {op.name} \cap DOMAIN live.rules
  ELSE {p \in DOMAIN live.rules : live.rules[p].id = op.id}
BranchAccepts(op, live) ==
  CASE op.role = "putProtection" -> op.name \in live.branches
    [] op.role = "createRule" -> op.name \notin DOMAIN live.rules
    [] OTHER -> Target(op, live) # {}

(* A mutation sets the fields it carries; environments that do not exist are
   dropped from it without a word.                                         *)
Mutated(rule, val, live) ==
  [rule EXCEPT !.rest = Overlaid(@, val.rest),
               !.signatures = IF val.signatures = Unset THEN @ ELSE val.signatures,
               !.bypass = IF val.bypass = Unset THEN @ ELSE Names(val.bypass),
               !.deploy = IF val.deploy \in {Unset, Off} THEN IF val.deploy = Unset THEN @ ELSE Off
                          ELSE Names(val.deploy) \cap live.deployable]
NewRule(live) == [id |-> live.born + 1] @@ Bare
Unprotected(live, S) == [live EXCEPT !.rules = Without(@, S)]

(* A PUT over a rule keeps any part of what it has no field for. *)
Replaced(rule, rest, kept) ==
  [rule EXCEPT !.rest = rest,
               !.signatures = IF "signatures" \in kept THEN @ ELSE FALSE,
               !.bypass = IF "bypass" \in kept THEN @ ELSE {},
               !.deploy = IF "deploy" \in kept THEN @ ELSE Off]
BranchAfter(op, live) ==
  LET target == CHOOSE p \in Target(op, live) : TRUE
      own == op.name \in DOMAIN live.rules
      base == IF own THEN live.rules[op.name] ELSE NewRule(live)
      born == IF own THEN live.born ELSE live.born + 1
      Put(rule) == [live EXCEPT !.rules = With(@, op.name, rule), !.born = born]
  IN  CASE op.role = "putProtection" ->
             {Put(Replaced(base, op.val, kept)) : kept \in SUBSET {"signatures", "bypass", "deploy"}}
        [] op.role = "createRule" -> {Put(Mutated(base, op.val, live))}
        [] op.role = "updateRule" -> {[live EXCEPT !.rules[target] = Mutated(@, op.val, live)]}
        [] op.role \in {"sigPost", "sigDelete"} -> {[live EXCEPT !.rules[target].signatures = op.val]}
        [] OTHER -> {Unprotected(live, {target})}

(* verifyDeploymentReadback(): the answer of a mutation that declares deployments
   must carry every one of them.                                           *)
TakenOnTrust(op, after) == TRUE
ReadBack(op, after) ==
  op.role \in {"createRule", "updateRule"} /\ op.val.deploy # Unset =>
    \E p \in DOMAIN after.rules :
      /\ IF op.id = Unset THEN p = op.name ELSE after.rules[p].id = op.id
      /\ after.rules[p].deploy = Deploys(op.val.deploy)

-----------------------------------------------------------------------------
(* What the section promises, said without the plan. *)

ProtectionMeets(p, rule) ==
  /\ \A c \in DOMAIN p.rest : rule.rest[c] = p.rest[c]
  /\ p.signatures \in {Unset, rule.signatures}
  /\ ~RoutedDiffers(p, rule)
BranchesMeet(d, live) ==
  \A i \in DOMAIN d :
    LET e == d[i]
        p == Protecting(e.name, live)
    IN  IF IsWildcard(e.name)
        THEN IF e.protection = Off THEN e.name \notin DOMAIN live.rules
             ELSE e.name \in DOMAIN live.rules /\ ProtectionMeets(e.protection, live.rules[e.name])
        ELSE IF e.protection = Off THEN p = Unset
             ELSE /\ p # Unset /\ ProtectionMeets(e.protection, live.rules[p])
                  /\ \A c \in Controls \ DOMAIN e.protection.rest : live.rules[p].rest[c] = Off

(* Rules no entry names stay, a wildcard rule stays the same rule with what its
   entry omits, and an actor GitHub does not know is found before any branch is
   written.                                                                *)
UnknownActor(d, before) ==
  \E i \in DOMAIN d :
    d[i].protection # Off /\ ~(Names(Actors(d[i].protection)) \subseteq before.actors \cup Held(d[i].name, before).bypass)
BranchesSpare(d, before, after) ==
  /\ \A p \in DOMAIN before.rules : (\A i \in DOMAIN d : d[i].name # p) =>
       p \in DOMAIN after.rules /\ after.rules[p] = before.rules[p]
  /\ \A i \in DOMAIN d :
       LET e == d[i]
           old == before.rules[e.name]
           new == after.rules[e.name]
       IN  IsWildcard(e.name) /\ e.protection # Off /\ e.name \in DOMAIN before.rules =>
             /\ e.name \in DOMAIN after.rules /\ new.id = old.id
             /\ \A c \in Controls \ DOMAIN e.protection.rest : new.rest[c] = old.rest[c]
             /\ e.protection.bypass = Unset => new.bypass = old.bypass
             /\ e.protection.deploy = Unset => new.deploy = old.deploy
  /\ UnknownActor(d, before) => after.rules = before.rules

(* snapshot(): the branches with a rule of their own, then the wildcard rules,
   each with the controls that are on.                                     *)
Declared(rule) ==
  [rest |-> [c \in {c \in Controls : rule.rest[c] # Off} |-> rule.rest[c]],
   signatures |-> IF rule.signatures THEN TRUE ELSE Unset,
   bypass |-> IF rule.bypass = {} THEN Unset ELSE rule.bypass,
   deploy |-> IF rule.deploy = Off THEN Unset ELSE rule.deploy]
BranchSnapshot(live) ==
  LET covered == Listed({p \in DOMAIN live.rules : IsWildcard(p) \/ p \in live.branches})
  IN  [i \in DOMAIN covered |-> [name |-> covered[i], protection |-> Declared(live.rules[covered[i]])]]

(* What others do: change a control, drop a rule, add a wildcard one. *)
BranchEdits(live) ==
  {[live EXCEPT !.rules[p].rest["checks"] = v] : p \in DOMAIN live.rules, v \in {Off, "theirs"}}
  \cup {Unprotected(live, {p}) : p \in DOMAIN live.rules}
  \cup {[live EXCEPT !.rules = With(@, p, NewRule(live)), !.born = @ + 1] :
          p \in DOMAIN Matches \ DOMAIN live.rules}
=============================================================================
