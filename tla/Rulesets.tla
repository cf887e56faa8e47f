------------------------------ MODULE Rulesets ------------------------------
(***************************************************************************)
(* One declared ruleset.  Its update is a PUT of the whole object, so the  *)
(* comparison goes into every nested list, an entry that omits something   *)
(* GitHub holds is refused, and a ruleset is compared in the form GitHub   *)
(* stores it in: refs in full, actors with their mode.  Pairing rulesets   *)
(* with entries, and what is undeclared, is ListSection's.                 *)
(*   live = [ruleset, writable]: Unset or the stored object, and whether   *)
(*   the token may write it, without which bypass_actors stays concealed.  *)
(***************************************************************************)
EXTENDS SectionData, Deltas, TLC

CONSTANTS
  FullRef,        \* per target but push: a name of the file to the ref GitHub stores
  RuleDefaults    \* the rule types GitHub knows: the parameters it fills in

(* Where the slice stops knowing the keys, and how the lists pair. *)
Passthrough == {<<"rules", "[]">>, <<"bypass_actors", "[]">>}
MatchBy == <<"rules">> :> {"type"} @@ <<"bypass_actors">> :> {"actor_type", "actor_id"}
SliceKeys == {"target", "enforcement", "conditions", "rules", "bypass_actors"}

RulesetOp(role, body, refused) ==
  [role |-> role, val |-> body, refused |-> refused, drift |-> TRUE]

(* An actor as GitHub stores it: with a mode, and one id for every admin. *)
IsAdmin(actor) == actor.fields["actor_type"] = Scalar("OrganizationAdmin")
AsStored(actor) ==
  LET declared == FieldOf(actor, "bypass_mode")
      mode == IF declared \in {Null, Absent} THEN Scalar("always") ELSE declared
      id == IF IsAdmin(actor) THEN Scalar("1") ELSE FieldOf(actor, "actor_id")
  IN  Mapping((IF id = Absent THEN <<>> ELSE "actor_id" :> id) @@ "bypass_mode" :> mode @@ actor.fields)
ActorsAsStored(ruleset) ==
  IF ~ Has(ruleset, "bypass_actors") THEN ruleset
  ELSE LET actors == ruleset.fields["bypass_actors"].items
       IN  Mapping("bypass_actors" :> List([i \in DOMAIN actors |-> AsStored(actors[i])]) @@ ruleset.fields)

RefsInFull(ruleset) ==
  LET target == ruleset.fields["target"].v
      InFull(refs) == List([i \in DOMAIN refs.items |-> Scalar(FullRef[target][refs.items[i].v])])
  IN  IF target = "push" \/ ~ Has(ruleset, "conditions") THEN ruleset
      ELSE [ruleset EXCEPT !.fields["conditions"].fields["ref_name"].fields =
              [k \in DOMAIN @ |-> InFull(@[k])]]
Normalized(ruleset) == ActorsAsStored(RefsInFull(ruleset))

(* Rules pair by type, so a live ruleset with two of one type has no pairing. *)
RuleTypes(ruleset) ==
  IF Has(ruleset, "rules")
    THEN [i \in DOMAIN ruleset.fields["rules"].items |-> ruleset.fields["rules"].items[i].fields["type"].v]
    ELSE <<>>
RepeatsType(ruleset) == ~ IsInjective(RuleTypes(ruleset))

(* The GET, and both sides without what the token cannot see. *)
Concealed(ruleset) == Mapping(Without(ruleset.fields, {"bypass_actors"}))
Visible(ruleset, live) == IF live.writable THEN ruleset ELSE Concealed(ruleset)
Comparable(live) == ActorsAsStored(Visible(live.ruleset, live))
Projected(ruleset) ==
  Mapping([k \in {k \in SliceKeys : FieldOf(ruleset, k) \notin {Null, Absent}} |-> ruleset.fields[k]])

(* What the PUT would change, and what it would remove unsaid. *)
RulesetPlan(d, live) ==
  LET write == Normalized(d)
      compared == Visible(write, live)
      held == Comparable(live)
      omitted == OmittedDeltas(compared, Projected(held), MatchBy, Passthrough)
      found == DeltasOf(compared, held, MatchBy) \cup omitted
  IN  IF live.ruleset = Unset
        THEN [failed |-> FALSE, ops |-> <<RulesetOp("create", write, FALSE)>>]
        ELSE IF RepeatsType(live.ruleset) THEN [failed |-> TRUE, ops |-> <<>>]
        ELSE [failed |-> FALSE, ops |-> If(found # {}, RulesetOp("update", write, omitted # {}))]

-----------------------------------------------------------------------------
(* GitHub: the body replaces what it holds, parameters are filled in, an admin's
   id is ignored, and the actors are always listed to those who may write.   *)
Known(body) == \A i \in DOMAIN RuleTypes(body) : RuleTypes(body)[i] \in DOMAIN RuleDefaults
NeverTaken(op, live) == ~ live.writable \/ ~ Known(op.val)
RulesetAccepts(op, live) ==
  ~ NeverTaken(op, live) /\ (op.role = "create" <=> live.ruleset = Unset)

FilledIn(rule) ==
  LET defaults == RuleDefaults[rule.fields["type"].v]
      declared == IF Has(rule, "parameters") THEN rule.fields["parameters"].fields ELSE <<>>
  IN  IF defaults = <<>> THEN rule
      ELSE Mapping("parameters" :> Mapping(declared @@ defaults) @@ rule.fields)
StoredActor(actor, admin) == IF IsAdmin(actor) THEN Mapping("actor_id" :> admin @@ actor.fields) ELSE actor
Stored(body, admin) ==
  LET rules == IF Has(body, "rules") THEN body.fields["rules"].items ELSE <<>>
      actors == IF Has(body, "bypass_actors") THEN body.fields["bypass_actors"].items ELSE <<>>
      lists == [rules |-> List([i \in DOMAIN rules |-> FilledIn(rules[i])]),
                bypass_actors |-> List([i \in DOMAIN actors |-> StoredActor(actors[i], admin)]),
                source_type |-> Scalar("Repository")]
  IN  Mapping(lists @@ body.fields)
RulesetAfter(op, live) == {[live EXCEPT !.ruleset = Stored(op.val, admin)] : admin \in {Null, Scalar("1")}}

-----------------------------------------------------------------------------
RulesetMeets(d, live) ==
  live.ruleset # Unset /\ Agrees(Visible(Normalized(d), live), Comparable(live))
RulesetSpares(d, before, after) ==
  before.ruleset # Unset =>
    after.ruleset # Unset /\ Keeps(d, Projected(before.ruleset), after.ruleset)
(* A PUT of the declaration would take something away that it does not name. *)
WouldRemove(d, live) ==
  live.ruleset # Unset /\ ~ Keeps(d, Projected(live.ruleset), d)

RulesetSnapshot(live) ==
  IF live.ruleset = Unset \/ ~ live.writable \/ RepeatsType(live.ruleset) THEN Unset
  ELSE Projected(Comparable(live))
RulesetEdits(live) ==
  {[live EXCEPT !.ruleset = Unset], [live EXCEPT !.writable = ~ @]}
    \cup (IF live.ruleset = Unset THEN {}
          ELSE {[live EXCEPT !.ruleset.fields["enforcement"] = Scalar("disabled")]})
=============================================================================
