------------------------------ MODULE Patterns ------------------------------
(***************************************************************************)
(* The secret_scanning_custom_patterns section: bulk creates and deletes   *)
(* over the collection, one versioned PATCH per differing pattern.         *)
(*                                                                         *)
(* GitHub: [patterns, alerts, born].  patterns is a partial function from  *)
(* names to [id, version, fields]; a pattern may have no version, and then *)
(* is written unchecked.  alerts are the names whose alerts are on record, *)
(* open or resolved.  The file: [policy, entries], entries from names to   *)
(* fields.                                                                 *)
(***************************************************************************)
EXTENDS SectionData

CONSTANT Unverifiable   \* expressions the syntax check cannot verify
UpdatableKeys == {"pattern", "delimiter", "must_match"}
ListKeys == {"must_match"}

(* matches(): a list GitHub does not hold equals a declared empty one. *)
Comparable(key, value) == IF key \in ListKeys /\ value = Unset THEN {} ELSE value
Divergent(fields, held) == {k \in UpdatableKeys : fields[k] # Unset /\ fields[k] # Comparable(k, held[k])}
Fields(fields, keys) == [k \in UpdatableKeys |-> IF k \in keys THEN fields[k] ELSE Unset]

PatternOp(role, val) == [role |-> role, val |-> val, drift |-> TRUE]

(* updateOp(): the differing fields, addressed by id, under the version read. *)
UnversionedUpdate(id, version, fields) == PatternOp("update", [id |-> id, version |-> Unset, fields |-> fields])
VersionedUpdate(id, version, fields) == PatternOp("update", [id |-> id, version |-> version, fields |-> fields])

(* One bulk create ahead of the updates, one bulk delete behind them. *)
PatternPlan(d, live) ==
  LET held == live.patterns
      missing == DOMAIN d.entries \ DOMAIN held
      differing == Listed({n \in DOMAIN d.entries \cap DOMAIN held :
                             Divergent(d.entries[n], held[n].fields) # {}})
      gone == IF d.policy = "keep" THEN {} ELSE DOMAIN held \ DOMAIN d.entries
      Update(n) ==
        VersionedUpdate(held[n].id, held[n].version,
                        Fields(d.entries[n], Divergent(d.entries[n], held[n].fields)))
  IN  [failed |-> FALSE,
       ops |-> If(missing # {}, PatternOp("create", [n \in missing |-> d.entries[n]]))
               \o [i \in DOMAIN differing |-> Update(differing[i])]
               \o If(gone # {}, PatternOp("remove",
                    [patterns |-> {[id |-> held[n].id, version |-> held[n].version] : n \in gone},
                     alerts |-> "resolve_alerts"]))]

-----------------------------------------------------------------------------
(* GitHub: a write names patterns by id, and a stale version is a 412. *)
Named(id, live) == {n \in DOMAIN live.patterns : live.patterns[n].id = id}
Current(target, live) ==
  \E n \in Named(target.id, live) : target.version \in {Unset, live.patterns[n].version}

PatternAccepts(op, live) ==
  CASE op.role = "create" -> DOMAIN op.val \cap DOMAIN live.patterns = {}
    [] op.role = "update" -> Current(op.val, live)
    [] op.role = "remove" -> \A target \in op.val.patterns : Current(target, live)

NextVersion(version) == IF version = Unset THEN Unset ELSE version + 1
Created(n, fields, live) == [id |-> <<live.born + 1, n>>, version |-> 1, fields |-> fields]
PatternAfter(op, live) ==
  CASE op.role = "create" ->
         [live EXCEPT !.patterns = Overlaid(@, [n \in DOMAIN op.val |-> Created(n, op.val[n], live)]),
                      !.born = @ + 1]
    [] op.role = "update" ->
         LET n == CHOOSE n \in Named(op.val.id, live) : TRUE
             Set(k) == IF op.val.fields[k] = Unset THEN live.patterns[n].fields[k] ELSE op.val.fields[k]
         IN  [live EXCEPT !.patterns[n].fields = [k \in UpdatableKeys |-> Set(k)],
                          !.patterns[n].version = NextVersion(@)]
    [] op.role = "remove" ->
         LET gone == UNION {Named(target.id, live) : target \in op.val.patterns}
         IN  [live EXCEPT !.patterns = Without(@, gone),
                          !.alerts = IF op.val.alerts = "delete_alerts" THEN @ \ gone ELSE @]

-----------------------------------------------------------------------------
(* What the section promises, said without the plan. *)
PatternsMeet(d, live) ==
  /\ \A n \in DOMAIN d.entries :
       n \in DOMAIN live.patterns /\ Divergent(d.entries[n], live.patterns[n].fields) = {}
  /\ d.policy = "delete" => DOMAIN live.patterns \subseteq DOMAIN d.entries

(* Declared and kept patterns stay the same resource, a field an entry omits and
   the record of alerts stay as they are.                                  *)
PatternsSpare(d, before, after) ==
  /\ before.alerts = after.alerts
  /\ \A n \in DOMAIN before.patterns :
       /\ n \notin DOMAIN d.entries /\ d.policy = "keep" =>
            n \in DOMAIN after.patterns /\ after.patterns[n] = before.patterns[n]
       /\ n \in DOMAIN d.entries =>
            /\ n \in DOMAIN after.patterns /\ after.patterns[n].id = before.patterns[n].id
            /\ \A k \in UpdatableKeys : d.entries[n][k] = Unset =>
                 after.patterns[n].fields[k] = before.patterns[n].fields[k]

(* snapshot(): what the syntax check cannot verify is left out, kept live by the
   section's keep default.                                                 *)
PatternSnapshot(live) ==
  LET verified == {n \in DOMAIN live.patterns : live.patterns[n].fields.pattern \notin Unverifiable}
  IN  [policy |-> "keep", entries |-> [n \in verified |-> live.patterns[n].fields]]

(* What others do: edit a pattern, remove one, create one. *)
PatternEdits(live) ==
  {[live EXCEPT !.patterns[n].fields.delimiter = "others", !.patterns[n].version = NextVersion(@)] :
     n \in DOMAIN live.patterns}
  \cup {[live EXCEPT !.patterns = Without(@, {n})] : n \in DOMAIN live.patterns}
  \cup {[live EXCEPT !.patterns = With(@, n, Created(n, [pattern |-> "theirs", delimiter |-> Unset, must_match |-> Unset], live)),
                     !.born = @ + 1] : n \in {"token"} \ DOMAIN live.patterns}

(* An edit others made after the run read a versioned pattern. *)
StalePattern(n, before, live) ==
  /\ n \in DOMAIN before.patterns /\ n \in DOMAIN live.patterns
  /\ live.patterns[n].id = before.patterns[n].id
  /\ live.patterns[n].version \notin {Unset, before.patterns[n].version}
=============================================================================
