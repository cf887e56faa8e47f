------------------------------- MODULE Deltas -------------------------------
(* The comparison of a declaration with what GitHub holds, over values of any
   depth: a scalar, null, a list or a mapping.  Only declared keys count, save
   for a write that replaces the whole object: there, what the declaration omits
   and the write would remove is a delta as well.  The wording of a delta is left
   out: it is its kind and the path of keys it stands at.                     *)
EXTENDS Naturals, Sequences, FiniteSets, SequencesExt

Null == [tag |-> "null"]
Scalar(s) == [tag |-> "scalar", v |-> s]
List(items) == [tag |-> "list", items |-> items]
Mapping(fields) == [tag |-> "mapping", fields |-> fields]
Absent == [tag |-> "absent"]    \* a key the live object does not have

Has(value, key) == key \in DOMAIN value.fields
FieldOf(value, key) == IF Has(value, key) THEN value.fields[key] ELSE Absent

(* The declared keys with the value on either side. *)
FieldPairs(desired, live) ==
  {[key |-> k, want |-> desired.fields[k], held |-> FieldOf(live, k)] : k \in DOMAIN desired.fields}

(* Nothing a replacing write would need to preserve. *)
Zero == {Null, Absent, List(<<>>)} \cup {Scalar(z) : z \in {"", "0", "false"}}
RECURSIVE IsEmptySetting(_)
IsEmptySetting(value) ==
  \/ value \in Zero
  \/ value.tag = "mapping" /\ \A k \in DOMAIN value.fields : IsEmptySetting(value.fields[k])

(* A path of keys, "[]" for a list's items. *)
Item(at) == Append(at, "[]")
IsPassthrough(at, passthrough) ==
  \E p \in passthrough : at = p \/ (IsStrictPrefix(p, at) /\ at[Len(p) + 1] # "[]")

Delta(kind, at) == [kind |-> kind, at |-> at]
Unpaired(live, at) == {Delta(IF live = Absent THEN "phantom" ELSE "mismatch", at)}

ScalarDelta(desired, live, at) ==
  IF desired = live \/ (desired = Scalar("") /\ live \in {Null, Absent}) THEN {} ELSE Unpaired(live, at)
NullDelta(live, at) == IF live \in {Null, Absent, Scalar("")} THEN {} ELSE {Delta("mismatch", at)}

(* options: matchBy, from the path of a list to the fields that identify its
   items, and sweep, off or the paths whose keys the write does not know.    *)
NoSweep == [on |-> FALSE]
Sweep(passthrough) == [on |-> TRUE, passthrough |-> passthrough]
SweepOmitted(declared, live, at, sweep) ==
  IF ~ sweep.on \/ IsPassthrough(at, sweep.passthrough) THEN {}
  ELSE {Delta("omitted", Append(at, k)) :
          k \in {k \in DOMAIN live.fields \ DOMAIN declared.fields :
                   ~ IsEmptySetting(live.fields[k]) /\ ~ IsPassthrough(Append(at, k), sweep.passthrough)}}

(* What tells an item of a list apart, a null part left out. *)
ItemKey(item, keys) == [k \in {k \in keys : FieldOf(item, k) \notin {Null, Absent}} |-> item.fields[k]]
KeysOf(items, keys) == {ItemKey(items[i], keys) : i \in DOMAIN items}
IsMapping(value) == value.tag = "mapping"

Values(items) == {items[i] : i \in DOMAIN items}
ListDeltas(missing, undeclared, at) ==
  (IF missing THEN {Delta("missing", at)} ELSE {}) \cup (IF undeclared THEN {Delta("undeclared", at)} ELSE {})
WalkByValue(desired, live, at) ==
  ListDeltas(Values(desired) \ Values(live) # {}, Values(live) \ Values(desired) # {}, at)

RECURSIVE Walk(_, _, _, _), WalkByShape(_, _, _, _)
WalkMapping(desired, live, at, options) ==
  UNION {Walk(pair.want, pair.held, Append(at, pair.key), options) : pair \in FieldPairs(desired, live)}
    \cup SweepOmitted(desired, live, at, options.sweep)

(* By the key matchBy names: a pair is compared, the rest is missing or undeclared. *)
WalkKeyed(desired, live, keys, at, options) ==
  UNION {Walk(pair[1], pair[2], Item(at), options) :
           pair \in {pair \in Values(desired) \X Values(live) : ItemKey(pair[1], keys) = ItemKey(pair[2], keys)}}
    \cup ListDeltas(KeysOf(desired, keys) \ KeysOf(live, keys) # {},
                    KeysOf(live, keys) \ KeysOf(desired, keys) # {}, at)

(* By shape: each declared item takes the first item left that it agrees with. *)
WalkByShape(desired, live, at, options) ==
  IF desired = <<>> THEN ListDeltas(FALSE, live # <<>>, at)
  ELSE LET agreeing == {j \in DOMAIN live : Walk(Head(desired), live[j], <<>>, [options EXCEPT !.sweep = NoSweep]) = {}}
           first == CHOOSE j \in agreeing : \A other \in agreeing : j <= other
       IN  IF agreeing = {} THEN ListDeltas(TRUE, FALSE, at) \cup WalkByShape(Tail(desired), live, at, options)
           ELSE (IF options.sweep.on THEN Walk(Head(desired), live[first], Item(at), options) ELSE {})
                  \cup WalkByShape(Tail(desired), RemoveAt(live, first), at, options)

WalkList(desired, live, at, options) ==
  CASE at \in DOMAIN options.matchBy -> WalkKeyed(desired, live, options.matchBy[at], at, options)
    [] at \notin DOMAIN options.matchBy /\ desired # <<>> /\ \A i \in DOMAIN desired : IsMapping(desired[i]) ->
         WalkByShape(desired, live, at, options)
    [] OTHER -> WalkByValue(desired, live, at)

Walk(desired, live, at, options) ==
  CASE desired = Null -> NullDelta(live, at)
    [] desired.tag = "scalar" -> ScalarDelta(desired, live, at)
    [] desired.tag = "list" -> IF live.tag = "list" THEN WalkList(desired.items, live.items, at, options)
                               ELSE Unpaired(live, at)
    [] desired.tag = "mapping" -> IF IsMapping(live) THEN WalkMapping(desired, live, at, options)
                                  ELSE Unpaired(live, at)

DeltasOf(desired, live, matchBy) == Walk(desired, live, <<>>, [matchBy |-> matchBy, sweep |-> NoSweep])
OmittedDeltas(desired, projected, matchBy, passthrough) ==
  {d \in Walk(desired, projected, <<>>, [matchBy |-> matchBy, sweep |-> Sweep(passthrough)]) : d.kind = "omitted"}

-----------------------------------------------------------------------------
(* What the comparison is for, said without pairing rules: GitHub holds what the
   declaration says when every declared key has its value there, and a declared
   list and the list GitHub holds are the same up to order and undeclared keys.  *)
Bijections(S, T) == {f \in [S -> T] : \A x, y \in S : f[x] = f[y] => x = y}
RECURSIVE Agrees(_, _)
ListsAgree(desired, live) ==
  IF \A i \in DOMAIN desired : ~ IsMapping(desired[i]) THEN Values(desired) = Values(live)
  ELSE /\ Len(desired) = Len(live)
       /\ \E f \in Bijections(DOMAIN desired, DOMAIN live) : \A i \in DOMAIN desired : Agrees(desired[i], live[f[i]])
Agrees(desired, live) ==
  CASE desired \in {Null, Scalar("")} -> live \in {Null, Absent, Scalar("")}
    [] desired.tag = "scalar" -> live = desired
    [] desired.tag = "list" -> live.tag = "list" /\ ListsAgree(desired.items, live.items)
    [] desired.tag = "mapping" -> IsMapping(live) /\ \A pair \in FieldPairs(desired, live) : Agrees(pair.want, pair.held)

(* What the declaration leaves out is in the one object as in the other. *)
RECURSIVE Keeps(_, _, _)
Keeps(declared, before, after) ==
  \A k \in DOMAIN before.fields :
    \/ IsEmptySetting(before.fields[k])
    \/ ~ Has(declared, k) /\ FieldOf(after, k) = before.fields[k]
    \/ /\ Has(declared, k)
       /\ IsMapping(declared.fields[k]) /\ IsMapping(before.fields[k]) /\ IsMapping(FieldOf(after, k)) =>
            Keeps(declared.fields[k], before.fields[k], after.fields[k])
=============================================================================
