------------------------------ MODULE LayerFold ------------------------------
(* The fold of settings layers (src/engine/layers.ts): what a layer may carry,
   how a higher layer meets what the lower ones built, which undeclared policy
   every list ends with, and the one order a written document has.

   A name is the rank of its folded spelling in code-point order.  A list in its
   bare form is a list without a policy of its own: which of the two forms is
   written is layout, except that the policy must be there in the end.         *)
EXTENDS Naturals, FiniteSets, SequencesExt

CONSTANTS
  Unset,            \* a key the layer does not carry
  Null,             \* a key it sets to null, the empty state on GitHub
  Knobbed,          \* the list sections whose wrapper takes `_undeclared`
  Ranked,           \* the list section whose pinned entries lead as written
  DefaultPolicy,    \* the default policy of each knobbed section
  NestedDefault     \* the default policy of a nested list

(* The pairs of numbers of a finite set, in their order. *)
Before(p, q) == p[1] < q[1] \/ (p[1] = q[1] /\ p[2] < q[2])
InOrder(S) ==
  [k \in 1..Cardinality(S) |-> CHOOSE p \in S : Cardinality({q \in S : Before(q, p)}) = k - 1]

Over(below, above) == IF above = Unset THEN below ELSE above
Overlaid(below, above) == [k \in DOMAIN above |-> Over(below[k], above[k])]

(* What an entry is told apart by: a label that renames claims both names. *)
Keys(entry) == {entry.name, entry.renames} \ {Unset}
Meet(a, b) == Keys(a) \cap Keys(b) # {}

(* The lower entry a higher one claims, 0 for none. *)
Slot(lower, entry) ==
  LET claimed == {i \in DOMAIN lower : Meet(lower[i], entry)}
  IN  IF claimed = {} THEN 0 ELSE Min(claimed)

(* Only a one-to-one pair merges: neither claims, nor is claimed by, a second. *)
Claims(entry, among) == Cardinality({i \in DOMAIN among : Meet(entry, among[i])})
PairedFromBelow(lower, higher, below, above) == Claims(below, higher) = 1
PairedFromAbove(lower, higher, below, above) == Claims(above, lower) = 1
Paired(lower, higher, below, above) == Claims(below, higher) = 1 /\ Claims(above, lower) = 1

(* What a union is made of, in its order: <<i, 0>> is the i-th lower entry that no
   higher one claims, <<i, j>> the j-th higher entry placed on the i-th lower one,
   or behind them all when it claims none; a removal is never placed.        *)
Placements(lower, higher) ==
  LET After(slot) == IF slot = 0 THEN Len(lower) + 1 ELSE slot
  IN  {<<i, 0>> : i \in {i \in DOMAIN lower : Claims(lower[i], higher) = 0}}
        \cup {<<After(Slot(lower, higher[j])), j>> : j \in {j \in DOMAIN higher : ~ higher[j].remove}}

(* merged[<<i, j>>] is what the i-th lower and the j-th higher entry give as a pair. *)
PlaceOver(lower, higher, merged, p) ==
  IF p[2] = 0 THEN lower[p[1]]
  ELSE IF p[1] \in DOMAIN lower /\ Paired(lower, higher, lower[p[1]], higher[p[2]]) THEN merged[p]
  ELSE higher[p[2]]

UnionKeyed(lower, higher, merged) ==
  LET order == InOrder(Placements(lower, higher))
  IN  [k \in DOMAIN order |-> PlaceOver(lower, higher, merged, order[k])]

(* The merges of a pair: under shallow the higher entry as written, under deep
   field by field, and list by list where an entry holds a keyed list.       *)
Couples(lower, higher) == (DOMAIN lower) \X (DOMAIN higher)
AsWritten(lower, higher) == [p \in Couples(lower, higher) |-> higher[p[2]]]
MergeFieldsBelow(below, above) ==
  [above EXCEPT !.renames = Over(below.renames, @), !.fields = Overlaid(@, below.fields)]
MergeFields(below, above) ==
  [above EXCEPT !.renames = Over(below.renames, @), !.fields = Overlaid(below.fields, @)]
MergeNested(below, above) ==
  IF below = Unset \/ above = Unset THEN Over(below, above)
  ELSE [policy |-> Over(below.policy, above.policy),
        entries |-> UnionKeyed(below.entries, above.entries,
                               [p \in Couples(below.entries, above.entries) |->
                                  MergeFields(below.entries[p[1]], above.entries[p[2]])])]
MergeEntry(below, above) ==
  [MergeFields(below, above) EXCEPT !.nested = MergeNested(below.nested, above.nested)]
InDepth(lower, higher) ==
  [p \in Couples(lower, higher) |-> MergeEntry(lower[p[1]], higher[p[2]])]

(* Removals that would act on nothing: they must not reach the document. *)
NestedRemoval(entry) ==
  entry.nested # Unset /\ \E i \in DOMAIN entry.nested.entries : entry.nested.entries[i].remove
UnmatchedNested(below, above) ==
  IF below.nested = Unset THEN NestedRemoval(above)
  ELSE /\ above.nested # Unset
       /\ \E i \in DOMAIN above.nested.entries :
            /\ above.nested.entries[i].remove
            /\ Slot(below.nested.entries, above.nested.entries[i]) = 0
RefusesRemoval(lower, higher, layering) ==
  \E i \in DOMAIN higher :
     LET above == higher[i]
         slot == Slot(lower, above)
     IN  \/ above.remove /\ slot = 0
         \/ IF slot # 0 /\ layering = "deep" /\ Paired(lower, higher, lower[slot], above)
              THEN UnmatchedNested(lower[slot], above) ELSE NestedRemoval(above)

(* Admission of a layer: every key once, a removal bare, none under replace. *)
KeyedTwice(entries) == \E i, j \in DOMAIN entries : i < j /\ Meet(entries[i], entries[j])
BareRemoval(entry) ==
  /\ entry.renames = Unset /\ entry.nested = Unset
  /\ \A f \in DOMAIN entry.fields : entry.fields[f] = Unset
Layering(layer, list, run) == Over(Over(run, layer.layering), list.layering)
Entries(entries, layering) ==
  /\ ~ KeyedTwice(entries)
  /\ \A i \in DOMAIN entries :
       /\ entries[i].remove => BareRemoval(entries[i]) /\ layering # "replace"
       /\ entries[i].nested # Unset =>
            /\ ~ KeyedTwice(entries[i].nested.entries)
            /\ \A j \in DOMAIN entries[i].nested.entries :
                 entries[i].nested.entries[j].remove => BareRemoval(entries[i].nested.entries[j])
Admitted(layer, run) ==
  \A s \in DOMAIN layer.lists :
     Entries(layer.lists[s].entries, Layering(layer, layer.lists[s], run))

(* One step of the fold, per list section the layer carries.  With no list below,
   and under replace, the higher list is written whole.                      *)
MergeList(lower, higher, layering) ==
  [policy |-> Over(lower.policy, higher.policy),
   entries |-> IF layering = "replace" THEN higher.entries
               ELSE UnionKeyed(lower.entries, higher.entries,
                      IF layering = "deep" THEN InDepth(lower.entries, higher.entries)
                      ELSE AsWritten(lower.entries, higher.entries))]
NoList == [policy |-> Unset, entries |-> <<>>]
Below(lists, s) == IF s \in DOMAIN lists THEN lists[s] ELSE NoList

(* A mapping merges key by key over a mapping; anything else replaces. *)
MergeMapping(lower, higher) ==
  IF higher = Unset THEN lower
  ELSE IF lower \in {Unset, Null} \/ higher = Null THEN higher ELSE Overlaid(lower, higher)

MergeStep(below, layer, run) ==
  [lists |-> [s \in DOMAIN below.lists \cup DOMAIN layer.lists |->
                IF s \notin DOMAIN layer.lists THEN below.lists[s]
                ELSE MergeList(Below(below.lists, s), layer.lists[s], Layering(layer, layer.lists[s], run))],
   mapping |-> MergeMapping(below.mapping, layer.mapping)]
StepRefused(below, layer, run) ==
  \E s \in DOMAIN layer.lists :
     LET layering == Layering(layer, layer.lists[s], run)
     IN  RefusesRemoval(IF layering = "replace" THEN <<>> ELSE Below(below.lists, s).entries,
                        layer.lists[s].entries, layering)

(* The policy every list ends with: its own, the file's, the run's, its default. *)
ResolvedWrapper(list, fallback, default) == [list EXCEPT !.policy = Over(Over(default, fallback), @)]
ResolveNested(entry, fallback) ==
  IF entry.nested = Unset THEN entry
  ELSE [entry EXCEPT !.nested = ResolvedWrapper(@, fallback, NestedDefault)]
ResolvePolicies(doc, fallback) ==
  [doc EXCEPT !.lists = [s \in DOMAIN doc.lists |->
     LET list == doc.lists[s]
         resolved == [list EXCEPT !.entries = [i \in DOMAIN @ |-> ResolveNested(@[i], fallback)]]
     IN  IF s \in Knobbed THEN ResolvedWrapper(resolved, fallback, DefaultPolicy[s])
         ELSE resolved]]

(* The order of a written list: by name, the pinned environments ahead of the
   rest in their written order, which is their rank.                         *)
IsPinned(entry) == entry.fields["pinned"] = TRUE
OrderedBy(entries, rank) ==
  LET order == InOrder({<<rank[i], i>> : i \in DOMAIN entries})
  IN  [k \in DOMAIN order |-> entries[order[k][2]]]
ByName(entries) == OrderedBy(entries, [i \in DOMAIN entries |-> entries[i].name])
SortEntries(s, entries) ==
  IF s # Ranked THEN ByName(entries)
  ELSE OrderedBy(entries, [i \in DOMAIN entries |-> IF IsPinned(entries[i]) THEN 0 ELSE entries[i].name])
CanonicalEntry(entry) ==
  IF entry.nested = Unset THEN entry ELSE [entry EXCEPT !.nested.entries = ByName(@)]
CanonicalDocument(doc) ==
  [doc EXCEPT !.lists = [s \in DOMAIN doc.lists |->
     [doc.lists[s] EXCEPT !.entries =
        SortEntries(s, [i \in DOMAIN @ |-> CanonicalEntry(@[i])])]]]
=============================================================================
