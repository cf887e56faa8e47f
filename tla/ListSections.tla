---------------------------- MODULE ListSections ----------------------------
(***************************************************************************)
(* The six sections the list factory makes, each as the declaration it     *)
(* hands over (sections/<key>/index.ts): the endpoints say how an item is  *)
(* edited and addressed, the identity how names fold, the conflicts what   *)
(* GitHub refuses to hold together, foreign what the file cannot declare.  *)
(* How a section spells a color, a date or a flag on the wire is left out, *)
(* and so are the service hooks and the inherited rulesets GitHub may list *)
(* beside those a file can name.                                           *)
(***************************************************************************)
EXTENDS ListSection

CONSTANTS
  Lower,         \* nameKey(): the name GitHub takes a label's name for
  Begins,        \* <<p, q>>: prefix p begins prefix q
  Undeclarable   \* key material of an algorithm the file cannot declare

ASSUME NamesAssumption ==
  Lower \in [Names -> Names] /\ Begins \subseteq Names \X Names /\ Undeclarable \subseteq Vals

exactName == [n \in Names |-> n]
Same(fold) == {p \in Names \X Names : fold[p[1]] = fold[p[2]]}
EitherBegins == Begins \cup {<<p[2], p[1]>> : p \in Begins}

(* A PATCH by name; an entry may rename its label. *)
Labels ==
  [edit |-> "patch", key |-> Lower, clash |-> Same(Lower),
   exclusive |-> FALSE, byName |-> TRUE, renames |-> TRUE, foreign |-> {}]

(* A PATCH by number. *)
Milestones ==
  [edit |-> "patch", key |-> exactName, clash |-> Same(exactName),
   exclusive |-> FALSE, byName |-> FALSE, renames |-> FALSE, foreign |-> {}]

(* No update: a change is a delete and a create; one prefix may not begin
   another.                                                                *)
Autolinks ==
  [edit |-> "recreate", key |-> exactName, clash |-> Same(exactName) \cup EitherBegins,
   exclusive |-> FALSE, byName |-> FALSE, renames |-> FALSE, foreign |-> {}]

(* No update either; titles may repeat, material may not.                  *)
DeployKeys ==
  [edit |-> "recreate", key |-> exactName, clash |-> {},
   exclusive |-> TRUE, byName |-> FALSE, renames |-> FALSE, foreign |-> Undeclarable]

(* A PATCH of the hook and one of its config alone. *)
Webhooks ==
  [edit |-> "mapping", key |-> exactName, clash |-> Same(exactName),
   exclusive |-> FALSE, byName |-> FALSE, renames |-> FALSE, foreign |-> {}]

(* A PUT that replaces the ruleset whole. *)
Rulesets ==
  [edit |-> "replace", key |-> exactName, clash |-> Same(exactName),
   exclusive |-> FALSE, byName |-> FALSE, renames |-> FALSE, foreign |-> {}]

ASSUME SectionsAssumption ==
  Decls \subseteq {Labels, Milestones, Autolinks, DeployKeys, Webhooks, Rulesets}
=============================================================================
