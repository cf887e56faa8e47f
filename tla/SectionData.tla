----------------------------- MODULE SectionData -----------------------------
(* What the modules of the single sections share: partial functions for what
   GitHub holds and what a file declares, and values that are not there.     *)
EXTENDS Integers, Sequences, FiniteSets, SequencesExt

CONSTANTS
  Unset,        \* a key the file omits, a value GitHub does not hold
  Off,          \* null: a control or a setting switched off
  Canonical     \* GitHub's spelling of an actor, a topic, a login, a role

(* A partial function with x set to v, or with the names in S removed. *)
With(f, x, v) == [y \in DOMAIN f \cup {x} |-> IF y = x THEN v ELSE f[y]]
Without(f, S) == [y \in DOMAIN f \ S |-> f[y]]
Overlaid(f, g) == [y \in DOMAIN f \cup DOMAIN g |-> IF y \in DOMAIN g THEN g[y] ELSE f[y]]

(* subsetDiff(): the declared keys that differ, among them the phantomKeys(), which
   pass through and which GitHub never answers with.                       *)
Changes(declared, held) == {k \in DOMAIN declared : k \in DOMAIN held => declared[k] # held[k]}
(* What GitHub answers with of a body. *)
Echoed(body, held) == [k \in DOMAIN body \cap DOMAIN held |-> body[k]]
(* phantomNote(): all that can be compared is as declared. *)
AllSeenAgrees(body, held) == Changes(Echoed(body, held), held) = {}

Names(S) == {Canonical[n] : n \in S}

(* The elements of a set, in an order the properties do not depend on. *)
Listed(S) ==
  LET listed[T \in SUBSET S] ==
        IF T = {} THEN <<>> ELSE LET x == CHOOSE x \in T : TRUE IN <<x>> \o listed[T \ {x}]
  IN  listed[S]

(* A sequence of at most one operation. *)
If(cond, op) == IF cond THEN <<op>> ELSE <<>>
=============================================================================
