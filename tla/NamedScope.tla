----------------------------- MODULE NamedScope -----------------------------
(***************************************************************************)
(* One scope of secrets or of variables, sections/shared/secrets-and-      *)
(* variables: the four repository secret families, the two variable        *)
(* families, and the lists nested in one environment.                      *)
(*                                                                         *)
(* A scope holds a partial function from stored names to values.  A        *)
(* declared list is [policy, entries], entries a partial function from the *)
(* names as the file spells them.  A secret's value cannot be read back: a *)
(* plan sees the names alone, and its PUT carries the value sealed with    *)
(* the scope's public key, which the first PUT reads (memo).               *)
(***************************************************************************)
EXTENDS SectionData

CONSTANT Upper  \* upperKey(): the name GitHub stores for a name as spelled

Spelled == DOMAIN Upper
Key(name) == Upper[name]

(* validate(): two entries GitHub folds into one value are refused. *)
DistinctNames(list) ==
  \A m, n \in DOMAIN list.entries : Key(m) = Key(n) => m = n

-----------------------------------------------------------------------------
(* The plan of one scope; `home` names the scope an operation belongs to.  *)

ScopeOp(role, home, name, val, drift) ==
  [role |-> role, home |-> home, name |-> name, val |-> val, drift |-> drift]

DeclaredKeys(list) == {Key(n) : n \in DOMAIN list.entries}

(* The undeclared pass: what the entries omit is kept, or removed after every
   declared write.                                                         *)
UndeclaredOps(role, home, list, stored) ==
  LET gone == IF list.policy = "keep" THEN {} ELSE stored \ DeclaredKeys(list)
      names == Listed(gone)
  IN  [i \in DOMAIN names |-> ScopeOp(role, home, names[i], Unset, TRUE)]

(* planVariables(): a POST of what is missing, a PATCH, under the live name, of
   what differs.                                                           *)
VariableOps(home, list, items) ==
  LET differing == {n \in DOMAIN list.entries :
                      Key(n) \in DOMAIN items => items[Key(n)] # list.entries[n]}
      names == Listed(differing)
      Write(n) ==
        IF Key(n) \in DOMAIN items
        THEN ScopeOp("updateVariable", home, Key(n), list.entries[n], TRUE)
        ELSE ScopeOp("createVariable", home, n, list.entries[n], TRUE)
  IN  [i \in DOMAIN names |-> Write(names[i])]
      \o UndeclaredOps("removeVariable", home, list, DOMAIN items)

(* planSecrets(): every declared secret is sealed and sent again on every
   apply; only a missing one is drift.                                     *)
SecretOps(home, list, items) ==
  LET names == Listed(DOMAIN list.entries)
      Put(n) == ScopeOp("putSecret", home, Key(n), list.entries[n], Key(n) \notin DOMAIN items)
  IN  [i \in DOMAIN names |-> Put(names[i])]
      \o UndeclaredOps("removeSecret", home, list, DOMAIN items)

-----------------------------------------------------------------------------
(* Sending.  readSealingKey(): once per plan and scope, when the first PUT's
   payload is built.                                                       *)

KeySlot(home) == <<"key", home>>
KeyNow(memo, home, current) == IF KeySlot(home) \in DOMAIN memo THEN memo[KeySlot(home)] ELSE current

KeyRead(memo, op, current) ==
  IF op.role = "putSecret" THEN With(memo, KeySlot(op.home), KeyNow(memo, op.home, current)) ELSE memo

(* GitHub's answer: no second item under one stored name, nothing edited or
   removed that is not there, no value sealed with a key that is not the
   scope's.                                                                *)
ScopeAccepts(op, items, memo, current) ==
  CASE op.role = "createVariable" -> Key(op.name) \notin DOMAIN items
    [] op.role = "putSecret" -> KeyNow(memo, op.home, current) = current
    [] OTHER -> op.name \in DOMAIN items

ScopeAfter(op, items) ==
  CASE op.role = "createVariable" -> With(items, Key(op.name), op.val)
    [] op.role \in {"updateVariable", "putSecret"} -> With(items, op.name, op.val)
    [] OTHER -> Without(items, {op.name})

VariableRoles == {"createVariable", "updateVariable", "removeVariable"}
SecretRoles == {"putSecret", "removeSecret"}
ScopeRoles == VariableRoles \cup SecretRoles

(* What a declared list asks for, said without the plan: each entry holds its
   value, and nothing else is left under a delete policy.                  *)
ScopeMeets(list, items) ==
  /\ \A n \in DOMAIN list.entries : Key(n) \in DOMAIN items /\ items[Key(n)] = list.entries[n]
  /\ list.policy = "delete" => DOMAIN items \subseteq {Key(n) : n \in DOMAIN list.entries}

(* What it leaves alone. *)
ScopeSpares(list, before, after) ==
  \A k \in DOMAIN before :
    (list.policy = "keep" /\ \A n \in DOMAIN list.entries : Key(n) # k) =>
      k \in DOMAIN after /\ after[k] = before[k]

-----------------------------------------------------------------------------
(* A repository family as a section: its items, their scope's key, and the
   kind of value the family holds.                                         *)

RepoSecretsPlan(d, live) == SecretOps("repo", d.list, live.items)
RepoVariablesPlan(d, live) == VariableOps("repo", d.list, live.items)
FamilyPlan(d, live) ==
  [failed |-> FALSE,
   ops |-> IF d.kind = "secrets" THEN RepoSecretsPlan(d, live) ELSE RepoVariablesPlan(d, live)]
FamilyNotes(op, live, memo) == KeyRead(memo, op, live.key)
FamilyAccepts(op, live, memo) == ScopeAccepts(op, live.items, memo, live.key)
FamilyAfter(op, live, memo) == [live EXCEPT !.items = ScopeAfter(op, @)]
FamilyMeets(d, live) == ScopeMeets(d.list, live.items)
FamilySpares(d, before, after) == ScopeSpares(d.list, before.items, after.items)

(* What others do to a family: an item set, an item removed. *)
FamilyEdits(live) ==
  {[live EXCEPT !.items = With(@, k, v)] :
     k \in {Key(n) : n \in Spelled}, v \in {live.items[j] : j \in DOMAIN live.items}}
  \cup {[live EXCEPT !.items = Without(@, {k})] : k \in DOMAIN live.items}

(* The snapshot: every live item under the family's own default policy, which
   keeps undeclared secrets, whose values nobody could bring back.  A secret
   comes back as a reference; it names the live value here, as it does once it
   is exported.                                                            *)
RepoSecretsSnapshot(live) == [kind |-> "secrets", list |-> [policy |-> "keep", entries |-> live.items]]
RepoVariablesSnapshot(live) == [kind |-> "variables", list |-> [policy |-> "delete", entries |-> live.items]]
FamilySnapshot(kind, live) ==
  IF kind = "secrets" THEN RepoSecretsSnapshot(live) ELSE RepoVariablesSnapshot(live)
=============================================================================
