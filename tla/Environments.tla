---------------------------- MODULE Environments ----------------------------
(***************************************************************************)
(* The environments section, sections/environments: each entry's PUT, its  *)
(* nested lists after it, and the pins after every environment.            *)
(*                                                                         *)
(* GitHub: [envs, pins, apps, born].  envs is a partial function from      *)
(* folded names to environments; an environment has an id of its own,      *)
(* which also stands for its sealing key, its settings, and its nested     *)
(* lists.  Its branch patterns exist behind the `custom` branch policy.    *)
(***************************************************************************)
EXTENDS NamedScope, Pins

CONSTANT NoTimer    \* wait_timer: 0, what an omitted timer is set to
AnyBranch == "any"  \* deployment_branch_policy: null

(* A settings record: the two keys of the PUT the properties tell apart. *)
NoSettings == [wait |-> Unset, branch |-> Unset]
GitHubDefaults == [wait |-> NoTimer, branch |-> AnyBranch]

(* A declaration is a sequence of entries
     [name, pinned, settings, variables, secrets, policies, rules]
   whose nested lists may be Unset.  validate() and the entry's shape:      *)
ValidEnvironments(d) ==
  /\ \A i, j \in DOMAIN d : EnvKey(d[i].name) = EnvKey(d[j].name) => i = j
  /\ Cardinality({i \in DOMAIN d : d[i].pinned = TRUE}) <= MaxPinned
  /\ \A i \in DOMAIN d :
       /\ d[i].policies # Unset => d[i].settings.branch = "custom"
       /\ \A list \in {d[i].variables, d[i].secrets} : list # Unset => DistinctNames(list)

Exists(live, k) == k \in DOMAIN live.envs

-----------------------------------------------------------------------------
(* Planning. *)

EnvOp(role, k, val) == [role |-> role, home |-> k, name |-> Unset, val |-> val, drift |-> TRUE]

(* environmentDrift(): what differs, and what the PUT would reset. *)
Differing(s, held) == {f \in DOMAIN s : s[f] # Unset /\ s[f] # held[f]}
NothingOmitted(s, held) == {}
OmittedEvenDefaults(s, held) == {f \in DOMAIN s : s[f] = Unset /\ held[f] # Unset}
OmittedSettings(s, held) == {f \in DOMAIN s : s[f] = Unset /\ held[f] # GitHubDefaults[f]}

(* The PUT, refused by its before hook when it would remove a live value. *)
PutOps(e, k, live) ==
  IF ~Exists(live, k)
  THEN <<EnvOp("update", k, [body |-> e.settings, refused |-> FALSE, capture |-> e.pinned # Unset])>>
  ELSE LET held == live.envs[k].settings
           omitted == OmittedSettings(e.settings, held)
       IN  IF Differing(e.settings, held) \cup omitted = {} THEN <<>>
           ELSE <<EnvOp("update", k, [body |-> e.settings, refused |-> omitted # {}, capture |-> FALSE])>>

(* planBranchPolicies(): the list 404s while the flag is off, and every pattern
   then plans as a create; a pattern's type is immutable, so another type is a
   delete and a create.                                                    *)
Hidden(k, live) == Exists(live, k) /\ live.envs[k].settings.branch # "custom"
VisiblePolicies(k, live) ==
  IF Exists(live, k) /\ ~Hidden(k, live) THEN live.envs[k].policies ELSE <<>>

PolicyOp(role, k, name, val) == [EnvOp(role, k, val) EXCEPT !.name = name]
RecreatePolicy(k, name, type) == <<PolicyOp("removePolicy", k, name, Unset), PolicyOp("createPolicy", k, name, type)>>
PolicyOps(list, k, live) ==
  LET held == VisiblePolicies(k, live)
      names == Listed(DOMAIN list.entries)
      gone == Listed(IF list.policy = "keep" THEN {} ELSE DOMAIN held \ DOMAIN list.entries)
      Pattern(n) ==
        IF n \notin DOMAIN held THEN <<PolicyOp("createPolicy", k, n, list.entries[n])>>
        ELSE IF held[n] = list.entries[n] THEN <<>>
        ELSE RecreatePolicy(k, n, list.entries[n])
  IN  FlattenSeq([i \in DOMAIN names |-> Pattern(names[i])])
      \o [i \in DOMAIN gone |-> PolicyOp("removePolicy", k, gone[i], Unset)]

(* planProtectionRules(): every missing slug is resolved from one read of the
   apps, here when the environment exists, else when the first POST is sent. *)
EnabledRules(k, live) == IF Exists(live, k) THEN live.envs[k].rules ELSE {}
MissingRules(list, k, live) == list.entries \ EnabledRules(k, live)
RulesUnresolved(e, k, live) ==
  e.rules # Unset /\ Exists(live, k) /\ ~(MissingRules(e.rules, k, live) \subseteq live.apps)
RuleOps(list, k, live) ==
  LET missing == MissingRules(list, k, live)
      new == Listed(missing)
      gone == Listed(IF list.policy = "keep" THEN {} ELSE EnabledRules(k, live) \ list.entries)
  IN  [i \in DOMAIN new |->
         PolicyOp("createRule", k, new[i], [needs |-> missing, resolved |-> Exists(live, k)])]
      \o [i \in DOMAIN gone |-> PolicyOp("removeRule", k, gone[i], Unset)]

(* planNested(): an undeclared list is not touched. *)
NestedOps(e, k, live) ==
  LET Items(field) == IF Exists(live, k) THEN live.envs[k][field] ELSE <<>>
  IN  (IF e.variables = Unset THEN <<>> ELSE VariableOps(k, e.variables, Items("variables")))
      \o (IF e.secrets = Unset THEN <<>> ELSE SecretOps(k, e.secrets, Items("secrets")))
      \o (IF e.policies = Unset THEN <<>> ELSE PolicyOps(e.policies, k, live))
      \o (IF e.rules = Unset THEN <<>> ELSE RuleOps(e.rules, k, live))

(* pinNodeId(): the probed id, or the one the PUT's answer will carry. *)
IdAtPlan(k, live) == IF Exists(live, k) THEN live.envs[k].id ELSE Unset

PinDeclarations(d) ==
  LET HasPin(e) == e.pinned # Unset
      Declared[s \in Seq(Range(d))] == [i \in DOMAIN s |-> [name |-> s[i].name, pinned |-> s[i].pinned]]
  IN  Declared[SelectSeq(d, HasPin)]

(* Every pin operation carries whether the plan overflows the cap, and the ids
   of all of them, which the first one sent resolves.                      *)
SentPin(op, live, overflow) ==
  [role |-> op.role, home |-> op.name, name |-> op.name, val |-> op,
   drift |-> TRUE, id |-> IdAtPlan(op.name, live), overflow |-> overflow]
PlannedPins(declared, live) ==
  LET Sent[ops \in Seq([role : {"pin", "reorder"}, name : EnvKeys, pinned : BOOLEAN, rank : Nat]),
           overflow \in BOOLEAN] ==
        [i \in DOMAIN ops |-> SentPin(ops[i], live, overflow)]
  IN  Sent[PlanPins(declared, live.pins), Overflow(declared, live.pins)]

EnvPlan(d, live) ==
  LET K(i) == EnvKey(d[i].name)
      One(i) == PutOps(d[i], K(i), live) \o NestedOps(d[i], K(i), live)
  IN  [failed |-> \E i \in DOMAIN d : RulesUnresolved(d[i], K(i), live),
       ops |-> FlattenSeq([i \in DOMAIN d |-> One(i)])
               \o (IF PinDeclarations(d) = <<>> THEN <<>> ELSE PlannedPins(PinDeclarations(d), live))]

-----------------------------------------------------------------------------
(* Sending. *)

IdSlot(k) == <<"id", k>>
AppsSlot(k) == <<"apps", k>>

AppsNow(op, live, memo) == IF AppsSlot(op.home) \in DOMAIN memo THEN memo[AppsSlot(op.home)] ELSE live.apps
PinId(op, memo) ==
  IF op.id # Unset THEN op.id ELSE IF IdSlot(op.name) \in DOMAIN memo THEN memo[IdSlot(op.name)] ELSE Unset

(* A before hook or a payload thunk that fails: nothing is sent. *)
EnvRefuses(op, live, memo) ==
  CASE op.role = "update" -> op.val.refused
    [] op.role = "createRule" ->
         ~op.val.resolved /\ (~Exists(live, op.home) \/ ~(op.val.needs \subseteq AppsNow(op, live, memo)))
    [] op.role = "putSecret" -> ~Exists(live, op.home)      \* no sealing key to read
    [] op.role \in {"pin", "reorder"} -> op.overflow \/ PinId(op, memo) = Unset
    [] OTHER -> FALSE

NewId(live) == live.born + 1

(* What the run holds once the request is answered. *)
EnvNotes(op, live, memo) ==
  CASE op.role = "update" /\ op.val.capture ->
         With(memo, IdSlot(op.home), IF Exists(live, op.home) THEN live.envs[op.home].id ELSE NewId(live))
    [] op.role = "createRule" /\ ~op.val.resolved -> With(memo, AppsSlot(op.home), AppsNow(op, live, memo))
    [] op.role = "putSecret" -> KeyRead(memo, op, live.envs[op.home].id)
    [] OTHER -> memo

(* GitHub.  A nested resource needs its environment, a pattern the flag; a
   mutation addresses an environment by its id; a pattern that is already there
   is a 303, which the section declares converged.                         *)
HomeAccepts(op, env, live, memo) ==
  CASE op.role \in ScopeRoles ->
         ScopeAccepts(op, IF op.role \in {"putSecret", "removeSecret"} THEN env.secrets ELSE env.variables,
                      memo, env.id)
    [] op.role = "createPolicy" -> env.settings.branch = "custom"
    [] op.role = "removePolicy" -> env.settings.branch = "custom" /\ op.name \in DOMAIN env.policies
    [] op.role = "createRule" -> op.name \in live.apps /\ op.name \notin env.rules
    [] op.role = "removeRule" -> op.name \in env.rules
    [] OTHER -> PinId(op, memo) = env.id /\ PinAccepts(op.val, live.pins)
EnvAccepts(op, live, memo) ==
  IF op.role = "update" THEN TRUE
  ELSE Exists(live, op.home) /\ HomeAccepts(op, live.envs[op.home], live, memo)

NewEnvironment(live, settings) ==
  [id |-> NewId(live), settings |-> settings, variables |-> <<>>, secrets |-> <<>>,
   policies |-> <<>>, rules |-> {}]

(* The PUT replaces the settings whole. *)
Replaced(body) == [f \in DOMAIN body |-> IF body[f] = Unset THEN GitHubDefaults[f] ELSE body[f]]

HomeAfter(op, env) ==
  CASE op.role \in {"putSecret", "removeSecret"} -> [env EXCEPT !.secrets = ScopeAfter(op, @)]
    [] op.role \in ScopeRoles -> [env EXCEPT !.variables = ScopeAfter(op, @)]
    [] op.role = "createPolicy" ->
         [env EXCEPT !.policies = IF op.name \in DOMAIN @ THEN @ ELSE With(@, op.name, op.val)]
    [] op.role = "removePolicy" -> [env EXCEPT !.policies = Without(@, {op.name})]
    [] op.role = "createRule" -> [env EXCEPT !.rules = @ \cup {op.name}]
    [] op.role = "removeRule" -> [env EXCEPT !.rules = @ \ {op.name}]

EnvAfter(op, live, memo) ==
  CASE op.role = "update" /\ ~Exists(live, op.home) ->
         [live EXCEPT !.envs = With(@, op.home, NewEnvironment(live, Replaced(op.val.body))),
                      !.born = NewId(live)]
    [] op.role = "update" -> [live EXCEPT !.envs[op.home].settings = Replaced(op.val.body)]
    [] op.role \in {"pin", "reorder"} -> [live EXCEPT !.pins = PinAfter(op.val, @)]
    [] OTHER -> [live EXCEPT !.envs[op.home] = HomeAfter(op, @)]

-----------------------------------------------------------------------------
(* What the section promises, said without the plan. *)

EntryMeets(e, env) ==
  /\ Differing(e.settings, env.settings) = {}
  /\ e.variables # Unset => ScopeMeets(e.variables, env.variables)
  /\ e.secrets # Unset => ScopeMeets(e.secrets, env.secrets)
  /\ e.rules # Unset =>
       e.rules.entries \subseteq env.rules /\ (e.rules.policy = "delete" => env.rules \subseteq e.rules.entries)
PoliciesMeet(e, env) ==
  e.policies # Unset =>
    /\ \A n \in DOMAIN e.policies.entries : n \in DOMAIN env.policies /\ env.policies[n] = e.policies.entries[n]
    /\ e.policies.policy = "delete" => DOMAIN env.policies \subseteq DOMAIN e.policies.entries

(* Patterns that were behind the flag when the run planned are the next run's. *)
EnvMeets(d, live, before) ==
  /\ \A i \in DOMAIN d :
       LET k == EnvKey(d[i].name)
       IN  /\ Exists(live, k)
           /\ EntryMeets(d[i], live.envs[k])
           /\ PoliciesMeet(d[i], live.envs[k]) \/ Hidden(k, before)
  /\ PinsMeet(PinDeclarations(d), live.pins)

(* Environments no entry names, nested lists no entry declares, live settings an
   entry omits and kept items all stay.                                    *)
EntrySpares(e, old, new) ==
  /\ new.id = old.id
  /\ \A f \in DOMAIN e.settings : e.settings[f] = Unset => new.settings[f] = old.settings[f]
  /\ IF e.variables = Unset THEN new.variables = old.variables
     ELSE ScopeSpares(e.variables, old.variables, new.variables)
  /\ IF e.secrets = Unset THEN new.secrets = old.secrets
     ELSE ScopeSpares(e.secrets, old.secrets, new.secrets)
  /\ IF e.policies = Unset THEN new.policies = old.policies
     ELSE e.policies.policy = "keep" => DOMAIN old.policies \subseteq DOMAIN new.policies \cup DOMAIN e.policies.entries
  /\ IF e.rules = Unset THEN new.rules = old.rules
     ELSE e.rules.policy = "keep" => old.rules \subseteq new.rules
EnvSpares(d, before, after) ==
  /\ \A k \in DOMAIN before.envs :
       /\ Exists(after, k)
       /\ \A i \in DOMAIN d : EnvKey(d[i].name) = k => EntrySpares(d[i], before.envs[k], after.envs[k])
       /\ (\A i \in DOMAIN d : EnvKey(d[i].name) # k) => after.envs[k] = before.envs[k]
  /\ PinsSpare(PinDeclarations(d), before.pins, after.pins)

(* The PUT of an entry would lose a value the entry omits. *)
WouldReset(d, live) ==
  \E i \in DOMAIN d :
    LET k == EnvKey(d[i].name)
    IN  Exists(live, k) /\ \E f \in DOMAIN d[i].settings :
          d[i].settings[f] = Unset /\ Replaced(d[i].settings)[f] # live.envs[k].settings[f]

-----------------------------------------------------------------------------
(* The snapshot: withPins() puts the pinned environments first, in rank order,
   each list appears under its own default policy when it holds anything.  *)

NestedList(policy, entries, empty) == IF empty THEN Unset ELSE [policy |-> policy, entries |-> entries]
EntryOf(k, live, pinned) ==
  LET env == live.envs[k]
      policies == VisiblePolicies(k, live)
  IN  [name |-> k, pinned |-> pinned, settings |-> env.settings,
       variables |-> NestedList("delete", env.variables, DOMAIN env.variables = {}),
       secrets |-> NestedList("keep", env.secrets, DOMAIN env.secrets = {}),
       policies |-> NestedList("delete", policies, DOMAIN policies = {}),
       rules |-> NestedList("keep", env.rules, env.rules = {})]
SnapshotByName(live) ==
  LET names == Listed(DOMAIN live.envs)
  IN  [i \in DOMAIN names |-> EntryOf(names[i], live, IF Contains(live.pins, names[i]) THEN TRUE ELSE Unset)]
EnvSnapshot(live) ==
  LET others == Listed(DOMAIN live.envs \ ToSet(live.pins))
  IN  [i \in DOMAIN live.pins |-> EntryOf(live.pins[i], live, TRUE)]
      \o [i \in DOMAIN others |-> EntryOf(others[i], live, Unset)]

(* What others do to an environment. *)
EnvEdits(live) ==
  {[live EXCEPT !.envs = Without(@, {k}), !.pins = Remove(@, k)] : k \in DOMAIN live.envs}
  \cup {[live EXCEPT !.envs[k].settings.branch = b] : k \in DOMAIN live.envs, b \in {AnyBranch, "custom"}}
  \cup {[live EXCEPT !.pins = Append(@, k)] : k \in
          IF Len(live.pins) < MaxPinned THEN DOMAIN live.envs \ ToSet(live.pins) ELSE {}}
  \cup {[live EXCEPT !.apps = {}]}
=============================================================================
