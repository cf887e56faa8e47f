--------------------------- MODULE MC_SectionRun ---------------------------
(* Small instances of SectionRun: per section, documents and live states that
   between them reach every branch of its plan.                            *)
EXTENDS SectionRun, TLC

Case(s, d, l, e, f) == [section |-> s, doc |-> d, live |-> l, edits |-> e, faults |-> f]
None == <<>>

(* Names of secrets and variables: "n" and "N" are one stored name. *)
MCUpper == [n \in {"n", "N", "M"} |-> IF n = "n" THEN "N" ELSE n]
(* Environments: "Dev" and "dev" are one. *)
MCFold == [n \in {"dev", "Dev", "qa", "prod", "ops"} |-> IF n = "Dev" THEN "dev" ELSE n]

List(policy, entries) == [policy |-> policy, entries |-> entries]
Policies == {"keep", "delete"}

ValueCases ==
  {Case("values", [kind |-> k, list |-> List(p, d)], [items |-> l, key |-> 1], 1, 1) :
     k \in {"secrets", "variables"}, p \in Policies,
     d \in {"n" :> 1, "n" :> 1 @@ "M" :> 2}, l \in {None, "N" :> 2, "N" :> 1 @@ "M" :> 1}}

(* Every order of up to three pinned environments against every declaration of
   up to three.  The environments differ in their names alone, so that one file
   order stands for all of them.                                           *)
Settings(w, b) == [wait |-> w, branch |-> b]
Bare(name, pinned) ==
  [name |-> name, pinned |-> pinned, settings |-> Settings(Unset, Unset), variables |-> Unset,
   secrets |-> Unset, policies |-> Unset, rules |-> Unset]
EnvNames == {"dev", "qa", "prod", "ops"}
IdOf == "dev" :> 1 @@ "qa" :> 2 @@ "prod" :> 3 @@ "ops" :> 4
Plain(k) == [id |-> IdOf[k], settings |-> Settings(NoTimer, "any"), variables |-> None,
             secrets |-> None, policies |-> None, rules |-> {}]
Live(envs, pins) == [envs |-> envs, pins |-> pins, apps |-> {"app"}, born |-> 4]
Arrangements(S, n) ==
  {q \in UNION {[1..m -> S] : m \in 0..n} : \A i, j \in DOMAIN q : q[i] = q[j] => i = j}

PinDocuments ==
  {[i \in 1..n |-> Bare(<<"Dev", "qa", "prod">>[i], f[i])] : n \in 1..3, f \in [1..3 -> {TRUE, FALSE}]}
PinCases ==
  {Case("environments", d, Live([k \in EnvNames |-> Plain(k)], pins), 0, 0) :
     d \in PinDocuments, pins \in Arrangements(EnvNames, 3)}
  \cup
  {Case("environments", d, Live([k \in EnvNames \ {"qa"} |-> Plain(k)], pins), 1, 1) :
     d \in {<<Bare("qa", TRUE), Bare("Dev", TRUE)>>, <<Bare("qa", TRUE), Bare("ops", FALSE), Bare("Dev", TRUE)>>},
     pins \in {<<>>, <<"dev", "ops">>, <<"ops", "prod", "dev">>}}

(* One environment with every nested list, missing, bare or differing. *)
Full(settings, policy, type) ==
  [name |-> "Dev", pinned |-> TRUE, settings |-> settings,
   variables |-> List(policy, "n" :> 1), secrets |-> List(policy, "n" :> 1 @@ "M" :> 2),
   policies |-> List(policy, "main" :> type), rules |-> List(policy, {"app"})]
Held(w, b, patterns) ==
  [id |-> 1, settings |-> Settings(w, b), variables |-> "N" :> 2 @@ "M" :> 1, secrets |-> "M" :> 1,
   policies |-> patterns, rules |-> {"gate"}]
NestedCases ==
  {Case("environments", d, Live(envs, <<"qa">>), 1, 1) :
     d \in {<<Full(Settings(w, "custom"), p, t), Bare("qa", IF p = "keep" THEN FALSE ELSE Unset)>> :
              w \in {30, Unset}, p \in Policies, t \in {"branch", "tag"}},
     envs \in {[k \in {"qa"} |-> Plain(k)],
               "dev" :> Held(30, "custom", "main" :> "branch" @@ "old" :> "tag") @@ "qa" :> Plain("qa"),
               "dev" :> Held(NoTimer, "any", "main" :> "branch") @@ "qa" :> Plain("qa")}}

(* Secret scanning patterns: missing, differing in one field, unversioned, with
   alerts on record, and one the syntax check cannot verify.               *)
Pattern(p, d, m) == [pattern |-> p, delimiter |-> d, must_match |-> m]
HeldPattern(id, version, fields) == [id |-> <<0, id>>, version |-> version, fields |-> fields]
MCUnverifiable == {"odd"}
PatternCases ==
  {Case("patterns", List(p, d), [patterns |-> l, alerts |-> DOMAIN l, born |-> 3], 1, 1) :
     p \in Policies,
     d \in {"token" :> Pattern("a", Unset, {}) @@ "pass" :> Pattern("b", "x", {"m"})},
     l \in {None,
            "token" :> HeldPattern(1, 1, Pattern("a", "y", Unset)) @@ "old" :> HeldPattern(2, 1, Pattern("odd", Unset, Unset)),
            "token" :> HeldPattern(1, 2, Pattern("c", Unset, {"m"})) @@ "pass" :> HeldPattern(3, Unset, Pattern("b", "y", Unset)),
            "pass" :> HeldPattern(3, 1, Pattern("c", "x", {"m"})) @@ "old" :> HeldPattern(2, Unset, Pattern("o", "x", {}))}}

(* Branch protection: the REST controls alone, both routed keys, an actor nobody
   knows, an environment nobody has, null, wildcards beside literal names.  *)
Aliases == [octo |-> "Octo", Ann |-> "ann", Topic |-> "topic", push |-> "write", pull |-> "read"]
           @@ "main" :> "main /" @@ "ci.yml" :> ".github/workflows/ci.yml"
MCCanonical ==
  Aliases @@ [n \in {"Octo", "nobody", "prod", "gone", "ann", "bob", "own", "zed", "kim", "topic", "lead",
                     "main /", "gh-pages /", ".github/workflows/ci.yml", ".github/workflows/new.yml"} |-> n]
MCMatches == "rel*" :> {"rel1"}
Protection(rest, signatures, bypass, deploy) ==
  [rest |-> rest, signatures |-> signatures, bypass |-> bypass, deploy |-> deploy]
BranchEntry(name, protection) == [name |-> name, protection |-> protection]
Rule(id, checks, linear, signatures, bypass, deploy) ==
  [id |-> id, rest |-> [checks |-> checks, linear |-> linear], signatures |-> signatures,
   bypass |-> bypass, deploy |-> deploy]
BranchDocuments ==
  {<<BranchEntry("main", Protection([checks |-> "a"], TRUE, {"octo"}, {"prod"}))>>,
   <<BranchEntry("main", Protection([checks |-> "a"], Unset, Unset, {"gone"}))>>,
   <<BranchEntry("main", Protection([checks |-> "a", linear |-> "on"], FALSE, Unset, Off)),
     BranchEntry("rel*", Protection([linear |-> "on"], Unset, {"nobody"}, Unset))>>,
   <<BranchEntry("main", Off), BranchEntry("rel*", Protection([linear |-> "on"], TRUE, {"octo"}, Unset))>>,
   <<BranchEntry("rel1", Protection([checks |-> "a"], Unset, {}, Unset)), BranchEntry("main", Off)>>,
   <<BranchEntry("rel*", Off)>>}
BranchCases ==
  {Case("branches", d, [rules |-> r, branches |-> {"main", "rel1"}, actors |-> {"Octo"}, deployable |-> {"prod"},
                        born |-> 2], 1, 1) :
     d \in BranchDocuments,
     r \in {None, "main" :> Rule(1, "a", Off, TRUE, {}, {"prod"}),
            "main" :> Rule(1, "b", "on", FALSE, {"Octo"}, Off) @@ "rel*" :> Rule(2, "a", Off, FALSE, {}, {"prod"})}}

(* The repository: a field GitHub never echoes, archived or to be archived, a
   toggle it cannot have, one its owner decides, a routed key it ignores.   *)
RepositoryDoc(fields, topics, toggles, lfs, routed) ==
  [fields |-> fields, topics |-> topics, toggles |-> toggles, lfs |-> lfs, routed |-> routed]
RepositoryDocuments ==
  {RepositoryDoc([description |-> "a", ghost |-> "x"], {"Topic"}, [alerts |-> TRUE, releases |-> FALSE], TRUE,
                 [policy |-> "some"]),
   RepositoryDoc([archived |-> TRUE], {"topic", "zed"}, [reporting |-> TRUE], Unset, None),
   RepositoryDoc([archived |-> FALSE, description |-> Off], Unset, [alerts |-> FALSE, reporting |-> FALSE], FALSE,
                 [policy |-> "all", sponsors |-> "on"])}
RepositoryLive(description, archived, topics, on, inapplicable, enforced, policy, restricted) ==
  [fields |-> [description |-> description, archived |-> archived, wiki |-> "on"], topics |-> topics, on |-> on,
   inapplicable |-> inapplicable, enforced |-> enforced, lfs |-> FALSE,
   routed |-> [policy |-> policy, sponsors |-> "off"], restricted |-> restricted]
RepositoryCases ==
  {Case("repository", d, l, 1, 1) :
     d \in RepositoryDocuments,
     l \in {RepositoryLive(Off, FALSE, {}, {}, {"reporting"}, {}, "all", {}),
            RepositoryLive("b", FALSE, {"topic"}, {"alerts", "releases"}, {}, {"releases"}, "all", {"policy"}),
            RepositoryLive("a", TRUE, {"zed"}, {"releases", "reporting"}, {}, {}, Unset, {})}}

(* Actions: the allowlist with and without its policy, both ways to take the
   claim template, the limits of the cache apart, and keys GitHub never echoes. *)
ActionsDoc(base, workflow, selected, routed, cache, oidc) ==
  [base |-> base, workflow |-> workflow, selected |-> selected, routed |-> routed, cache |-> cache, oidc |-> oidc]
Oidc(use_default, keys) == [use_default |-> use_default, keys |-> keys]
ActionsLive(enabled, allowed, selected, oidc) ==
  ActionsDoc([enabled |-> enabled, allowed_actions |-> allowed, sha_pinning |-> FALSE], [token |-> "read"],
             selected, [access_level |-> "none"], [size |-> 1, days |-> 1], oidc)
ActionsCases ==
  {Case("actions", d, l, 1, 1) :
     d \in {ActionsDoc(None, None, {"a", "b"}, [access_level |-> "user"], [size |-> 2], Oidc(FALSE, <<"ref", "repo">>)),
            ActionsDoc([sha_pinning |-> TRUE], [token |-> "write"], Unset, None, [size |-> 1, days |-> 2],
                       Oidc(FALSE, Unset)),
            ActionsDoc([allowed_actions |-> "selected", enabled |-> TRUE], None, {"a"}, None, None, Oidc(TRUE, Unset)),
            ActionsDoc([enabled |-> FALSE], None, Unset, None, None, Unset),
            ActionsDoc([sha_pinning |-> TRUE, ghost |-> "x"], None, {"a"}, None, None,
                       Oidc(FALSE, <<"ref">>) @@ [ghost |-> "x"])},
     l \in {ActionsLive(TRUE, "all", Unset, Oidc(TRUE, Unset)),
            ActionsLive(FALSE, "all", {"a"}, Oidc(FALSE, <<"repo", "ref">>)),
            ActionsLive(TRUE, "selected", {"a", "b"}, Oidc(FALSE, <<"org">>))}}
MCOrgTemplate == <<"org">>

(* People: collaborators, pending and expired invitations, an owner, a role no
   invitation carries; teams with direct and with inherited access.        *)
MCPermissions == {"push", "pull", "lead"}
MCInvitationRoles == {"read", "write"}
Invite(id, role, expired) == [id |-> id, role |-> role, expired |-> expired]
People(members, invites) ==
  [members |-> members @@ [own |-> "admin"], invites |-> invites, emails |-> {"mail"}, owner |-> "own", born |-> 9]
CollaboratorCases ==
  {Case("collaborators", List(p, [Ann |-> a, bob |-> "pull"]), People(l[1], l[2]), 1, 1) :
     p \in Policies, a \in {"push", "lead"},
     l \in {<<None, None>>,
            <<[ann |-> "read"], [kim |-> Invite(1, "read", FALSE)]>>,
            <<[kim |-> "lead"], [ann |-> Invite(1, "read", FALSE), bob |-> Invite(2, "read", TRUE)]>>,
            <<[bob |-> "write"], [ann |-> Invite(1, "write", TRUE)]>>}}
Team(role, source) == [role |-> role, source |-> source]
TeamCases ==
  {Case("teams", List(p, [Ann |-> "push", bob |-> "lead"]), l, 1, 1) :
     p \in Policies,
     l \in {[kim |-> Team("read", "direct"), zed |-> Team("read", "organization")],
            [ann |-> Team("read", "organization"), bob |-> Team("lead", "direct"), kim |-> Team("push", "direct")]}}

(* Interaction limits: null, a limit set above the repository, no cap to have,
   and a bypass list that is full.                                         *)
Limits(limit, cap, bypass) == [limit |-> limit, cap |-> cap, bypass |-> bypass]
HeldLimits(base, cap, bypass) == [base |-> base, cap |-> cap, bypass |-> bypass]
LimitCases ==
  {Case("limits", d, l, 1, 1) :
     d \in {Off, Limits("contributors", Unset, {"Ann", "bob"}), Limits(Unset, [enabled |-> TRUE], Unset),
            Limits("existing", [enabled |-> TRUE, max |-> 5], {"kim"})},
     l \in {HeldLimits(Unset, Unset, {}),
            HeldLimits([limit |-> "existing", origin |-> "repository"], [enabled |-> FALSE, max |-> 3], {"kim", "zed"}),
            HeldLimits([limit |-> "contributors", origin |-> "organization"], [enabled |-> TRUE, max |-> 3],
                       {"ann", "kim"})}}

(* The small sections. *)
One(v) == <<"one", {v}>>
PropertyCases ==
  {Case("properties", List(p, [tier |-> One("a"), langs |-> <<"many", {"x", "y"}>>, old |-> Off]),
        [values |-> v, defaults |-> f, defined |-> g], 1, 1) :
     p \in Policies,
     v \in {None, [old |-> One("z"), langs |-> <<"many", {"x"}>>], [team |-> One("t"), tier |-> One("a")]},
     f \in {None, [old |-> One("dflt"), team |-> One("t")]},
     g \in {{"tier", "langs", "old", "team"}, {"tier", "old", "team"}}}
Site(build, source, https, public) ==
  [build_type |-> build, source |-> source, https_enforced |-> https, public |-> public]
PagesCases ==
  {Case("pages", d, [site |-> l, hosted |-> h], 1, 1) :
     d \in {Off, [build_type |-> "workflow"], [source |-> "main", https_enforced |-> TRUE],
            [source |-> "main", public |-> FALSE], [build_type |-> "workflow", https_enforced |-> TRUE, ghost |-> "x"]},
     l \in {Unset, Site("legacy", "main /", FALSE, TRUE)}, h \in BOOLEAN}
MCPatchName == [js |-> "js-ts", ts |-> "js-ts", go |-> "go", lua |-> Unset]
SetupCases ==
  {Case("setup", d, [state |-> "off", languages |-> l, rollout |-> Unset], 1, 1) :
     d \in {[state |-> "on"], [state |-> "on", languages |-> {"js-ts"}], [languages |-> {"go"}],
            [state |-> "on", languages |-> {"js-ts"}, ghost |-> "x"]},
     l \in {{"js", "lua"}, {"go"}}}
WorkflowCases ==
  {Case("workflows", "ci.yml" :> a @@ ".github/workflows/new.yml" :> "disabled", l, 1, 1) :
     a \in {"active", "disabled"},
     l \in {".github/workflows/ci.yml" :> "active",
            ".github/workflows/ci.yml" :> "disabled_inactivity" @@ ".github/workflows/new.yml" :> "active",
            ".github/workflows/new.yml" :> "deleted"}}
SuiteCases == {Case("suites", "1" :> TRUE, "1" :> FALSE @@ "2" :> b, 1, 1) : b \in BOOLEAN}

(* Rulesets: lists paired by type, by actor, by shape and by value, an admin
   under any id, a ruleset that holds more than the file says, one with a rule
   twice, a rule GitHub does not know, a token that may not write.         *)
Data == INSTANCE Deltas
S(v) == Data!Scalar(v)
L(items) == Data!List(items)
M(fields) == Data!Mapping(fields)
Words(names) == L([i \in DOMAIN names |-> S(names[i])])
MCFullRef ==
  [branch |-> [main |-> "refs/heads/main"] @@ "~ALL" :> "~ALL" @@ "refs/heads/main" :> "refs/heads/main",
   tag |-> [main |-> "refs/tags/main"] @@ "refs/tags/main" :> "refs/tags/main"]
MCRuleDefaults == [deletion |-> <<>>, review |-> [count |-> S("0"), stale |-> S("false")], checks |-> [strict |-> S("false")]]
Simple(type) == M([type |-> S(type)])
WithParameters(type, fields) == M([type |-> S(type), parameters |-> M(fields)])
Check(context, app) == M([context |-> S(context), app |-> app])
Ask(context) == M([context |-> S(context)])
Refs(include, exclude) == M([ref_name |-> M([include |-> Words(include), exclude |-> Words(exclude)])])
Actor(type, id, mode) == M([actor_type |-> S(type), actor_id |-> id, bypass_mode |-> S(mode)])
BareActor(type) == M([actor_type |-> S(type)])
Rules(target, fields) == M([target |-> S(target), enforcement |-> S("active")] @@ fields)
RulesetDocuments ==
  {Rules("branch", [conditions |-> Refs(<<"main">>, <<>>),
                    rules |-> L(<<WithParameters("review", [count |-> S("1"), note |-> S("")]), Simple("deletion")>>),
                    bypass_actors |-> L(<<BareActor("OrganizationAdmin"), Actor("Team", S("7"), "pull_request")>>)]),
   Rules("tag", [conditions |-> Refs(<<"main", "refs/tags/main">>, <<"main">>),
                 rules |-> L(<<WithParameters("checks", [required |-> L(<<Ask("a"), Check("b", S("1"))>>)])>>)]),
   Rules("branch", [rules |-> L(<<>>), bypass_actors |-> L(<<Actor("DeployKey", Data!Null, "exempt")>>)]),
   Rules("push", [conditions |-> Refs(<<"main">>, <<>>), rules |-> L(<<Simple("made_up")>>)])}
HeldRules(target, fields) == M(Rules(target, fields).fields @@ [source_type |-> S("Repository")])
HeldRulesets ==
  {Unset,
   HeldRules("branch", [conditions |-> Data!Null, rules |-> L(<<Simple("deletion"), Simple("deletion")>>), bypass_actors |-> L(<<>>)]),
   HeldRules("branch", [conditions |-> Refs(<<"~ALL", "refs/heads/main">>, <<>>),
                        rules |-> L(<<Simple("deletion"), WithParameters("review", [count |-> S("1"), stale |-> S("true")])>>),
                        bypass_actors |-> L(<<Actor("Team", S("7"), "always"), Actor("OrganizationAdmin", Data!Null, "always")>>)]),
   HeldRules("tag", [conditions |-> Refs(<<"refs/tags/main">>, <<"refs/tags/main">>),
                     rules |-> L(<<WithParameters("checks", [strict |-> S("true"),
                                                             required |-> L(<<Check("b", S("1")), Check("a", Data!Null), Check("c", Data!Null)>>)])>>),
                     bypass_actors |-> L(<<Actor("User", S("3"), "always")>>)]),
   HeldRules("tag", [rules |-> L(<<WithParameters("checks", [strict |-> S("false"),
                                                             required |-> L(<<Check("a", Data!Null), Check("a", S("2"))>>)])>>),
                     bypass_actors |-> L(<<>>)])}
RulesetCases ==
  {Case("ruleset", d, [ruleset |-> r, writable |-> w], 1, 1) : d \in RulesetDocuments, r \in HeldRulesets, w \in BOOLEAN}

NewCases ==
  RepositoryCases \cup ActionsCases \cup CollaboratorCases \cup TeamCases \cup LimitCases
  \cup PropertyCases \cup PagesCases \cup SetupCases \cup WorkflowCases \cup SuiteCases \cup RulesetCases
MCCases == ValueCases \cup PinCases \cup NestedCases \cup PatternCases \cup BranchCases \cup NewCases
=============================================================================
