# A verification project for github-settings-as-code

The program reads a settings file, plans per section what differs on GitHub, and
either reports the drift (`check`) or sends the requests (`apply`). It keeps no
state between runs and takes no lock: GitHub is shared with people, other
workflows and the token's owner, requests are retried, and a run may die between
any two of them. What makes it correct is therefore not in one function. It is in
what a run may say of what it did, in what a half-done run leaves for the next
one, and in the order requests are sent. The same holds for the two ways it
writes files, and for the pipeline that releases it.

This directory holds TLA+ models of those parts, TLC configurations that check
them on small instances, and TLAPS proofs for every instance. Line references are
to the repository's `src/` directory.

## The system

| Part | State it keeps | Operations | What makes it correct |
|---|---|---|---|
| Repository run, `engine/orchestrate.ts` | rows, resolved secrets, the list of denied sections | preflight probe, secret resolution, section loop, result word | no write before the gates pass; rows and result word say what was written; re-running converges |
| Plan executor, `engine/execute.ts` | `landed`, change lines, notes of one section | one request per operation, hooks before and after | every landed request is counted, a failure stops the section and is reported with what landed |
| Request client, `github/` | retry counts, page cursor | request, list, GraphQL | a lost answer is retried, a partial list is never an answer, a limit is not a denial |
| List-section factory, `sections/shared/list` | none between runs | pair live items with entries, plan removals, updates, recreates, creates | order GitHub accepts, undeclared items spared, no list it cannot handle again |
| The six list sections | none | one declaration each | the factory's promises hold for each declaration |
| Diff, `engine/diff.ts` | none | nested comparison, omitted-key sweep | a difference is found exactly when there is one; nothing unsaid is removed |
| Secrets and variables, `sections/shared/secrets-and-variables` | the sealing key, read once per plan | plan, seal at execution time | key read after the scope exists; every secret re-sent |
| Environments, branches, patterns and the other sections | captured ids and versions | one plan function each | as the factory's, plus caps, positions, versions, what the answer echoes |
| Layer fold and policies, `engine/layers.ts`, `engine/undeclared.ts` | the document so far | merge, removal, policy resolution | the highest declaration wins, the result is one a run accepts, order of entries is no input |
| Snapshot, `engine/snapshot.ts`, `flows/snapshot.ts` | the document under construction, claimed files | read each section back, write the file | no document that looks complete when it is not |
| Settings files, `flows/settings-write.ts`, `github/repo-file.ts` | a staging file | staged write, rename, cleanup | no half-written and no overwritten file |
| Fleet run, `flows/multi.ts`, `redact.ts`, `deliver.ts` | visibility map, mask registry, transcripts, queued reports | resolve targets, mask, run each target, close, flush | nothing hidden is named before it is masked, one crash stops no other target, a report goes only where it is proven private |
| Report issue, `report/issue-report.ts` | none; the issue on GitHub is the state | find, create, update, close | one issue reused for ever, its state mirrors the last run |
| Release pipeline, `.github/scripts/release-pipeline` | none; origin's refs, npm's dist-tags and the release PR's branch are the state | package, tag, prune, publish, confirm, anchor | what a consumer names only moves forward, a green job's build can be reached |
| Faces, generated tables, documentation scripts | none | parsing, formatting | not modelled, see below |

The parts meet in five ways. The fleet run calls the repository run once per
target, one after the other. The repository run calls each section's `plan` and
hands the plan to the executor. The executor and the planners call the client,
which may send one request several times. Render and snapshot write documents the
repository run reads later. Everything else they share is GitHub, which others
change at any time.

What is hard here is listed line by line under "hazards" in PROJECT.json: writes
that land without an answer, the section that fails in the middle, grants and
items that change between a read and its use, the order of requests, lists that
move while they are paged, names that lead to one file, jobs that overtake one
another, and the states a run that died leaves behind.

## Modules

| Module | Models | Extends or instantiates |
|---|---|---|
| `RunContract` | what one run promises its operator, without sections, plans or requests | |
| `RepoRun` | `runForRepo`, `executePlan` and the client's retries | `INSTANCE RunContract` |
| `RepoRunProofs`, `ListSectionProofs`, `DocumentRunProofs`, `FleetRunProofs`, `IssueReportProofs`, `ReleaseProofs`, `ReleaseTagsProofs` | the theorems about the module they name | that module, `Numbers` |
| `Numbers` | lemmas on sets of numbers | |
| `ListSection` | the list-section factory, executed against GitHub | |
| `ListSections` | the six sections' declarations to the factory | `ListSection` |
| `SectionRun` | one section applied over and over against GitHub; the state machine around the modules below | instances of all nine |
| `SectionData` | the few operators those modules share | |
| `Environments` | environments, their policies, rules, nested secrets and variables; the repository-level families | `SectionData`, `NamedScope`, `Pins` |
| `NamedScope` | the secrets and variables engines over one scope | `SectionData` |
| `Pins` | the pin planner: unpins, pins, reorders by splicing | |
| `Patterns` | secret scanning patterns under versions | `SectionData` |
| `Branches` | branch protection over REST and GraphQL, wildcard rules | `SectionData` |
| `Repository` | the repository PATCH, topics, toggles, routed keys | `SectionData` |
| `ActionsSettings` | the actions section's endpoints | `SectionData` |
| `Access` | collaborators, invitations, teams | `SectionData` |
| `InteractionLimits` | the base limit, the cap, the bypass list | `SectionData` |
| `SmallSections` | custom properties, pages, the two setups, workflows, check suites | `SectionData` |
| `Rulesets` | one declared ruleset: normalisation, concealment, comparison, refusal, snapshot | `SectionData`, `Deltas` |
| `Deltas` | `deltas` and `omittedDeltas` over values of any depth, and a reference definition | |
| `DocumentRun` | modes render and snapshot, from the layers or GitHub to the file | `LayerFold`, `SettingsFiles`, `SnapshotRead` |
| `LayerFold` | the fold of layers, removals, policies, canonical order | |
| `SettingsFiles` | paths, links, case-folding, collisions, the rename | |
| `SnapshotRead` | what an answer means while a section is read back | |
| `ReleasePipeline` | main growing under packaging, publishing and anchoring jobs | the four below |
| `ReleaseMain`, `ReleaseTags`, `ReleaseNpm`, `ReleaseAnchor` | main; build and version tags and pointers; the npm channels and their lane; the release PR's boundary | `ReleaseMain` |
| `IssueReport` | the private report issue and the marker injection | |
| `FleetRun` | `runMulti`: targets, visibility, mask, channels, delivery, conclusion | |
| `MC_*` | the constants of the runs | the module they name |

`FleetRun` sees a repository run as its result word and its lines; `RepoRun` is
what happens inside. `RepoRun` leaves a section's items and the order of its
requests open; `ListSection` and `SectionRun` are what happens inside a section.
`FleetRun` sees the delivery of a report as its outcome; `IssueReport` is what
happens inside. `ListSection` takes an item's content as one value; `Rulesets` is
what happens inside the deepest of them.

### RepoRun

`pc` is where `runForRepo` is: `preflight` (`preflightProbe`), `resolve`
(`resolveTools`), `loop` (the section loop), `exec` (`executePlan`), `done`. `cur`
is the section reached. `todo`, `op`, `tries`, `landed`, `changes`, `notes` are
`executePlan`'s locals and the client's retry count; `rows` and `result` are what
the run returns. `live` and `grant` are GitHub's. The remaining variables are
history: no action's guard reads them.

A section's declared content is a set of items, and a plan is the items that are
not as declared, one operation each. An operation has the kind that decides how
GitHub answers a second copy of it: a create meets 422, a remove meets 404 (which
the client's caller reads as a denial), a put is repeatable, a sealed secret is
re-sent on every run, and some drift no operation can mend.

Every `await` is a place where the others may act: between two probes, between
the preflight and the loop, between a plan and each of its requests, between a
request and its retry. `AnswerLost` is the answer that never came or was a 5xx,
with or without the write having been made. `OpUnverified` is the request that
landed and whose echo disagreed. `StartRun` begins another run over whatever
GitHub then holds, so the runs check sequences of runs.

### ListSection and ListSections

A declaration of the factory is a record of the facts the engine branches on:
how GitHub edits an item (`patch`; `replace`, a PUT of the whole object;
`mapping`, two requests of which one writes the nested mapping alone;
`recreate`), how names fold, which names cannot coexist, whether requests address
an item by name, whether an entry may rename, which live values a settings file
cannot declare. `ListSections` gives the six sections' declarations, each mapped
to its own `index.ts`. `PlanSection` is `planList`, one operator per function of
`plan.ts`; the other actions are the executor's over the ordered plan. GitHub's
side (`Accepts`, `After`) refuses what GitHub refuses and fills in its defaults.
`Valid` is `validateList`: only documents it admits are run.

### SectionRun and the sections

A section that the factory does not make has a plan function of its own. Each is
a module of operators over a document `d` and what GitHub holds, `l`, with the
same interface:

| Operator | Code |
|---|---|
| `..Plan(d, l)` | `plan()`: the operations in their order, each with its role, its payload and whether it shows drift; or that planning fails |
| `..Refuses`, `..Notes` | hooks and payload thunks that run just before a request: what they refuse, what they read or remember |
| `..Accepts`, `..After` | GitHub: which request it takes and what it then holds; external |
| `Confirms` | the section's check of the answer |
| `..Snapshot` | `snapshot()` |
| `..Edits` | what people may do in between; external |
| `..Meet`, `..Spare` | what the section promises, said without the plan |

`SectionRun` is what happens around them: `PlanSection` reads GitHub and plans
once, `Lands` sends the next operation, `HookRefuses`, `Rejected` and `Unconfirmed`
end the section in the executor's way, `RunDies` is a death before or after any
request took effect, `OthersEdit` is an edit between any two steps, `Settles` is a
rollout that GitHub finishes later. The next run starts over from what GitHub then
holds. `cause` says what ended a run that failed: its plan, a hook, GitHub
(`github`: an operation that should have been acceptable; `outside`: a reason no
plan can help), the answer, a fault.

`Meet` and `Spare` are the reference definitions. They are written from what the
section documents and never call the plan, so `AppliedMeansReconciled` compares two
independent definitions. For a ruleset `Meet` is `Agrees` of `Deltas`: two lists
agree when some one-to-one pairing of their items does, whatever pairing rule the
walk used.

`Deltas` is `engine/diff.ts` over tagged values (null, scalar, list, mapping), so
that nested lists, the three pairings (by key, by shape, by value), `""` against
an absent key and the omitted-key sweep are all there. `Rulesets` adds the forms
GitHub stores: refs in full, a bypass mode for every actor, one id for every
organization admin, and `bypass_actors` concealed from a token that may not write.
Parameters of a rule are a passthrough: the sweep does not look into them, so the
PUT may reset one the file does not name, which is what the code documents.

Some drift is documented to stay whatever a run does, and `Lasting` names it: a
limit set above the repository, a property that falls back on its organization's
default, a site's visibility on a host that does not offer it, and a key GitHub never
answers with. Such a key passes through the schemas of `repository`, `actions`, the
setups and `pages`; it differs on every run, so every apply sends the body again and
a note says so. The documents of these four hold one (`ghost`). It excuses the write
only once every key the answer does show is as declared (`AllSeenAgrees`). Everything
else has to converge.

### DocumentRun

Three modules of pure operators and one state machine. `LayerFold` is the fold of
one file's layers: `UnionKeyed` pairs entries by identity, `MergeStep` folds a
layer, `ResolvePolicies` settles the undeclared policies, `CanonicalDocument` puts
lists in order. `SettingsFiles` is the file system: a name leads through links and
folded case to a node, and the collisions the flows refuse are operators over that.
`SnapshotRead` says what an answer means: retried, a denial, absent, the end of a
walk.

`phase` follows a run: `merging` (one layer a step), or `locating` and `reading`
(one request a step, so that people may edit a list between its pages), then
`open`, `writing`, `renaming`, the three steps of the staged write, at each of
which the process may be killed or fail. `Rerun` starts again over the file system
that is left.

### ReleasePipeline

A commit of main is its position on the first-parent line, so ancestry is the
order of positions. `ReleaseTags` is `tags.ts`: `ensureTag`, `movePointer`,
`pruneBuildTags`, `packageCommit`, `packageRelease`, `retagMajor`, one step per
request to origin. `ReleaseNpm` is `npm.ts`: publishers take the lane, read the
record, judge, publish and, on `next`, confirm. `ReleaseAnchor` is `anchor.ts` and
the boundary check. Deaths, lost push answers and reruns come from a budget.

### IssueReport

The state is GitHub's: `issues`, oldest first, and `labels`, the two labels that
matter. `run[r]` is one run's progress through `deliver` (`pc` is the request it
is about to send) and what it has read: the issue it found, the labels it will
write back. A request is one step, so two runs and people interleave between any
two of them. `Start` applies the run's labels section, with the marker injected
by `InjectMarker`, in one step, since what may happen inside a section is
ListSection's subject. A list walk is one step as well: it goes from the newest
issue to the oldest, and issues are only ever added at the newest end.
`RequestFails` is a request that was denied or never sent, or a run that was
cancelled: a delivery then warns and sends nothing more. `AnswerLost` is a write
that was made and is sent again. `People` close, reopen, label and strip the
marker. `crossed` and `known` are history, and so is `by`, which names the run
whose report a body is.

### FleetRun

`pc` follows `runMulti`: `defaults`, `list` (`remoteFleet`), `resolve`
(`resolveVisibilities`, one probe a step), then, once `MaskFleet` has registered
the hidden slugs, `announce` (warnings, skip notices, duplicates), and per target
`work`, `report`, `row`; then `flush` and `conclude`. `vis` is what the run
believes, `actual` what is so, and the two may differ: a probe may fail and a
visibility may change. `Ordered` is `orderedSlugs`, the loop walks its `Places`.

What the public sees is history: `named`, the slugs a public line has named,
`starred`, the slugs a line would have named had the mask registry not removed
them. A public channel speaks with the slug, a sealed one keeps its lines. A
trace names its repository unless it is masked or held back by a probe.
`account` is what became of each target's report.

## Runs

| Run | Question | Instance |
|---|---|---|
| `RepoRun` | does what a run says agree with what it did, do gates come before writes, does it implement `RunContract`, do apply runs end applied | 2 sections, 5 items of every kind, 8 option records, 1 outside edit, 2 faults, 1 retry |
| `RepoRun_skip` (violated) | is a skipped section untouched | warn policy, 1 fault |
| `ListSection` | is an applied list reconciled and idempotent, is the plan's order feasible, are undeclared items spared, is no list left that the re-run refuses, do scheduled runs reconcile it | 6 declarations, 8 documents of 1 or 2 entries, up to 2 live items of 3 names, 3 values, 2 flags, 1 edit, 2 faults |
| `ListSection_rotate` (violated) | does an undeclared flag survive a rotation that dies half-way | deploy keys, 1 document, 1 fault |
| `SectionRun` | the same of every other section, and: is a snapshot a clean check, does a stale write ever land, do runs converge until a check finds nothing | 15 kinds of section, 810 pairs of a document and what GitHub first holds, 1 edit and 1 fault each |
| `DocumentRun` | does a document tell the truth, do files stay whole, is the same content the same bytes, is a rendered document accepted, does the highest declaration win | some 6,900 cases, below |
| `ReleasePipeline` | can a green job's build be reached, do refs and channels only advance, is the boundary sound | 14 pipelines of up to 3 jobs of a kind, below |
| `ReleasePipeline_latest` (violated) | does no release displace a newer one from npm's `latest` | 2 releases' publishers, nothing fails |
| `IssueReport` | is one issue reused, does a delivery leave what it says it left, is other people's work kept, does the marker survive | 2 runs that may overlap, either mode, 4 labels sections, an issue of people's under the report's title, 1 edit, 1 fault |
| `IssueReport_live` | do healthy runs close every marked report, do failing ones show one | 2 runs, either mode, 1 edit, 1 fault |
| `IssueReport_labels` (violated) | is a label people gave the issue kept | 1 run, 2 edits |
| `FleetRun` | is nothing private named, do masks come first, do reports go only where proven, does every target conclude, is every report accounted for | 4 fleets of up to 3 targets over 4 repositories, 5 policies and channels, 1 change of visibility, 2 faults |

### Why the bounds are enough

RepoRun. Two sections are the fewest in which one can fail before, after and
instead of the other and in which a later section's secret can hold back an
earlier section; the run keeps nothing of a section but a row, so a third adds no
new relation. The five items have one of every kind, and one that tolerates. Two
faults allow a write whose answer is lost and whose retry ends the other way. One
retry stands for `MAX_RETRIES` (2): the second sees nothing the first does not.

ListSection. Two live items of three names allow a rename, a swap, a duplicate
under folding and a prefix clash; `FreshId` reuses the smallest free id so the
state space stays finite. Two faults allow a run to die in the middle of what the
death of an earlier one left.

SectionRun. The documents and live states of `MC_SectionRun` are chosen per
section so that every operation it can plan is planned, alone and beside the
others, and so that one edit and one death can fall between any two of them.
Three pins (`MaxPinned`, GitHub's cap is larger) are the fewest with which unpin,
pin and reorder can overflow, and every order of three against every declaration
of three is checked. `BypassMax` is 2 for 100: full, one short, and over. The
rulesets have rules that pair by type, actors, parameters that are lists paired by
shape and lists paired by value, a repeated type, and an unknown one.

DocumentRun. 2,000 stacks of three layers of labels (renames, removals, `deep` and
`shallow` entries), all 3,400 stacks of two layers over pairs of entries, 375
stacks of environments (pins, nested lists), 64 of mappings, 648 of policies; some
320 repositories to read back, of one or two pages, under one edit and every kind
of fault; 52 file systems with links, folded case and another writer's staging
file, 9 single-file and 24 render destinations, each with a kill and a rerun.
Three layers are the fewest in which a key is declared, removed and declared
again; two pages the fewest between which a list can move.

ReleasePipeline. Main grows to 4 commits (`MaxMain`), one build tag is kept
(`Kept`, 10 in the code) so that pruning meets a tag somebody is about to point at;
a push is tried 3 times as in the code, a record is read 2 times before a publisher
leaves the lane (15 in the code) and the anchor is tried 2 times (3). One fault per
case is a death or a lost answer at any request. The cases: three green pushes;
`latest` absent, on a retired chain, on a bare child, on an older package; a
release cut once, twice, beside the next pushes, and two releases of one major;
three publishers of `next` and three of both channels; three anchors against three
refreshes of the release branch; one release from its merge to npm.

IssueReport. Two runs are enough for every race of a scan with a create, a patch
or a close; a third issue beside the people's and the first report's exists only
through a lost answer or an overlap, and the page of three issues makes the walk
stop both before and after it.

FleetRun. A fault and a change of visibility can hit the same target or different
ones, and two faults make a failed probe meet a crash, a failed delivery or a
failed upload.

### What the violated runs show

`RepoRun_skip`. A comment in `engine/orchestrate.ts` says that a denial after some
operations landed is never a skip, because "the warn policy applies only when
nothing was written". The code counts answers, not writes. A DELETE that took
effect and whose answer was lost is sent again, gets a 404, and reads as a denial
with nothing landed: the section is reported skipped. `RowsTellTheTruth` is what
does hold, and it is proved: a skip never covers a write GitHub confirmed.

`ListSection_rotate`. The documentation of deploy keys says that an undeclared
`read_only` survives the recreate, "so a rotation never widens access". The live
value lives only in the run that read it. When the create does not land after the
delete did, the next run finds nothing to copy it from and creates the key with
GitHub's default, read/write. `UndeclaredFlagKeptUnbroken` is what holds.

`IssueReport_labels`. The comment on `reportCandidatesIn` says that the label names
ride along so that the marker can be reattached "without clobbering human-added
labels". They are the names the scan read; the PATCH writes the whole list. A
label added in between is removed. `PeoplesWorkIsKept` is what holds: nothing else
ever takes a label from the report issue.

`ReleasePipeline_latest`. `update-release.yml` promises of the publishers' lane that
"a verdict still holds when its publish lands", so that no release displaces a newer
one from `latest`. Only the publishers of `next` wait until the registry shows what
they published. A stable publisher leaves the lane at once, and the next one may
judge by a record that does not have the newer release yet. `ChannelsOnlyAdvance` is
what holds: a dist-tag falls back to an older version only if that version's publisher
took its verdict while the registry had the very version it displaces and did not show
it yet (`BlindTo`), and `next` only if, on top of that, a publisher of the displaced
version had said that it left the lane early (`LeftEarly`). `latest` has no such second
condition, and this run is the reason.

One divergence is a wording and has no run: `docs/operate/layering.md` says that
`reviewers` is not kept as written, while `LISTS_AS_WRITTEN` of `engine/canonical.ts`
keeps the order of `environments[].reviewers`.

### Fairness

`FairSpec` of RepoRun and ListSection assumes weak fairness of the program's own
steps and of starting the next run: every await of the client ends (octokit's
retries and the 60-second bound on rate-limit waits end it), no operation waits for
another process, and the workflow is on a schedule. Nothing is assumed of outsiders
or of faults, which are bounded instead: edits and faults stop after their budget,
which is the usual reading of "once things settle". `Reconverges` of RepoRun speaks
of behaviours in which, from some point on, every grant is there, the runs apply and
no secret is missing: the code can do nothing about the others.

`FairSpec` of SectionRun is the same, with weak fairness of `Settles`: GitHub ends
a rollout it has started. `Reconverges` there says that, again and again, a run ends
applied with GitHub as declared and a check that would find nothing, or else that
the runs keep failing for a reason the code names: GitHub cannot be as the document
says (`~Meets`), a write would remove what the document omits, or GitHub takes no
write from this token or for this repository.

`IssueReport`'s `FairSpec` is the same assumption per run, for its requests and for
the start of the next one. `HealthCloses` speaks only of reports that carry the
marker: under `issue-on-failure` a healthy run looks only there, and the
documentation says so of an issue whose label was stripped.

DocumentRun, ReleasePipeline and FleetRun state safety only. Their runs end, so
CHECK_DEADLOCK is FALSE there; where a run can always be started again it is on.

## Proofs

TLC checks one instance; the theorems hold for every value of the constants, as far
as the named assumptions admit it. Those give the constants their types, and, where
a model starts from an arbitrary state, say what that state is. Every inductive
invariant was checked by TLC before it was proved.

| Module | Theorem | States |
|---|---|---|
| `RepoRunProofs` | `TypeCorrect`, `Invariant` | `TypeOK`, the inductive invariant |
| | `SecretsAreMaskedFirst`, `RowsAreTrue` | `SecretsMaskedFirst`, `RowsTellTheTruth` |
| | `WritesAreDisciplined` | `WriteDiscipline` |
| | `BarrierHolds`, `VerdictIsCovered`, `GreenIsReconciled` | `PreflightBarrier`, `VerdictCoversRows`, `GreenMeansReconciled` |
| | `Implements` | `ImplementsContract`: every step of RepoRun is a step or a stutter of RunContract |
| `ListSectionProofs` | `TypeCorrect`, `Invariant` | `TypeOK`, the inductive invariant |
| | `AppliedIsReconciled`, `PlansAreFeasible`, `FlagIsKept` | `AppliedMeansReconciled`, `PlanIsFeasible`, `UndeclaredFlagKeptUnbroken` |
| | `NothingWedges`, `UndeclaredIsSpared` | `NeverWedges`, `SparesUndeclared` |
| `DocumentRunProofs` | `Invariant` | the inductive invariant of a snapshot's reading |
| | `DocumentIsTrue` | `DocumentTellsTheTruth` |
| | `FilesInvariant`, `FilesAreWhole` | the inductive invariant of the files, `FilesStayWhole` |
| | `FoldInvariant`, `RenderedDocumentIsAccepted` | the inductive invariant of the fold, `RenderedIsAccepted` |
| | `WinInvariant`, `HighestDeclarationHolds` | the inductive invariant of what the fold says, `HighestDeclarationWins` |
| | `SameInvariant`, `SameContentIsSameBytes` | the inductive invariant of a fold beside its twin, `SameContentSameBytes` |
| `FleetRunProofs` | `TypeCorrect`, `Invariant` | `TypeOK`, the inductive invariant |
| | `SecretsAreKept`, `MasksAreFirst` | `SecretsStaySecret`, `MasksComeFirst` |
| | `ReportsAreProven`, `NoReportIsLost`, `TargetsConclude` | `ReportsOnlyWhereProven`, `ReportsAreSettled`, `EveryTargetConcludes` |
| `IssueReportProofs` | `TypeCorrect`, `Invariant` | `TypeOK`, the inductive invariant |
| | `DeliveriesMirrorTheRun`, `PeoplesWorkIsSafe` | `DeliveredMirrorsRun`, `PeoplesWorkIsKept` |
| | `DuplicatesAreNew`, `MarkerSurvives` | `NoNeedlessDuplicate`, `MarkerSurvivesApply` |
| `ReleaseProofs` | `AnchorInvariant`, `BoundaryStaysSound` | the anchor's invariant, `BoundaryIsSound` |
| | `NpmInvariant`, `DistTagsFallBackOnlyBlind` | the channels' invariant, `ChannelsOnlyAdvance` |
| `ReleaseTagsProofs` | `TagInvariant`, `DoneIsReachable`, `NothingIsTakenBack` | the tags' invariant, `DoneMeansReachable`, `RefsOnlyAdvance` |

`Numbers` has the lemmas on sets of numbers they share (a smallest one, a largest
one, induction over a set, the size of a part).

### RepoRun: any sections, items, kinds, options and bounds

A row is written once, when its section ends, from `landed`, `changes` and `notes`.
What must be true of it is a statement about GitHub (`wrote`), so the invariant says
what those three locals mean at every moment of the execution (`Counted`): if
nothing landed, everything written so far is a write whose answer was lost; a landed
request has its change line; and a lost write is the operation in flight or one a
tolerated answer ended, which left a note. The statement about `lost` is what makes
it inductive: a write happens before its answer, so between the two the counters are
behind. `RowsBehind` and `EffectsBehind` say that rows and writes belong to sections
already walked, so that ending one section cannot falsify the row of another.
`GatesQuiet` and `SecretsReady` carry the gates, `Working` ties operations to the
plan they came from.

Three properties need one more part each. `BarrierSaw`: of the sections probed so
far each denied one is on the list, or the token changed since, and past the barrier
there is none. `RowsSoFar`: each section walked has the row its declaration asks for,
in the words of the run's mode; the verdict reads words, and a word of the other mode
would slip through it. `WorkRemains`: what the plan set out to mend is mended, in
flight or still to do; without it nothing connects a green row to the difference
planned before the first request.

### ListSection: any documents, names, items, and any of the six sections

The assumptions are `ListSections`' own: a declaration is one of the six
(`SectionsAssumption`), names have their types (`NamesAssumption`). The properties
need more of a declaration than that it is one of `DeclSpace`, and the lemma `Declared`
states what: only a section edited by PATCH folds or renames, and where two items may
share a name no request addresses an item by it.

The invariant says of the operations left what the plan once said of all of them.

* `PlanInv`, whatever happens: GitHub's uniqueness rules hold (`Consistent`), each
  operation serves an entry and addresses an item of it (`Sound`), and the
  operations are not in each other's way (`Arranged`: undeclared items are removed
  first, the halves of a recreate stand together, no two operations address or
  create one item). `UndeclaredIsSpared` rests on this part.
* `RunInv`, while nobody interfered: the list is one the planner accepts (`Orderly`);
  the items the operations address have kept their owner (`Held`), are still there
  (`Present`), and are in the way of no create but one that comes after them, or of
  one whose answer was lost, because it was made (`Room`); and whatever is not as
  declared has an operation left (`Swept`, `Served`). The last two are what an empty
  plan turns into `AppliedMeansReconciled`; `Room` is why a retried create that meets
  its own first copy is a conflict and not a second item; `Orderly` is `NeverWedges`.
* `FlagInv`: the field an entry leaves undeclared still has the value the first plan
  found, on the item or in the body of the create that follows its removal
  (`Preserved`, `SentAgain`, `StillThere`). Only a fault between the halves of a
  recreate breaks it, which is what `ListSection_rotate` shows.

That planning again finds nothing is a statement about `Plan`, a concatenation of
groups of operations. `FlattenedJoins` says what concatenating is, once: the k-th
operation of the plan is one of one group, in their order, and none is missing.
`Listed` says that the removals are each undeclared item once.

### FleetRun: any repositories, admitted configurations and bounds

`FleetConstants` says what the parsers admit: no duplicates in either list, no report
channel under `show`, only discovery filters and rejects.

What a public line may show depends on what the run believes, the secret on what is
so. `BeliefsTrue` ties the two: a visibility the run holds is the true one, or
`unknown`, or the repository has changed since. `MaskDone` says that from the mask on
every target is resolved and every hidden slug registered, so that a target the run
does not hide is one it was told is public. Together they give `SecretsAreMasked`,
the lemma each line rests on. `FatalIsOver` keeps the one exception apart: the
warnings about the repos-dir directory, spoken by a run that ends before it has
resolved anything. `ReportsProven` and `ReportsAccounted` follow a report from the
decision to deliver it, through the queue, to the flush. `RowsFollowTargets` is the
induction over the order of the rows: the targets with a row are exactly those before
the one at work, each shown as it will be to the end.

### DocumentRun: any sections, lists, pages, layers, files, faults and edits

`SectionsAssumption` gives a section a kind and a page a size; `CasesAssumption` says
that GitHub starts with lists of different items and that `Unset` is no value a
document holds, and what the files, targets and layers of a run are (below);
`ReadAssumption` that the retries are a number.

`ReadSoFar` is the induction over the sections walked: each selected one has exactly
one row, the row is true, and it stays true while people touch more sections and more
faults happen (`TellsKept`). `UnderRead` is what makes the row true when the section
ends. `PagesSoFar`: unless people changed the list, the pages read are its beginning,
so the walk ends with the whole of it (`PagesJoin`). `Attempts`: an attempt used up is
a fault that happened, so a section that ran out of attempts met more faults than
`MaxRetries` (`FaultExcuses`). `SecondRead`: the read behind a grant of its own
follows one that was granted. `EditHolds` says that people leave a list of different
items behind.

The files have an invariant of their own, `FileInv`. `FilesFound` says what a run
starts from: a directory holds one entry under a name however it is spelled
(`UniqueNames`), nothing is half written, and the authored documents are there to be
read, in mode snapshot under their canonical names, which is how the code collects
them. `TargetsResolved` says that a slug is resolved once. Everything else follows from
the checks: `Harmless` holds of a destination once the run has admitted it, and until
its rename, because two paths that meet at one entry on the way to a file are read as
one file (`SameReferent`), which is what the guards compare. A rename onto a harmless
destination leaves every read that does not follow the replaced entry as it was
(`RenameSpares`), hop by hop through the links. `Progress` ties the results to the
target the run is at, so that a file signed by a target is one the run calls written.

The fold has an invariant of its own too, `RenderInv`. `LayersWritten` says what a layer
is: lists of entries, nested ones included, whose names are positive numbers, each under
one of the three layerings.
`FoldedSoFar` says that every list built so far is sound (`ListSound`): the keys of its
entries and of their nested lists are told apart, and no removal is left. One layer
keeps that: `Placing` orders what a union is made of; `UnionKeyedOnce` is the argument
about keys, that an entry written over a lower one brings a key no other entry has,
because only a one-to-one pair merges and `Admitted` refuses a key twice in the layer;
a lower entry no higher one claims stays as it is (`Stays`), and an entry two others
claim is never merged into either (`Pairs`, `Joins`). `PlacedSound` and `NothingLeft`
are the argument about removals: what `StepRefused` lets past removes something. The
policies are a running maximum (`Highest`). Resolving the policies and putting the
document in order change neither (`ListResolved`, `ListOrdered`): the order of a sorted
list is a permutation of its places (`OrderedHolds`).

What the fold says is `WinInv`. `HighestDeclarationWins` speaks of all the layers;
`ListWins` and `MappingWins` say the same of the first `n`, and each layer takes them
one further. In a list no layer renames, the keys of an entry are its name, so a pair
that meets is one-to-one (`PlainPaired`), and a union holds the lower entries nobody
names, the merges of a name and the new names, all of them and nothing else
(`PlainUnion`, `ListMergedTold`). `DeclaredNext` is the same recurrence on the side of
the declarations: a layer adds itself to those that declare a name, or starts them over
when it removes the name, writes it whole or replaces the list. A field is then again a
running maximum (`HighestIn`), over the layers that still count.

`SameContentSameBytes` compares two folds: the run's, and that of its twin, whose layers
have every keyed list turned over and every list nested in an entry with it. `SameInv`
walks the twin's fold (`Folds(Turned)`, a recursive function, defined for every number
of layers by `FoldsDefined`) beside the run's. Two lists are `Matched` when each entry of
the one has one in the other that agrees on everything but the order of its nested list.
A union keeps that (`UnionMatched`): which entries pair, which stay and which are
removed is told by keys, not by places. Order matters in one list, that of the
environments: there the entries some layer pins stand `InLine`, in both folds in one
order, because no layer renames an environment, so that a union keeps the lower list's
order and puts the new names behind it in the higher one's (`UnionInLine`). At the end
two lists of one set, sorted by one weight with their ties in line, are one list
(`SortedSame`, `RankedSame`), so the twin is written as the run was
(`KeptIsWrittenOnce`). Of the layers this needs more of `LayersWritten` than the other
theorems do: that an environment has no `renames`, and that `Unset` is not a nested list.

### IssueReport: any labels, deliveries and bounds

`Standing` says what a run knows of the issue it is about to write: a patch that does
not relabel goes to an issue that has the marker, and a close to a report the run
itself wrote last, as long as nobody else has written to that issue (`crossed`); and
when a run creates an issue, every report there is was opened after its scan.
`MarkedByLabel` (an issue carries the marker only while the repository has the label)
is needed because deleting a label takes it off every issue.

### The release pipeline: any history, jobs and bounds

`CasesAssumption` says what a case starts from: refs name commits that exist, main's
boundaries are sound, a job that is over has left its refs in place. That is the state
a repository is in whose pipeline ran before, and the parts of the invariants it gives
are the ones every step keeps.

`AnchorInv`: a head of the release branch that is about to be pushed is built on the
anchor's own commit or a later one, and main's tip was the anchor's commit *after* the
branch was read (`SoundAnchor`); the order of those two reads is the whole argument.

`NpmInv`: the registry takes publishes in an order and shows them later, so the record
a publisher reads may lack what others published. A version that will displace a newer
one was published, or is about to be, by a verdict that did not see that very one
(`BlindOnly`, `BlindInLane`); the lane's one publisher can place everything published
before it (`Placeable`); and a pre-release on its way is the one the publisher in the
lane waits for, or one whose publisher said that it left early (`Confirming`). The last
part is what the second condition on `next` rests on; nothing like it holds of a stable
release. So the theorem says when a channel falls back, not that it never does.

`TagInv`: a pointer has not fallen behind what a job read of it, and what a job is
about to displace is older than its own commit (`Judged`); the leases on refs turn the
first into the second. `LeftBehind` says which of its refs a job has in place at each
`pc`. `made`, the build tags ever pushed, is what a count of surviving tags is measured
against, so that a job whose listing is out of date still deletes only tags `Kept`
newer ones have outlived (`BeyondKept`).

### Only model-checked

* Liveness: `HealthCloses`, `FailureShows`, `Reconverges`, and whatever rests on
  fairness; TLAPS proves neither liveness under fairness nor ENABLED.
* SectionRun and what it instantiates. Its rulesets compare values of any depth with
  `Deltas`, which is recursive: a module that reaches it has no SMT backend, and what
  a recursive definition computes is an induction over data.

## What the models assume

Of GitHub, modelled from how the code uses it and marked external in the map:

* A list keeps the order it was sent in; a PUT replaces the object it names, and
  what the docs in the code call a default is filled in again. What the GraphQL and
  REST protection writes keep of fields nobody sent is left open (`Replaced` is any
  of the outcomes), and the section has to cope with each.
* Paging by offset may skip an item when an earlier one is deleted. A section that
  people changed while it was read is therefore exempt from `DocumentTellsTheTruth`.
* The keys a PUT of the actions permissions omits are kept.
* A write that was answered has been made; the registry shows publishes in the
  order it took them; a tag or a draft is identified by its name alone.

Of the program's surroundings:

* The throttling and the retry plugin count their attempts apart, and a transport
  failure (status 0) is retried like a server error (`test/github/list.test.ts:128`).
* A rename onto a folded name gives the entry the new spelling.
* Builds are reproducible apart from the flag that says whether the build is there;
  a refused push of a pointer and the re-read that follows are one step; a
  publisher checks out after it has the lane; a release's assets are part of its
  job's end.

## Not modelled, and why

* Parsing, schemas and the wording of issues (`engine/validate.ts`, `schema-*`,
  `generated/`): pure functions over unbounded data whose wording is most of what
  they do. The models take documents as admitted, and state the checks their plans
  rely on (`Valid`, `Admitted`).
* The faces (`cli/`, `action/`, inputs, summary), Markdown, YAML layout and comments,
  and the documentation and code generators.
* GraphQL connections and their cursors, GraphQL denials, and the spacing of requests
  in `github/scheduler.ts`.
* Keys GitHub never answers with below the top level of a section: in an
  environment's settings, a branch's protection, an entry of a list, a variable, and
  the mappings of `actions` other than its OIDC template.
* In Branches: a protection of null, or of signatures alone, over a branch only a
  wildcard rule covers.
* In ActionsSettings: the GET of an actions section that is disabled and omits
  `allowed_actions`. In Access: custom roles that carry the name of a built-in one.
* In Deltas: the pairing by `type` of a list nobody gave a key, and the rendering of
  a delta. In Rulesets and ListSections: inherited rulesets and service hooks, which
  the sections set aside before they plan, and a file that declares one bypass actor
  twice.
* In ListSection: the re-sending of secrets (RepoRun has it as an operation kind);
  reading the list is one step (DocumentRun has the pages).
* In LayerFold: identities made of several keys are one identity; an entry that only
  a higher layer pins takes its rank from the lower layer's order, so entries some
  layer pins keep their order in the reordering of `SameContentSameBytes`, and so do
  the lists `engine/canonical.ts` leaves as written.
* In IssueReport: what a labels section does when it fails half-way, and a list
  walk that is cut short by an error (it is a `RequestFails`).
* In FleetRun: the spelling of slugs (compared folded in the code), the text of a
  notice, the encryption of an artifact, and a repository that discovery lists
  twice.
* In ReleasePipeline: the draft's text, the packaging of files, provenance.
* In RepoRun: the BUG branches, which a typed planner cannot reach.

## Plan

Modelled and checked: everything in the table of modules. What is left, in the
order of what matters most:

1. Pins: lemmas on what a splice keeps.
2. To model: the single-repository flow, which shares the fleet's channels; GraphQL
   connections; the scheduler.
