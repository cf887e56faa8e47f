----------------------------- MODULE DocumentRun -----------------------------
(* The runs that write settings documents: mode render folds the layers of one
   file (src/flows/render.ts, src/flows/layers.ts), mode snapshot reads the
   repositories of a run back into one file each (src/flows/snapshot.ts,
   src/engine/snapshot.ts).  Both write through one staged rename
   (src/flows/settings-write.ts), and both meet people: GitHub answers with
   faults, a list changes while it is read, a run is killed at any step.       *)
EXTENDS LayerFold, SettingsFiles, SnapshotRead, TLC

CONSTANTS
  Cases,        \* the inputs of a run, with its budget of faults, edits and crashes
  Sections,     \* the sections a snapshot reads, in their order
  Kind,         \* of each: "list", "probe", "shared" (a second read behind a
                \* grant of its own, SubGrant) or "writeonly"
  SubGrant,
  PageSize,     \* items on a page of a list
  Fields,       \* the fields of an entry of a list
  Values,       \* what a field of an entry of a nested list may be set to
  Mappings      \* the mappings a layer may set its other section to

(* A section whose reads have a value GitHub holds: a list of names, each once, or
   whether the thing is there.                                               *)
Held == {s \in DOMAIN Kind : Kind[s] \in {"list", "probe"}}
Holds(names, held) ==
  /\ held = [s \in Held |-> held[s]]
  /\ \A s \in Held : IF Kind[s] = "list" THEN held[s] \in Seq(names) /\ IsInjective(held[s])
                    ELSE held[s] \in BOOLEAN

(* The files a run starts from: no two entries of a directory go by one name, no
   document is half written, and none is signed by this run.  The authored ones
   are there to be read, and mode snapshot knows each of them by its own name.
   Each target is resolved once, and only it signs what is written for it.
   src/flows/snapshot.ts:303-307, src/discovery/targets.ts:51-79,
   src/discovery/repos-input.ts:31-58.                                        *)
Destinations(c) == IF c.mode = "render" THEN {c.path} ELSE {t.path : t \in ToSet(c.targets)}
FilesFound(c) ==
  /\ UniqueNames(c.fs, c.disk)
  /\ Nowhere \notin DOMAIN c.disk \cup {RenameTarget(c.fs, p) : p \in Destinations(c)}
  /\ \A n \in DOMAIN c.disk :
       c.disk[n].run = 0 /\ (c.disk[n].link # Nowhere \/ c.disk[n].whole)
  /\ \A a \in c.authored :
       Readable(c.fs, c.disk, a) /\ (c.mode = "dir" => ReadEntries(c.fs, c.disk, a) = {a})
TargetsResolved(c) ==
  /\ c.targets \in Seq(ToSet(c.targets)) /\ (c.mode = "file" => Len(c.targets) = 1)
  /\ \A i, j \in DOMAIN c.targets : c.targets[i].slug = c.targets[j].slug => i = j
  /\ \A t \in ToSet(c.targets) : t.slug # "other"

(* The layers of a run, as written: lists of entries, each with its key, its fields
   and the removal marker, and the policies and mappings beside them.  A nested list
   holds entries too.  Of the keyed lists labels alone rename, environments do not.
   src/engine/layers.ts:1-60, src/sections/contract/keyed-list.ts:17-41,
   src/sections/labels/index.ts:64-67.                                        *)
EntryWritten(names, entry) ==
  /\ entry \in [name : names, renames : names \cup {Unset}, fields : {entry.fields},
                nested : {entry.nested}, remove : BOOLEAN]
  /\ DOMAIN entry.fields = Fields
EntriesWritten(names, entries) ==
  entries \in Seq(ToSet(entries)) /\ \A e \in ToSet(entries) : EntryWritten(names, e)
Layerings == {"replace", "shallow", "deep"}
Policies == {"keep", "delete"}
NestedEntries(names) ==
  [name : names, renames : names \cup {Unset}, fields : [Fields -> Values \cup {Unset}],
   nested : {Unset}, remove : BOOLEAN]
NestedLists(names) == [policy : Policies \cup {Unset}, entries : Seq(NestedEntries(names))]
LayersWritten(c) ==
  /\ c.layers \in Seq(ToSet(c.layers)) /\ c.layering \in Layerings
  /\ c.names \subseteq Nat \ {0} /\ Unset \notin c.names \cup NestedLists(c.names)
  /\ c.undeclared \in Policies \cup {Unset}
  /\ \A layer \in ToSet(c.layers) :
       /\ layer \in [layering : Layerings \cup {Unset}, undeclared : Policies \cup {Unset},
                    lists : {layer.lists}, mapping : Mappings \cup {Unset, Null}]
       /\ \A s \in DOMAIN layer.lists :
            /\ layer.lists[s] \in [layering : Layerings \cup {Unset}, policy : Policies \cup {Unset},
                                   entries : {layer.lists[s].entries}]
            /\ EntriesWritten(c.names, layer.lists[s].entries)
            /\ \A e \in ToSet(layer.lists[s].entries) :
                 /\ e.nested \in NestedLists(c.names) \cup {Unset}
                 /\ s = Ranked => e.renames = Unset

ASSUME SectionsAssumption ==
  /\ Sections \in Seq(DOMAIN Kind) /\ IsInjective(Sections)
  /\ \A s \in DOMAIN Kind : Kind[s] \in {"list", "probe", "shared", "writeonly"}
  /\ PageSize \in Nat \ {0} /\ Hops \in Nat
ASSUME LayersAssumption ==
  /\ {Unset, Null} \cap Mappings = {} /\ Null # Unset /\ NestedDefault \in Policies \ {Unset}
  /\ "pinned" \in Fields
  /\ \A below, above \in Mappings :
       DOMAIN below = DOMAIN above /\ Overlaid(below, above) \in Mappings
ASSUME CasesAssumption ==
  \A c \in Cases :
    /\ c.mode \in {"render", "file", "dir"} /\ c.onMissing \in {"warn", "fail"}
    /\ Holds(c.names, c.live) /\ Unset \notin Seq(c.names) \cup {<<TRUE>>, <<"all">>, <<"some">>}
    /\ FilesFound(c) /\ TargetsResolved(c) /\ LayersWritten(c)

VARIABLES
  case,         \* the inputs
  run,          \* which run of them: a run may be started again
  phase,        \* what the run does next
  at,           \* the layer or the target it is at
  doc,          \* the document so far
  filePolicy,   \* the file-wide `_undeclared` of the highest layer that sets one
  read,         \* the section being read: its page, what it has, what was noted
  rows,         \* a row for every section of the target read so far
  live,         \* what GitHub holds
  touched,      \* the sections people changed while the target was read
  spent,        \* the faults that happened in this run
  disk,         \* the file system's nodes
  staging,      \* the staging files beside them
  created,      \* this writer's exclusive open succeeded
  claimed,      \* the files this run's targets claimed
  results       \* the result of each target, or of the render

fold == <<doc, filePolicy>>
reading == <<read, rows, live, touched>>
files == <<disk, staging, created, claimed>>
vars == <<case, run, phase, at, doc, filePolicy, read, rows, live, touched, spent, disk, staging,
          created, claimed, results>>

Rendering == case.mode = "render"
Count(kind) == IF kind \in DOMAIN case.faults THEN case.faults[kind] - spent[kind] ELSE 0
Spend(kind) == Count(kind) > 0 /\ spent' = [spent EXCEPT ![kind] = @ + 1]

-----------------------------------------------------------------------------
(* Starting, and where a run's documents go. *)

FirstRead(n) ==
  [n |-> n, page |-> 1, items |-> <<>>, tries |-> Fresh]
EmptyFold == [lists |-> <<>>, mapping |-> Unset]

Unspent == [kind \in FaultKinds \cup {"file", "edit", "crash"} |-> 0]

Init ==
  /\ case \in Cases
  /\ live = case.live /\ disk = case.disk /\ staging = case.staging
  /\ run = 1 /\ phase = "start" /\ at = 1
  /\ doc = EmptyFold /\ filePolicy = Unset
  /\ read = FirstRead(1) /\ rows = <<>> /\ touched = {}
  /\ spent = Unspent /\ created = FALSE /\ claimed = {} /\ results = <<>>

Collides ==
  CASE case.mode = "render" -> RenderedFileCollision(case.fs, disk, case.path, case.authored)
    [] case.mode = "file"   -> \E a \in case.authored :
                                 FileCollision(case.fs, disk, case.targets[1].path, a)
    [] case.mode = "dir"    -> Overlap(case.fs, case.snapshotDir, case.reposDir)

(* A layer on its own: what validation sees is the layer without its removals. *)
StandaloneView(list) == SelectSeq(list.entries, LAMBDA e : ~ e.remove)
ValidLayer(layer) ==
  \A s \in DOMAIN layer.lists : ~ KeyedTwice(StandaloneView(layer.lists[s]))

Start ==
  /\ phase = "start"
  /\ IF Collides \/ (Rendering /\ \E i \in DOMAIN case.layers : ~ ValidLayer(case.layers[i]))
       THEN phase' = "over" /\ results' = <<"refused">>
       ELSE phase' = (IF Rendering THEN "merging" ELSE "locating") /\ UNCHANGED results
  /\ UNCHANGED <<case, run, at, fold, reading, spent, files>>

-----------------------------------------------------------------------------
(* mode: render. *)

MergeLayer ==
  /\ phase = "merging" /\ at <= Len(case.layers)
  /\ LET layer == case.layers[at]
     IN  IF ~ Admitted(layer, case.layering) \/ StepRefused(doc, layer, case.layering)
           THEN phase' = "over" /\ results' = <<"refused">> /\ UNCHANGED <<fold, at>>
           ELSE /\ doc' = MergeStep(doc, layer, case.layering)
                /\ filePolicy' = Over(filePolicy, layer.undeclared)
                /\ at' = at + 1
                /\ UNCHANGED <<phase, results>>
  /\ UNCHANGED <<case, run, reading, spent, files>>

(* The planner's own checks of a single document: every key once, no removal. *)
AcceptedEntries(entries) ==
  ~ KeyedTwice(entries) /\ \A i \in DOMAIN entries : ~ entries[i].remove
AcceptedList(list) ==
  /\ AcceptedEntries(list.entries)
  /\ \A i \in DOMAIN list.entries :
       list.entries[i].nested # Unset => AcceptedEntries(list.entries[i].nested.entries)
Accepted(document) == \A s \in DOMAIN document.lists : AcceptedList(document.lists[s])

Judge ==
  /\ phase = "merging" /\ at > Len(case.layers)
  /\ LET resolved == ResolvePolicies(doc, Over(case.undeclared, filePolicy))
     IN  /\ doc' = CanonicalDocument(resolved)
         /\ IF Accepted(resolved) THEN phase' = "open" /\ UNCHANGED results
            ELSE phase' = "over" /\ results' = <<"malformed">>
  /\ UNCHANGED <<case, run, at, filePolicy, reading, spent, files>>

-----------------------------------------------------------------------------
(* mode: snapshot, one target after another. *)

Target == case.targets[at]
Selected == {s \in ToSet(Sections) : case.only = {} \/ s \in case.only}
Section == Sections[read.n]
EmptyDocument == [s \in ToSet(Sections) |-> Unset]

Refused ==
  /\ case.mode = "dir"
  /\ \/ LandsOnAuthored(case.fs, disk, Target.path, case.authored)
     \/ LandsInRepos(case.fs, disk, Target.path, case.reposDir)
     \/ LandsOnClaimed(case.fs, disk, Target.path, claimed)

Locate ==
  /\ phase = "locating"
  /\ IF at > Len(case.targets)
       THEN phase' = "over" /\ UNCHANGED <<at, doc, read, rows, touched, claimed, results>>
     ELSE IF Target.rejected \/ Refused
       THEN /\ results' = Append(results, "failed") /\ at' = at + 1
            /\ UNCHANGED <<phase, doc, read, rows, touched, claimed>>
     ELSE /\ claimed' = claimed \cup {RenameTarget(case.fs, Target.path)}
          /\ doc' = EmptyDocument /\ read' = FirstRead(1) /\ rows' = <<>> /\ touched' = {}
          /\ phase' = "reading" /\ UNCHANGED <<at, results>>
  /\ UNCHANGED <<case, run, filePolicy, live, spent, disk, staging, created>>

(* What GitHub answers a request with: without the grant, a 403 or a 404. *)
PageOf(list, page) == SubSeq(list, (page - 1) * PageSize + 1, Min({page * PageSize, Len(list)}))
More == Kind[Section] = "list" /\ read.page * PageSize < Len(live[Section])
Grant == IF Kind[Section] = "shared" /\ read.page = 2 THEN SubGrant ELSE Section
TrueAnswers ==
  IF Grant \notin case.granted THEN {Answer(403), Answer(404)}
  ELSE IF Kind[Section] = "probe" /\ ~ live[Section] THEN {Answer(404)}
  ELSE {Answer(200)}

(* The end of a section's read: its row, and its value where it declared one. *)
Row(status, why) == [key |-> Section, status |-> status, why |-> why]
EndSection(row, value) ==
  /\ rows' = Append(rows, row)
  /\ doc' = [doc EXCEPT ![Section] = value]
  /\ read' = FirstRead(read.n + 1)
Fails(answer) ==
  EndSection(Row(FailedRow(FailureFor(answer), case.onMissing), {FailureFor(answer)}), Unset)
Goes(to) == read' = to /\ UNCHANGED <<rows, doc>>

(* Items are told apart by their identity; none of them means no section. *)
EndList(items) ==
  IF ~ IsInjective(items) THEN EndSection(Row("failed", {"live-duplicate"}), Unset)
  ELSE EndSection(Row("snapshot", IF items = <<>> THEN {"nothing"} ELSE {}),
                  IF items = <<>> THEN Unset ELSE items)
ReadList(answer) ==
  LET items == IF Answered(answer) THEN read.items \o PageOf(live[Section], read.page) ELSE read.items
  IN  IF EndsWalk(answer, More) THEN EndList(items)
      ELSE IF Answered(answer)
        THEN Goes([read EXCEPT !.items = items, !.page = @ + 1, !.tries = Fresh])
      ELSE Fails(answer)
ReadProbe(answer) ==
  IF Answered(answer) THEN EndSection(Row("snapshot", {}), <<TRUE>>)
  ELSE IF ReadsAbsent(answer) THEN EndSection(Row("snapshot", {"nothing", "concealed"}), Unset)
  ELSE Fails(answer)
ReadShared(answer) ==
  IF read.page = 1
    THEN IF Answered(answer) THEN Goes([read EXCEPT !.page = 2, !.tries = Fresh]) ELSE Fails(answer)
  ELSE IF Answered(answer) THEN EndSection(Row("snapshot", {}), <<"all">>)
  ELSE IF NotesDenial(answer, case.onMissing) THEN EndSection(Row("snapshot", {"left out"}), <<"some">>)
  ELSE Fails(answer)

Take(answer) ==
  IF Retried(answer, read.tries) THEN Goes([read EXCEPT !.tries = Counted(answer, @)])
  ELSE CASE Kind[Section] = "list"   -> ReadList(answer)
         [] Kind[Section] = "probe"  -> ReadProbe(answer)
         [] Kind[Section] = "shared" -> ReadShared(answer)

SnapshotSection ==
  /\ phase = "reading" /\ read.n <= Len(Sections)
  /\ IF Section \notin Selected
       THEN Goes(FirstRead(read.n + 1)) /\ UNCHANGED spent
     ELSE IF Kind[Section] = "writeonly"
       THEN EndSection(Row("unsupported", {"no read"}), Unset) /\ UNCHANGED spent
       ELSE \/ \E answer \in TrueAnswers : Take(answer) /\ UNCHANGED spent
            \/ \E kind \in FaultKinds : Spend(kind) /\ Take(Fault(kind))
  /\ UNCHANGED <<case, run, phase, at, filePolicy, live, touched, files, results>>

StatusesOf(rs) == {rs[i].status : i \in DOMAIN rs}
Written == IF Rendering THEN "rendered" ELSE IF "skipped" \in StatusesOf(rows) THEN "partial" ELSE "snapshot"
NextTarget == IF Rendering THEN phase' = "over" /\ UNCHANGED at ELSE phase' = "locating" /\ at' = at + 1
Concludes(result) == results' = Append(results, result) /\ NextTarget

Canonical(document) ==
  [s \in DOMAIN document |->
     IF document[s] # Unset /\ Kind[s] = "list" THEN OrderedBy(document[s], document[s]) ELSE document[s]]
Assemble ==
  /\ phase = "reading" /\ read.n > Len(Sections)
  /\ IF "failed" \in StatusesOf(rows) THEN Concludes("failed") /\ UNCHANGED doc
     ELSE doc' = Canonical(doc) /\ phase' = "open" /\ UNCHANGED <<at, results>>
  /\ UNCHANGED <<case, run, filePolicy, reading, spent, files>>

-----------------------------------------------------------------------------
(* The one writer: staged beside the destination, renamed in. *)

Destination == IF Rendering THEN case.path ELSE Target.path
Author == IF Rendering THEN "render" ELSE Target.slug
Staging(whole) ==
  [dir |-> CanonicalDir(case.fs, Destination.dir), by |-> Author, run |-> run, whole |-> whole]
InTheWay == {s \in staging : s.by = "other" /\ s.dir = CanonicalDir(case.fs, Destination.dir)}

(* A failure removes the staging file only when this write made it: a file that
   was in the way of the exclusive open is another writer's.                 *)
MadeByTrying(open) == open \in {"done", "exists"}
MadeBy(open) == open = "done"
CleanUp(made, met) == IF made THEN staging \ ({Staging(FALSE), Staging(TRUE)} \cup met) ELSE staging
WriteFails(made, met) ==
  /\ staging' = CleanUp(made, met) /\ created' = FALSE
  /\ Concludes("failed") /\ UNCHANGED <<disk, claimed>>

OpenStaging ==
  /\ phase = "open"
  /\ \/ /\ staging' = staging \cup {Staging(FALSE)} /\ created' = MadeBy("done")
        /\ phase' = "writing" /\ UNCHANGED <<at, disk, claimed, spent, results>>
     \/ Spend("file") /\ WriteFails(MadeBy("no directory"), {})
     \/ Spend("file") /\ \E s \in InTheWay : WriteFails(MadeBy("exists"), {s})
  /\ UNCHANGED <<case, run, fold, reading>>

WriteStaging ==
  /\ phase = "writing"
  /\ \/ /\ staging' = (staging \ {Staging(FALSE)}) \cup {Staging(TRUE)}
        /\ phase' = "renaming" /\ UNCHANGED <<at, disk, created, claimed, spent, results>>
     \/ Spend("file") /\ WriteFails(created, {})
  /\ UNCHANGED <<case, run, fold, reading>>

Rename ==
  /\ phase = "renaming"
  /\ \/ /\ disk' = Renamed(case.fs, disk, Destination,
                           [link |-> Nowhere, by |-> Author, run |-> run, whole |-> TRUE])
        /\ staging' = staging \ {Staging(TRUE)} /\ created' = FALSE
        /\ Concludes(Written) /\ UNCHANGED <<claimed, spent>>
     \/ Spend("file") /\ WriteFails(created, {})
  /\ UNCHANGED <<case, run, fold, reading>>

-----------------------------------------------------------------------------
(* People, and the process being killed and started again. *)

Deleted(list) == {RemoveAt(list, i) : i \in DOMAIN list}
Added(list) == {InsertAt(list, i, n) : i \in 1..Len(list) + 1, n \in case.names \ ToSet(list)}
Edit ==
  /\ phase = "reading" /\ Spend("edit")
  /\ \E s \in DOMAIN live :
       /\ Kind[s] \in {"list", "probe"}
       /\ \E now \in IF Kind[s] = "list" THEN Deleted(live[s]) \cup Added(live[s]) ELSE {~ live[s]} :
            live' = [live EXCEPT ![s] = now]
       /\ touched' = touched \cup {s}
  /\ UNCHANGED <<case, run, phase, at, fold, read, rows, files, results>>

(* Killed: its staging file, if any, stays. *)
Crash ==
  /\ phase \in {"open", "writing", "renaming"} /\ Spend("crash")
  /\ phase' = "over"
  /\ UNCHANGED <<case, run, at, fold, reading, files, results>>

Rerun ==
  /\ phase = "over" /\ run < case.runs
  /\ run' = run + 1 /\ phase' = "start" /\ at' = 1
  /\ doc' = EmptyFold /\ filePolicy' = Unset
  /\ read' = FirstRead(1) /\ rows' = <<>> /\ touched' = {}
  /\ spent' = Unspent /\ created' = FALSE /\ claimed' = {} /\ results' = <<>>
  /\ UNCHANGED <<case, live, disk, staging>>

Next ==
  \/ Start \/ MergeLayer \/ Judge
  \/ Locate \/ SnapshotSection \/ Assemble
  \/ OpenStaging \/ WriteStaging \/ Rename
  \/ Edit \/ Crash \/ Rerun

Spec == Init /\ [][Next]_vars

-----------------------------------------------------------------------------
(* What a document says. *)

(* The rows of a target are in: what the document holds is what GitHub held, of
   the sections people left alone, or the section's row says why not.        *)
Done == phase = "reading" /\ read.n > Len(Sections)
RowOf(s) == CHOOSE row \in ToSet(rows) : row.key = s
Excused ==
  \/ \E kind \in {"far", "conflict", "shape"} : spent[kind] > 0
  \/ spent["near"] > MaxRetries \/ spent["server"] + spent["lost"] > MaxRetries
Nothing(s) == IF Kind[s] = "list" THEN live[s] = <<>> ELSE Kind[s] = "probe" /\ ~ live[s]
Complete(s, row) ==
  /\ Kind[s] = "list" => doc[s] = live[s]
  /\ Kind[s] = "probe" => live[s]
  /\ Kind[s] = "shared" => doc[s] = <<"all">> \/ (SubGrant \notin case.granted /\ "left out" \in row.why)
Tells(s, row) ==
  /\ row.status # "snapshot" => doc[s] = Unset
  /\ row.status = "unsupported" => Kind[s] = "writeonly"
  /\ row.status = "skipped" => s \notin case.granted /\ case.onMissing = "warn"
  /\ row.status = "failed" =>
       \/ Excused \/ s \in touched
       \/ case.onMissing = "fail" /\ (s \notin case.granted \/ SubGrant \notin case.granted)
  /\ row.status = "snapshot" /\ s \notin touched =>
       IF doc[s] # Unset THEN s \in case.granted /\ Complete(s, row)
       ELSE \/ s \in case.granted /\ Nothing(s)
            \/ s \notin case.granted /\ "concealed" \in row.why

(* A snapshot tells the truth: every section that nobody changed while it was
   read stands in the document with exactly the items GitHub holds, or its row
   says why it does not (a denial, nothing there, a 404 that may be a denial, no
   read), and a section fails only for a fault that outlasts the retries, never
   for up to two short rate limits beside two server errors or lost answers.  No
   document holds an item twice, even if the list moved between its pages, and a
   target is called partial exactly if a section was skipped.
   src/engine/snapshot.ts:168-280, src/github/api.ts:308-372.                 *)
DocumentTellsTheTruth ==
  /\ Done =>
       \A s \in Selected :
         Tells(s, RowOf(s)) /\ (Kind[s] = "list" /\ doc[s] # Unset => IsInjective(doc[s]))
  /\ phase = "locating" /\ results # <<>> /\ Last(results) \in {"snapshot", "partial"} =>
       (Last(results) = "partial" <=> "skipped" \in StatusesOf(rows))

(* The files a run touches stay whole, across failed writes, killed processes
   and second runs: a document an author wrote is read as it was under every name
   it has; a file a target's row calls written is read back as that target's
   whole document, no later target having taken its place; a target that failed
   wrote nothing; and another writer's staging file is still there.
   src/flows/settings-write.ts:179-220, src/flows/snapshot.ts:196-241,
   src/flows/render.ts:35-46.                                                 *)
FileOf(t) == IF Rendering THEN case.path ELSE case.targets[t].path
AuthorOf(t) == IF Rendering THEN "render" ELSE case.targets[t].slug
FilesStayWhole ==
  /\ \A n \in DOMAIN disk : disk[n].link # Nowhere \/ disk[n].whole
  /\ \A a \in case.authored : ReadThrough(case.fs, disk, a) = ReadThrough(case.fs, case.disk, a)
  /\ \A t \in DOMAIN results :
       IF results[t] \in {"rendered", "snapshot", "partial"}
         THEN LET node == ReadThrough(case.fs, disk, FileOf(t))
              IN  node.by = AuthorOf(t) /\ node.run = run
         ELSE \A n \in DOMAIN disk : ~ (disk[n].by = AuthorOf(t) /\ disk[n].run = run)
  /\ {s \in case.staging : s.by = "other"} \subseteq staging

(* The same content is the same bytes: a list read back stands in the order of
   its names however GitHub listed it, and listing the entries of the layers'
   keyed lists in another order renders the same document.  The pinned
   environments keep their order, which is their rank.
   src/engine/canonical.ts:1-20, src/engine/layers.ts:318-328.                *)
NestedReversed(entry) ==
  IF entry.nested = Unset THEN entry ELSE [entry EXCEPT !.nested.entries = Reverse(@)]
EverPinned(s, name) ==
  s = Ranked /\ \E i \in DOMAIN case.layers :
    /\ s \in DOMAIN case.layers[i].lists
    /\ \E entry \in ToSet(case.layers[i].lists[s].entries) : entry.name = name /\ IsPinned(entry)
Reordered(s, entries) ==
  LET turned == [i \in DOMAIN entries |-> NestedReversed(entries[i])]
      rank == [i \in DOMAIN entries |->
                 IF EverPinned(s, entries[i].name) THEN Len(entries) + i ELSE Len(entries) - i]
  IN  OrderedBy(turned, rank)
ReorderedLayer(layer) ==
  [layer EXCEPT !.lists = [s \in DOMAIN layer.lists |->
     [layer.lists[s] EXCEPT !.entries = Reordered(s, @)]]]
Folds(layers) ==
  LET upTo[i \in 0..Len(layers)] ==
        IF i = 0 THEN EmptyFold ELSE MergeStep(upTo[i - 1], layers[i], case.layering)
  IN  upTo
FoldOf(layers) == Folds(layers)[Len(layers)]
SameContentSameBytes ==
  phase = "open" =>
    IF Rendering
      THEN doc = CanonicalDocument(ResolvePolicies(
                   FoldOf([i \in DOMAIN case.layers |-> ReorderedLayer(case.layers[i])]),
                   Over(case.undeclared, filePolicy)))
      ELSE \A s \in Selected :
             Kind[s] = "list" /\ doc[s] # Unset =>
               \A i, j \in DOMAIN doc[s] : i < j => doc[s][i] < doc[s][j]

(* A rendered document is always one the planner accepts: layers that were each
   admitted never fold into two entries claiming one key or into a removal with
   nothing to remove, and every list has a policy: the highest one a layer sets on
   the list itself, else the highest file-wide one, else the run's, else its own
   default.  src/engine/layers.ts:318-360, src/engine/undeclared.ts:1-90.      *)
HighestSetting(settings) ==
  LET set == {i \in DOMAIN settings : settings[i] # Unset}
  IN  IF set = {} THEN Unset ELSE settings[Max(set)]
OwnPolicies(s) ==
  [i \in DOMAIN case.layers |->
     IF s \in DOMAIN case.layers[i].lists THEN case.layers[i].lists[s].policy ELSE Unset]
FilePolicies == [i \in DOMAIN case.layers |-> case.layers[i].undeclared]
PolicyDue(s) ==
  Over(Over(Over(DefaultPolicy[s], case.undeclared), HighestSetting(FilePolicies)),
       HighestSetting(OwnPolicies(s)))
RenderedIsAccepted ==
  /\ results # <<"malformed">>
  /\ Rendering /\ phase = "open" =>
       /\ Accepted(doc)
       /\ \A s \in DOMAIN doc.lists :
            /\ s \in Knobbed => doc.lists[s].policy = PolicyDue(s)
            /\ \A entry \in ToSet(doc.lists[s].entries) :
                 entry.nested # Unset => entry.nested.policy # Unset

(* The highest declaration wins: of the entries no layer renames, the document
   holds those that some layer declares above the last one to remove them or to
   replace their list, each field as the highest layer sets it since; null is a
   value like any other.  src/engine/layers.ts:230-260, 379-425.               *)
LayeringAt(i, s) == Layering(case.layers[i], case.layers[i].lists[s], case.layering)
EntriesAt(i, s, name) ==
  IF s \notin DOMAIN case.layers[i].lists THEN {}
  ELSE {e \in ToSet(case.layers[i].lists[s].entries) : e.name = name}
StartsOver(i, s, name) ==
  /\ s \in DOMAIN case.layers[i].lists
  /\ \/ LayeringAt(i, s) = "replace"
     \/ \E e \in EntriesAt(i, s, name) : e.remove \/ LayeringAt(i, s) = "shallow"
Declaring(s, name) ==
  {i \in DOMAIN case.layers :
     /\ \E e \in EntriesAt(i, s, name) : ~ e.remove
     /\ \A j \in i + 1..Len(case.layers) : ~ StartsOver(j, s, name)}
FieldAt(i, s, name, f) == (CHOOSE e \in EntriesAt(i, s, name) : TRUE).fields[f]
HighestField(s, name, f) ==
  LET set == {i \in Declaring(s, name) : FieldAt(i, s, name, f) # Unset}
  IN  IF set = {} THEN Unset ELSE FieldAt(Max(set), s, name, f)
Unrenamed(s) ==
  \A i \in DOMAIN case.layers :
     s \in DOMAIN case.layers[i].lists =>
       \A e \in ToSet(case.layers[i].lists[s].entries) : e.renames = Unset
MappingDue(k) ==
  LET mappings == [i \in DOMAIN case.layers |-> case.layers[i].mapping]
      set == {i \in DOMAIN mappings :
                /\ mappings[i] \notin {Unset, Null} /\ mappings[i][k] # Unset
                /\ \A j \in i + 1..Len(mappings) : mappings[j] # Null}
  IN  IF set = {} THEN Unset ELSE mappings[Max(set)][k]
HighestDeclarationWins ==
  Rendering /\ phase = "open" =>
    /\ doc.mapping \notin {Unset, Null} => \A k \in DOMAIN doc.mapping : doc.mapping[k] = MappingDue(k)
    /\ \A s \in DOMAIN doc.lists :
         Unrenamed(s) =>
           LET entries == ToSet(doc.lists[s].entries)
           IN  /\ {e.name : e \in entries} = {n \in case.names : Declaring(s, n) # {}}
               /\ \A e \in entries :
                    \A f \in DOMAIN e.fields : e.fields[f] = HighestField(s, e.name, f)
=============================================================================
