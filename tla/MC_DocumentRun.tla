--------------------------- MODULE MC_DocumentRun ---------------------------
(* Small instances of DocumentRun: stacks of layers, repositories read back
   under faults and edits, and file systems on which names meet.           *)
EXTENDS DocumentRun

MCDefaultPolicy == [s \in {"labels"} |-> "delete"]
MCKind == [labels |-> "list", pages |-> "probe", actions |-> "shared",
           check_suite_preferences |-> "writeonly"]
MCSections == <<"labels", "actions", "check_suite_preferences", "pages">>
MCInside == {<<d, d>> : d \in {"out", "out/alice", "out/bob", "repos", "repos/alice", ".github", "layers"}}
              \cup {<<"out/alice", "out">>, <<"out/bob", "out">>, <<"repos/alice", "repos">>}

File(by) == [link |-> Nowhere, by |-> by, run |-> 0, whole |-> TRUE]
Link(path) == [link |-> path, by |-> "link", run |-> 0, whole |-> TRUE]
PlainFs == [links |-> <<>>, folds |-> <<>>]
Settings == Path(".github", "settings")
Base == Path("layers", "base")
Top == Path("layers", "top")
Rendered == Path("out", "merged")

Blank ==
  [mode |-> "render", fs |-> PlainFs, disk |-> Settings :> File("authored"),
   staging |-> {}, authored |-> {Settings}, path |-> Rendered, layers |-> <<>>,
   layering |-> "deep", undeclared |-> Unset, names |-> 1..3, targets |-> <<>>, only |-> {},
   granted |-> {}, onMissing |-> "warn", live |-> [labels |-> <<>>, pages |-> FALSE],
   snapshotDir |-> "out", reposDir |-> "repos", faults |-> <<>>, runs |-> 1]

-----------------------------------------------------------------------------
(* Stacks of layers. *)

Layer(lists, mapping) ==
  [layering |-> Unset, undeclared |-> Unset, lists |-> lists, mapping |-> mapping]
Stack(layers, layering) ==
  [Blank EXCEPT !.layers = layers, !.layering = layering, !.authored = {Base},
                !.disk = Base :> File("authored")]
List(entries) == [layering |-> Unset, policy |-> Unset, entries |-> entries]
MCFields == {"pinned", "note", "color"}
FieldsOf(pinned, note, color) == [pinned |-> pinned, note |-> note, color |-> color]
MCValues == {1, 2, 3, Null}
NoFields == FieldsOf(Unset, Unset, Unset)
Entry(name, fields) ==
  [name |-> name, renames |-> Unset, fields |-> fields, nested |-> Unset, remove |-> FALSE]
Removal(name) == [Entry(name, NoFields) EXCEPT !.remove = TRUE]
Label(i, name) == Entry(name, FieldsOf(Unset, i, IF name = 1 THEN i ELSE Unset))
Renaming(i, name, to) == [Label(i, name) EXCEPT !.renames = to, !.fields["note"] = IF i = 3 THEN Null ELSE Unset]

LabelLists(i) ==
  {<<>>, <<Label(i, 1)>>, <<Label(i, 2), Label(i, 1)>>, <<Renaming(i, 1, 2)>>,
   <<Label(i, 3), Renaming(i, 1, 2)>>, <<Renaming(i, 2, 3)>>, <<Renaming(i, 1, 3), Label(i, 2)>>,
   <<Removal(1)>>, <<Removal(2), Label(i, 3)>>, <<Label(i, 1), Renaming(i, 2, 1)>>}
OfLabels(list) == [labels |-> list]
OfEnvironments(list) == [environments |-> list]
LabelStacks ==
  {Stack([i \in 1..3 |-> Layer(OfLabels(List(<<a, b, c>>[i])), Unset)], l) :
     a \in LabelLists(1), b \in LabelLists(2), c \in LabelLists(3), l \in {"deep", "shallow"}}

(* Two layers: every list of at most two labels and renames over three names,
   and over each of them every such list with removals too.                  *)
AnyLabel(i) ==
  {Label(i, n) : n \in 1..3} \cup {Removal(n) : n \in 1..3}
    \cup {Renaming(i, n, to) : n, to \in 1..3}
AnyLabels(i) ==
  {list \in {<<>>} \cup {<<a>> : a \in AnyLabel(i)} \cup {<<a, b>> : a, b \in AnyLabel(i)} :
     /\ ~ KeyedTwice(list)
     /\ \A k \in DOMAIN list : list[k].renames # list[k].name}
PairStacks ==
  {Stack([i \in 1..2 |-> Layer(OfLabels(List(<<a, b>>[i])), Unset)], l) :
     a \in {list \in AnyLabels(1) : \A k \in DOMAIN list : ~ list[k].remove},
     b \in AnyLabels(2), l \in {"deep", "shallow"}}

Variable(name, i) == Entry(name, FieldsOf(Unset, i, Unset))
Environment(name, pinned, i, variables) ==
  [Entry(name, FieldsOf(pinned, i, Unset)) EXCEPT !.nested = variables]
Nested(entries) == [policy |-> Unset, entries |-> entries]
EnvironmentLists(i) ==
  {<<Environment(1, Unset, i, Nested(<<Variable(2, i), Variable(1, Unset)>>))>>,
   <<Environment(2, TRUE, i, Unset), Environment(1, TRUE, Unset, Unset)>>,
   <<Environment(3, Unset, i, Unset), Environment(2, FALSE, i, Nested(<<Removal(1), Variable(3, i)>>))>>,
   <<Environment(1, Unset, Null, [policy |-> "keep", entries |-> <<Variable(3, i), Removal(2)>>])>>,
   <<Removal(1), Environment(2, Unset, Unset, Nested(<<Variable(1, i)>>))>>}
EnvironmentStacks ==
  {Stack([i \in 1..3 |-> Layer(OfEnvironments(List(<<a, b, c>>[i])), Unset)], l) :
     a \in EnvironmentLists(1), b \in EnvironmentLists(2), c \in EnvironmentLists(3),
     l \in {"deep", "shallow", "replace"}}

MCMappings == [{"x", "y"} -> {1, 2, 3, Unset}]
MappingsOf(i) == {Unset, Null, [x |-> i, y |-> Unset], [x |-> Unset, y |-> i]}
MappingStacks ==
  {Stack([i \in 1..3 |-> Layer(<<>>, <<a, b, c>>[i])], "deep") :
     a \in MappingsOf(1), b \in MappingsOf(2), c \in MappingsOf(3)}

(* Every place a policy and a layering can be set, in two layers. *)
Knobs == [wrapper : {Unset, "keep", "delete"}, file : {Unset, "keep", "delete"},
          layering : {Unset, "replace"}, whole : {Unset, "replace"}]
PolicyStacks ==
  {[Stack([i \in 1..2 |->
       [Layer(OfLabels([layering |-> <<a, b>>[i].layering, policy |-> <<a, b>>[i].wrapper,
                        entries |-> <<Label(i, i)>>]), Unset)
          EXCEPT !.undeclared = <<a, b>>[i].file, !.layering = <<a, b>>[i].whole]], "deep")
      EXCEPT !.undeclared = u] :
     a \in {k \in Knobs : k.layering = Unset /\ k.whole = Unset}, b \in Knobs, u \in {Unset, "keep"}}

-----------------------------------------------------------------------------
(* Repositories read back. *)

To(slug, path) == [slug |-> slug, path |-> path, rejected |-> FALSE]
Single == To("alice/r", Path("out", "alice"))
Read(labels, pages, granted, policy, faults) ==
  [Blank EXCEPT !.mode = "file", !.targets = <<Single>>, !.names = 1..5, !.granted = granted,
                !.onMissing = policy, !.live = [labels |-> labels, pages |-> pages], !.faults = faults]
Grants == {"labels", "pages", "actions", "workflow"}
FaultPlans ==
  {"near" :> 3, "server" :> 3, "near" :> 2 @@ "server" :> 2, "far" :> 1 @@ "edit" :> 1,
   "conflict" :> 1, "server" :> 1 @@ "lost" :> 2, "shape" :> 1, "edit" :> 1}
ReadCases ==
  {Read(l, p, g, m, f) :
     l \in {<<2, 1>>, <<3, 1, 4>>}, p \in BOOLEAN, g \in {Grants \ S : S \in {{}, {"labels"}, {"pages"}, {"workflow"}, {"actions"}}},
     m \in {"warn", "fail"}, f \in FaultPlans}
  \cup
  {Read(<<>>, FALSE, {}, m, "near" :> 1) : m \in {"warn", "fail"}}
  \cup
  {Read(<<4, 2, 5, 1, 3>>, FALSE, {"labels"}, "warn", "conflict" :> 1 @@ "edit" :> 2)}

-----------------------------------------------------------------------------
(* File systems: an owner's directory leading to another's, into the repos-dir,
   leaves that differ in case, links from and to an authored file.           *)

OutAliceR == Path("out/alice", "r")
Central == Path("repos/alice", "r")
Targets == <<To("alice/r", OutAliceR), To("bob/R", Path("out/bob", "R")), To("alice/s", Path("out/alice", "s"))>>
Other == [dir |-> "out/alice", by |-> "other", run |-> 0, whole |-> FALSE]
Dir(fs, nodes, targets) ==
  [Blank EXCEPT !.mode = "dir", !.fs = fs, !.disk = Settings :> File("authored") @@ Central :> File("authored") @@ nodes,
                !.authored = {Settings, Central}, !.targets = targets, !.only = {"pages"},
                !.live = [labels |-> <<>>, pages |-> TRUE], !.granted = {"pages"},
                !.staging = {Other}, !.runs = 2, !.faults = "file" :> 1 @@ "crash" :> 1 @@ "shape" :> 1]
Bob == "out/bob" :> "out/alice"
Case == "R" :> "r"
FsCases ==
  {Dir([links |-> l, folds |-> f], d, t) :
     l \in {<<>>, Bob, "out/alice" :> "repos/alice"}, f \in {<<>>, Case},
     d \in {<<>>, OutAliceR :> Link(Settings), OutAliceR :> Link(Path("out/alice", "s")),
            Path("out/alice", "R") :> File("old")},
     t \in {Targets, Reverse(Targets)}}
  \cup
  {[Dir(PlainFs, <<>>, Targets) EXCEPT !.snapshotDir = d] : d \in {"repos", "repos/alice"}}
  \cup
  {[Dir(PlainFs, <<>>, Targets) EXCEPT !.targets[2].rejected = TRUE],
   [Dir(PlainFs, Settings :> Link(OutAliceR) @@ OutAliceR :> File("authored"), Targets)
      EXCEPT !.authored = {OutAliceR, Central}]}

SingleCases ==
  {[Blank EXCEPT !.mode = "file", !.targets = <<To("alice/r", p)>>, !.disk = d, !.only = {"pages"},
                 !.fs.folds = Case, !.runs = 2, !.faults = "file" :> 1 @@ "crash" :> 1] :
     p \in {Settings, Path(".github", "r"), Path(".github", "R")},
     d \in {Settings :> File("authored"),
            Settings :> Link(Path(".github", "r")) @@ Path(".github", "r") :> File("authored"),
            Settings :> File("authored") @@ Path(".github", "r") :> Link(Settings)}}
RenderCases ==
  {[Stack(<<Layer(OfLabels(List(<<Label(1, 1)>>)), Unset)>>, "deep")
      EXCEPT !.path = p, !.disk = d, !.authored = {Base, Top}, !.fs.links = l, !.runs = 2,
             !.staging = {[Other EXCEPT !.dir = "layers"]}, !.faults = "file" :> 1 @@ "crash" :> 1] :
     p \in {Rendered, Base, Path("out", "base"), Path("layers", "mid")},
     l \in {<<>>, "out" :> "layers"},
     d \in {Base :> File("authored") @@ Top :> File("authored"),
            Base :> File("authored") @@ Top :> Link(Path("layers", "mid")) @@ Path("layers", "mid") :> Link(Base),
            Base :> File("authored") @@ Top :> File("authored") @@ Path("out", "base") :> Link(Base)}}

MCCases ==
  LabelStacks \cup PairStacks \cup EnvironmentStacks \cup MappingStacks \cup PolicyStacks
    \cup ReadCases \cup FsCases \cup SingleCases \cup RenderCases
=============================================================================
