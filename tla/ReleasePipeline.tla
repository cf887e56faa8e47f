-------------------------- MODULE ReleasePipeline --------------------------
(* The release pipeline as one system: main grows, and the packaging, publishing
   and anchoring jobs its pushes start run beside one another over it
   (.github/scripts/release-pipeline.ts, update-release.yml,
   update-release-pr.yml, post-green.yml).                                 *)
EXTENDS ReleaseTags, ReleaseNpm, ReleaseAnchor

CONSTANT Cases  \* the pipelines to check: main as it starts, origin's refs, the jobs, the faults

(* Main passes boundaryCheck as it starts. *)
SoundMain(line) ==
  \A n \in DOMAIN line :
    LET merges == {m \in 1..n : line[m].major # 0}
    IN  IF merges = {} THEN line[n].boundary = 0
        ELSE \E m \in merges : (\A k \in merges : k <= m) /\ line[n].boundary \in {m, m - 1}

(* Origin's refs name commits that exist: of main, or of no chain of main's. *)
KnownRefs(c) ==
  /\ IsFiniteSet(DOMAIN c.refs) /\ DOMAIN c.refs \subseteq Ref
  /\ \A r \in DOMAIN c.refs : c.refs[r] \in Packaged /\ c.refs[r].source <= Len(c.main)

(* A packaging job that is over left its refs where a consumer finds them. *)
Leaves(c, ref, n) ==
  /\ ref \in DOMAIN c.refs /\ c.refs[ref].built
  /\ c.refs[ref].source \in DOMAIN c.main /\ c.refs[ref].source >= n
JobsInPlace(c) ==
  \A j \in DOMAIN c.jobs : c.jobs[j].pc = "done" =>
    LET n == c.jobs[j].source
    IN  /\ n \in DOMAIN c.main /\ Leaves(c, Latest, n)
        /\ c.jobs[j].kind = "release" =>
             /\ Leaves(c, VersionTag(n), n) /\ c.refs[VersionTag(n)].source = n
             /\ Leaves(c, Major(c.main[n].major), n)

ASSUME CasesAssumption ==
  \A c \in Cases :
    /\ c.main \in Seq(Commit) /\ c.main # <<>> /\ SoundMain(c.main)
    /\ KnownRefs(c) /\ c.jobs \in Seq(PackagingJob) /\ JobsInPlace(c)
    /\ c.pubs \in Seq(Version) /\ c.anchors \in Seq(Nat)
    /\ c.faults \in Nat /\ c.refreshes \in Nat

vars == <<main, tagVars, npmVars, anchorVars>>

Init ==
  \E c \in Cases :
    /\ main = c.main
    /\ refs = c.refs
    /\ TagInit(c.jobs, c.faults) /\ NpmInit(c.pubs, c.faults) /\ AnchorInit(c.anchors, c.refreshes)

(* publish-npm needs the release's packaging job: nothing of a release reaches
   npm before its tag, its major and its assets are in place.              *)
Gated(p) ==
  pub'[p].pc = "verdict" /\ pub[p].channel = "stable" /\ pub[p].pc = "queued" =>
    \E j \in DOMAIN job : job[j].kind = "release" /\ job[j].source = pub[p].source /\ At(j, "done")

MainGrows == MergeOrdinary /\ UNCHANGED <<tagVars, npmVars, anchorVars>>
Packaging == TagNext /\ UNCHANGED <<npmVars, anchorVars>>
Npm == NpmNext /\ (\A p \in DOMAIN pub : Gated(p)) /\ UNCHANGED <<tagVars, anchorVars>>
Anchoring == AnchorNext /\ UNCHANGED <<tagVars, npmVars>>

Next == MainGrows \/ Packaging \/ Npm \/ Anchoring
Spec == Init /\ [][Next]_vars
=============================================================================
