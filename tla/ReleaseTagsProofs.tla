-------------------------- MODULE ReleaseTagsProofs --------------------------
(***************************************************************************)
(* Proofs about ReleasePipeline: the refs a consumer names, for every main *)
(* line, every set of packaging jobs and every bound.                      *)
(***************************************************************************)
EXTENDS ReleaseProofs

-----------------------------------------------------------------------------
(* The inductive invariant. *)

(* At work on a tag, on a pointer; and where its own package is settled. *)
OnTag == {"observe", "fetch", "create"}
OnPointer == {"point", "have", "judge", "push"}
Sealed == OnPointer \cup {"create", "list", "delete", "retag"}

Job == [kind : {"build", "release"}, source : Nat,
        pc : OnTag \cup Sealed \cup {"waiting", "done", "failed"},
        ref : Ref, tries : Nat, outer : Nat, seen : SUBSET Packaged, mine : SUBSET Packaged, doomed : SUBSET Ref]

RefsType ==
  /\ IsFiniteSet(DOMAIN refs) /\ DOMAIN refs \subseteq Ref
  /\ \A r \in DOMAIN refs : refs[r] \in Packaged /\ refs[r].source <= Tip

TagType ==
  /\ RefsType
  /\ job \in [DOMAIN job -> Job] /\ DOMAIN job \subseteq Nat
  /\ made \subseteq Nat /\ IsFiniteSet(made) /\ faults \in Nat

(* Every build tag was pushed once. *)
TagsWereMade == \A r \in DOMAIN refs : IsBuildTag(r) => r[2] \in made

(* A build tag that went, or may go: Kept newer commits had theirs. *)
BeyondKept(r) == IsBuildTag(r) /\ Cardinality({n \in made : n > r[2]}) >= Kept

(* A job's commit is on main, and its package is what it pushes. *)
OwnPackage(s) ==
  /\ s.pc \notin {"waiting", "failed"} => OnMain(s.source)
  /\ s.pc \in Sealed => \E c \in s.mine : s.mine = {c} /\ IsPackageOf(c, s.source)

(* The ref it works on, what it read there, and the build tags it will delete. *)
OwnRef(s) ==
  /\ s.pc \in OnTag => s.ref = BuildTag(s.source) \/ (s.kind = "release" /\ s.ref = VersionTag(s.source))
  /\ s.pc \in OnPointer => s.ref = Latest \/ (s.kind = "release" /\ s.ref = Major(main[s.source].major))
  /\ s.pc = "retag" => s.kind = "release"
  /\ s.pc = "delete" => s.ref = Latest
  /\ s.pc = "fetch" => s.seen # {}
  /\ \A c \in s.seen : s.seen = {c} /\ c.source <= Tip
  /\ \A r \in s.doomed : BeyondKept(r)

(* A pointer has not fallen behind what a job read of it; what a job is about to
   displace is older than its own commit.                                  *)
Judged(s) ==
  /\ s.pc = "judge" => \A c \in s.seen : c.built /\ OnMain(c.source) => Reaches(s.ref, c.source)
  /\ s.pc = "push" => \A c \in s.seen : OnMain(c.source) => c.source < s.source

(* What a job leaves in place behind it: latest, then a release's version tag,
   then its major.                                                         *)
PastLatest(s) == s.pc \in {"retag", "done"} \/ (s.pc \in OnPointer /\ s.ref # Latest)
PastVersion(s) == s.kind = "release" /\ (s.pc = "done" \/ (s.pc \in OnPointer /\ s.ref # Latest))
LeftBehind(s) ==
  /\ PastLatest(s) => Reaches(Latest, s.source)
  /\ PastVersion(s) => \E c \in Packages(VersionTag(s.source)) : c.source = s.source
  /\ s.kind = "release" /\ s.pc = "done" => Reaches(Major(main[s.source].major), s.source)

JobSound(s) == OwnPackage(s) /\ OwnRef(s) /\ Judged(s) /\ LeftBehind(s)

TagInv == TagType /\ TagsWereMade /\ \A j \in DOMAIN job : JobSound(job[j])

(* What a step may do to the refs a consumer names. *)
RefsAdvance ==
  \A r \in DOMAIN refs :
    /\ IsBuildTag(r) => (r \in DOMAIN refs' /\ refs'[r] = refs[r]) \/ (r \notin DOMAIN refs' /\ BeyondKept(r))
    /\ ~IsBuildTag(r) => r \in DOMAIN refs'
    /\ r[1] = "version" => refs'[r] = refs[r]
    /\ r[1] \in {"latest", "major"} =>
         \/ refs'[r] = refs[r]
         \/ /\ refs'[r].built /\ OnMain(refs'[r].source)
            /\ refs[r].built /\ OnMain(refs[r].source) => refs[r].source < refs'[r].source

-----------------------------------------------------------------------------
(* The refs. *)

(* A ref has one of the four names. *)
LEMMA RefNames ==
  /\ \A n \in Nat : /\ BuildTag(n) \in Ref /\ VersionTag(n) \in Ref /\ Major(n) \in Ref
                    /\ BuildTag(n)[1] = "build" /\ BuildTag(n)[2] = n
                    /\ VersionTag(n)[1] = "version" /\ Major(n)[1] = "major" /\ Major(n) # Latest
  /\ Latest \in Ref /\ Latest[1] = "latest"
  /\ \A r \in Ref : r[2] \in Nat /\ r[1] \in {"latest", "build", "version", "major"} /\ r = <<r[1], r[2]>>
  BY DEF Ref, BuildTag, VersionTag, Major, Latest

(* What a consumer finds under a ref. *)
LEMMA PackagesAre ==
  ASSUME NEW r
  PROVE  \A c : c \in Packages(r) <=> r \in DOMAIN refs /\ c = refs[r] /\ c.built /\ OnMain(c.source)
  BY DEF Packages, Observe

(* The commits after a build tag's that had theirs can only become more. *)
LEMMA BeyondKeptStays ==
  ASSUME TagType, made' = made \/ \E n \in Nat : made' = made \cup {n}
  PROVE  /\ made' \subseteq Nat /\ IsFiniteSet(made')
         /\ \A r : BeyondKept(r) => BeyondKept(r)'
<1>1. made' \subseteq Nat /\ IsFiniteSet(made') /\ made \subseteq made'
  BY FS_AddElement DEF TagType
<1>2. ASSUME NEW r, BeyondKept(r) PROVE BeyondKept(r)'
  <2> DEFINE S == {n \in made : n > r[2]}
             T == {n \in made' : n > r[2]}
  <2>1. S \subseteq T /\ IsFiniteSet(T)
    BY <1>1, FS_Subset
  <2>2. Cardinality(S) <= Cardinality(T) /\ Cardinality(S) \in Nat /\ Cardinality(T) \in Nat
    BY <2>1, FS_Subset, FS_CardinalityType
  <2>3. Cardinality(S) >= Kept /\ IsBuildTag(r) /\ Kept \in Nat
    BY <1>2, TagBounds DEF BeyondKept
  <2>4. Cardinality(T) >= Kept
    BY <2>2, <2>3
  <2>5. QED
    BY <2>3, <2>4 DEF BeyondKept, IsBuildTag
<1>3. QED
  BY <1>1, <1>2

(* The commits of the build tags newer than one of them had theirs. *)
LEMMA WindowCounts ==
  ASSUME TagType, TagsWereMade, NEW r \in BeyondWindow({t \in DOMAIN refs : IsBuildTag(t)})
  PROVE  r \in Ref /\ BeyondKept(r)
<1> DEFINE tags == {t \in DOMAIN refs : IsBuildTag(t)}
           S == Newer(r, tags)
           T == {n \in made : n > r[2]}
           f == [t \in S |-> t[2]]
<1>1. r \in DOMAIN refs /\ r \in Ref /\ IsBuildTag(r) /\ Cardinality(S) >= Kept /\ Kept \in Nat
  BY TagBounds DEF BeyondWindow, TagType, RefsType
<1>2. \A t \in S : t[2] \in T /\ t \in Ref /\ t[1] = "build"
  BY DEF Newer, TagsWereMade, TagType, RefsType, IsBuildTag
<1>3. \A t, u \in S : t[2] = u[2] => t = u
  BY <1>2, RefNames
<1>4. f \in Injection(S, T)
  <2>1. f \in [S -> T]
    BY <1>2
  <2>2. \A t, u \in S : f[t] = f[u] => t = u
    BY <1>3
  <2> HIDE DEF f, S, T
  <2>3. QED
    BY <2>1, <2>2 DEF Injection, IsInjective
<1>5. IsFiniteSet(T)
  BY FS_Subset DEF TagType
<1> HIDE DEF S, T, f
<1>6. IsFiniteSet(S) /\ Cardinality(S) <= Cardinality(T)
  BY <1>4, <1>5, FS_Injection DEF ExistsInjection
<1>7. Cardinality(S) \in Nat /\ Cardinality(T) \in Nat
  BY <1>5, <1>6, FS_CardinalityType
<1>8. QED
  BY <1>1, <1>6, <1>7 DEF BeyondKept, T

(* A push creates a ref, or moves a pointer to the package of a newer commit. *)
LEMMA PushAdvances ==
  ASSUME RefsType, UNCHANGED main, NEW ref \in Ref, NEW commit \in Packaged, commit.built, OnMain(commit.source),
         commit.source <= Tip,
         \/ ref \notin DOMAIN refs
         \/ ref[1] \in {"latest", "major"} /\ \A was \in Packages(ref) : was.source < commit.source,
         refs' = With(ref, commit)
  PROVE  /\ RefsType' /\ RefsAdvance /\ ref \in DOMAIN refs' /\ refs'[ref] = commit
         /\ DOMAIN refs' = DOMAIN refs \cup {ref}
         /\ Packages(ref)' = {commit}
<1>1. /\ DOMAIN refs' = DOMAIN refs \cup {ref}
      /\ refs'[ref] = commit
      /\ \A r \in DOMAIN refs : r # ref => refs'[r] = refs[r]
  BY DEF With
<1>2. RefsType'
  BY <1>1, FS_AddElement DEF RefsType, Tip
<1>3. \A was \in Packages(ref) : was = refs[ref]
  BY PackagesAre
<1>4. RefsAdvance
  <2> SUFFICES ASSUME NEW r \in DOMAIN refs
               PROVE  /\ r \in DOMAIN refs'
                      /\ \/ refs'[r] = refs[r]
                         \/ /\ ~IsBuildTag(r) /\ r[1] # "version" /\ refs'[r].built /\ OnMain(refs'[r].source)
                            /\ refs[r].built /\ OnMain(refs[r].source) => refs[r].source < refs'[r].source
    BY DEF RefsAdvance
  <2>1. CASE r = ref
    BY <1>1, <2>1, PackagesAre DEF IsBuildTag
  <2>2. CASE r # ref
    BY <1>1, <2>2
  <2>3. QED
    BY <2>1, <2>2
<1>5. Packages(ref)' = {commit}
  BY <1>1 DEF Packages, Observe, OnMain
<1>6. QED
  BY <1>1, <1>2, <1>4, <1>5

(* The prune deletes what is beyond the window. *)
LEMMA PruneAdvances ==
  ASSUME RefsType, UNCHANGED main, NEW doomed, \A r \in doomed : BeyondKept(r), refs' = Without(doomed)
  PROVE  RefsType' /\ RefsAdvance /\ DOMAIN refs' \subseteq DOMAIN refs
<1>1. DOMAIN refs' = DOMAIN refs \ doomed /\ \A r \in DOMAIN refs' : refs'[r] = refs[r]
  BY DEF Without
<1>2. IsFiniteSet(DOMAIN refs')
  BY <1>1, FS_Subset DEF RefsType
<1>3. RefsType'
  BY <1>1, <1>2 DEF RefsType, Tip
<1>4. RefsAdvance
  BY <1>1 DEF RefsAdvance, BeyondKept, IsBuildTag
<1>5. QED
  BY <1>1, <1>3, <1>4

(* What a consumer reaches stays within reach, whatever the step. *)
LEMMA ReachStays ==
  ASSUME MainType, branch \subseteq BranchHead, [Next]_vars, RefsType, RefsType', RefsAdvance
  PROVE  /\ \A n : OnMain(n) => OnMain(n)'
         /\ \A r \in Ref, n \in Nat : r[1] \in {"latest", "major"} /\ Reaches(r, n) => Reaches(r, n)'
         /\ \A r \in Ref : r[1] = "version" => \A c \in Packages(r) : c \in Packages(r)'
<1>1. \A n : OnMain(n) => OnMain(n)'
  BY MainKept DEF OnMain
<1>2. ASSUME NEW r \in Ref, NEW n \in Nat, r[1] \in {"latest", "major"}, Reaches(r, n)
      PROVE  Reaches(r, n)'
  <2>1. r \in DOMAIN refs /\ refs[r].built /\ OnMain(refs[r].source) /\ refs[r].source >= n
    BY <1>2, PackagesAre DEF Reaches
  <2>2. r \in DOMAIN refs' /\ refs[r].source \in Nat /\ refs'[r].source \in Nat
    BY <1>2, <2>1 DEF RefsAdvance, IsBuildTag, RefsType, Packaged
  <2>3. PICK c : c = refs'[r]
    OBVIOUS
  <2>4. c.built /\ OnMain(c.source) /\ c.source >= n
    <3>1. c = refs[r] \/ (c.built /\ OnMain(c.source) /\ refs[r].source < c.source)
      BY <1>2, <2>1, <2>3 DEF RefsAdvance
    <3>2. c.source \in Nat
      BY <2>2, <2>3
    <3>3. QED
      BY <2>1, <2>2, <3>1, <3>2
  <2>5. c \in Packages(r)'
    BY <1>1, <2>2, <2>3, <2>4 DEF Packages, Observe
  <2>6. QED
    BY <2>4, <2>5 DEF Reaches
<1>3. ASSUME NEW r \in Ref, r[1] = "version", NEW c \in Packages(r)
      PROVE  c \in Packages(r)'
  <2>1. r \in DOMAIN refs /\ c = refs[r] /\ c.built /\ OnMain(c.source)
    BY PackagesAre
  <2>2. r \in DOMAIN refs' /\ refs'[r] = c /\ OnMain(c.source)'
    BY <1>1, <1>3, <2>1 DEF RefsAdvance, IsBuildTag
  <2>3. QED
    BY <2>1, <2>2 DEF Packages, Observe, OnMain
<1>4. QED
  BY <1>1, <1>2, <1>3

-----------------------------------------------------------------------------
(* The jobs. *)

(* What is left as it is. *)
LEMMA RefsRest ==
  ASSUME TagInv, UNCHANGED <<main, refs, made>>
  PROVE  RefsType' /\ RefsAdvance /\ TagsWereMade'
  BY DEF TagInv, TagType, RefsType, RefsAdvance, TagsWereMade, Tip, IsBuildTag

(* What a job knows stays true whatever the others do. *)
LEMMA SoundStays ==
  ASSUME MainType, branch \subseteq BranchHead, [Next]_vars, TagType, RefsType', RefsAdvance,
         made' = made \/ (\E n \in Nat : made' = made \cup {n}), NEW s \in Job, JobSound(s)
  PROVE  JobSound(s)'
<1>1. /\ \A n : OnMain(n) => OnMain(n)' /\ main'[n] = main[n] /\ n \in Nat /\ main[n].major \in Nat
      /\ \A n \in Nat : OnMain(n)' /\ n <= Tip => OnMain(n)
      /\ Tip \in Nat /\ Tip' \in Nat /\ Tip <= Tip'
  <2>1. \A n \in DOMAIN main : n \in Nat /\ main[n] \in Commit
    BY MainKept DEF MainType
  <2>2. \A n : OnMain(n) => main[n].major \in Nat
    BY <2>1 DEF OnMain, Commit
  <2>3. QED
    BY <2>1, <2>2, MainKept DEF OnMain
<1>2. s.source \in Nat /\ s.ref \in Ref /\ \A c \in s.seen : c \in Packaged /\ c.source \in Nat
  BY DEF Job, Packaged
<1>3. OwnPackage(s)'
  BY <1>1 DEF JobSound, OwnPackage, IsPackageOf
<1>4. s.pc \in OnPointer => OnMain(s.source) /\ s.ref[1] \in {"latest", "major"}
  <2>1. s.pc \in OnPointer => OnMain(s.source)
    BY DEF JobSound, OwnPackage, OnPointer
  <2>2. s.pc \in OnPointer => s.ref = Latest \/ \E m \in Nat : s.ref = Major(m)
    BY <1>1, <2>1 DEF JobSound, OwnRef
  <2>3. QED
    BY <2>1, <2>2, RefNames
<1>5. OwnRef(s)'
  <2>1. \A r : BeyondKept(r) => BeyondKept(r)'
    BY BeyondKeptStays
  <2>2. s.pc \in OnPointer => s.ref = Latest \/ (s.kind = "release" /\ s.ref = Major(main'[s.source].major))
    BY <1>1, <1>4 DEF JobSound, OwnRef
  <2>3. \A c \in s.seen : s.seen = {c} /\ c.source <= Tip'
    BY <1>1, <1>2 DEF JobSound, OwnRef
  <2>4. QED
    BY <2>1, <2>2, <2>3 DEF JobSound, OwnRef, Latest, Major, BuildTag, VersionTag
<1>6. Judged(s)'
  <2>1. \A c \in s.seen : OnMain(c.source)' => OnMain(c.source)
    BY <1>1, <1>2 DEF JobSound, OwnRef
  <2>2. \A n \in Nat : s.pc = "judge" /\ Reaches(s.ref, n) => Reaches(s.ref, n)'
    BY <1>2, <1>4, ReachStays DEF TagType, OnPointer
  <2>3. QED
    BY <1>2, <2>1, <2>2 DEF JobSound, Judged
<1>7. LeftBehind(s)'
  <2>1. PastLatest(s)' => Reaches(Latest, s.source)'
    <3>1. PastLatest(s)' <=> PastLatest(s)
      BY DEF PastLatest, Latest
    <3>2. QED
      BY <1>2, <3>1, ReachStays, RefNames DEF TagType, JobSound, LeftBehind
  <2>2. PastVersion(s)' => \E c \in Packages(VersionTag(s.source))' : c.source = s.source
    <3>1. PastVersion(s)' <=> PastVersion(s)
      BY DEF PastVersion, Latest
    <3>2. \A c \in Packages(VersionTag(s.source)) : c \in Packages(VersionTag(s.source))'
      BY <1>2, ReachStays, RefNames DEF TagType
    <3>3. QED
      BY <3>1, <3>2 DEF JobSound, LeftBehind
  <2>3. s.kind = "release" /\ s.pc = "done" => Reaches(Major(main[s.source].major), s.source)'
    <3> DEFINE r == Major(main[s.source].major)
    <3>1. ASSUME s.kind = "release", s.pc = "done" PROVE Reaches(r, s.source)'
      <4>1. OnMain(s.source)
        BY <3>1 DEF JobSound, OwnPackage
      <4>2. PICK m \in Nat : m = main[s.source].major /\ m = main'[s.source].major
        BY <1>1, <4>1
      <4>3. Reaches(Major(m), s.source)
        BY <3>1, <4>2 DEF JobSound, LeftBehind
      <4>4. Reaches(Major(m), s.source)'
        BY <1>2, <4>3, ReachStays, RefNames DEF TagType
      <4>5. QED
        BY <4>2, <4>4 DEF Major
    <3>2. QED
      BY <3>1
  <2>4. QED
    BY <2>1, <2>2, <2>3 DEF LeftBehind
<1>8. QED
  BY <1>3, <1>5, <1>6, <1>7 DEF JobSound

(* A job's step keeps the invariant when its new state is as sound as the others'. *)
LEMMA JobWrites ==
  ASSUME MainType, branch \subseteq BranchHead, [Next]_vars, TagInv, RefsType', RefsAdvance, TagsWereMade',
         made' = made \/ (\E n \in Nat : made' = made \cup {n}), faults' \in Nat,
         NEW j \in DOMAIN job, NEW t \in Job, Update(j, t), JobSound(t)'
  PROVE  TagInv'
<1>1. /\ DOMAIN job' = DOMAIN job /\ job'[j] = t
      /\ \A k \in DOMAIN job : k # j => job'[k] = job[k]
      /\ job' \in [DOMAIN job' -> Job]
  BY DEF Update, TagInv, TagType
<1>2. TagType'
  BY <1>1, BeyondKeptStays DEF TagInv, TagType
<1>3. ASSUME NEW k \in DOMAIN job' PROVE JobSound(job[k])'
  <2>1. PICK s \in Job : s = job'[k] /\ JobSound(s)'
    <3>1. CASE k = j
      BY <1>1, <3>1
    <3>2. CASE k # j
      <4>1. PICK s \in Job : s = job[k] /\ JobSound(s)
        BY <1>1 DEF TagInv, TagType
      <4>2. JobSound(s)'
        BY <4>1, SoundStays DEF TagInv
      <4>3. QED
        BY <1>1, <3>2, <4>1, <4>2
    <3>3. QED
      BY <3>1, <3>2
  <2>2. QED
    BY <2>1 DEF JobSound, OwnPackage, OwnRef, Judged, LeftBehind, PastLatest, PastVersion
<1>4. QED
  BY <1>2, <1>3 DEF TagInv

(* The same for a step that leaves the refs alone. *)
LEMMA JobMoves ==
  ASSUME MainType, branch \subseteq BranchHead, [Next]_vars, TagInv, UNCHANGED <<main, refs, made>>, faults' \in Nat,
         NEW j \in DOMAIN job, NEW t \in Job, Update(j, t), JobSound(t)
  PROVE  TagInv' /\ RefsAdvance
<1>1. RefsType' /\ RefsAdvance /\ TagsWereMade'
  BY RefsRest
<1>2. JobSound(t)'
  BY <1>1, SoundStays DEF TagInv
<1>3. QED
  BY <1>1, <1>2, JobWrites

(* A job that ends badly or starts over owes nothing. *)
LEMMA FreshJobs ==
  ASSUME NEW s \in Job, NEW pc \in {"waiting", "failed", "done"}
  PROVE  LET t == Begins(s, pc) IN
         /\ t \in Job /\ t.pc = pc /\ t.kind = s.kind /\ t.source = s.source
         /\ t.seen = {} /\ t.doomed = {} /\ t.ref = Latest
         /\ pc # "done" => JobSound(t)
<1> DEFINE t == Begins(s, pc)
<1>1. Latest \in Ref
  BY RefNames
<1>2. t \in Job /\ t.pc = pc /\ t.kind = s.kind /\ t.source = s.source /\ t.seen = {} /\ t.doomed = {} /\ t.ref = Latest
  BY <1>1 DEF Begins, Job
<1> HIDE DEF t
<1>3. pc # "done" => JobSound(t)
  BY <1>2 DEF JobSound, OwnPackage, OwnRef, Judged, LeftBehind, PastLatest, PastVersion, OnTag, OnPointer, Sealed
<1>4. QED
  BY <1>2, <1>3 DEF t

(* A job that goes on keeps what is its own. *)
LEMMA GoingOn ==
  ASSUME TagInv, NEW j \in DOMAIN job
  PROVE  /\ job[j] \in Job /\ JobSound(job[j])
         /\ job[j].source \in Nat /\ job[j].tries \in Nat /\ job[j].outer \in Nat
         /\ \A pc \in OnTag \cup Sealed \cup {"waiting", "done", "failed"} :
              LET t == Goes(j, pc) IN
              /\ t \in Job /\ t.pc = pc /\ t.kind = job[j].kind /\ t.source = job[j].source /\ t.ref = job[j].ref
              /\ t.seen = job[j].seen /\ t.mine = job[j].mine /\ t.doomed = job[j].doomed
              /\ t.tries = job[j].tries /\ t.outer = job[j].outer
<1>1. job[j] \in Job
  BY DEF TagInv, TagType
<1>2. QED
  BY <1>1 DEF TagInv, Job, Goes

(* The ref changed, or a create was refused: what a job knows when it reads again. *)
LEMMA ReadingAgain ==
  ASSUME TagInv, NEW j \in DOMAIN job,
         NEW pc \in {"observe", "point"},
         pc = "observe" => job[j].pc \in OnTag,
         pc = "point" => job[j].pc \in OnPointer
  PROVE  ReadAgain(j, pc) \in Job /\ JobSound(ReadAgain(j, pc))
<1> DEFINE s == job[j]
           g == Goes(j, pc)
           t == [g EXCEPT !.tries = @ + 1, !.seen = {}]
<1>1. /\ s \in Job /\ JobSound(s)
      /\ g \in Job /\ g.pc = pc /\ g.kind = s.kind /\ g.source = s.source /\ g.ref = s.ref
      /\ g.mine = s.mine /\ g.doomed = s.doomed
  BY GoingOn DEF OnTag, OnPointer, Sealed
<1> HIDE DEF s, g
<1>2. /\ t \in Job /\ t.pc = pc /\ t.kind = s.kind /\ t.source = s.source /\ t.ref = s.ref
      /\ t.mine = s.mine /\ t.doomed = s.doomed /\ t.seen = {}
  <2>1. \A f \in Job, n \in Nat :
          LET h == [f EXCEPT !.tries = n, !.seen = {}]
          IN  /\ h \in Job /\ h.pc = f.pc /\ h.kind = f.kind /\ h.source = f.source /\ h.ref = f.ref
              /\ h.mine = f.mine /\ h.doomed = f.doomed /\ h.seen = {}
    BY DEF Job
  <2>2. g.tries + 1 \in Nat
    BY <1>1 DEF Job
  <2>3. t = [g EXCEPT !.tries = g.tries + 1, !.seen = {}]
    BY <1>1 DEF Job
  <2>4. QED
    BY <1>1, <2>1, <2>2, <2>3
<1> HIDE DEF t
<1>3. JobSound(t)
  <2>1. CASE pc = "observe"
    <3>1. s.pc \in OnTag
      BY <2>1 DEF s
    <3>2. QED
      BY <1>1, <1>2, <2>1, <3>1
         DEF JobSound, OwnPackage, OwnRef, Judged, LeftBehind, PastLatest, PastVersion, OnTag, OnPointer, Sealed
  <2>2. CASE pc = "point"
    <3>1. s.pc \in OnPointer
      BY <2>2 DEF s
    <3>2. OwnPackage(t) /\ OwnRef(t) /\ Judged(t)
      BY <1>1, <1>2, <2>2, <3>1 DEF JobSound, OwnPackage, OwnRef, Judged, OnTag, OnPointer, Sealed
    <3>3. LeftBehind(t)
      BY <1>1, <1>2, <2>2, <3>1 DEF JobSound, LeftBehind, PastLatest, PastVersion, OnPointer
    <3>4. QED
      BY <3>2, <3>3 DEF JobSound
  <2>3. QED
    BY <2>1, <2>2
<1>4. Ends(j, "failed") \in Job /\ JobSound(Ends(j, "failed"))
  BY <1>1, FreshJobs DEF Ends, s
<1>5. QED
  BY <1>2, <1>3, <1>4 DEF ReadAgain, t, g

(* The job's package is settled: back to the version tag, or on to the prune. *)
LEMMA EnsuredIs ==
  ASSUME TagInv, NEW j \in DOMAIN job, job[j].pc \in OnTag, NEW commit \in Packaged, IsPackageOf(commit, job[j].source)
  PROVE  Ensured(j, commit) \in Job /\ JobSound(Ensured(j, commit))
<1> DEFINE s == job[j]
           c == Goes(j, "create")
           l == Goes(j, "list")
           t == [c EXCEPT !.ref = VersionTag(s.source), !.tries = s.outer, !.outer = 1, !.mine = {commit}, !.seen = {}]
           u == [l EXCEPT !.tries = 1, !.mine = {commit}, !.seen = {}]
<1>1. /\ s \in Job /\ JobSound(s) /\ s.outer \in Nat /\ VersionTag(s.source) \in Ref
      /\ c \in Job /\ c.pc = "create" /\ c.kind = s.kind /\ c.source = s.source /\ c.doomed = s.doomed
      /\ l \in Job /\ l.pc = "list" /\ l.kind = s.kind /\ l.source = s.source /\ l.doomed = s.doomed
  BY GoingOn, RefNames DEF OnTag, OnPointer, Sealed
<1>2. OnMain(s.source)
  BY <1>1 DEF JobSound, OwnPackage, OnTag, s
<1> HIDE DEF s, c, l
<1>3. /\ t \in Job /\ t.pc = "create" /\ t.kind = s.kind /\ t.source = s.source /\ t.doomed = s.doomed
      /\ t.ref = VersionTag(s.source) /\ t.mine = {commit} /\ t.seen = {}
      /\ u \in Job /\ u.pc = "list" /\ u.kind = s.kind /\ u.source = s.source /\ u.doomed = s.doomed
      /\ u.mine = {commit} /\ u.seen = {}
  BY <1>1 DEF Job
<1> HIDE DEF t, u
<1>4. IsPackageOf(commit, s.source)
  BY DEF s
<1>5. s.kind = "release" => JobSound(t)
  BY <1>1, <1>2, <1>3, <1>4
     DEF JobSound, OwnPackage, OwnRef, Judged, LeftBehind, PastLatest, PastVersion, OnTag, OnPointer, Sealed
<1>6. JobSound(u)
  BY <1>1, <1>2, <1>3, <1>4
     DEF JobSound, OwnPackage, OwnRef, Judged, LeftBehind, PastLatest, PastVersion, OnTag, OnPointer, Sealed
<1>7. QED
  BY <1>3, <1>5, <1>6 DEF Ensured, t, u, s, c, l

-----------------------------------------------------------------------------
(* The steps of a job. *)

(* ls-remote finds nothing or one commit, no newer than main. *)
LEMMA Observed ==
  ASSUME RefsType, NEW r
  PROVE  /\ Observe(r) \subseteq Packaged
         /\ \A c \in Observe(r) : Observe(r) = {c} /\ c.source <= Tip /\ c = refs[r] /\ r \in DOMAIN refs
  BY DEF Observe, RefsType

(* The start of a job, and what it finds under its tag. *)
LEMMA TagIsLookedUp ==
  ASSUME MainType, branch \subseteq BranchHead, [Next]_vars, TagInv, UNCHANGED main,
         NEW j \in DOMAIN job, StartJob(j) \/ ObserveTag(j)
  PROVE  TagInv' /\ RefsAdvance
<1> DEFINE s == job[j]
           o == Goes(j, "observe")
<1>1. /\ s \in Job /\ JobSound(s) /\ s.source \in Nat /\ s.tries \in Nat /\ j \in Nat
      /\ o \in Job /\ o.pc = "observe" /\ o.kind = s.kind /\ o.source = s.source
      /\ o.seen = s.seen /\ o.doomed = s.doomed /\ o.ref = s.ref
  BY GoingOn DEF OnTag, TagInv, TagType
<1>2. VersionTag(s.source) \in Ref /\ BuildTag(s.source) \in Ref
  BY <1>1, RefNames
<1>3. /\ UNCHANGED <<main, refs, made>> /\ faults' \in Nat
      /\ s.kind \in {"build", "release"}
  BY <1>1 DEF StartJob, ObserveTag, TagInv, TagType, Job
<1>4. CASE StartJob(j)
  <2> DEFINE t == [o EXCEPT !.ref = IF s.kind = "build" THEN BuildTag(s.source) ELSE VersionTag(s.source)]
  <2>1. Update(j, t) /\ OnMain(s.source)
    BY <1>4 DEF StartJob
  <2> HIDE DEF s, o
  <2>2. /\ t \in Job /\ t.pc = "observe" /\ t.kind = s.kind /\ t.source = s.source /\ t.seen = s.seen /\ t.doomed = s.doomed
        /\ t.ref = IF s.kind = "build" THEN BuildTag(s.source) ELSE VersionTag(s.source)
    BY <1>1, <1>2 DEF Job
  <2> HIDE DEF t
  <2>3. JobSound(t)
    BY <1>1, <1>3, <2>1, <2>2
       DEF JobSound, OwnPackage, OwnRef, Judged, LeftBehind, PastLatest, PastVersion, OnTag, OnPointer, Sealed
  <2>4. QED
    BY <1>3, <2>1, <2>2, <2>3, JobMoves
<1>5. CASE ObserveTag(j)
  <2> DEFINE seen == Observe(s.ref)
             f == Goes(j, "fetch")
             c == Goes(j, "create")
             t == [f EXCEPT !.seen = seen]
             u == [c EXCEPT !.mine = {Mint(j)}]
             v == [o EXCEPT !.ref = BuildTag(s.source), !.outer = s.tries, !.tries = 1]
  <2>1. s.pc = "observe"
    BY <1>5 DEF ObserveTag, At
  <2>2. /\ seen # {} => Update(j, t)
        /\ seen = {} /\ IsBuildTag(s.ref) => Update(j, u)
        /\ seen = {} /\ ~IsBuildTag(s.ref) => Update(j, v)
    BY <1>5 DEF ObserveTag
  <2>3. /\ f \in Job /\ f.pc = "fetch" /\ f.kind = s.kind /\ f.source = s.source /\ f.ref = s.ref /\ f.doomed = s.doomed
        /\ c \in Job /\ c.pc = "create" /\ c.kind = s.kind /\ c.source = s.source /\ c.ref = s.ref
        /\ c.doomed = s.doomed /\ c.seen = s.seen
    BY GoingOn DEF OnTag
  <2>4. seen \subseteq Packaged /\ \A x \in seen : seen = {x} /\ x.source <= Tip
    BY Observed DEF TagInv, TagType
  <2>5. Mint(j) \in Packaged /\ IsPackageOf(Mint(j), s.source)
    BY <1>1 DEF Mint, Packaged, IsPackageOf
  <2>6. OnMain(s.source)
    BY <1>1, <2>1 DEF JobSound, OwnPackage
  <2> HIDE DEF s, o, f, c, seen
  <2>7. CASE seen # {}
    <3>1. /\ t \in Job /\ t.pc = "fetch" /\ t.kind = s.kind /\ t.source = s.source /\ t.ref = s.ref
          /\ t.doomed = s.doomed /\ t.seen = seen
      BY <2>3, <2>4 DEF Job
    <3> HIDE DEF t
    <3>2. JobSound(t)
      BY <1>1, <2>1, <2>4, <2>6, <2>7, <3>1
         DEF JobSound, OwnPackage, OwnRef, Judged, LeftBehind, PastLatest, PastVersion, OnTag, OnPointer, Sealed
    <3>3. QED
      BY <1>3, <2>2, <2>7, <3>1, <3>2, JobMoves
  <2>8. CASE seen = {} /\ IsBuildTag(s.ref)
    <3>1. /\ u \in Job /\ u.pc = "create" /\ u.kind = s.kind /\ u.source = s.source /\ u.ref = s.ref
          /\ u.doomed = s.doomed /\ u.seen = s.seen /\ u.mine = {Mint(j)}
      BY <2>3, <2>5 DEF Job
    <3> HIDE DEF u
    <3>2. JobSound(u)
      BY <1>1, <2>1, <2>5, <2>6, <3>1
         DEF JobSound, OwnPackage, OwnRef, Judged, LeftBehind, PastLatest, PastVersion, OnTag, OnPointer, Sealed
    <3>3. QED
      BY <1>3, <2>2, <2>8, <3>1, <3>2, JobMoves
  <2>9. CASE seen = {} /\ ~IsBuildTag(s.ref)
    <3>1. /\ v \in Job /\ v.pc = "observe" /\ v.kind = s.kind /\ v.source = s.source /\ v.ref = BuildTag(s.source)
          /\ v.doomed = s.doomed /\ v.seen = s.seen
      BY <1>1, <1>2 DEF Job
    <3> HIDE DEF v
    <3>2. JobSound(v)
      BY <1>1, <2>1, <2>6, <3>1
         DEF JobSound, OwnPackage, OwnRef, Judged, LeftBehind, PastLatest, PastVersion, OnTag, OnPointer, Sealed
    <3>3. QED
      BY <1>3, <2>2, <2>9, <3>1, <3>2, JobMoves
  <2>10. QED
    BY <2>7, <2>8, <2>9
<1>6. QED
  BY <1>4, <1>5

(* A tag is fetched and verified. *)
LEMMA TagIsVerified ==
  ASSUME MainType, branch \subseteq BranchHead, [Next]_vars, TagInv, UNCHANGED main, NEW j \in DOMAIN job, FetchTag(j)
  PROVE  TagInv' /\ RefsAdvance
<1> DEFINE s == job[j]
<1>1. s \in Job /\ JobSound(s) /\ s.pc = "fetch"
  BY GoingOn DEF FetchTag, At
<1>2. UNCHANGED <<main, refs, made>> /\ faults' \in Nat
  BY DEF FetchTag, TagInv, TagType
<1>3. s.pc \in OnTag
  BY <1>1 DEF OnTag
<1>4. PICK c \in s.seen : s.seen = {c} /\ c \in Packaged
  BY <1>1 DEF JobSound, OwnRef, Job
<1>5. The(s.seen) = c
  BY <1>4 DEF The
<1>6. ReadAgain(j, "observe") \in Job /\ JobSound(ReadAgain(j, "observe"))
  BY <1>3, ReadingAgain
<1>7. Ends(j, "failed") \in Job /\ JobSound(Ends(j, "failed"))
  BY <1>1, FreshJobs DEF Ends
<1>8. IsPackageOf(c, s.source) => Ensured(j, c) \in Job /\ JobSound(Ensured(j, c))
  BY <1>3, <1>4, EnsuredIs
<1>9. \/ Update(j, ReadAgain(j, "observe"))
      \/ IsPackageOf(c, s.source) /\ Update(j, Ensured(j, c))
      \/ Update(j, Ends(j, "failed"))
  BY <1>5 DEF FetchTag
<1>10. QED
  BY <1>2, <1>6, <1>7, <1>8, <1>9, JobMoves

(* What a created tag is. *)
LEMMA TagIsCreated ==
  ASSUME MainType, TagInv, UNCHANGED main, NEW j \in DOMAIN job, At(j, "create"), ~Refused(j),
         refs' = With(job[j].ref, The(job[j].mine)), Note(j)
  PROVE  /\ RefsType' /\ RefsAdvance /\ TagsWereMade'
         /\ made' = made \/ \E n \in Nat : made' = made \cup {n}
         /\ The(job[j].mine) \in Packaged /\ IsPackageOf(The(job[j].mine), job[j].source)
<1> DEFINE s == job[j]
<1>1. s \in Job /\ JobSound(s) /\ s.pc = "create" /\ s.source \in Nat /\ s.ref \in Ref
  BY GoingOn DEF At, Job
<1>2. PICK c \in s.mine : s.mine = {c} /\ IsPackageOf(c, s.source) /\ c \in Packaged
  BY <1>1 DEF JobSound, OwnPackage, Sealed, Job
<1>3. The(s.mine) = c
  BY <1>2 DEF The
<1>4. OnMain(s.source) /\ s.source <= Tip
  BY <1>1 DEF JobSound, OwnPackage, OnMain, MainType, Tip
<1>5. c.built /\ c.source = s.source
  BY <1>2 DEF IsPackageOf
<1>6. RefsType' /\ RefsAdvance /\ DOMAIN refs' = DOMAIN refs \cup {s.ref}
  BY <1>1, <1>2, <1>3, <1>4, <1>5, PushAdvances DEF Refused, TagInv, TagType
<1>7. made' = IF IsBuildTag(s.ref) THEN made \cup {s.source} ELSE made
  BY DEF Note
<1>8. IsBuildTag(s.ref) => s.ref[2] = s.source
  BY <1>1, RefNames DEF JobSound, OwnRef, OnTag, IsBuildTag
<1>9. TagsWereMade'
  BY <1>6, <1>7, <1>8 DEF TagInv, TagsWereMade, IsBuildTag
<1>10. QED
  BY <1>1, <1>2, <1>3, <1>6, <1>7, <1>9

(* The push that creates a tag: refused, made, or made and not answered. *)
LEMMA TagIsPushed ==
  ASSUME MainType, branch \subseteq BranchHead, [Next]_vars, TagInv, UNCHANGED main, NEW j \in DOMAIN job,
         CreateTag(j) \/ CreateAnswerLost(j)
  PROVE  TagInv' /\ RefsAdvance
<1> DEFINE commit == The(job[j].mine)
           r == ReadAgain(j, "observe")
           e == Ensured(j, commit)
<1>1. At(j, "create") /\ job[j].pc \in OnTag
  BY DEF CreateTag, CreateAnswerLost, At, OnTag
<1>2. r \in Job /\ JobSound(r)
  BY <1>1, ReadingAgain
<1>3. faults' \in Nat
  BY DEF CreateTag, CreateAnswerLost, TagFault, TagInv, TagType
<1>4. CASE Refused(j)
  <2>1. Update(j, r) /\ UNCHANGED <<refs, made>>
    BY <1>4 DEF CreateTag, CreateAnswerLost
  <2>2. QED
    BY <1>2, <1>3, <2>1, JobMoves
<1>5. CASE ~Refused(j)
  <2>1. refs' = With(job[j].ref, commit) /\ Note(j) /\ (Update(j, r) \/ Update(j, e))
    BY <1>5 DEF CreateTag, CreateAnswerLost
  <2>2. /\ RefsType' /\ RefsAdvance /\ TagsWereMade'
        /\ made' = made \/ \E n \in Nat : made' = made \cup {n}
        /\ commit \in Packaged /\ IsPackageOf(commit, job[j].source)
    BY <1>1, <1>5, <2>1, TagIsCreated
  <2>3. e \in Job /\ JobSound(e)
    BY <1>1, <2>2, EnsuredIs
  <2>4. PICK t \in Job : Update(j, t) /\ JobSound(t)
    BY <1>2, <2>1, <2>3
  <2>5. JobSound(t)'
    BY <2>2, <2>4, SoundStays DEF TagInv
  <2>6. QED
    BY <1>3, <2>2, <2>4, <2>5, JobWrites
<1>6. QED
  BY <1>4, <1>5

(* The prune: what is listed is beyond the window, and what was listed goes. *)
LEMMA TagsArePruned ==
  ASSUME MainType, branch \subseteq BranchHead, [Next]_vars, TagInv, UNCHANGED main, NEW j \in DOMAIN job,
         ListBuildTags(j) \/ PruneBuildTags(j) \/ PruneAnswerLost(j)
  PROVE  TagInv' /\ RefsAdvance
<1> DEFINE s == job[j]
           p == Goes(j, "point")
           d == Goes(j, "delete")
<1>1. /\ s \in Job /\ JobSound(s) /\ Latest \in Ref
      /\ p \in Job /\ p.pc = "point" /\ p.kind = s.kind /\ p.source = s.source /\ p.ref = s.ref
      /\ p.seen = s.seen /\ p.mine = s.mine /\ p.doomed = s.doomed
      /\ d \in Job /\ d.pc = "delete" /\ d.kind = s.kind /\ d.source = s.source
      /\ d.seen = s.seen /\ d.mine = s.mine
  BY GoingOn, RefNames DEF OnPointer, Sealed
<1>2. faults' \in Nat /\ UNCHANGED <<main, made>>
  BY DEF ListBuildTags, PruneBuildTags, PruneAnswerLost, TagFault, TagInv, TagType
<1>3. CASE ListBuildTags(j)
  <2> DEFINE doomed == BeyondWindow({r \in DOMAIN refs : IsBuildTag(r)})
             t == [p EXCEPT !.doomed = doomed, !.ref = Latest]
             u == [d EXCEPT !.doomed = doomed, !.ref = Latest]
  <2>1. s.pc = "list" /\ (Update(j, t) \/ Update(j, u)) /\ UNCHANGED <<refs, made>>
    BY <1>3 DEF ListBuildTags, At
  <2>2. \A r \in doomed : r \in Ref /\ BeyondKept(r)
    BY WindowCounts DEF TagInv
  <2> HIDE DEF s, p, d, doomed
  <2>3. /\ t \in Job /\ t.pc = "point" /\ t.kind = s.kind /\ t.source = s.source /\ t.seen = s.seen /\ t.mine = s.mine
        /\ t.doomed = doomed /\ t.ref = Latest
        /\ u \in Job /\ u.pc = "delete" /\ u.kind = s.kind /\ u.source = s.source /\ u.seen = s.seen /\ u.mine = s.mine
        /\ u.doomed = doomed /\ u.ref = Latest
    BY <1>1, <2>2 DEF Job
  <2> HIDE DEF t, u
  <2>4. JobSound(t) /\ JobSound(u)
    BY <1>1, <2>1, <2>2, <2>3
       DEF JobSound, OwnPackage, OwnRef, Judged, LeftBehind, PastLatest, PastVersion, OnTag, OnPointer, Sealed
  <2>5. QED
    BY <1>2, <2>1, <2>3, <2>4, JobMoves
<1>4. CASE PruneBuildTags(j) \/ PruneAnswerLost(j)
  <2> DEFINE t == [p EXCEPT !.doomed = {}]
             e == Ends(j, "failed")
  <2>1. s.pc = "delete" /\ (Update(j, t) \/ Update(j, e)) /\ refs' = Without(s.doomed)
    BY <1>4 DEF PruneBuildTags, PruneAnswerLost, At
  <2>2. \A r \in s.doomed : BeyondKept(r)
    BY <1>1 DEF JobSound, OwnRef
  <2>3. RefsType' /\ RefsAdvance /\ DOMAIN refs' \subseteq DOMAIN refs
    BY <1>2, <2>1, <2>2, PruneAdvances DEF TagInv, TagType
  <2>4. TagsWereMade'
    BY <1>2, <2>3 DEF TagInv, TagsWereMade, IsBuildTag
  <2>5. e \in Job /\ JobSound(e)
    BY <1>1, FreshJobs DEF Ends
  <2> HIDE DEF s, p, e
  <2>6. /\ t \in Job /\ t.pc = "point" /\ t.kind = s.kind /\ t.source = s.source /\ t.seen = s.seen /\ t.mine = s.mine
        /\ t.doomed = {} /\ t.ref = s.ref
    BY <1>1 DEF Job
  <2> HIDE DEF t
  <2>7. JobSound(t)
    BY <1>1, <2>1, <2>6
       DEF JobSound, OwnPackage, OwnRef, Judged, LeftBehind, PastLatest, PastVersion, OnTag, OnPointer, Sealed
  <2>8. PICK x \in Job : Update(j, x) /\ JobSound(x)
    BY <2>1, <2>5, <2>6, <2>7
  <2>9. JobSound(x)'
    BY <1>2, <2>3, <2>8, SoundStays DEF TagInv
  <2>10. QED
    BY <1>2, <2>3, <2>4, <2>8, <2>9, JobWrites
<1>5. QED
  BY <1>3, <1>4

(* A pointer that is at a job's package or past it: on to the major, or done. *)
LEMMA PointedIs ==
  ASSUME MainType, branch \subseteq BranchHead, [Next]_vars, TagInv, UNCHANGED <<main, made>>, RefsType', RefsAdvance,
         NEW j \in DOMAIN job, job[j].pc \in OnPointer, NEW r, NEW n, r = job[j].ref, n = job[j].source, Reaches(r, n)'
  PROVE  \E t \in Job : t = Pointed(j) /\ JobSound(t)'
<1>1. PICK s \in Job : s = job[j] /\ JobSound(s)
  BY GoingOn
<1>2. JobSound(s)'
  BY <1>1, SoundStays DEF TagInv
<1>3. s.pc \in OnPointer /\ OnMain(s.source) /\ OnMain(s.source)' /\ s.kind \in {"build", "release"}
      /\ s.ref = r /\ s.source = n
  BY <1>1 DEF JobSound, OwnPackage, OnPointer, OnMain, Job
<1>4. CASE s.kind = "release" /\ r = Latest
  <2>1. PICK t \in Job :
          /\ t.pc = "retag" /\ t.kind = s.kind /\ t.source = s.source /\ t.seen = s.seen /\ t.mine = s.mine
          /\ t.doomed = s.doomed /\ t = Pointed(j)
    BY <1>1, <1>3, <1>4, GoingOn DEF Sealed, Pointed
  <2>2. OwnPackage(t)' /\ OwnRef(t)' /\ Judged(t)'
    BY <1>2, <1>3, <1>4, <2>1 DEF JobSound, OwnPackage, OwnRef, Judged, OnTag, OnPointer, Sealed
  <2>3. LeftBehind(t)'
    BY <1>3, <1>4, <2>1 DEF LeftBehind, PastLatest, PastVersion, OnPointer, Latest, Reaches
  <2>4. QED
    BY <2>1, <2>2, <2>3 DEF JobSound
<1>5. CASE ~(s.kind = "release" /\ r = Latest)
  <2>1. PICK t \in Job :
          /\ t.pc = "done" /\ t.kind = s.kind /\ t.source = s.source /\ t.seen = {} /\ t.doomed = {}
          /\ t = Pointed(j)
    BY <1>1, <1>3, <1>5, FreshJobs DEF Ends, Pointed
  <2>2. OwnPackage(t)' /\ OwnRef(t)' /\ Judged(t)'
    BY <1>3, <2>1 DEF OwnPackage, OwnRef, Judged, OnTag, OnPointer, Sealed
  <2>3. CASE s.kind = "build"
    <3>1. r = Latest
      BY <1>1, <1>3, <2>3 DEF JobSound, OwnRef
    <3>2. QED
      BY <1>3, <2>1, <2>2, <2>3, <3>1 DEF JobSound, LeftBehind, PastLatest, PastVersion, OnPointer, Latest, Reaches
  <2>4. CASE s.kind = "release"
    <3>1. r # Latest /\ r = Major(main[s.source].major)
      BY <1>1, <1>3, <1>5, <2>4 DEF JobSound, OwnRef
    <3>2. /\ Reaches(Latest, s.source)' /\ \E c \in Packages(VersionTag(s.source))' : c.source = s.source
      BY <1>2, <1>3, <2>4, <3>1 DEF JobSound, LeftBehind, PastLatest, PastVersion, Latest
    <3>3. Reaches(Major(main[s.source].major), s.source)'
      BY <1>3, <3>1 DEF Reaches, Packages, Observe, Major
    <3>4. LeftBehind(t)'
      BY <2>1, <3>2, <3>3 DEF LeftBehind
    <3>5. QED
      BY <2>1, <2>2, <3>4 DEF JobSound
  <2>5. QED
    BY <1>3, <2>3, <2>4
<1>6. QED
  BY <1>4, <1>5

(* A pointer is read, and read once more. *)
LEMMA PointerIsRead ==
  ASSUME MainType, branch \subseteq BranchHead, [Next]_vars, TagInv, UNCHANGED main, NEW j \in DOMAIN job,
         ObservePointer(j) \/ FetchPointer(j)
  PROVE  TagInv' /\ RefsAdvance
<1> DEFINE s == job[j]
           g == Goes(j, "judge")
           h == Goes(j, "have")
           seen == Observe(s.ref)
<1>1. /\ s \in Job /\ JobSound(s)
      /\ g \in Job /\ g.pc = "judge" /\ g.kind = s.kind /\ g.source = s.source /\ g.ref = s.ref
      /\ g.seen = s.seen /\ g.mine = s.mine /\ g.doomed = s.doomed
      /\ h \in Job /\ h.pc = "have" /\ h.kind = s.kind /\ h.source = s.source /\ h.ref = s.ref
      /\ h.mine = s.mine /\ h.doomed = s.doomed
  BY GoingOn DEF OnPointer, Sealed
<1>2. faults' \in Nat /\ UNCHANGED <<main, refs, made>>
  BY DEF ObservePointer, FetchPointer, TagInv, TagType
<1>3. seen \subseteq Packaged /\ \A c \in seen : seen = {c} /\ c.source <= Tip
  BY Observed DEF TagInv, TagType
<1>4. CASE ObservePointer(j)
  <2> DEFINE t == [g EXCEPT !.seen = seen]
             u == [h EXCEPT !.seen = seen]
  <2>1. s.pc = "point" /\ ((Update(j, t) /\ seen = {}) \/ Update(j, u))
    BY <1>4 DEF ObservePointer, At
  <2> HIDE DEF s, g, h, seen
  <2>2. /\ t \in Job /\ t.pc = "judge" /\ t.kind = s.kind /\ t.source = s.source /\ t.ref = s.ref
        /\ t.seen = seen /\ t.mine = s.mine /\ t.doomed = s.doomed
        /\ u \in Job /\ u.pc = "have" /\ u.kind = s.kind /\ u.source = s.source /\ u.ref = s.ref
        /\ u.seen = seen /\ u.mine = s.mine /\ u.doomed = s.doomed
    BY <1>1, <1>3 DEF Job
  <2> HIDE DEF t, u
  <2>3. seen = {} => JobSound(t)
    BY <1>1, <2>1, <2>2
       DEF JobSound, OwnPackage, OwnRef, Judged, LeftBehind, PastLatest, PastVersion, OnTag, OnPointer, Sealed
  <2>4. JobSound(u)
    BY <1>1, <1>3, <2>1, <2>2
       DEF JobSound, OwnPackage, OwnRef, Judged, LeftBehind, PastLatest, PastVersion, OnTag, OnPointer, Sealed
  <2>5. QED
    BY <1>2, <2>1, <2>2, <2>3, <2>4, JobMoves
<1>5. CASE FetchPointer(j)
  <2>1. s.pc = "have" /\ ((seen = s.seen /\ Update(j, g)) \/ Update(j, ReadAgain(j, "point")))
    BY <1>5 DEF FetchPointer, At
  <2>2. ReadAgain(j, "point") \in Job /\ JobSound(ReadAgain(j, "point"))
    BY <2>1, ReadingAgain DEF OnPointer
  <2>3. \A c \in seen : c.built /\ OnMain(c.source) => Reaches(s.ref, c.source)
    <3> SUFFICES ASSUME NEW c \in seen, c.built, OnMain(c.source) PROVE Reaches(s.ref, c.source)
      OBVIOUS
    <3>1. c \in Packages(s.ref) /\ c.source \in Nat
      BY <1>3 DEF Packages, Packaged
    <3>2. QED
      BY <3>1 DEF Reaches
  <2> HIDE DEF s, g, seen
  <2>4. seen = s.seen => JobSound(g)
    BY <1>1, <1>3, <2>1, <2>3
       DEF JobSound, OwnPackage, OwnRef, Judged, LeftBehind, PastLatest, PastVersion, OnTag, OnPointer, Sealed
  <2>5. QED
    BY <1>1, <1>2, <2>1, <2>2, <2>4, JobMoves
<1>6. QED
  BY <1>4, <1>5

(* A pointer is judged: left where it is, or about to be moved. *)
LEMMA PointerIsJudged ==
  ASSUME MainType, branch \subseteq BranchHead, [Next]_vars, TagInv, UNCHANGED main, NEW j \in DOMAIN job, JudgePointer(j)
  PROVE  TagInv' /\ RefsAdvance
<1> DEFINE s == job[j]
           g == Goes(j, "push")
<1>1. /\ s \in Job /\ JobSound(s) /\ s.source \in Nat /\ s.pc = "judge" /\ s.pc \in OnPointer
      /\ g \in Job /\ g.pc = "push" /\ g.kind = s.kind /\ g.source = s.source /\ g.ref = s.ref
      /\ g.seen = s.seen /\ g.mine = s.mine /\ g.doomed = s.doomed
  BY GoingOn DEF JudgePointer, At, OnPointer, Sealed
<1>2. faults' \in Nat /\ UNCHANGED <<main, refs, made>>
  BY DEF JudgePointer, TagInv, TagType
<1>3. RefsType' /\ RefsAdvance /\ TagsWereMade'
  BY <1>2, RefsRest
<1>4. CASE ~AlreadyPast(j) /\ Update(j, g)
  <2>1. \A c \in s.seen : c.source \in Nat /\ (OnMain(c.source) => c.source \in 1..Tip)
    BY <1>1, MainKept DEF Job, Packaged, OnMain
  <2>2. \A c \in s.seen : OnMain(c.source) => c.source < s.source
    BY <1>1, <1>4, <2>1 DEF AlreadyPast, IsAncestor, MainHead
  <2> HIDE DEF s, g
  <2>3. JobSound(g)
    BY <1>1, <2>2
       DEF JobSound, OwnPackage, OwnRef, Judged, LeftBehind, PastLatest, PastVersion, OnTag, OnPointer, Sealed
  <2>4. QED
    BY <1>1, <1>2, <1>4, <2>3, JobMoves
<1>5. CASE AlreadyPast(j) /\ LeftAsPackage(j) /\ Update(j, Pointed(j))
  <2>1. PICK c \in s.seen : c.source \in 1..Tip /\ s.source <= c.source
    BY <1>5 DEF AlreadyPast, IsAncestor, MainHead
  <2>2. s.seen = {c} /\ c.built /\ OnMain(c.source)
    <3>1. s.seen = {c}
      BY <1>1 DEF JobSound, OwnRef
    <3>2. OnMain(c.source)
      BY <2>1, MainKept DEF OnMain
    <3>3. QED
      BY <1>5, <3>1, <3>2 DEF LeftAsPackage, The
  <2>3. Reaches(s.ref, c.source)
    BY <1>1, <2>2 DEF JobSound, Judged
  <2>4. Reaches(s.ref, s.source)
    <3>1. PICK d \in Packages(s.ref) : d.source >= c.source
      BY <2>3 DEF Reaches
    <3>2. d.source \in Nat /\ c.source \in Nat
      BY <1>1, <2>2, PackagesAre DEF TagInv, TagType, RefsType, Job, Packaged
    <3>3. d.source >= s.source
      BY <1>1, <2>1, <3>1, <3>2
    <3>4. QED
      BY <3>1, <3>3 DEF Reaches
  <2>5. PICK r, n : r = s.ref /\ n = s.source
    OBVIOUS
  <2>6. Reaches(r, n)'
    BY <1>2, <2>4, <2>5 DEF Reaches, Packages, Observe, OnMain
  <2>7. PICK t \in Job : t = Pointed(j) /\ JobSound(t)'
    BY <1>1, <1>2, <1>3, <2>5, <2>6, PointedIs
  <2>8. QED
    BY <1>2, <1>3, <1>5, <2>7, JobWrites
<1>6. CASE Update(j, Ends(j, "failed"))
  <2>1. Ends(j, "failed") \in Job /\ JobSound(Ends(j, "failed"))
    BY <1>1, FreshJobs DEF Ends
  <2>2. QED
    BY <1>2, <1>6, <2>1, JobMoves
<1>7. QED
  BY <1>4, <1>5, <1>6 DEF JudgePointer

(* The push that moves a pointer: a lost swap, made, or made and not answered. *)
LEMMA PointerIsMoved ==
  ASSUME MainType, branch \subseteq BranchHead, [Next]_vars, TagInv, UNCHANGED main, NEW j \in DOMAIN job,
         PushPointer(j) \/ PushAnswerLost(j)
  PROVE  TagInv' /\ RefsAdvance
<1> DEFINE s == job[j]
           again == ReadAgain(j, "point")
<1>1. s \in Job /\ JobSound(s) /\ s.source \in Nat /\ s.ref \in Ref /\ s.pc = "push" /\ s.pc \in OnPointer
  BY GoingOn DEF PushPointer, PushAnswerLost, At, OnPointer, Job
<1>2. faults' \in Nat /\ UNCHANGED <<main, made>>
  BY DEF PushPointer, PushAnswerLost, TagFault, TagInv, TagType
<1>3. again \in Job /\ JobSound(again)
  BY <1>1, ReadingAgain
<1>4. CASE ~LeaseHolds(j)
  <2>1. Update(j, again) /\ UNCHANGED refs
    BY <1>4 DEF PushPointer, PushAnswerLost
  <2>2. QED
    BY <1>2, <1>3, <2>1, JobMoves
<1>5. CASE LeaseHolds(j)
  <2>1. PICK c \in s.mine : s.mine = {c} /\ c \in Packaged /\ c.built /\ c.source = s.source
    BY <1>1 DEF JobSound, OwnPackage, Sealed, OnPointer, IsPackageOf, Job
  <2>2. refs' = With(s.ref, c) /\ (Update(j, Pointed(j)) \/ Update(j, again))
    BY <1>5, <2>1 DEF PushPointer, PushAnswerLost, The
  <2>3. OnMain(s.source) /\ s.source <= Tip
    BY <1>1 DEF JobSound, OwnPackage, OnMain, MainType, Tip
  <2>4. s.ref[1] \in {"latest", "major"}
    <3>1. main[s.source] \in Commit
      BY <2>3 DEF OnMain, MainType
    <3>2. s.ref = Latest \/ \E m \in Nat : s.ref = Major(m)
      BY <1>1, <3>1 DEF JobSound, OwnRef, Commit
    <3>3. QED
      BY <3>2, RefNames
  <2>5. \A was \in Packages(s.ref) : was.source < c.source
    BY <1>1, <1>5, <2>1 DEF JobSound, Judged, LeaseHolds, Packages
  <2>6. PICK r \in Ref, n \in Nat : r = s.ref /\ n = s.source
    BY <1>1
  <2>7. RefsType' /\ RefsAdvance /\ DOMAIN refs' = DOMAIN refs \cup {r} /\ Packages(r)' = {c}
    <3>1. refs' = With(r, c) /\ OnMain(c.source) /\ c.source <= Tip
      BY <2>1, <2>2, <2>3, <2>6
    <3>2. r[1] \in {"latest", "major"} /\ \A was \in Packages(r) : was.source < c.source
      BY <2>4, <2>5, <2>6
    <3>3. QED
      BY <1>2, <2>1, <3>1, <3>2, PushAdvances DEF TagInv, TagType
  <2>8. TagsWereMade'
    BY <1>2, <2>4, <2>6, <2>7 DEF TagInv, TagsWereMade, IsBuildTag
  <2>9. Reaches(r, n)'
    BY <2>1, <2>6, <2>7 DEF Reaches
  <2>10. RefsType' /\ RefsAdvance /\ TagsWereMade'
    BY <2>7, <2>8
  <2>11. PICK t \in Job : Update(j, t) /\ JobSound(t)'
    <3>1. \E t \in Job : t = Pointed(j) /\ JobSound(t)'
      BY <1>1, <1>2, <2>6, <2>9, <2>10, PointedIs
    <3>2. PICK t \in Job : t = again /\ JobSound(t)
      BY <1>3
    <3>3. JobSound(t)'
      BY <1>2, <2>10, <3>2, SoundStays DEF TagInv
    <3>4. QED
      BY <2>2, <3>1, <3>2, <3>3
  <2>12. QED
    BY <1>2, <2>10, <2>11, JobWrites
<1>6. QED
  BY <1>4, <1>5

(* A release goes on to its major; a runner dies; a job is run again. *)
LEMMA JobTurns ==
  ASSUME MainType, branch \subseteq BranchHead, [Next]_vars, TagInv, UNCHANGED main, NEW j \in DOMAIN job,
         RetagMajor(j) \/ JobDies(j) \/ Rerun(j)
  PROVE  TagInv' /\ RefsAdvance
<1> DEFINE s == job[j]
           p == Goes(j, "point")
<1>1. /\ s \in Job /\ JobSound(s) /\ s.source \in Nat
      /\ p \in Job /\ p.pc = "point" /\ p.kind = s.kind /\ p.source = s.source /\ p.doomed = s.doomed
  BY GoingOn DEF OnPointer, Sealed
<1>2. faults' \in Nat /\ UNCHANGED <<main, refs, made>>
  BY DEF RetagMajor, JobDies, Rerun, TagFault, TagInv, TagType
<1>3. /\ Ends(j, "failed") \in Job /\ JobSound(Ends(j, "failed"))
      /\ Ends(j, "waiting") \in Job /\ JobSound(Ends(j, "waiting"))
  BY <1>1, FreshJobs DEF Ends
<1>4. CASE RetagMajor(j)
  <2> DEFINE tagged == Observe(VersionTag(s.source))
             major == Major(main[s.source].major)
             t == [p EXCEPT !.mine = tagged, !.tries = 1, !.seen = {}, !.ref = major]
  <2>1. /\ s.pc = "retag"
        /\ Update(j, Ends(j, "failed")) \/ (Update(j, t) /\ \E c \in tagged : IsPackageOf(c, s.source))
    BY <1>4 DEF RetagMajor, At
  <2>2. OnMain(s.source) /\ s.kind = "release" /\ Reaches(Latest, s.source)
    BY <1>1, <2>1 DEF JobSound, OwnPackage, OwnRef, LeftBehind, PastLatest
  <2>3. major \in Ref /\ major # Latest
    <3>1. main[s.source] \in Commit
      BY <2>2 DEF OnMain, MainType
    <3>2. QED
      BY <3>1, RefNames DEF Commit
  <2>4. tagged \subseteq Packaged /\ \A c \in tagged : tagged = {c}
    BY Observed DEF TagInv, TagType
  <2>5. (\E c \in tagged : IsPackageOf(c, s.source)) => \E c \in Packages(VersionTag(s.source)) : c.source = s.source
    BY <2>2 DEF Packages, IsPackageOf
  <2> HIDE DEF s, p, tagged
  <2>6. /\ t \in Job /\ t.pc = "point" /\ t.kind = s.kind /\ t.source = s.source /\ t.doomed = s.doomed
        /\ t.mine = tagged /\ t.seen = {} /\ t.ref = major
    BY <1>1, <2>3, <2>4 DEF Job
  <2> HIDE DEF t
  <2>7. (\E c \in tagged : IsPackageOf(c, s.source)) => JobSound(t)
    BY <1>1, <2>1, <2>2, <2>3, <2>4, <2>5, <2>6
       DEF JobSound, OwnPackage, OwnRef, Judged, LeftBehind, PastLatest, PastVersion, OnTag, OnPointer, Sealed
  <2>8. QED
    BY <1>2, <1>3, <2>1, <2>6, <2>7, JobMoves
<1>5. CASE JobDies(j) \/ Rerun(j)
  <2>1. Update(j, Ends(j, "failed")) \/ Update(j, Ends(j, "waiting"))
    BY <1>5 DEF JobDies, Rerun
  <2>2. QED
    BY <1>2, <1>3, <2>1, JobMoves
<1>6. QED
  BY <1>4, <1>5

-----------------------------------------------------------------------------
(* Every pipeline starts with its finished jobs' refs in place. *)
LEMMA RefsStart ==
  ASSUME Init
  PROVE  TagInv
<1>1. PICK c \in Cases : main = c.main /\ refs = c.refs /\ TagInit(c.jobs, c.faults)
  BY DEF Init
<1>2. /\ KnownRefs(c) /\ c.jobs \in Seq(PackagingJob) /\ JobsInPlace(c) /\ c.faults \in Nat /\ c.main \in Seq(Commit)
  BY CasesAssumption
<1>3. RefsType
  BY <1>1, <1>2 DEF KnownRefs, RefsType, Tip
<1>4. \A r \in DOMAIN refs : r[2] \in Nat
  BY <1>3, RefNames DEF RefsType
<1>5. /\ made = {r[2] : r \in {t \in DOMAIN refs : IsBuildTag(t)}}
      /\ job = [j \in DOMAIN c.jobs |-> Begins(c.jobs[j], c.jobs[j].pc)] /\ faults = c.faults
  BY <1>1 DEF TagInit
<1>6. made \subseteq Nat /\ TagsWereMade
  BY <1>4, <1>5 DEF TagsWereMade
<1>7. IsFiniteSet(made)
  <2> DEFINE S == {t \in DOMAIN refs : IsBuildTag(t)}
             f == [t \in S |-> t[2]]
  <2>1. IsFiniteSet(S)
    BY <1>3, FS_Subset DEF RefsType
  <2>2. f \in Surjection(S, made)
    BY <1>5 DEF Surjection
  <2>3. QED
    BY <2>1, <2>2, FS_Surjection DEF ExistsSurjection
<1>8. ASSUME NEW j \in DOMAIN job
      PROVE  j \in Nat /\ job[j] \in Job /\ JobSound(job[j])
  <2>1. j \in DOMAIN c.jobs /\ j \in Nat /\ c.jobs[j] \in PackagingJob
    BY <1>2, <1>5
  <2>2. PICK b : b = c.jobs[j] /\ job[j] = Begins(b, b.pc)
    BY <1>5
  <2>3. b.kind \in {"build", "release"} /\ b.source \in Nat /\ b.pc \in {"waiting", "done"}
    BY <2>1, <2>2 DEF PackagingJob
  <2> DEFINE t == Begins(b, b.pc)
  <2>4. /\ t \in Job /\ t.pc = b.pc /\ t.kind = b.kind /\ t.source = b.source
        /\ t.seen = {} /\ t.doomed = {} /\ t.ref = Latest
    BY <2>3, RefNames DEF Begins, Job
  <2> HIDE DEF t
  <2>5. ASSUME b.pc = "waiting" PROVE JobSound(t)
    BY <2>4, <2>5 DEF JobSound, OwnPackage, OwnRef, Judged, LeftBehind, PastLatest, PastVersion, OnTag, OnPointer, Sealed
  <2>6. ASSUME b.pc = "done" PROVE JobSound(t)
    <3> DEFINE n == b.source
    <3>1. /\ n \in DOMAIN main
          /\ Leaves(c, Latest, n)
          /\ b.kind = "release" =>
               /\ Leaves(c, VersionTag(n), n) /\ c.refs[VersionTag(n)].source = n
               /\ Leaves(c, Major(main[n].major), n)
      BY <1>1, <1>2, <2>1, <2>2, <2>6 DEF JobsInPlace
    <3>2. \A ref : Leaves(c, ref, n) => Reaches(ref, n) /\ refs[ref] \in Packages(ref)
      BY <1>1 DEF Leaves, Reaches, Packages, Observe, OnMain
    <3>3. OwnPackage(t) /\ OwnRef(t) /\ Judged(t)
      BY <2>4, <2>6, <3>1 DEF OwnPackage, OwnRef, Judged, OnTag, OnPointer, Sealed, OnMain
    <3>4. LeftBehind(t)
      BY <1>1, <2>4, <3>1, <3>2 DEF LeftBehind, PastLatest, PastVersion
    <3>5. QED
      BY <3>3, <3>4 DEF JobSound
  <2>7. JobSound(t)
    BY <2>3, <2>5, <2>6
  <2>8. QED
    BY <2>1, <2>2, <2>4, <2>7 DEF t
<1>9. job \in [DOMAIN job -> Job] /\ DOMAIN job \subseteq Nat
  <2>1. job = [j \in DOMAIN job |-> job[j]]
    BY <1>5
  <2>2. QED
    BY <1>8, <2>1
<1>10. QED
  BY <1>2, <1>3, <1>5, <1>6, <1>7, <1>8, <1>9 DEF TagInv, TagType

(* Every step of the pipeline keeps the invariant and takes nothing back. *)
LEMMA TagsKept ==
  ASSUME MainType, branch \subseteq BranchHead, TagInv, [Next]_vars
  PROVE  TagInv' /\ RefsAdvance
<1>1. CASE UNCHANGED tagVars
  <2>1. Tip \in Nat /\ Tip' \in Nat /\ Tip <= Tip'
    BY MainKept
  <2>2. UNCHANGED <<refs, job, made, faults>>
    BY <1>1 DEF tagVars
  <2>3. RefsType'
    BY <2>1, <2>2 DEF TagInv, TagType, RefsType, Packaged
  <2>4. RefsAdvance /\ TagsWereMade'
    BY <2>2 DEF TagInv, RefsAdvance, TagsWereMade, IsBuildTag
  <2>5. TagType'
    BY <2>2, <2>3 DEF TagInv, TagType
  <2>6. ASSUME NEW j \in DOMAIN job' PROVE JobSound(job[j])'
    <3>1. PICK s \in Job : s = job[j] /\ s = job'[j] /\ JobSound(s)
      BY <2>2 DEF TagInv, TagType
    <3>2. JobSound(s)'
      BY <2>2, <2>3, <2>4, <3>1, SoundStays DEF TagInv
    <3>3. QED
      BY <3>1, <3>2 DEF JobSound, OwnPackage, OwnRef, Judged, LeftBehind, PastLatest, PastVersion
  <2>7. QED
    BY <2>4, <2>5, <2>6 DEF TagInv
<1>2. CASE UNCHANGED main /\ \E j \in DOMAIN job : JobStep(j)
  BY <1>2, TagIsLookedUp, TagIsVerified, TagIsPushed, TagsArePruned, PointerIsRead, PointerIsJudged, PointerIsMoved,
     JobTurns DEF JobStep
<1>3. QED
  BY <1>1, <1>2 DEF Next, MainGrows, Packaging, TagNext, Npm, Anchoring, vars

(* What every job knows of the refs, and what it leaves in place. *)
THEOREM TagInvariant == Spec => []TagInv
<1>1. Init => TagInv
  BY RefsStart
<1>2. MainType /\ AnchorInv /\ TagInv /\ [Next]_vars => TagInv'
  BY TagsKept DEF AnchorInv, AnchorType
<1>3. QED
  BY <1>1, <1>2, AnchorInvariant, PTL DEF Spec

(* A job that ends well leaves its commit within a consumer's reach: latest at its
   package or a newer one, and for a release its version tag and its major.  *)
THEOREM DoneIsReachable == Spec => []DoneMeansReachable
<1>1. TagInv => DoneMeansReachable
  BY DEF TagInv, JobSound, LeftBehind, PastLatest, PastVersion, DoneMeansReachable, At
<1>2. QED
  BY <1>1, TagInvariant, PTL

(* No run takes back what a consumer was given: version tags stay, pointers move to
   newer commits only, and a build tag goes once Kept newer commits had theirs. *)
THEOREM NothingIsTakenBack == Spec => RefsOnlyAdvance
<1> DEFINE Forward ==
      \A r \in DOMAIN refs : Observe(r)' # Observe(r) =>
        CASE r[1] = "version" -> FALSE
          [] r[1] = "build" -> Observe(r)' = {} /\ Cardinality({n \in made : n > r[2]}) >= Kept
          [] OTHER -> \A was \in Packages(r) : \E is \in Packages(r)' : is.source > was.source
<1>1. ASSUME MainType, AnchorInv, TagInv, [Next]_vars PROVE Forward
  <2>1. RefsAdvance /\ RefsType'
    BY <1>1, TagsKept DEF AnchorInv, AnchorType, TagInv, TagType
  <2>2. SUFFICES ASSUME NEW r \in DOMAIN refs, Observe(r)' # Observe(r)
                 PROVE  /\ r[1] # "version"
                        /\ r[1] = "build" => Observe(r)' = {} /\ Cardinality({n \in made : n > r[2]}) >= Kept
                        /\ r[1] # "version" /\ r[1] # "build" =>
                             \A was \in Packages(r) : \E is \in Packages(r)' : is.source > was.source
    BY DEF Forward
  <2>3. r \in Ref /\ r[1] \in {"latest", "build", "version", "major"}
    BY <1>1, RefNames DEF TagInv, TagType, RefsType
  <2>4. ~(r \in DOMAIN refs' /\ refs'[r] = refs[r])
    BY <2>2 DEF Observe
  <2>5. r[1] # "version"
    BY <2>1, <2>4 DEF RefsAdvance, IsBuildTag
  <2>6. r[1] = "build" => Observe(r)' = {} /\ Cardinality({n \in made : n > r[2]}) >= Kept
    BY <2>1, <2>4 DEF RefsAdvance, IsBuildTag, BeyondKept, Observe
  <2>7. ASSUME r[1] \in {"latest", "major"}, NEW was \in Packages(r)
        PROVE  \E is \in Packages(r)' : is.source > was.source
    <3>1. was = refs[r] /\ refs[r].built /\ OnMain(refs[r].source) /\ refs[r].source \in Nat
      BY <1>1, PackagesAre DEF TagInv, TagType, RefsType, Packaged
    <3>2. PICK is : is = refs'[r]
      OBVIOUS
    <3>3. r \in DOMAIN refs' /\ is.built /\ OnMain(is.source) /\ was.source < is.source
      BY <2>1, <2>4, <2>7, <3>1, <3>2 DEF RefsAdvance, IsBuildTag
    <3>4. OnMain(is.source)' /\ is.source \in Nat
      BY <1>1, <2>1, <3>2, <3>3, MainKept DEF OnMain, AnchorInv, AnchorType, RefsType, Packaged
    <3>5. is \in Packages(r)'
      BY <3>2, <3>3, <3>4 DEF Packages, Observe
    <3>6. QED
      BY <3>1, <3>3, <3>4, <3>5
  <2>8. QED
    BY <2>3, <2>5, <2>6, <2>7
<1>2. MainType /\ AnchorInv /\ TagInv /\ [Next]_vars => Forward
  BY <1>1
<1>3. QED
  BY <1>2, AnchorInvariant, TagInvariant, PTL DEF Spec, RefsOnlyAdvance

=============================================================================
