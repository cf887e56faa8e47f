---------------------------- MODULE ReleaseTags ----------------------------
(* The refs a consumer names (.github/scripts/release-pipeline/tags.ts): the
   package of a main commit under its build tag, the version tag minted once
   on a release's package, and the pointers latest and vX.  Every green push
   runs packageCommit and every release packageRelease and retagMajor; no lane
   orders them, so any of them interleave, and one step here is one request
   to origin.                                                              *)
EXTENDS ReleaseMain, FiniteSets

CONSTANTS
  Kept,          \* KEPT_BUILD_TAGS
  PushAttempts   \* PUSH_ATTEMPTS

ASSUME TagBounds == Kept \in Nat \ {0} /\ PushAttempts \in Nat \ {0}

VARIABLES
  refs,   \* origin's refs: the packaged commit each existing one peels to
  job,    \* the packaging jobs
  made,   \* the main commits a build tag was ever pushed for (history)
  faults  \* deaths and lost answers the jobs still meet

tagVars == <<refs, job, made, faults>>

Latest == <<"latest", 0>>
BuildTag(n) == <<"build", n>>
VersionTag(n) == <<"version", n>>
Major(m) == <<"major", m>>
IsBuildTag(ref) == ref[1] = "build"
Ref == {"latest", "build", "version", "major"} \X Nat

(* A commit of that name on origin: the main commit it is the child of (0 when
   it is no child of one), the job that minted it, and whether it carries the
   build and nothing else.                                                 *)
Packaged == [source : Nat, by : Nat, built : BOOLEAN]

PackagingJob == [kind : {"build", "release"}, source : Nat, pc : {"waiting", "done"}]

(* ls-remote: nothing, or the one commit the ref peels to. *)
Observe(ref) == IF ref \in DOMAIN refs THEN {refs[ref]} ELSE {}

With(ref, commit) == [r \in DOMAIN refs \cup {ref} |-> IF r = ref THEN commit ELSE refs[r]]
Without(gone) == [r \in DOMAIN refs \ gone |-> refs[r]]

Begins(j, pc) == [kind |-> j.kind, source |-> j.source, pc |-> pc, ref |-> Latest, tries |-> 1,
                  outer |-> 1, seen |-> {}, mine |-> {}, doomed |-> {}]

(* The jobs a behaviour starts with; one may be over, its refs in place. *)
TagInit(jobs, budget) ==
  /\ job = [j \in DOMAIN jobs |-> Begins(jobs[j], jobs[j].pc)]
  /\ made = {ref[2] : ref \in {r \in DOMAIN refs : IsBuildTag(r)}}
  /\ faults = budget

At(j, pc) == job[j].pc = pc
Update(j, new) == job' = [job EXCEPT ![j] = new]
Goes(j, pc) == [job[j] EXCEPT !.pc = pc]
Ends(j, pc) == Begins(job[j], pc)

Mint(j) == [source |-> job[j].source, by |-> j, built |-> TRUE]
IsPackageOf(commit, source) == commit.source = source /\ commit.built
The(set) == CHOOSE c \in set : TRUE

-----------------------------------------------------------------------------
(* ensureTag: create once, or verify what is there. *)

(* The commit is on main by the start of a job; a release's own tag comes first,
   and the build tag when there is none to find.                            *)
StartJob(j) ==
  /\ At(j, "waiting") /\ OnMain(job[j].source)
  /\ Update(j, [Goes(j, "observe") EXCEPT
       !.ref = IF job[j].kind = "build" THEN BuildTag(job[j].source) ELSE VersionTag(job[j].source)])
  /\ UNCHANGED <<refs, made, faults>>

(* The ref kept changing, or a create was refused: read again, up to the bound. *)
ReadAgain(j, pc) ==
  IF job[j].tries < PushAttempts THEN [Goes(j, pc) EXCEPT !.tries = @ + 1, !.seen = {}] ELSE Ends(j, "failed")

(* The tag is settled on a commit: the build tag found for a release's mint
   returns to the version tag, anything else goes on to the prune.           *)
Ensured(j, commit) ==
  IF IsBuildTag(job[j].ref) /\ job[j].kind = "release"
    THEN [Goes(j, "create") EXCEPT !.ref = VersionTag(job[j].source), !.tries = job[j].outer, !.outer = 1,
                                        !.mine = {commit}, !.seen = {}]
    ELSE [Goes(j, "list") EXCEPT !.tries = 1, !.mine = {commit}, !.seen = {}]

ObserveTag(j) ==
  /\ At(j, "observe")
  /\ LET seen == Observe(job[j].ref)
     IN  Update(j,
           IF seen # {} THEN [Goes(j, "fetch") EXCEPT !.seen = seen]
           ELSE IF IsBuildTag(job[j].ref) THEN [Goes(j, "create") EXCEPT !.mine = {Mint(j)}]
           ELSE [Goes(j, "observe") EXCEPT !.ref = BuildTag(job[j].source), !.outer = job[j].tries, !.tries = 1])
  /\ UNCHANGED <<refs, made, faults>>

(* fetchObserved and the verification; a ref that moved or vanished meanwhile is
   read again.                                                             *)
FetchTag(j) ==
  /\ At(j, "fetch")
  /\ Update(j,
       IF Observe(job[j].ref) # job[j].seen THEN ReadAgain(j, "observe")
       ELSE IF IsPackageOf(The(job[j].seen), job[j].source) THEN Ensured(j, The(job[j].seen))
       ELSE Ends(j, "failed"))
  /\ UNCHANGED <<refs, made, faults>>

(* A plain push: git refuses it once the tag exists. *)
Refused(j) == job[j].ref \in DOMAIN refs
Note(j) == made' = IF IsBuildTag(job[j].ref) THEN made \cup {job[j].source} ELSE made
CreateTag(j) ==
  /\ At(j, "create")
  /\ IF Refused(j)
       THEN Update(j, ReadAgain(j, "observe")) /\ UNCHANGED <<refs, made>>
       ELSE /\ refs' = With(job[j].ref, The(job[j].mine))
            /\ Update(j, Ensured(j, The(job[j].mine)))
            /\ Note(j)
  /\ UNCHANGED faults

-----------------------------------------------------------------------------
(* pruneBuildTags. *)

Newer(ref, tags) == {t \in tags : t[2] > ref[2]}
BeyondWindow(tags) == {t \in tags : Cardinality(Newer(t, tags)) >= Kept}

ListBuildTags(j) ==
  /\ At(j, "list")
  /\ LET doomed == BeyondWindow({r \in DOMAIN refs : IsBuildTag(r)})
         next == IF doomed = {} THEN "point" ELSE "delete"
     IN  Update(j, [Goes(j, next) EXCEPT !.doomed = doomed, !.ref = Latest])
  /\ UNCHANGED <<refs, made, faults>>

(* One push deletes them all; a ref a rival deleted first is only a warning. *)
PruneBuildTags(j) ==
  /\ At(j, "delete")
  /\ refs' = Without(job[j].doomed)
  /\ Update(j, [Goes(j, "point") EXCEPT !.doomed = {}])
  /\ UNCHANGED <<made, faults>>

-----------------------------------------------------------------------------
(* movePointer: forward along main, compare-and-swap. *)

(* After latest, a release's job moves its major; nothing follows the major. *)
Pointed(j) ==
  IF job[j].kind = "release" /\ job[j].ref = Latest
    THEN Goes(j, "retag")
    ELSE Ends(j, "done")

ObservePointer(j) ==
  /\ At(j, "point")
  /\ LET seen == Observe(job[j].ref)
     IN  Update(j, [Goes(j, IF seen = {} THEN "judge" ELSE "have") EXCEPT !.seen = seen])
  /\ UNCHANGED <<refs, made, faults>>

FetchPointer(j) ==
  /\ At(j, "have")
  /\ Update(j, IF Observe(job[j].ref) = job[j].seen THEN Goes(j, "judge") ELSE ReadAgain(j, "point"))
  /\ UNCHANGED <<refs, made, faults>>

(* Main's head as the judgement reads it, after the pointer: what the pointer
   packages is on main by then.                                            *)
HeadOfCheckout(j) == job[j].source
MainHead(j) == Tip

(* alreadyPast: the pointer packages a main commit at or past the candidate's.
   A commit that is no child of a main commit is replaced, not judged.      *)
AlreadyPast(j) ==
  \E at \in job[j].seen :
    at.source \in 1..MainHead(j) /\ IsAncestor(job[j].source, at.source)

(* What is left in place must be the package it is read as. *)
LeftAsRead(j) == TRUE
LeftAsPackage(j) == The(job[j].seen).built

JudgePointer(j) ==
  /\ At(j, "judge")
  /\ Update(j, IF ~AlreadyPast(j) THEN Goes(j, "push")
               ELSE IF LeftAsPackage(j) THEN Pointed(j) ELSE Ends(j, "failed"))
  /\ UNCHANGED <<refs, made, faults>>

(* --force-with-lease on the observed id; a refusal with the ref moved is a lost
   swap to judge again.                                                    *)
LeaseHolds(j) == Observe(job[j].ref) = job[j].seen
PushPointer(j) ==
  /\ At(j, "push")
  /\ IF LeaseHolds(j)
       THEN refs' = With(job[j].ref, The(job[j].mine)) /\ Update(j, Pointed(j))
       ELSE Update(j, ReadAgain(j, "point")) /\ UNCHANGED refs
  /\ UNCHANGED <<made, faults>>

(* retagMajor reads the version tag from origin afresh. *)
RetagMajor(j) ==
  /\ At(j, "retag")
  /\ LET tagged == Observe(VersionTag(job[j].source))
     IN  Update(j, IF \E c \in tagged : IsPackageOf(c, job[j].source)
                     THEN [Goes(j, "point") EXCEPT !.mine = tagged, !.tries = 1, !.seen = {},
                                                   !.ref = Major(main[job[j].source].major)]
                     ELSE Ends(j, "failed"))
  /\ UNCHANGED <<refs, made, faults>>

-----------------------------------------------------------------------------
(* A runner dies, a push's answer is lost, a failed job is run again. *)

TagFault == faults > 0 /\ faults' = faults - 1

JobDies(j) ==
  /\ job[j].pc \notin {"waiting", "done", "failed"} /\ TagFault
  /\ Update(j, Ends(j, "failed"))
  /\ UNCHANGED <<refs, made>>

(* push() reports a failure either way; the caller reads origin again.  The
   prune's push is git(), which throws.                                    *)
CreateAnswerLost(j) ==
  /\ At(j, "create") /\ ~Refused(j) /\ TagFault
  /\ refs' = With(job[j].ref, The(job[j].mine)) /\ Note(j)
  /\ Update(j, ReadAgain(j, "observe"))
PushAnswerLost(j) ==
  /\ At(j, "push") /\ LeaseHolds(j) /\ TagFault
  /\ refs' = With(job[j].ref, The(job[j].mine))
  /\ Update(j, ReadAgain(j, "point"))
  /\ UNCHANGED made
PruneAnswerLost(j) ==
  /\ At(j, "delete") /\ TagFault
  /\ refs' = Without(job[j].doomed)
  /\ Update(j, Ends(j, "failed"))
  /\ UNCHANGED made

Rerun(j) ==
  /\ At(j, "failed")
  /\ Update(j, Ends(j, "waiting"))
  /\ UNCHANGED <<refs, made, faults>>

JobStep(j) ==
  \/ StartJob(j) \/ ObserveTag(j) \/ FetchTag(j) \/ CreateTag(j)
  \/ ListBuildTags(j) \/ PruneBuildTags(j)
  \/ ObservePointer(j) \/ FetchPointer(j) \/ JudgePointer(j) \/ PushPointer(j) \/ RetagMajor(j)
  \/ JobDies(j) \/ CreateAnswerLost(j) \/ PushAnswerLost(j) \/ PruneAnswerLost(j)
  \/ Rerun(j)

TagNext == UNCHANGED main /\ \E j \in DOMAIN job : JobStep(j)

-----------------------------------------------------------------------------
(* Properties. *)

(* A commit on origin that packages a commit of main. *)
Packages(ref) == {c \in Observe(ref) : c.built /\ OnMain(c.source)}

(* No run, stale, rerun or overtaken, takes back what a consumer was given: a
   version tag never moves, latest and vX only move to the package of a newer
   main commit, and a build tag goes only once Kept newer commits had theirs
   (ensureTag, movePointer, pruneBuildTags).                               *)
RefsOnlyAdvance ==
  [][\A r \in DOMAIN refs : Observe(r)' # Observe(r) =>
       CASE r[1] = "version" -> FALSE
         [] r[1] = "build" -> Observe(r)' = {} /\ Cardinality({n \in made : n > r[2]}) >= Kept
         [] OTHER -> \A was \in Packages(r) : \E is \in Packages(r)' : is.source > was.source]_<<main, tagVars>>

(* A job that ends well leaves its commit within a consumer's reach, whatever it
   found on origin and whoever it raced: latest at its package or a newer one,
   and for a release the version tag on its own package and the major there or
   further (packageCommit, packageRelease, retagMajor).                    *)
Reaches(ref, n) == \E c \in Packages(ref) : c.source >= n
DoneMeansReachable ==
  \A j \in DOMAIN job : At(j, "done") =>
    /\ Reaches(Latest, job[j].source)
    /\ job[j].kind = "release" =>
         /\ \E c \in Packages(VersionTag(job[j].source)) : c.source = job[j].source
         /\ Reaches(Major(main[job[j].source].major), job[j].source)
=============================================================================
