------------------------- MODULE MC_ReleasePipeline -------------------------
EXTENDS ReleasePipeline

Ordinary(boundary) == [major |-> 0, boundary |-> boundary]
Release(boundary) == [major |-> 1, boundary |-> boundary]
Commits(n) == [i \in 1..n |-> Ordinary(0)]
AfterRelease == <<Ordinary(0), Release(1)>>
TwoReleases == <<Ordinary(0), Release(1), Release(2)>>

Build(n) == [kind |-> "build", source |-> n, pc |-> "waiting"]
Package(n) == [kind |-> "release", source |-> n, pc |-> "waiting"]
Packaged1(n) == [kind |-> "release", source |-> n, pc |-> "done"]
Next1(n) == [channel |-> "next", source |-> n]
Stable(n) == [channel |-> "stable", source |-> n]

NoRefs == [r \in {} |-> [source |-> 0, by |-> 0, built |-> TRUE]]
LatestAt(n, built) == [r \in {Latest} |-> [source |-> n, by |-> 0, built |-> built]]
Shipped(ns) ==
  LET top == CHOOSE n \in ns : \A k \in ns : k <= n
  IN  [r \in {VersionTag(n) : n \in ns} \cup {Latest, Major(1)} |->
         [source |-> IF r[1] = "version" THEN r[2] ELSE top, by |-> 0, built |-> TRUE]]

Case(m, r, jobs, pubs, anchors, n) ==
  [main |-> m, refs |-> r, jobs |-> jobs, pubs |-> pubs, anchors |-> anchors, faults |-> n, refreshes |-> IF anchors = <<>> THEN 0 ELSE 3]

(* Green pushes overtaking one another; latest absent, the tip of a retired chain
   (no child of a main commit), a bare child of a commit, or an older package. *)
GreenPushes ==
  {Case(Commits(1), NoRefs, <<Build(1), Build(2), Build(3)>>, <<>>, <<>>, 1)}
  \cup {Case(Commits(2), r, <<Build(1), Build(2)>>, <<>>, <<>>, 1) :
          r \in {NoRefs, LatestAt(0, FALSE), LatestAt(2, FALSE), LatestAt(1, TRUE)}}

(* A release cut by two runs at once, and two releases of one major, beside the
   green pushes of their commits.                                          *)
ReleasesCut ==
  {Case(AfterRelease, NoRefs, <<Package(2), Package(2), Build(2)>>, <<>>, <<>>, 1),
   Case(AfterRelease, NoRefs, <<Package(2), Build(2)>>, <<>>, <<>>, 1),
   Case(AfterRelease, NoRefs, <<Package(2), Build(3), Build(4)>>, <<>>, <<>>, 1),
   Case(TwoReleases, NoRefs, <<Package(2), Package(3)>>, <<>>, <<>>, 1)}

(* Publishers of both channels in every order. *)
Publishers ==
  {Case(Commits(2), NoRefs, <<>>, <<Next1(1), Next1(2), Next1(4)>>, <<>>, 1),
   Case(TwoReleases, Shipped({2, 3}), <<Packaged1(2), Packaged1(3)>>, <<Stable(2), Stable(3), Next1(3)>>, <<>>, 1)}

(* Anchors of two pushes against refreshes and merges. *)
Anchors ==
  {Case(Commits(1), NoRefs, <<>>, <<>>, <<1, 2, 3>>, 0), Case(AfterRelease, NoRefs, <<>>, <<>>, <<2, 3>>, 0)}

(* A release from its merge to npm, beside the next push. *)
WholeRelease == {Case(AfterRelease, NoRefs, <<Package(2), Build(3)>>, <<Stable(2), Next1(3)>>, <<>>, 1)}

(* Two releases' publishers, and nothing that fails. *)
StablePublishers ==
  {Case(TwoReleases, Shipped({2, 3}), <<Packaged1(2), Packaged1(3)>>, <<Stable(2), Stable(3)>>, <<>>, 0)}

MCCases == GreenPushes \cup ReleasesCut \cup Publishers \cup Anchors \cup WholeRelease
=============================================================================
