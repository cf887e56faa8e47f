---------------------------- MODULE ReleaseMain ----------------------------
(* The history the release pipeline works on: the first-parent line of main,
   which only grows.  A commit is its position on that line, so ancestry is
   the order of positions (git.ts).                                        *)
EXTENDS Naturals, Sequences

CONSTANT MaxMain  \* how long main may grow

ASSUME MaxMainAssumption == MaxMain \in Nat

VARIABLE main     \* one record per commit: the major it releases (0: none), the boundary its config holds

Commit == [major : Nat, boundary : Nat]

Tip == Len(main)
OnMain(n) == n \in DOMAIN main
IsAncestor(a, b) == a <= b

Releases == {n \in DOMAIN main : main[n].major # 0}

(* The newest release merge reachable from commit n, 0 for none. *)
NewestReleaseMerge(n) ==
  IF \E m \in Releases : m <= n
    THEN CHOOSE m \in Releases : m <= n /\ \A k \in Releases : k <= n => k <= m
    ELSE 0

(* A merge that is no release: it leaves release-please's config alone. *)
MergeOrdinary ==
  /\ Tip < MaxMain
  /\ main' = Append(main, [major |-> 0, boundary |-> main[Tip].boundary])
=============================================================================
