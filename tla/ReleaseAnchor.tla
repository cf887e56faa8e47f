--------------------------- MODULE ReleaseAnchor ---------------------------
(* release-please's boundary (.github/scripts/release-pipeline/anchor.ts): the
   last-release-sha its config holds, anchored inside the release PR's branch so
   that the squash merge lands it on main.  The anchor jobs race release-please's
   force-pushes, the merges to main and one another.                       *)
EXTENDS ReleaseMain

CONSTANT
  AnchorAttempts  \* how many pushes a refresh may overtake

ASSUME AnchorBounds == AnchorAttempts \in Nat \ {0}

VARIABLES
  branch,   \* the release PR's branch: nothing, or the commit at its head
  open,     \* whether the release PR is open
  checked,  \* the heads whose checks, anchor-check among them, passed
  anchor,   \* the anchor jobs
  heads,    \* how many heads the branch has had, which names them
  refreshes \* how often release-please still rewrites it

anchorVars == <<branch, open, checked, anchor, heads, refreshes>>

(* A head of the branch: the main commit it is built on and the boundary. *)
BranchHead == [id : Nat, base : Nat, boundary : Nat]
NoHead == [id |-> 0, base |-> 0, boundary |-> 0]

AnchorInit(sources, budget) ==
  /\ branch = {} /\ open = FALSE /\ checked = {} /\ heads = 0 /\ refreshes = budget
  /\ anchor = [a \in DOMAIN sources |-> [source |-> sources[a], pc |-> "waiting", tries |-> 1, seen |-> {}, got |-> NoHead]]

Stands(a, pc) == anchor[a].pc = pc
Moves(a, new) == anchor' = [anchor EXCEPT ![a] = new]
To(a, pc) == [anchor[a] EXCEPT !.pc = pc]
Over(a) == [To(a, "over") EXCEPT !.seen = {}, !.got = NoHead]
Stays == UNCHANGED <<branch, open, checked, heads, refreshes>>

SetBranch(base, boundary) ==
  /\ heads' = heads + 1
  /\ branch' = {[id |-> heads', base |-> base, boundary |-> boundary]}

-----------------------------------------------------------------------------
(* anchorReleasePr: one request to origin a step. *)

(* The newer push's run anchors the newer head. *)
Overtaken(a) == anchor[a].source # Tip

StartAnchor(a) ==
  /\ Stands(a, "waiting") /\ OnMain(anchor[a].source)
  /\ Moves(a, IF Overtaken(a) THEN Over(a) ELSE To(a, "observe"))
  /\ Stays

ObserveBranch(a) ==
  /\ Stands(a, "observe")
  /\ Moves(a, IF branch = {} THEN Over(a) ELSE [To(a, "fetch") EXCEPT !.seen = branch])
  /\ Stays

(* What is fetched may be newer than what was observed; a branch that is gone
   fails the fetch.  A branch built on an older main, or already anchored, is
   left alone.                                                             *)
FetchBranch(a) ==
  /\ Stands(a, "fetch")
  /\ Moves(a, IF \E h \in branch : IsAncestor(anchor[a].source, h.base) /\ h.boundary # anchor[a].source
                THEN [To(a, "head") EXCEPT !.got = CHOOSE h \in branch : TRUE]
                ELSE Over(a))
  /\ Stays

(* Main's head is read once more before the push. *)
MayPushUnasked(a) == TRUE
MayPush(a) == ~Overtaken(a)
ReadHead(a) ==
  /\ Stands(a, "head")
  /\ Moves(a, IF MayPush(a) THEN To(a, "push") ELSE Over(a))
  /\ Stays

(* No force: the push lands on the head the anchor commit was made on, or
   creates a branch that is gone.  Refused with the branch where it was first
   observed, the run fails; refused otherwise, it reads the branch again.    *)
FastForward(a) == branch \subseteq {anchor[a].got}
PushAnchor(a) ==
  /\ Stands(a, "push")
  /\ IF FastForward(a)
       THEN /\ SetBranch(anchor[a].got.base, anchor[a].source)
            /\ Moves(a, Over(a)) /\ UNCHANGED <<open, checked, refreshes>>
       ELSE /\ Moves(a, IF branch # anchor[a].seen /\ anchor[a].tries < AnchorAttempts
                          THEN [To(a, "observe") EXCEPT !.tries = @ + 1] ELSE Over(a))
            /\ Stays

AnchorStep(a) ==
  StartAnchor(a) \/ ObserveBranch(a) \/ FetchBranch(a) \/ ReadHead(a) \/ PushAnchor(a)

-----------------------------------------------------------------------------
(* release-please, the checks of the release PR, and its merge. *)

(* A refresh is built on main as it was read and replaces the branch by force;
   its config is main's, unanchored.                                       *)
Refresh(base) ==
  /\ refreshes > 0 /\ refreshes' = refreshes - 1
  /\ SetBranch(base, main[base].boundary)
  /\ open' = TRUE
  /\ UNCHANGED <<checked, anchor>>

(* anchor-check on the PR's head, against main's tip at that moment. *)
AnchorCheck(h) == h.boundary = Tip
CheckReleasePr ==
  /\ open
  /\ \E h \in branch : AnchorCheck(h) /\ checked' = checked \cup {h}
  /\ UNCHANGED <<branch, open, anchor, heads, refreshes>>

(* The ruleset merges a head whose checks passed and that contains main's tip. *)
MergeRelease(m) ==
  /\ open /\ Tip < MaxMain
  /\ \E h \in branch : h \in checked /\ h.base = Tip /\ main' = Append(main, [major |-> m, boundary |-> h.boundary])
  /\ branch' = {} /\ open' = FALSE
  /\ UNCHANGED <<checked, anchor, heads, refreshes>>

(* boundaryCheck on main at commit n. *)
BoundaryCheck(n) ==
  LET latest == NewestReleaseMerge(n)
  IN  IF latest = 0 THEN main[n].boundary = 0
      ELSE main[n].boundary \in {latest, latest - 1}

AnchorNext ==
  \/ UNCHANGED main /\ \E a \in DOMAIN anchor : AnchorStep(a)
  \/ UNCHANGED main /\ CheckReleasePr
  \/ UNCHANGED main /\ \E base \in DOMAIN main : Refresh(base)
  \/ MergeRelease(1)

-----------------------------------------------------------------------------
(* Properties. *)

(* However anchors, refreshes and merges interleave, main passes boundaryCheck at
   every commit, so the release job never parks on a boundary the pipeline wrote
   itself; and an anchor job never sets a branch back to an older boundary than
   a newer run anchored (anchorReleasePr, anchorCheck, boundaryCheck).       *)
BoundaryIsSound ==
  [][/\ (\A n \in DOMAIN main : BoundaryCheck(n))'
     /\ \A a \in DOMAIN anchor : PushAnchor(a) =>
          \A was \in branch, is \in branch' : was.boundary <= is.boundary]_<<main, anchorVars>>
=============================================================================
