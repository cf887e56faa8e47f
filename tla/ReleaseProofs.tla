---------------------------- MODULE ReleaseProofs ----------------------------
(***************************************************************************)
(* Proofs about ReleasePipeline, for every main line, every set of jobs    *)
(* and every bound: the boundary of the releases and the npm dist-tags.    *)
(***************************************************************************)
EXTENDS ReleasePipeline, Numbers

-----------------------------------------------------------------------------
(* The inductive invariants. *)

MainType == main \in Seq(Commit) /\ main # <<>>

(* A head of the release PR's branch is built on a commit of main and anchored no
   further than that; one whose checks passed is anchored no less far.     *)
SoundHead(h) == h \in BranchHead /\ h.base \in DOMAIN main /\ h.boundary <= h.base

AnchorJob == [source : Nat, pc : {"waiting", "observe", "fetch", "head", "push", "over"}, tries : Nat,
              seen : SUBSET BranchHead, got : BranchHead]

AnchorType ==
  /\ branch \subseteq BranchHead /\ checked \subseteq BranchHead
  /\ open \in BOOLEAN /\ heads \in Nat /\ refreshes \in Nat
  /\ anchor \in [DOMAIN anchor -> AnchorJob]

(* An anchor job that is about to push looked at a sound head, built on its own
   commit or a later one; main's tip was still its commit afterwards.      *)
SoundAnchor(a) ==
  /\ anchor[a].pc \in {"head", "push"} => SoundHead(anchor[a].got) /\ anchor[a].source <= anchor[a].got.base
  /\ anchor[a].pc = "push" => anchor[a].got.boundary <= anchor[a].source

AnchorInv ==
  /\ AnchorType /\ SoundMain(main)
  /\ \A h \in branch : SoundHead(h)
  /\ \A g, h \in branch : g = h
  /\ \A h \in checked : h.base <= h.boundary
  /\ \A a \in DOMAIN anchor : SoundAnchor(a)

Publisher == [channel : {"next", "stable"}, source : Nat,
              pc : {"queued", "verdict", "publish", "confirm", "over"}, reads : Nat, checkout : Nat,
              unread : SUBSET Version,
              said : SUBSET {"skipped", "failed", "published", "behind", "settled", "unsettled"}]

NpmType ==
  /\ record \in [versions : SUBSET Version, next : SUBSET Version, latest : SUBSET Version]
  /\ accepted \in Seq(Version) /\ mishaps \in Nat
  /\ pub \in [DOMAIN pub -> Publisher] /\ 0 \notin DOMAIN pub
  /\ lane # 0 => lane \in DOMAIN pub

(* The versions of a channel its dist-tag names. *)
Named(channel) == {v \in IF channel = "next" THEN record.next ELSE record.latest : v.channel = channel}

(* What lets v push w from its dist-tag (ChannelsOnlyAdvance). *)
Excused(v, w) == BlindTo(v, w) /\ (w.channel = "next" => LeftEarly(w))

(* A dist-tag names one version the record shows; what the registry took is shown
   later, once.                                                            *)
OneRecord ==
  /\ record.next \cup record.latest \subseteq record.versions
  /\ \A v \in record.next : v.channel = "next" /\ \A w \in record.next : v = w
  /\ \A v, w \in record.latest : v = w
  /\ \A i \in DOMAIN accepted : accepted[i] \notin record.versions
  /\ \A i, k \in DOMAIN accepted : accepted[i] = accepted[k] => i = k

(* A version that will push a newer one from its dist-tag was published blind to it. *)
BlindOnly ==
  \A i \in DOMAIN accepted, w \in record.versions \cup Unread :
    /\ w \in Named(accepted[i].channel) \/ \E k \in DOMAIN accepted : k < i /\ accepted[k] = w
    /\ Ahead(w, accepted[i])
    => Excused(accepted[i], w)

(* And so will be one that is about to be, as its publisher will have recorded. *)
BlindInLane ==
  lane # 0 /\ pub[lane].pc = "publish" =>
    \A w \in Named(pub[lane].channel) \cup Unread :
      Ahead(w, Publishing(lane)) => w \in pub[lane].unread /\ (w.channel = "next" => LeftEarly(w))

(* The publisher in the lane can place every version published so far. *)
Placeable ==
  /\ \A w \in record.versions \cup Unread : OnMain(w.source)
  /\ lane # 0 =>
       /\ OnMain(pub[lane].source) /\ pub[lane].source <= pub[lane].checkout
       /\ \A w \in record.versions \cup Unread : w.source <= pub[lane].checkout

(* A pre-release on its way is the one its publisher waits for in the lane, or one
   whose publisher left the lane early.                                    *)
Confirming ==
  \A w \in Unread : w.channel = "next" =>
    LeftEarly(w) \/ (lane # 0 /\ pub[lane].pc = "confirm" /\ w = Publishing(lane))

NpmInv == NpmType /\ OneRecord /\ BlindOnly /\ BlindInLane /\ Placeable /\ Confirming

-----------------------------------------------------------------------------
(* The line of main. *)

(* What a nonempty line of commits looks like once a commit is appended. *)
LEMMA LineGrows ==
  ASSUME NEW line \in Seq(Commit), line # <<>>, NEW c \in Commit
  PROVE  /\ Append(line, c) \in Seq(Commit) /\ Append(line, c) # <<>>
         /\ Len(line) \in Nat \ {0} /\ DOMAIN line = 1..Len(line)
         /\ Len(Append(line, c)) = Len(line) + 1 /\ DOMAIN Append(line, c) = 1..(Len(line) + 1)
         /\ \A n \in DOMAIN line : Append(line, c)[n] = line[n]
         /\ Append(line, c)[Len(line) + 1] = c
  OBVIOUS

(* A step leaves main as it is or appends one commit. *)
LEMMA MainAppends ==
  ASSUME MainType, branch \subseteq BranchHead, [Next]_vars
  PROVE  main' = main \/ \E c \in Commit : main' = Append(main, c)
<1>1. CASE MainGrows
  <2>1. main[Tip] \in Commit
    BY DEF MainType, Tip
  <2>2. [major |-> 0, boundary |-> main[Tip].boundary] \in Commit
    BY <2>1 DEF Commit
  <2>3. QED
    BY <1>1, <2>2 DEF MainGrows, MergeOrdinary
<1>2. CASE Packaging
  BY <1>2 DEF Packaging, TagNext
<1>3. CASE Npm
  BY <1>3 DEF Npm, NpmNext
<1>4. CASE Anchoring
  <2>1. CASE MergeRelease(1)
    <3>1. PICK h \in branch : main' = Append(main, [major |-> 1, boundary |-> h.boundary])
      BY <2>1 DEF MergeRelease
    <3>2. [major |-> 1, boundary |-> h.boundary] \in Commit
      BY DEF BranchHead, Commit
    <3>3. QED
      BY <3>1, <3>2
  <2>2. QED
    BY <1>4, <2>1 DEF Anchoring, AnchorNext
<1>5. CASE UNCHANGED vars
  BY <1>5 DEF vars
<1>6. QED
  BY <1>1, <1>2, <1>3, <1>4, <1>5 DEF Next

(* Main only grows: what was on it stays where it was. *)
LEMMA MainKept ==
  ASSUME MainType, branch \subseteq BranchHead, [Next]_vars
  PROVE  /\ MainType'
         /\ Tip \in Nat \ {0} /\ DOMAIN main = 1..Tip
         /\ Tip' \in Nat \ {0} /\ DOMAIN main' = 1..Tip' /\ Tip <= Tip'
         /\ \A n \in DOMAIN main : n \in DOMAIN main' /\ main'[n] = main[n]
<1>1. CASE main' = main
  BY <1>1 DEF MainType, Tip
<1>2. CASE \E c \in Commit : main' = Append(main, c)
  <2>1. PICK c \in Commit : main' = Append(main, c)
    BY <1>2
  <2>2. QED
    BY <2>1, LineGrows DEF MainType, Tip
<1>3. QED
  BY <1>1, <1>2, MainAppends

(* A sound line stays sound when an ordinary merge keeps the boundary of its tip,
   and when a release sets it to the commit before itself.                 *)
LEMMA SoundGrows ==
  ASSUME NEW line \in Seq(Commit), line # <<>>, SoundMain(line), NEW c \in Commit,
         \/ c.major = 0 /\ c.boundary = line[Len(line)].boundary
         \/ c.major # 0 /\ c.boundary = Len(line)
  PROVE  SoundMain(Append(line, c))
<1> DEFINE top == Len(line)
           grown == Append(line, c)
           Before(n) == {m \in 1..n : line[m].major # 0}
           Merges(n) == {m \in 1..n : grown[m].major # 0}
<1>1. /\ top \in Nat \ {0} /\ DOMAIN line = 1..top /\ DOMAIN grown = 1..(top + 1)
      /\ \A n \in 1..top : grown[n] = line[n]
      /\ grown[top + 1] = c
  BY LineGrows
<1> HIDE DEF grown, top
<1>2. \A n \in 1..top : Merges(n) = Before(n)
  BY <1>1
<1>3. SUFFICES ASSUME NEW n \in 1..(top + 1)
               PROVE  IF Merges(n) = {} THEN grown[n].boundary = 0
                      ELSE \E m \in Merges(n) : (\A k \in Merges(n) : k <= m) /\ grown[n].boundary \in {m, m - 1}
  BY <1>1 DEF SoundMain, grown
<1>4. CASE n \in 1..top
  BY <1>1, <1>2, <1>4 DEF SoundMain
<1>5. CASE n = top + 1 /\ c.major = 0
  <2>1. Merges(n) = Before(top)
    BY <1>1, <1>5
  <2>2. grown[n].boundary = line[top].boundary
    BY <1>1, <1>5 DEF top
  <2>3. IF Before(top) = {} THEN line[top].boundary = 0
        ELSE \E m \in Before(top) : (\A k \in Before(top) : k <= m) /\ line[top].boundary \in {m, m - 1}
    BY <1>1 DEF SoundMain
  <2>4. QED
    BY <2>1, <2>2, <2>3
<1>6. CASE n = top + 1 /\ c.major # 0
  <2>1. n \in Merges(n) /\ \A k \in Merges(n) : k <= n
    BY <1>1, <1>6
  <2>2. grown[n].boundary = n - 1
    BY <1>1, <1>6 DEF top
  <2>3. QED
    BY <2>1, <2>2
<1>7. QED
  BY <1>1, <1>4, <1>5, <1>6

(* On a sound line no boundary is past its commit. *)
LEMMA BoundaryIsBehind ==
  ASSUME NEW line \in Seq(Commit), SoundMain(line), NEW n \in DOMAIN line
  PROVE  line[n].boundary \in Nat /\ line[n].boundary <= n
<1>1. line[n] \in Commit /\ n \in Nat
  OBVIOUS
<1> DEFINE merges == {m \in 1..n : line[m].major # 0}
<1>2. CASE merges = {}
  BY <1>1, <1>2 DEF SoundMain, Commit
<1>3. CASE \E m \in merges : line[n].boundary \in {m, m - 1}
  BY <1>1, <1>3 DEF Commit
<1>4. QED
  BY <1>2, <1>3 DEF SoundMain

(* A sound main passes boundaryCheck everywhere. *)
LEMMA SoundIsChecked ==
  ASSUME MainType, SoundMain(main)
  PROVE  \A n \in DOMAIN main : BoundaryCheck(n)
<1> SUFFICES ASSUME NEW n \in DOMAIN main PROVE BoundaryCheck(n)
  OBVIOUS
<1> DEFINE merges == {m \in 1..n : main[m].major # 0}
<1>1. n \in Nat \ {0} /\ DOMAIN main = 1..Len(main) /\ n <= Len(main) /\ Len(main) \in Nat
  BY DEF MainType
<1>2. \A m : m \in merges <=> m \in Releases /\ m <= n
  BY <1>1 DEF Releases
<1>3. CASE merges = {}
  BY <1>2, <1>3 DEF SoundMain, BoundaryCheck, NewestReleaseMerge
<1>4. CASE merges # {}
  <2>1. PICK m \in merges : (\A k \in merges : k <= m) /\ main[n].boundary \in {m, m - 1}
    BY <1>4 DEF SoundMain
  <2> HIDE DEF merges
  <2>2. m \in Releases /\ m <= n /\ \A k \in Releases : k <= n => k <= m
    BY <1>2, <2>1
  <2>3. \A k \in Releases : k \in Nat
    BY <1>1 DEF Releases
  <2>4. NewestReleaseMerge(n) \in Releases /\ NewestReleaseMerge(n) <= n
        /\ \A k \in Releases : k <= n => k <= NewestReleaseMerge(n)
    BY <2>2 DEF NewestReleaseMerge
  <2>5. NewestReleaseMerge(n) = m
    BY <2>2, <2>3, <2>4
  <2>6. m # 0
    BY <1>1, <2>2 DEF Releases
  <2>7. QED
    BY <2>1, <2>5, <2>6 DEF BoundaryCheck
<1>5. QED
  BY <1>3, <1>4

-----------------------------------------------------------------------------
(* The boundary of the releases. *)

(* What every pipeline starts with. *)
LEMMA PipelineStarts ==
  ASSUME Init
  PROVE  MainType /\ AnchorInv
<1>1. PICK c \in Cases : main = c.main /\ AnchorInit(c.anchors, c.refreshes)
  BY DEF Init
<1>2. c.main \in Seq(Commit) /\ c.main # <<>> /\ SoundMain(c.main) /\ c.anchors \in Seq(Nat) /\ c.refreshes \in Nat
  BY CasesAssumption
<1>3. \A a \in DOMAIN anchor : anchor[a] \in AnchorJob /\ anchor[a].pc = "waiting"
  BY <1>1, <1>2 DEF AnchorInit, AnchorJob, NoHead, BranchHead
<1>4. anchor = [a \in DOMAIN anchor |-> anchor[a]]
  BY <1>1 DEF AnchorInit
<1>5. AnchorType
  BY <1>1, <1>2, <1>3, <1>4 DEF AnchorInit, AnchorType
<1>6. QED
  BY <1>1, <1>2, <1>3, <1>5 DEF AnchorInit, AnchorInv, MainType, SoundAnchor

(* A sound head stays sound while main grows. *)
LEMMA HeadsStaySound ==
  ASSUME MainType, AnchorType, [Next]_vars
  PROVE  \A h : SoundHead(h) => SoundHead(h)'
  BY MainKept DEF AnchorType, SoundHead

(* The branch's new head, on a commit of main and anchored at most as far. *)
LEMMA BranchMoves ==
  ASSUME MainType, AnchorInv, NEW base \in DOMAIN main, NEW n \in Nat, n <= base, SetBranch(base, n)
  PROVE  /\ branch' \subseteq BranchHead /\ heads' \in Nat
         /\ \A h \in branch' : SoundHead(h) /\ h.boundary = n
         /\ \A g, h \in branch' : g = h
<1> DEFINE h == [id |-> heads', base |-> base, boundary |-> n]
<1>1. heads' \in Nat /\ branch' = {h} /\ base \in Nat
  BY DEF SetBranch, AnchorInv, AnchorType, MainType
<1>2. h \in BranchHead
  BY <1>1 DEF BranchHead
<1>3. QED
  BY <1>1, <1>2 DEF SoundHead

(* An anchor job that moves leaves the others where they are. *)
LEMMA AnchorMoves ==
  ASSUME AnchorType, NEW a \in DOMAIN anchor, NEW s \in AnchorJob, Moves(a, s)
  PROVE  /\ DOMAIN anchor' = DOMAIN anchor /\ anchor' \in [DOMAIN anchor' -> AnchorJob]
         /\ anchor'[a] = s /\ \A b \in DOMAIN anchor : b # a => anchor'[b] = anchor[b]
  BY DEF AnchorType, Moves

(* A job that is over knows nothing, and one that goes on knows what it knew. *)
LEMMA AnchorTypes ==
  ASSUME AnchorType, NEW a \in DOMAIN anchor
  PROVE  /\ anchor[a] \in AnchorJob
         /\ Over(a) \in AnchorJob /\ Over(a).pc = "over"
         /\ \A pc \in {"waiting", "observe", "fetch", "head", "push", "over"} :
              /\ To(a, pc) \in AnchorJob /\ To(a, pc).pc = pc
              /\ To(a, pc).got = anchor[a].got /\ To(a, pc).source = anchor[a].source
<1>1. anchor[a] \in AnchorJob
  BY DEF AnchorType
<1>2. NoHead \in BranchHead
  BY DEF NoHead, BranchHead
<1>3. QED
  BY <1>1, <1>2 DEF AnchorJob, To, Over

(* What a job that moves to s owes: nothing unless it is about to push. *)
LEMMA AnchorStepKeeps ==
  ASSUME MainType, AnchorInv, UNCHANGED main, NEW a \in DOMAIN anchor, NEW s \in AnchorJob, Moves(a, s),
         s.pc \in {"head", "push"} => SoundHead(s.got) /\ s.source <= s.got.base,
         s.pc = "push" => s.got.boundary <= s.source
  PROVE  /\ anchor' \in [DOMAIN anchor' -> AnchorJob]
         /\ \A b \in DOMAIN anchor' : SoundAnchor(b)'
<1>1. /\ DOMAIN anchor' = DOMAIN anchor /\ anchor' \in [DOMAIN anchor' -> AnchorJob]
      /\ anchor'[a] = s /\ \A b \in DOMAIN anchor : b # a => anchor'[b] = anchor[b]
  BY AnchorMoves DEF AnchorInv
<1>2. \A b \in DOMAIN anchor : SoundAnchor(b)
  BY DEF AnchorInv
<1>3. QED
  BY <1>1, <1>2 DEF SoundAnchor, SoundHead

(* What an anchor job about to push makes of the branch. *)
LEMMA PushIsSound ==
  ASSUME MainType, AnchorInv, NEW a \in DOMAIN anchor, Stands(a, "push")
  PROVE  LET s == anchor[a] IN
         /\ s.got.base \in DOMAIN main /\ s.source \in Nat
         /\ s.source <= s.got.base /\ s.got.boundary <= s.source
<1>1. SoundAnchor(a) /\ anchor[a] \in AnchorJob
  BY DEF AnchorInv, AnchorType
<1>2. QED
  BY <1>1 DEF SoundAnchor, Stands, SoundHead, AnchorJob

(* Every step of an anchor job keeps what the heads and the jobs promise. *)
LEMMA AnchorJobKeeps ==
  ASSUME MainType, AnchorInv, UNCHANGED main, NEW a \in DOMAIN anchor, AnchorStep(a)
  PROVE  AnchorInv'
<1> USE DEF AnchorStep
<1>1. anchor[a] \in AnchorJob /\ anchor[a].tries \in Nat /\ anchor[a].source \in Nat
  BY AnchorTypes DEF AnchorInv, AnchorJob
<1>2. \A s \in AnchorJob :
         /\ Moves(a, s) /\ Stays
         /\ s.pc \in {"head", "push"} => SoundHead(s.got) /\ s.source <= s.got.base
         /\ s.pc = "push" => s.got.boundary <= s.source
         => AnchorInv'
  BY AnchorStepKeeps DEF AnchorInv, AnchorType, Stays, SoundHead
<1>3. Moves(a, Over(a)) /\ Stays => AnchorInv'
  BY <1>2, AnchorTypes DEF AnchorInv
<1>4. CASE StartAnchor(a)
  <2>1. Moves(a, To(a, "observe")) /\ Stays => AnchorInv'
    BY <1>2, AnchorTypes DEF AnchorInv
  <2>2. QED
    BY <1>3, <1>4, <2>1 DEF StartAnchor
<1>5. CASE ObserveBranch(a)
  <2> DEFINE s == [To(a, "fetch") EXCEPT !.seen = branch]
  <2>1. s \in AnchorJob /\ s.pc = "fetch"
    BY AnchorTypes DEF AnchorInv, AnchorType, AnchorJob
  <2>2. Moves(a, s) /\ Stays => AnchorInv'
    BY <1>2, <2>1
  <2>3. QED
    BY <1>3, <1>5, <2>2 DEF ObserveBranch
<1>6. CASE FetchBranch(a)
  <2>1. ASSUME NEW h \in branch, IsAncestor(anchor[a].source, h.base), FetchBranch(a), ~Moves(a, Over(a))
        PROVE  AnchorInv'
    <3> DEFINE got == CHOOSE g \in branch : TRUE
               s == [To(a, "head") EXCEPT !.got = got]
    <3>1. got = h /\ SoundHead(h) /\ h \in BranchHead
      BY DEF AnchorInv, SoundHead
    <3>2. s \in AnchorJob /\ s.pc = "head" /\ s.got = h /\ s.source = anchor[a].source
      BY <3>1, AnchorTypes DEF AnchorInv, AnchorJob
    <3>3. Moves(a, s) /\ Stays
      BY <2>1 DEF FetchBranch
    <3>4. QED
      BY <1>2, <2>1, <3>1, <3>2, <3>3 DEF IsAncestor
  <2>2. QED
    BY <1>3, <1>6, <2>1 DEF FetchBranch
<1>7. CASE ReadHead(a)
  <2>1. ASSUME MayPush(a), Moves(a, To(a, "push")), Stays, Stands(a, "head")
        PROVE  AnchorInv'
    <3>1. SoundHead(anchor[a].got) /\ anchor[a].source <= anchor[a].got.base
      BY <2>1 DEF AnchorInv, SoundAnchor, Stands
    <3>2. anchor[a].got.boundary \in Nat /\ anchor[a].got.base \in 1..Tip /\ Tip \in Nat
      BY <3>1 DEF SoundHead, BranchHead, MainType, Tip
    <3>3. anchor[a].got.boundary <= anchor[a].source
      BY <2>1, <3>1, <3>2 DEF MayPush, Overtaken, SoundHead
    <3>4. QED
      BY <1>2, <2>1, <3>1, <3>3, AnchorTypes DEF AnchorInv
  <2>2. QED
    BY <1>3, <1>7, <2>1 DEF ReadHead
<1>8. CASE PushAnchor(a)
  <2>1. CASE FastForward(a)
    <3>1. SetBranch(anchor[a].got.base, anchor[a].source) /\ Moves(a, Over(a)) /\ UNCHANGED <<open, checked, refreshes>>
      BY <1>8, <2>1 DEF PushAnchor
    <3>2. /\ branch' \subseteq BranchHead /\ heads' \in Nat
          /\ \A h \in branch' : SoundHead(h)
          /\ \A g, h \in branch' : g = h
      BY <1>8, <3>1, PushIsSound, BranchMoves DEF PushAnchor
    <3>3. /\ anchor' \in [DOMAIN anchor' -> AnchorJob]
          /\ \A b \in DOMAIN anchor' : SoundAnchor(b)'
      BY <3>1, AnchorStepKeeps, AnchorTypes DEF AnchorInv
    <3>4. QED
      BY <3>1, <3>2, <3>3 DEF AnchorInv, AnchorType, SoundHead
  <2>2. CASE ~FastForward(a)
    <3> DEFINE s == [To(a, "observe") EXCEPT !.tries = @ + 1]
    <3>1. s \in AnchorJob /\ s.pc = "observe"
      <4>1. \A t \in AnchorJob : [t EXCEPT !.tries = @ + 1] \in AnchorJob /\ [t EXCEPT !.tries = @ + 1].pc = t.pc
        BY DEF AnchorJob
      <4>2. To(a, "observe") \in AnchorJob /\ To(a, "observe").pc = "observe"
        BY AnchorTypes DEF AnchorInv
      <4>3. QED
        BY <4>1, <4>2
    <3>2. Moves(a, s) /\ Stays => AnchorInv'
      BY <1>2, <3>1
    <3>3. QED
      BY <1>3, <1>8, <2>2, <3>2 DEF PushAnchor
  <2>3. QED
    BY <2>1, <2>2
<1>9. QED
  BY <1>4, <1>5, <1>6, <1>7, <1>8

(* Main grew by one commit, and the branch, the checks and the jobs stayed. *)
LEMMA AnchorsOutlastMerges ==
  ASSUME MainType, AnchorInv, [Next]_vars, UNCHANGED <<branch, checked, anchor>>, SoundMain(main'), AnchorType'
  PROVE  AnchorInv'
<1>1. \A h : SoundHead(h) => SoundHead(h)'
  BY HeadsStaySound DEF AnchorInv
<1>2. QED
  BY <1>1 DEF AnchorInv, SoundAnchor

(* Every step of the pipeline keeps main sound and the anchors sound. *)
LEMMA AnchorKept ==
  ASSUME MainType, AnchorInv, [Next]_vars
  PROVE  AnchorInv'
<1>1. CASE UNCHANGED <<main, anchorVars>>
  BY <1>1 DEF anchorVars, AnchorInv, AnchorType, SoundHead, SoundAnchor
<1>2. CASE MainGrows
  <2> DEFINE c == [major |-> 0, boundary |-> main[Tip].boundary]
  <2>1. c \in Commit
    <3>1. main[Tip] \in Commit
      BY DEF MainType, Tip
    <3>2. QED
      BY <3>1 DEF Commit
  <2>2. main' = Append(main, c)
    BY <1>2 DEF MainGrows, MergeOrdinary
  <2>3. SoundMain(main')
    BY <2>1, <2>2, SoundGrows DEF AnchorInv, MainType, Tip
  <2>4. UNCHANGED anchorVars
    BY <1>2 DEF MainGrows
  <2>5. QED
    BY <2>3, <2>4, AnchorsOutlastMerges DEF anchorVars, AnchorInv, AnchorType
<1>3. CASE UNCHANGED main /\ \E a \in DOMAIN anchor : AnchorStep(a)
  BY <1>3, AnchorJobKeeps
<1>4. CASE UNCHANGED main /\ CheckReleasePr
  <2>1. PICK h \in branch : AnchorCheck(h) /\ checked' = checked \cup {h}
    BY <1>4 DEF CheckReleasePr
  <2>2. h.base <= h.boundary
    BY <2>1 DEF AnchorInv, SoundHead, AnchorCheck, MainType, Tip
  <2>3. QED
    BY <1>4, <2>1, <2>2 DEF CheckReleasePr, AnchorInv, AnchorType, SoundHead, SoundAnchor
<1>5. CASE UNCHANGED main /\ \E base \in DOMAIN main : Refresh(base)
  <2>1. PICK base \in DOMAIN main : Refresh(base)
    BY <1>5
  <2>2. main[base].boundary \in Nat /\ main[base].boundary <= base
    BY BoundaryIsBehind DEF MainType, AnchorInv
  <2>3. SetBranch(base, main[base].boundary) /\ refreshes' \in Nat /\ open' = TRUE /\ UNCHANGED <<checked, anchor>>
    BY <2>1 DEF Refresh, AnchorInv, AnchorType
  <2>4. /\ branch' \subseteq BranchHead /\ heads' \in Nat
        /\ \A h \in branch' : SoundHead(h)
        /\ \A g, h \in branch' : g = h
    BY <2>2, <2>3, BranchMoves
  <2>5. QED
    BY <1>5, <2>3, <2>4 DEF AnchorInv, AnchorType, SoundHead, SoundAnchor
<1>6. CASE MergeRelease(1)
  <2>1. PICK h \in branch : h \in checked /\ h.base = Tip /\ main' = Append(main, [major |-> 1, boundary |-> h.boundary])
    BY <1>6 DEF MergeRelease
  <2> DEFINE c == [major |-> 1, boundary |-> h.boundary]
  <2>2. h.boundary = Tip /\ c \in Commit
    BY <2>1 DEF AnchorInv, SoundHead, BranchHead, Commit, MainType, Tip
  <2>3. SoundMain(main')
    BY <2>1, <2>2, SoundGrows DEF AnchorInv, MainType, Tip
  <2>4. branch' = {} /\ open' = FALSE /\ UNCHANGED <<checked, anchor, heads, refreshes>>
    BY <1>6 DEF MergeRelease
  <2>5. \A g : SoundHead(g) => SoundHead(g)'
    BY HeadsStaySound DEF AnchorInv
  <2>6. QED
    BY <2>3, <2>4, <2>5 DEF AnchorInv, AnchorType, SoundAnchor
<1>7. QED
  BY <1>1, <1>2, <1>3, <1>4, <1>5, <1>6
     DEF Next, Packaging, TagNext, Npm, NpmNext, Anchoring, AnchorNext, vars

(* Main stays sound, and so does all that is about to be merged into it. *)
THEOREM AnchorInvariant == Spec => [](MainType /\ AnchorInv)
<1>1. Init => MainType /\ AnchorInv
  BY PipelineStarts
<1>2. MainType /\ AnchorInv /\ [Next]_vars => (MainType /\ AnchorInv)'
  BY MainKept, AnchorKept DEF AnchorInv, AnchorType
<1>3. QED
  BY <1>1, <1>2, PTL DEF Spec

(* However anchors, refreshes and merges interleave, main passes boundaryCheck at
   every commit, and no anchor job sets the branch back to an older boundary. *)
THEOREM BoundaryStaysSound == Spec => BoundaryIsSound
<1> DEFINE Checked == \A n \in DOMAIN main : BoundaryCheck(n)
           Forward == \A a \in DOMAIN anchor : PushAnchor(a) =>
                        \A was \in branch, is \in branch' : was.boundary <= is.boundary
<1>1. MainType /\ AnchorInv => Checked
  BY SoundIsChecked DEF AnchorInv
<1>2. MainType /\ AnchorInv => Forward
  <2> SUFFICES ASSUME MainType, AnchorInv, NEW a \in DOMAIN anchor, PushAnchor(a),
                      NEW was \in branch, NEW is \in branch'
               PROVE  was.boundary <= is.boundary
    OBVIOUS
  <2>1. was.boundary \in Nat
    BY DEF AnchorInv, AnchorType, BranchHead
  <2>2. CASE FastForward(a)
    <3>1. SetBranch(anchor[a].got.base, anchor[a].source) /\ Stands(a, "push") /\ was = anchor[a].got
      BY <2>2 DEF PushAnchor, FastForward
    <3>2. is.boundary = anchor[a].source /\ was.boundary <= anchor[a].source
      BY <3>1, PushIsSound, BranchMoves
    <3>3. QED
      BY <3>2
  <2>3. CASE ~FastForward(a)
    BY <2>1, <2>3 DEF PushAnchor, Stays, AnchorInv
  <2>4. QED
    BY <2>2, <2>3
<1> HIDE DEF Checked, Forward
<1>3. QED
  BY <1>1, <1>2, AnchorInvariant, PTL DEF BoundaryIsSound, Checked, Forward

-----------------------------------------------------------------------------
(* The npm dist-tags. *)

(* Every pipeline starts with an empty registry and nobody in the lane. *)
LEMMA RegistryStarts ==
  ASSUME Init
  PROVE  NpmInv
<1>1. PICK c \in Cases : NpmInit(c.pubs, c.faults)
  BY DEF Init
<1>2. c.pubs \in Seq(Version) /\ c.faults \in Nat
  BY CasesAssumption
<1>3. \A p \in DOMAIN pub : pub[p] \in Publisher
  <2>1. \A p \in DOMAIN pub : c.pubs[p] \in Version /\ pub[p] = Enqueued(c.pubs[p])
    BY <1>1, <1>2 DEF NpmInit
  <2>2. \A v \in Version : Enqueued(v) \in Publisher
    BY DEF Enqueued, Version, Publisher
  <2>3. QED
    BY <2>1, <2>2
<1>4. pub = [p \in DOMAIN pub |-> pub[p]] /\ 0 \notin DOMAIN pub
  BY <1>1, <1>2 DEF NpmInit
<1>5. NpmType
  <2>1. pub \in [DOMAIN pub -> Publisher]
    BY <1>3, <1>4
  <2>2. accepted = <<>> /\ lane = 0 /\ mishaps \in Nat /\ record = [versions |-> {}, next |-> {}, latest |-> {}]
    BY <1>1, <1>2 DEF NpmInit
  <2>3. accepted \in Seq(Version)
    BY <2>2
  <2>4. QED
    BY <1>4, <2>1, <2>2, <2>3 DEF NpmType
<1>6. QED
  BY <1>1, <1>5 DEF NpmInit, NpmInv, OneRecord, BlindOnly, BlindInLane, Placeable, Confirming, Unread

(* What the registry took and does not show, by its place. *)
LEMMA UnreadAre ==
  ASSUME NpmType
  PROVE  /\ Len(accepted) \in Nat /\ DOMAIN accepted = 1..Len(accepted)
         /\ Unread \subseteq Version
         /\ \A i \in DOMAIN accepted : accepted[i] \in Unread /\ accepted[i] \in Version
         /\ \A w \in Unread : \E i \in DOMAIN accepted : w = accepted[i]
  BY DEF NpmType, Unread

(* The publisher in the lane, and what it publishes. *)
LEMMA InTheLane ==
  ASSUME NpmType, NEW p \in DOMAIN pub
  PROVE  /\ pub[p] \in Publisher /\ Publishing(p) \in Version
         /\ Publishing(p).channel = pub[p].channel /\ Publishing(p).source = pub[p].source
         /\ p # 0
<1>1. pub[p] \in Publisher
  BY DEF NpmType
<1>2. QED
  BY <1>1 DEF NpmType, Publisher, Publishing, Version

(* What a dist-tag names is shown. *)
LEMMA NamedIsShown ==
  ASSUME NpmType, OneRecord, NEW channel
  PROVE  Named(channel) \subseteq record.versions
  BY DEF OneRecord, Named

(* A step of one publisher in which it keeps what it publishes and, but for a new
   verdict, what it could not read leaves every version as blind as it was, and
   what a publisher once said stays said.                                  *)
LEMMA BlindStays ==
  ASSUME NpmType, NEW p \in DOMAIN pub, NEW s,
         pub' = [pub EXCEPT ![p] = s], s.channel = pub[p].channel, s.source = pub[p].source
  PROVE  /\ DOMAIN pub' = DOMAIN pub
         /\ \A q \in DOMAIN pub : Publishing(q)' = Publishing(q)
         /\ \A v, w : BlindTo(v, w) /\ (s.unread = pub[p].unread \/ v # Publishing(p)) => BlindTo(v, w)'
         /\ pub[p].said \subseteq s.said => \A w : LeftEarly(w) => LeftEarly(w)'
         /\ pub[p].said \subseteq s.said =>
              \A v, w : Excused(v, w) /\ (s.unread = pub[p].unread \/ v # Publishing(p)) => Excused(v, w)'
<1>1. /\ DOMAIN pub' = DOMAIN pub /\ pub'[p] = s
      /\ \A q \in DOMAIN pub : q # p => pub'[q] = pub[q]
  BY DEF NpmType
<1>2. \A q \in DOMAIN pub : Publishing(q)' = Publishing(q)
  BY <1>1 DEF Publishing
<1>3. ASSUME NEW v, NEW w, BlindTo(v, w), s.unread = pub[p].unread \/ v # Publishing(p)
      PROVE  BlindTo(v, w)'
  <2>1. PICK q \in DOMAIN pub : Publishing(q) = v /\ w \in pub[q].unread
    BY <1>3 DEF BlindTo
  <2>2. pub'[q].unread = pub[q].unread
    BY <1>1, <1>3, <2>1
  <2>3. QED
    BY <1>1, <1>2, <2>1, <2>2 DEF BlindTo
<1>4. ASSUME pub[p].said \subseteq s.said, NEW w, LeftEarly(w)
      PROVE  LeftEarly(w)'
  <2>1. PICK q \in DOMAIN pub : Publishing(q) = w /\ pub[q].said \cap {"unsettled", "failed"} # {}
    BY <1>4 DEF LeftEarly
  <2>2. pub'[q].said \cap {"unsettled", "failed"} # {}
    BY <1>1, <1>4, <2>1
  <2>3. QED
    BY <1>1, <1>2, <2>1, <2>2 DEF LeftEarly
<1>5. QED
  BY <1>1, <1>2, <1>3, <1>4 DEF Excused

(* A publisher that takes a step keeps its place in the types. *)
LEMMA PubTypes ==
  ASSUME NpmType, NEW p \in DOMAIN pub, NEW s \in Publisher, pub' = [pub EXCEPT ![p] = s]
  PROVE  /\ pub' \in [DOMAIN pub' -> Publisher] /\ DOMAIN pub' = DOMAIN pub /\ pub'[p] = s
         /\ \A q \in DOMAIN pub : q # p => pub'[q] = pub[q]
  BY DEF NpmType

(* A publisher that leaves the lane with a word: of the pre-releases on their way
   its own is no exception, and then the word says that it left early.     *)
LEMMA LeavesLane ==
  ASSUME NpmInv, NEW p \in DOMAIN pub, lane = p,
         NEW word \in {"skipped", "failed", "published", "behind", "settled", "unsettled"}, Leave(p, word),
         UNCHANGED <<main, record>>, mishaps' \in Nat, accepted' \in Seq(Version),
         OneRecord',
         \A i \in DOMAIN accepted', w \in record.versions \cup Unread' :
           /\ w \in Named(accepted'[i].channel) \/ \E k \in DOMAIN accepted' : k < i /\ accepted'[k] = w
           /\ Ahead(w, accepted'[i])
           => Excused(accepted'[i], w),
         \A w \in record.versions \cup Unread' : OnMain(w.source),
         \A w \in Unread' : w.channel = "next" =>
           LeftEarly(w) \/ (w = Publishing(p) /\ word \in {"failed", "unsettled"})
  PROVE  NpmInv'
<1> DEFINE s == [pub[p] EXCEPT !.pc = "over", !.said = @ \cup {word}]
<1>1. pub' = [pub EXCEPT ![p] = s] /\ lane' = 0
  BY DEF Leave
<1>2. /\ s \in Publisher /\ s.channel = pub[p].channel /\ s.source = pub[p].source
      /\ s.unread = pub[p].unread /\ s.said = pub[p].said \cup {word}
  BY InTheLane DEF NpmInv, Publisher
<1> HIDE DEF s
<1>3. NpmType'
  BY <1>1, <1>2, PubTypes DEF NpmInv, NpmType
<1>4. /\ \A v, w : Excused(v, w) => Excused(v, w)'
      /\ \A w : LeftEarly(w) => LeftEarly(w)'
      /\ Publishing(p)' = Publishing(p)
  BY <1>1, <1>2, BlindStays DEF NpmInv
<1>5. word \in {"failed", "unsettled"} => \A w : w = Publishing(p) => LeftEarly(w)'
  <2>1. p \in DOMAIN pub' /\ pub'[p] = s
    BY <1>1, <1>2, PubTypes DEF NpmInv
  <2>2. QED
    BY <1>2, <1>4, <2>1 DEF LeftEarly
<1>6. BlindOnly'
  BY <1>4 DEF BlindOnly, Named, Ahead
<1>7. BlindInLane' /\ Placeable'
  BY <1>1 DEF BlindInLane, Placeable, OnMain
<1>8. Confirming'
  BY <1>1, <1>4, <1>5 DEF Confirming
<1>9. QED
  BY <1>3, <1>6, <1>7, <1>8 DEF NpmInv

(* Nothing was published: what the lane's leave rests on holds of the registry. *)
LEMMA RegistryStands ==
  ASSUME NpmInv, UNCHANGED <<record, accepted>>
  PROVE  /\ accepted' \in Seq(Version) /\ OneRecord' /\ Unread' = Unread
         /\ \A i \in DOMAIN accepted', w \in record.versions \cup Unread' :
              /\ w \in Named(accepted'[i].channel) \/ \E k \in DOMAIN accepted' : k < i /\ accepted'[k] = w
              /\ Ahead(w, accepted'[i])
              => Excused(accepted'[i], w)
         /\ \A w \in record.versions \cup Unread' : OnMain(w.source)
<1>1. Unread' = Unread
  BY DEF Unread
<1>2. OneRecord'
  BY DEF NpmInv, OneRecord
<1>3. accepted' \in Seq(Version)
  BY DEF NpmInv, NpmType
<1>4. QED
  BY <1>1, <1>2, <1>3 DEF NpmInv, BlindOnly, Placeable

(* The registry took the version of the publisher in the lane, and it is blind if
   it will push a newer one from its dist-tag.                             *)
LEMMA RegistryTakes ==
  ASSUME NpmInv, NEW p \in DOMAIN pub, Holds(p, "publish"), ~Taken(p),
         accepted' = Append(accepted, Publishing(p)), UNCHANGED record
  PROVE  /\ accepted' \in Seq(Version) /\ OneRecord' /\ Unread' = Unread \cup {Publishing(p)}
         /\ \A i \in DOMAIN accepted', w \in record.versions \cup Unread' :
              /\ w \in Named(accepted'[i].channel) \/ \E k \in DOMAIN accepted' : k < i /\ accepted'[k] = w
              /\ Ahead(w, accepted'[i])
              => Excused(accepted'[i], w)
         /\ \A w \in record.versions \cup Unread' : OnMain(w.source) /\ w.source <= pub[p].checkout
<1> DEFINE v == Publishing(p)
           top == Len(accepted)
<1>1. /\ v \in Version /\ v.channel = pub[p].channel /\ v.source = pub[p].source /\ p # 0
      /\ lane = p /\ pub[p].pc = "publish"
  BY InTheLane DEF NpmInv, Holds
<1>2. /\ top \in Nat /\ DOMAIN accepted = 1..top
      /\ \A i \in DOMAIN accepted : accepted[i] \in Unread
      /\ \A w \in Unread : \E i \in DOMAIN accepted : w = accepted[i]
  BY UnreadAre DEF NpmInv
<1>3. /\ accepted' \in Seq(Version) /\ DOMAIN accepted' = 1..(top + 1)
      /\ \A i \in 1..top : accepted'[i] = accepted[i]
      /\ accepted'[top + 1] = v
  BY <1>1 DEF NpmInv, NpmType
<1>4. v \notin record.versions /\ v \notin Unread
  BY DEF Taken
<1> HIDE DEF v, top
<1>5. Unread' = Unread \cup {v}
  <2>1. \A w : w \in Unread' <=> \E i \in 1..(top + 1) : w = accepted'[i]
    BY <1>3 DEF Unread
  <2>2. \A w : w \in Unread <=> \E i \in 1..top : w = accepted[i]
    BY <1>2 DEF Unread
  <2>3. \A i \in 1..(top + 1) : i \in 1..top \/ i = top + 1
    BY <1>2
  <2>4. 1..top \subseteq 1..(top + 1) /\ top + 1 \in 1..(top + 1)
    BY <1>2
  <2>5. QED
    BY <1>3, <2>1, <2>2, <2>3, <2>4
<1>6. OneRecord'
  <2>1. \A i \in DOMAIN accepted' : accepted'[i] \notin record.versions
    BY <1>2, <1>3, <1>4 DEF NpmInv, OneRecord
  <2>2. \A i, k \in DOMAIN accepted' : accepted'[i] = accepted'[k] => i = k
    BY <1>2, <1>3, <1>4 DEF NpmInv, OneRecord
  <2>3. QED
    BY <2>1, <2>2 DEF NpmInv, OneRecord
<1>7. ASSUME NEW i \in DOMAIN accepted', NEW w \in record.versions \cup Unread',
             w \in Named(accepted'[i].channel) \/ \E k \in DOMAIN accepted' : k < i /\ accepted'[k] = w,
             Ahead(w, accepted'[i])
      PROVE  Excused(accepted'[i], w)
  <2>1. CASE i \in 1..top
    <3>1. accepted'[i] = accepted[i] /\ i \in DOMAIN accepted
      BY <1>2, <1>3, <2>1
    <3>2. (\E k \in DOMAIN accepted' : k < i /\ accepted'[k] = w) => \E k \in DOMAIN accepted : k < i /\ accepted[k] = w
      BY <1>2, <1>3, <2>1
    <3>3. w \in record.versions \cup Unread
      BY <1>2, <1>7, <3>1, <3>2, NamedIsShown DEF NpmInv
    <3>4. QED
      BY <1>7, <3>1, <3>2, <3>3 DEF NpmInv, BlindOnly
  <2>2. CASE i = top + 1
    <3>1. accepted'[i] = v
      BY <1>3, <2>2
    <3>2. w \in Named(v.channel) \cup Unread
      BY <1>2, <1>3, <1>7, <2>2, <3>1
    <3>3. w \in pub[p].unread /\ (w.channel = "next" => LeftEarly(w))
      BY <1>1, <1>7, <3>1, <3>2 DEF NpmInv, BlindInLane, v
    <3>4. QED
      BY <3>1, <3>3 DEF Excused, BlindTo, v
  <2>3. QED
    BY <1>2, <1>3, <2>1, <2>2
<1>8. \A w \in record.versions \cup Unread' : OnMain(w.source) /\ w.source <= pub[p].checkout
  BY <1>1, <1>5 DEF NpmInv, Placeable
<1>9. QED
  BY <1>3, <1>5, <1>6, <1>7, <1>8 DEF v

(* A publisher takes the free lane: what was published so far is on main by now. *)
LEMMA TakesLane ==
  ASSUME MainType, NpmInv, UNCHANGED main, NEW p \in DOMAIN pub, TakeLane(p)
  PROVE  NpmInv'
<1> DEFINE s == [pub[p] EXCEPT !.pc = "verdict", !.checkout = Tip, !.reads = 0]
<1>1. pub' = [pub EXCEPT ![p] = s] /\ lane = 0 /\ lane' = p /\ OnMain(pub[p].source) /\ UNCHANGED <<record, accepted, mishaps>>
  BY DEF TakeLane
<1>2. Tip \in Nat /\ \A n : OnMain(n) => n <= Tip
  BY DEF MainType, Tip, OnMain
<1>3. /\ s \in Publisher /\ s.channel = pub[p].channel /\ s.source = pub[p].source /\ s.checkout = Tip
      /\ s.unread = pub[p].unread /\ s.said = pub[p].said /\ s.pc = "verdict"
  BY <1>2, InTheLane DEF NpmInv, Publisher
<1> HIDE DEF s
<1>4. NpmType' /\ pub'[p] = s
  BY <1>1, <1>3, PubTypes DEF NpmInv, NpmType
<1>5. /\ \A v, w : Excused(v, w) => Excused(v, w)'
      /\ \A w : LeftEarly(w) => LeftEarly(w)'
  BY <1>1, <1>3, BlindStays DEF NpmInv
<1>6. OneRecord' /\ Unread' = Unread
  BY <1>1, RegistryStands DEF NpmInv
<1>7. BlindOnly'
  BY <1>1, <1>5, <1>6 DEF NpmInv, BlindOnly, Named, Ahead
<1>8. BlindInLane' /\ Confirming'
  BY <1>1, <1>3, <1>4, <1>5, <1>6 DEF NpmInv, BlindInLane, Confirming
<1>9. Placeable'
  BY <1>1, <1>2, <1>3, <1>4, <1>6 DEF NpmInv, Placeable, OnMain
<1>10. QED
  BY <1>4, <1>6, <1>7, <1>8, <1>9 DEF NpmInv

(* What a verdict to publish says of the record: the dist-tag of the publisher's
   channel names nothing newer.                                            *)
LEMMA VerdictSees ==
  ASSUME NpmInv, NEW p \in DOMAIN pub, lane = p, MayGo(p)
  PROVE  \A w \in Named(pub[p].channel) : ~Ahead(w, Publishing(p))
<1>1. /\ pub[p] \in Publisher /\ Publishing(p).channel = pub[p].channel /\ Publishing(p).source = pub[p].source
      /\ p # 0 /\ pub[p].source \in Nat /\ pub[p].channel \in {"next", "stable"}
  BY InTheLane DEF NpmInv, Publisher
<1>2. SUFFICES ASSUME NEW w \in Named(pub[p].channel), Ahead(w, Publishing(p)) PROVE FALSE
  OBVIOUS
<1>3. w \in record.versions /\ w \in Version /\ w.source \in Nat
  BY NamedIsShown DEF NpmInv, NpmType, Version
<1>4. CASE pub[p].channel = "next"
  <2>1. w \in record.next /\ w.channel = "next" /\ w.source <= pub[p].checkout
    BY <1>1, <1>3, <1>4 DEF Named, NpmInv, Placeable
  <2>2. w \in Placed(p)
    BY <2>1 DEF Placed
  <2>3. w \in Descendants(p)
    BY <1>1, <1>2, <1>3, <2>2 DEF Descendants, IsAncestor, Ahead
  <2>4. QED
    BY <1>4, <2>3 DEF MayGo, NextMayGo
<1>5. CASE pub[p].channel = "stable"
  <2>1. w \in record.latest /\ w.channel = "stable"
    BY <1>5 DEF Named
  <2>2. w.source <= pub[p].source
    BY <1>5, <2>1 DEF MayGo, StableMayGo
  <2>3. QED
    BY <1>1, <1>2, <1>3, <2>2 DEF Ahead
<1>6. QED
  BY <1>1, <1>4, <1>5

(* The verdict to publish, with what the record does not show yet noted. *)
LEMMA VerdictGoes ==
  ASSUME NpmInv, UNCHANGED <<main, record, accepted, mishaps>>, NEW p \in DOMAIN pub, Holds(p, "verdict"), MayGo(p),
         Turn(p, [pub[p] EXCEPT !.pc = "publish", !.unread = Unread])
  PROVE  NpmInv'
<1> DEFINE s == [pub[p] EXCEPT !.pc = "publish", !.unread = Unread]
<1>1. pub' = [pub EXCEPT ![p] = s] /\ lane' = p /\ lane = p /\ pub[p].pc = "verdict" /\ p # 0
  BY InTheLane DEF NpmInv, Turn, Holds
<1>2. /\ s \in Publisher /\ s.channel = pub[p].channel /\ s.source = pub[p].source /\ s.checkout = pub[p].checkout
      /\ s.unread = Unread /\ s.said = pub[p].said /\ s.pc = "publish"
  BY InTheLane, UnreadAre DEF NpmInv, Publisher
<1> HIDE DEF s
<1>3. NpmType' /\ pub'[p] = s /\ DOMAIN pub' = DOMAIN pub
  BY <1>1, <1>2, PubTypes DEF NpmInv, NpmType
<1>4. /\ \A v, w : Excused(v, w) /\ v # Publishing(p) => Excused(v, w)'
      /\ \A w : LeftEarly(w) => LeftEarly(w)'
      /\ Publishing(p)' = Publishing(p)
  BY <1>1, <1>2, BlindStays DEF NpmInv
<1>5. OneRecord' /\ Unread' = Unread
  BY RegistryStands DEF NpmInv
<1>6. \A w \in Named(pub[p].channel) : ~Ahead(w, Publishing(p))
  BY <1>1, VerdictSees
<1>7. \A w \in Unread : w.channel = "next" => LeftEarly(w)
  BY <1>1 DEF NpmInv, Confirming
<1>8. BlindOnly'
  <2> SUFFICES ASSUME NEW i \in DOMAIN accepted, NEW w \in record.versions \cup Unread,
                      w \in Named(accepted[i].channel) \/ \E k \in DOMAIN accepted : k < i /\ accepted[k] = w,
                      Ahead(w, accepted[i])
               PROVE  Excused(accepted[i], w)'
    BY <1>5 DEF BlindOnly, Named, Ahead
  <2>1. CASE accepted[i] # Publishing(p)
    BY <1>4, <2>1 DEF NpmInv, BlindOnly
  <2>2. CASE accepted[i] = Publishing(p)
    <3>1. w \notin Named(accepted[i].channel)
      BY <1>6, <2>2, InTheLane DEF NpmInv
    <3>2. w \in Unread
      BY <3>1, UnreadAre DEF NpmInv
    <3>3. w.channel = "next" => LeftEarly(w)'
      BY <1>4, <1>7, <3>2
    <3>4. BlindTo(accepted[i], w)'
      BY <1>2, <1>3, <1>4, <1>5, <2>2, <3>2 DEF BlindTo
    <3>5. QED
      BY <3>3, <3>4 DEF Excused
  <2>3. QED
    BY <2>1, <2>2
<1>9. BlindInLane'
  BY <1>1, <1>2, <1>3, <1>4, <1>5, <1>6, <1>7 DEF BlindInLane, Named, Ahead
<1>10. Placeable'
  BY <1>1, <1>2, <1>3, <1>5 DEF NpmInv, Placeable, OnMain
<1>11. Confirming'
  BY <1>4, <1>5, <1>7 DEF Confirming
<1>12. QED
  BY <1>3, <1>5, <1>8, <1>9, <1>10, <1>11 DEF NpmInv

(* A verdict of either kind. *)
LEMMA VerdictKeeps ==
  ASSUME NpmInv, UNCHANGED main, NEW p \in DOMAIN pub, Verdict(p)
  PROVE  NpmInv'
<1>1. CASE MayGo(p)
  BY <1>1, VerdictGoes DEF Verdict
<1>2. CASE ~MayGo(p)
  <2>1. Holds(p, "verdict") /\ Leave(p, "skipped") /\ UNCHANGED <<record, accepted, mishaps>>
    BY <1>2 DEF Verdict
  <2>2. \A w \in Unread : w.channel = "next" => LeftEarly(w)
    BY <2>1 DEF Holds, NpmInv, Confirming
  <2>3. mishaps' \in Nat
    BY <2>1 DEF NpmInv, NpmType
  <2>4. QED
    BY <2>1, <2>2, <2>3, RegistryStands, LeavesLane DEF Holds
<1>3. QED
  BY <1>1, <1>2

(* The publisher goes on in the lane without a new verdict. *)
LEMMA GoesOn ==
  ASSUME NpmInv, UNCHANGED <<main, record>>, NEW p \in DOMAIN pub, lane = p, lane' = p,
         NEW s \in Publisher, pub' = [pub EXCEPT ![p] = s],
         s.channel = pub[p].channel, s.source = pub[p].source, s.checkout = pub[p].checkout,
         s.unread = pub[p].unread, s.said = pub[p].said, s.pc = "confirm", mishaps' \in Nat,
         accepted' \in Seq(Version), OneRecord',
         \A i \in DOMAIN accepted', w \in record.versions \cup Unread' :
           /\ w \in Named(accepted'[i].channel) \/ \E k \in DOMAIN accepted' : k < i /\ accepted'[k] = w
           /\ Ahead(w, accepted'[i])
           => Excused(accepted'[i], w),
         \A w \in record.versions \cup Unread' : OnMain(w.source) /\ w.source <= pub[p].checkout,
         \A w \in Unread' : w.channel = "next" => w = Publishing(p) \/ LeftEarly(w)
  PROVE  NpmInv'
<1>1. NpmType' /\ pub'[p] = s /\ DOMAIN pub' = DOMAIN pub /\ p # 0
  BY PubTypes, InTheLane DEF NpmInv, NpmType
<1>2. /\ \A v, w : Excused(v, w) => Excused(v, w)'
      /\ \A w : LeftEarly(w) => LeftEarly(w)'
      /\ Publishing(p)' = Publishing(p)
  BY BlindStays DEF NpmInv
<1>3. BlindOnly'
  BY <1>2 DEF BlindOnly, Named, Ahead
<1>4. BlindInLane'
  BY <1>1 DEF BlindInLane
<1>5. Placeable'
  BY <1>1 DEF NpmInv, Placeable, OnMain
<1>6. Confirming'
  BY <1>1, <1>2 DEF Confirming
<1>7. QED
  BY <1>1, <1>3, <1>4, <1>5, <1>6 DEF NpmInv

(* npm publish: refused, taken, or taken and not answered. *)
LEMMA PublishKeeps ==
  ASSUME NpmInv, UNCHANGED main, NEW p \in DOMAIN pub, Publish(p) \/ PublishAnswerLost(p)
  PROVE  NpmInv'
<1>1. Holds(p, "publish") /\ lane = p /\ p # 0 /\ pub[p].pc = "publish" /\ UNCHANGED record
  BY InTheLane DEF NpmInv, Publish, PublishAnswerLost, Holds
<1>2. mishaps' \in Nat
  BY DEF Publish, PublishAnswerLost, NpmFault, NpmInv, NpmType
<1>3. \A w \in Unread : w.channel = "next" => LeftEarly(w)
  BY <1>1 DEF NpmInv, Confirming
<1>4. CASE Taken(p)
  <2>1. Leave(p, "failed") /\ UNCHANGED accepted
    BY <1>4 DEF Publish, PublishAnswerLost
  <2>2. QED
    BY <1>1, <1>2, <1>3, <2>1, RegistryStands, LeavesLane
<1>5. CASE ~Taken(p) /\ PublishAnswerLost(p)
  <2>1. Leave(p, "failed") /\ accepted' = Append(accepted, Publishing(p))
    BY <1>5 DEF PublishAnswerLost
  <2>2. \A w \in Unread \cup {Publishing(p)} : w.channel = "next" => LeftEarly(w) \/ w = Publishing(p)
    BY <1>3
  <2>3. QED
    BY <1>1, <1>2, <1>5, <2>1, <2>2, RegistryTakes, LeavesLane
<1>6. CASE ~Taken(p) /\ Publish(p)
  <2>1. accepted' = Append(accepted, Publishing(p))
    BY <1>6 DEF Publish
  <2>2. CASE Confirmed(p)
    <3> DEFINE s == [pub[p] EXCEPT !.pc = "confirm"]
    <3>1. pub' = [pub EXCEPT ![p] = s] /\ lane' = p
      BY <1>1, <1>6, <2>2 DEF Publish, Turn
    <3>2. /\ s \in Publisher /\ s.channel = pub[p].channel /\ s.source = pub[p].source /\ s.checkout = pub[p].checkout
          /\ s.unread = pub[p].unread /\ s.said = pub[p].said /\ s.pc = "confirm"
      BY InTheLane DEF NpmInv, Publisher
    <3> HIDE DEF s
    <3>3. \A w \in Unread \cup {Publishing(p)} : w.channel = "next" => w = Publishing(p) \/ LeftEarly(w)
      BY <1>3
    <3>4. QED
      BY <1>1, <1>2, <1>6, <2>1, <3>1, <3>2, <3>3, RegistryTakes, GoesOn
  <2>3. CASE ~Confirmed(p)
    <3>1. Leave(p, "published")
      BY <1>6, <2>3 DEF Publish
    <3>2. \A w \in Unread \cup {Publishing(p)} : w.channel = "next" => LeftEarly(w)
      BY <1>3, <2>3, InTheLane DEF Confirmed, NpmInv
    <3>3. QED
      BY <1>1, <1>2, <1>6, <2>1, <3>1, <3>2, RegistryTakes, LeavesLane
  <2>4. QED
    BY <2>2, <2>3
<1>7. QED
  BY <1>4, <1>5, <1>6

(* npmConfirm: one read, and the lane is held or left. *)
LEMMA ConfirmKeeps ==
  ASSUME NpmInv, UNCHANGED main, NEW p \in DOMAIN pub, Confirm(p)
  PROVE  NpmInv'
<1>1. Holds(p, "confirm") /\ lane = p /\ p # 0 /\ pub[p].pc = "confirm" /\ UNCHANGED <<record, accepted, mishaps>>
  BY InTheLane DEF NpmInv, Confirm, Holds
<1>2. mishaps' \in Nat
  BY <1>1 DEF NpmInv, NpmType
<1>3. \A w \in Unread : w.channel = "next" => w = Publishing(p) \/ LeftEarly(w)
  BY <1>1 DEF NpmInv, Confirming
<1>4. CASE Publishing(p) \in record.versions
  <2>1. \A w \in Unread : w # Publishing(p)
    BY <1>4, UnreadAre DEF NpmInv, OneRecord
  <2>2. PICK word \in {"behind", "settled"} : Leave(p, word)
    BY <1>4 DEF Confirm, Shown
  <2>3. QED
    BY <1>1, <1>2, <1>3, <2>1, <2>2, RegistryStands, LeavesLane
<1>5. CASE Publishing(p) \notin record.versions /\ Leave(p, "unsettled")
  BY <1>1, <1>2, <1>3, <1>5, RegistryStands, LeavesLane
<1>6. CASE Turn(p, [pub[p] EXCEPT !.reads = @ + 1])
  <2> DEFINE s == [pub[p] EXCEPT !.reads = @ + 1]
  <2>1. pub' = [pub EXCEPT ![p] = s] /\ lane' = p
    BY <1>1, <1>6 DEF Turn
  <2>2. /\ s \in Publisher /\ s.channel = pub[p].channel /\ s.source = pub[p].source /\ s.checkout = pub[p].checkout
        /\ s.unread = pub[p].unread /\ s.said = pub[p].said /\ s.pc = "confirm"
    BY <1>1, InTheLane DEF NpmInv, Publisher
  <2> HIDE DEF s
  <2>3. \A w \in record.versions \cup Unread : w.source <= pub[p].checkout
    BY <1>1 DEF NpmInv, Placeable
  <2>4. QED
    BY <1>1, <1>2, <1>3, <2>1, <2>2, <2>3, RegistryStands, GoesOn
<1>7. QED
  BY <1>4, <1>5, <1>6 DEF Confirm

(* Somebody runs a publisher again. *)
LEMMA RepublishKeeps ==
  ASSUME NpmInv, UNCHANGED main, NEW p \in DOMAIN pub, Republish(p)
  PROVE  NpmInv'
<1> DEFINE s == [pub[p] EXCEPT !.pc = "queued"]
<1>1. pub' = [pub EXCEPT ![p] = s] /\ pub[p].pc = "over" /\ UNCHANGED <<record, accepted, lane, mishaps>>
  BY DEF Republish
<1>2. /\ s \in Publisher /\ s.channel = pub[p].channel /\ s.source = pub[p].source /\ s.checkout = pub[p].checkout
      /\ s.unread = pub[p].unread /\ s.said = pub[p].said /\ s.pc = "queued"
  BY InTheLane DEF NpmInv, Publisher
<1> HIDE DEF s
<1>3. /\ NpmType' /\ pub'[p] = s /\ DOMAIN pub' = DOMAIN pub
      /\ \A q \in DOMAIN pub : q # p => pub'[q] = pub[q]
  BY <1>1, <1>2, PubTypes DEF NpmInv, NpmType
<1>4. /\ \A v, w : Excused(v, w) => Excused(v, w)'
      /\ \A w : LeftEarly(w) => LeftEarly(w)'
      /\ \A q \in DOMAIN pub : Publishing(q)' = Publishing(q)
  BY <1>1, <1>2, BlindStays DEF NpmInv
<1>5. OneRecord' /\ Unread' = Unread
  BY <1>1, RegistryStands DEF NpmInv
<1>6. BlindOnly'
  BY <1>1, <1>4, <1>5 DEF NpmInv, BlindOnly, Named, Ahead
<1>7. lane # 0 => lane \in DOMAIN pub
  BY DEF NpmInv, NpmType
<1>8. BlindInLane'
  <2>1. CASE lane # 0 /\ pub'[lane].pc = "publish"
    <3>1. lane # p /\ pub'[lane] = pub[lane] /\ Publishing(lane)' = Publishing(lane)
      BY <1>1, <1>2, <1>3, <1>7, <2>1 DEF Publishing
    <3>2. QED
      BY <1>1, <1>4, <1>5, <2>1, <3>1 DEF NpmInv, BlindInLane, Named, Ahead
  <2>2. CASE ~(lane # 0 /\ pub'[lane].pc = "publish")
    BY <1>1, <2>2 DEF BlindInLane
  <2>3. QED
    BY <2>1, <2>2
<1>9. Placeable'
  BY <1>1, <1>2, <1>3, <1>5, <1>7 DEF NpmInv, Placeable, OnMain
<1>10. Confirming'
  <2>1. lane # 0 /\ lane # p => pub'[lane] = pub[lane] /\ Publishing(lane)' = Publishing(lane)
    BY <1>1, <1>3, <1>7 DEF Publishing
  <2>2. lane = p => pub[lane].pc = "over" /\ pub'[lane].pc = "queued"
    BY <1>1, <1>2, <1>3
  <2>3. QED
    BY <1>1, <1>4, <1>5, <2>1, <2>2 DEF NpmInv, Confirming
<1>11. QED
  BY <1>3, <1>5, <1>6, <1>8, <1>9, <1>10 DEF NpmInv

(* The registry shows the oldest publish it took, under its dist-tag. *)
LEMMA AppearKeeps ==
  ASSUME NpmInv, UNCHANGED main, Appear
  PROVE  NpmInv'
<1> DEFINE v == accepted[1]
           top == Len(accepted)
<1>1. /\ top \in Nat \ {0} /\ DOMAIN accepted = 1..top /\ 1 \in 1..top
      /\ v \in Version /\ v \in Unread
  BY UnreadAre DEF NpmInv, NpmType, Appear
<1>2. /\ accepted' \in Seq(Version) /\ DOMAIN accepted' = 1..(top - 1)
      /\ \A i \in 1..(top - 1) : i + 1 \in 1..top /\ accepted'[i] = accepted[i + 1]
  BY <1>1 DEF NpmInv, NpmType, Appear
<1>3. /\ record'.versions = record.versions \cup {v}
      /\ record'.next = IF v.channel = "next" THEN {v} ELSE record.next
      /\ record'.latest = IF v.channel = "stable" \/ record.latest = {} THEN {v} ELSE record.latest
      /\ record' \in [versions : SUBSET Version, next : SUBSET Version, latest : SUBSET Version]
  BY <1>1 DEF NpmInv, NpmType, Appear
<1>4. UNCHANGED <<lane, pub, mishaps>>
  BY DEF Appear
<1>5. Unread' \subseteq Unread
  BY <1>1, <1>2 DEF Unread
<1> HIDE DEF v, top
<1>6. NpmType'
  BY <1>2, <1>3, <1>4 DEF NpmInv, NpmType
<1>7. OneRecord'
  <2>1. \A i \in DOMAIN accepted' : accepted'[i] \notin record'.versions
    <3> SUFFICES ASSUME NEW i \in DOMAIN accepted' PROVE accepted'[i] \notin record'.versions
      OBVIOUS
    <3>1. i + 1 \in DOMAIN accepted /\ i + 1 # 1 /\ accepted'[i] = accepted[i + 1] /\ 1 \in DOMAIN accepted
      BY <1>1, <1>2
    <3>2. accepted[i + 1] # accepted[1] /\ accepted[i + 1] \notin record.versions
      BY <3>1 DEF NpmInv, OneRecord
    <3>3. QED
      BY <1>3, <3>1, <3>2 DEF v
  <2>2. ASSUME NEW i \in DOMAIN accepted', NEW k \in DOMAIN accepted', accepted'[i] = accepted'[k]
        PROVE  i = k
    <3>1. i + 1 \in DOMAIN accepted /\ k + 1 \in DOMAIN accepted /\ accepted[i + 1] = accepted[k + 1]
          /\ i \in Nat /\ k \in Nat
      BY <1>1, <1>2, <2>2
    <3>2. i + 1 = k + 1
      BY <3>1 DEF NpmInv, OneRecord
    <3>3. QED
      BY <3>1, <3>2
  <2>3. record'.next \cup record'.latest \subseteq record'.versions
    BY <1>3 DEF NpmInv, OneRecord
  <2>4. /\ \A w \in record'.next : w.channel = "next" /\ \A u \in record'.next : w = u
        /\ \A w, u \in record'.latest : w = u
    BY <1>3 DEF NpmInv, OneRecord
  <2>5. QED
    BY <2>1, <2>2, <2>3, <2>4 DEF OneRecord
<1>8. \A ch : \A w \in Named(ch)' : w \in Named(ch) \/ w = v
  BY <1>3 DEF Named
<1>9. BlindOnly'
  <2> SUFFICES ASSUME NEW i \in DOMAIN accepted', NEW w \in record'.versions \cup Unread', NEW u, u = accepted'[i],
                      w \in Named(u.channel)' \/ \E k \in DOMAIN accepted' : k < i /\ accepted'[k] = w,
                      Ahead(w, u)
               PROVE  Excused(u, w)
    BY <1>4 DEF BlindOnly, Ahead, Named, Excused, BlindTo, LeftEarly, Publishing
  <2>1. i \in Nat /\ i + 1 \in DOMAIN accepted /\ 1 < i + 1 /\ u = accepted[i + 1]
    BY <1>1, <1>2
  <2>2. w \in Named(u.channel) \/ w = v \/ \E k \in DOMAIN accepted' : k < i /\ accepted'[k] = w
    BY <1>8
  <2>3. (\E k \in DOMAIN accepted' : k < i /\ accepted'[k] = w) => \E k \in DOMAIN accepted : k < i + 1 /\ accepted[k] = w
    <3> SUFFICES ASSUME NEW k \in DOMAIN accepted', k < i, accepted'[k] = w
                 PROVE  \E m \in DOMAIN accepted : m < i + 1 /\ accepted[m] = w
      OBVIOUS
    <3>1. k + 1 \in DOMAIN accepted /\ k + 1 < i + 1 /\ accepted[k + 1] = w
      BY <1>1, <1>2, <2>1
    <3>2. QED
      BY <3>1
  <2>4. w = v => \E k \in DOMAIN accepted : k < i + 1 /\ accepted[k] = w
    BY <1>1, <2>1 DEF v
  <2>5. w \in record.versions \cup Unread
    BY <1>1, <1>3, <1>5
  <2>6. QED
    BY <2>1, <2>2, <2>3, <2>4, <2>5 DEF NpmInv, BlindOnly
<1>10. BlindInLane'
  <2> SUFFICES ASSUME lane # 0, pub[lane].pc = "publish", NEW channel, channel = pub[lane].channel,
                      NEW w \in Named(channel)' \cup Unread', Ahead(w, Publishing(lane))
               PROVE  w \in pub[lane].unread /\ (w.channel = "next" => LeftEarly(w))
    BY <1>4 DEF BlindInLane, Ahead, Publishing, Named, LeftEarly
  <2>1. w \in Named(channel) \cup Unread
    BY <1>1, <1>5, <1>8
  <2>2. QED
    BY <2>1 DEF NpmInv, BlindInLane
<1>11. Placeable'
  BY <1>1, <1>3, <1>4, <1>5 DEF NpmInv, Placeable, OnMain
<1>12. Confirming'
  BY <1>4, <1>5 DEF NpmInv, Confirming, LeftEarly, Publishing
<1>13. QED
  BY <1>6, <1>7, <1>9, <1>10, <1>11, <1>12 DEF NpmInv

(* Every step of the pipeline keeps what the registry and the lane promise. *)
LEMMA NpmKept ==
  ASSUME MainType, branch \subseteq BranchHead, NpmInv, [Next]_vars
  PROVE  NpmInv'
<1>1. CASE UNCHANGED npmVars
  <2>1. \A n : OnMain(n) => OnMain(n)'
    BY MainKept DEF OnMain
  <2>2. NpmType' /\ OneRecord' /\ Unread' = Unread /\ BlindOnly' /\ BlindInLane' /\ Confirming'
    BY <1>1 DEF npmVars, NpmInv, NpmType, OneRecord, Unread, BlindOnly, BlindInLane, Confirming,
                Named, Ahead, Excused, BlindTo, LeftEarly, Publishing
  <2>3. Placeable'
    BY <1>1, <2>1, <2>2 DEF npmVars, NpmInv, Placeable
  <2>4. QED
    BY <2>2, <2>3 DEF NpmInv
<1>2. CASE UNCHANGED main /\ Appear
  BY <1>2, AppearKeeps
<1>3. CASE UNCHANGED main /\ \E p \in DOMAIN pub : PublisherStep(p)
  <2>1. PICK p \in DOMAIN pub : PublisherStep(p)
    BY <1>3
  <2>2. CASE PublisherDies(p)
    <3>1. lane = p /\ Leave(p, "failed") /\ UNCHANGED <<record, accepted>> /\ mishaps' \in Nat
      BY <2>2 DEF PublisherDies, NpmFault, NpmInv, NpmType
    <3>2. \A w \in Unread : w.channel = "next" => LeftEarly(w) \/ w = Publishing(p)
      BY <3>1 DEF NpmInv, Confirming
    <3>3. QED
      BY <1>3, <3>1, <3>2, RegistryStands, LeavesLane
  <2>3. QED
    BY <1>3, <2>1, <2>2, TakesLane, VerdictKeeps, PublishKeeps, ConfirmKeeps, RepublishKeeps DEF PublisherStep
<1>4. QED
  BY <1>1, <1>2, <1>3 DEF Next, MainGrows, Packaging, Npm, NpmNext, Anchoring, vars

(* What the registry took and shows stays in order, but for blind publishers. *)
THEOREM NpmInvariant == Spec => []NpmInv
<1>1. Init => NpmInv
  BY RegistryStarts
<1>2. MainType /\ AnchorInv /\ NpmInv /\ [Next]_vars => NpmInv'
  BY NpmKept DEF AnchorInv, AnchorType
<1>3. QED
  BY <1>1, <1>2, AnchorInvariant, PTL DEF Spec

(* A dist-tag moves back to an older version only through a publisher that was blind
   to the very version it displaces; and next only from a version whose publisher
   had said that it left the lane early. One that its publisher saw shown stays until
   a newer one comes.                                                      *)
THEOREM DistTagsFallBackOnlyBlind == Spec => ChannelsOnlyAdvance
<1> DEFINE Forward ==
      /\ \A w \in record.next, v \in record.next' : Ahead(w, v) => BlindTo(v, w) /\ LeftEarly(w)
      /\ \A w \in record.latest, v \in record.latest' : Ahead(w, v) => BlindTo(v, w)
<1>1. ASSUME NpmInv, UNCHANGED record PROVE Forward
  <2>1. /\ \A v, w \in record.next : v = w /\ v.source \in Nat
        /\ \A v, w \in record.latest : v = w /\ v.source \in Nat
    BY <1>1 DEF NpmInv, NpmType, OneRecord, Version
  <2>2. QED
    BY <1>1, <2>1 DEF Ahead
<1>2. ASSUME NpmInv, Appear PROVE Forward
  <2> DEFINE u == accepted[1]
  <2>1. 1 \in DOMAIN accepted /\ u \in Version /\ u \in Unread
    BY <1>2, UnreadAre DEF NpmInv, NpmType, Appear
  <2>2. /\ record'.next = IF u.channel = "next" THEN {u} ELSE record.next
        /\ record'.latest = IF u.channel = "stable" \/ record.latest = {} THEN {u} ELSE record.latest
    BY <1>2 DEF NpmInv, NpmType, Appear
  <2> HIDE DEF u
  <2>3. \A w : w \in Named(u.channel) /\ Ahead(w, u) => Excused(u, w)
    <3> SUFFICES ASSUME NEW w \in Named(u.channel), Ahead(w, u) PROVE Excused(u, w)
      OBVIOUS
    <3>1. w \in record.versions
      BY <1>2, NamedIsShown DEF NpmInv
    <3>2. QED
      BY <1>2, <2>1, <3>1 DEF NpmInv, BlindOnly, u
  <2>4. ASSUME NEW w \in record.next, NEW v \in record'.next, Ahead(w, v)
        PROVE  BlindTo(v, w) /\ LeftEarly(w)
    <3>1. w.channel = "next" /\ w.source \in Nat
      BY <1>2 DEF NpmInv, OneRecord, NpmType, Version
    <3>2. v = u /\ u.channel = "next"
      BY <1>2, <2>2, <2>4, <3>1 DEF NpmInv, OneRecord, Ahead
    <3>3. QED
      BY <2>3, <2>4, <3>1, <3>2 DEF Named, Excused
  <2>5. ASSUME NEW w \in record.latest, NEW v \in record'.latest, Ahead(w, v)
        PROVE  BlindTo(v, w)
    <3>1. w.source \in Nat
      BY <1>2 DEF NpmInv, NpmType, Version
    <3>2. v = u /\ u.channel = "stable"
      BY <1>2, <2>2, <2>5, <3>1 DEF NpmInv, OneRecord, Ahead
    <3>3. QED
      BY <2>3, <2>5, <3>2 DEF Named, Ahead, Excused
  <2>6. QED
    BY <2>4, <2>5
<1>3. NpmInv /\ [Next]_vars => Forward
  <2>1. ASSUME NpmInv, NEW p \in DOMAIN pub, PublisherStep(p) PROVE UNCHANGED record
    BY <2>1 DEF PublisherStep, TakeLane, Verdict, Publish, Confirm, PublisherDies, PublishAnswerLost, Republish
  <2>2. QED
    BY <1>1, <1>2, <2>1 DEF Next, MainGrows, Packaging, Npm, NpmNext, Anchoring, vars, npmVars
<1>4. QED
  BY <1>3, NpmInvariant, PTL DEF Spec, ChannelsOnlyAdvance

=============================================================================
