------------------------- MODULE IssueReportProofs -------------------------
(***************************************************************************)
(* Proofs about IssueReport, for every set of runs, every declaration and  *)
(* every bound: the safety properties of the reused report issue.          *)
(***************************************************************************)
EXTENDS IssueReport, Numbers

-----------------------------------------------------------------------------
(* The inductive invariant. *)

(* An issue carries the marker only while the repository has that label. *)
MarkedByLabel == \A n \in Numbers : Marker \in issues[n].labels => Marker \in labels

(* What run r knows of the issue it is about to write, and, as long as nobody else
   has written to that issue, what still holds of it.                      *)
Standing(r) ==
  LET s == run[r]
      i == issues[s.found]
  IN  /\ s.pc \in {"label", "lookup", "scan"} => s.relabel = {}
      /\ s.pc \in {"patch", "close"} => s.found \in Numbers /\ i.report
      /\ s.pc = "patch" =>
           /\ s.relabel # {} => Marker \in s.relabel
           /\ ~s.crossed /\ s.relabel = {} => Marker \in i.labels
           /\ ~s.crossed /\ s.relabel # {} => i.labels \subseteq s.relabel \cup {Marker}
      /\ s.pc = "close" =>
           /\ ~s.need
           /\ ~s.crossed => i.by = r /\ ~i.need /\ Marker \in i.labels
      /\ s.pc = "create" => s.known <= Len(issues) /\ \A n \in Reports : n > s.known

IInv == TypeOK /\ MarkedByLabel /\ \A r \in Runs : Standing(r)
-----------------------------------------------------------------------------
(* Finding the report issue. *)

(* An issue's number is its place. *)
LEMMA NumbersAre ==
  ASSUME issues \in Seq(Issue)
  PROVE  /\ Len(issues) \in Nat /\ Numbers = 1..Len(issues)
         /\ Numbers \subseteq Nat \ {0}
         /\ \A n \in Numbers : issues[n] \in Issue /\ n <= Len(issues)
<1>1. Len(issues) \in Nat /\ Numbers = 1..Len(issues)
  BY DEF Numbers
<1>2. \A n \in Numbers : issues[n] \in Issue
  BY DEF Numbers
<1>3. QED
  BY <1>1, <1>2

(* Of some issues that were found one is picked, of none none. *)
LEMMA PickFinds ==
  ASSUME issues \in Seq(Issue), NEW found \in SUBSET Numbers
  PROVE  /\ found = {} => Pick(found) = 0
         /\ found # {} => Pick(found) \in found /\ Pick(found) # 0
<1> DEFINE open == {n \in found : issues[n].open}
<1>1. found \in SUBSET Nat /\ Len(issues) \in Nat /\ \A n \in found : n <= Len(issues) /\ n # 0
  BY NumbersAre
<1>2. found # {} => Max(found) \in found
  BY <1>1, LargestNumber
<1>3. open # {} => Max(open) \in open
  <2>1. open \in SUBSET Nat /\ \A n \in open : n <= Len(issues)
    BY <1>1
  <2> HIDE DEF open
  <2>2. QED
    BY <1>1, <2>1, LargestNumber
<1>4. QED
  BY <1>1, <1>2, <1>3 DEF Pick, PickNewest

(* A walk finds reports, and finds one when there is one. *)
LEMMA WalkFinds ==
  ASSUME issues \in Seq(Issue), NEW listed \in SUBSET Numbers
  PROVE  /\ CandidatesIn(listed) \subseteq listed \cap Reports
         /\ listed \cap Reports # {} => CandidatesIn(listed) # {}
<1> DEFINE all == {n \in listed : Candidate(n)}
<1>1. all = listed \cap Reports
  BY DEF Candidate, Reports
<1>2. \A n : PageOf(listed, n) \in Nat
  <2> SUFFICES ASSUME NEW n PROVE PageOf(listed, n) \in Nat
    OBVIOUS
  <2>1. IsFiniteSet(Numbers)
    BY NumbersAre, FS_Interval
  <2>2. Cardinality({m \in listed : m > n}) \in Nat
    BY <2>1, FS_Subset, FS_CardinalityType
  <2>3. QED
    BY <2>2, ReportConstants DEF PageOf
<1>3. ASSUME all # {} PROVE \E n \in all : \A m \in all : PageOf(listed, n) <= PageOf(listed, m)
  <2> DEFINE pages == {p \in Nat : \E n \in all : p = PageOf(listed, n)}
  <2>1. pages # {}
    BY <1>2, <1>3
  <2>2. PICK p \in pages : \A o \in pages : p <= o
    BY <2>1, SmallestNumber
  <2>3. PICK n \in all : p = PageOf(listed, n)
    BY <2>2
  <2>4. \A m \in all : PageOf(listed, m) \in pages
    BY <1>2
  <2>5. QED
    BY <2>2, <2>3, <2>4
<1>4. QED
  BY <1>1, <1>3 DEF CandidatesIn

(* The lookup finds a report that carries the marker, or none. *)
LEMMA LookUpFinds ==
  ASSUME TypeOK, NEW closing \in BOOLEAN, LookedUp(closing) # 0
  PROVE  LookedUp(closing) \in Reports /\ Marker \in issues[LookedUp(closing)].labels
<1> DEFINE listed == {n \in Labelled : closing => issues[n].open}
<1>1. issues \in Seq(Issue) /\ listed \in SUBSET Numbers
  BY DEF TypeOK, Labelled
<1>2. CandidatesIn(listed) \subseteq listed \cap Reports /\ CandidatesIn(listed) \in SUBSET Numbers
  BY <1>1, WalkFinds
<1>3. LookedUp(closing) \in CandidatesIn(listed)
  BY <1>1, <1>2, PickFinds DEF LookedUp
<1>4. QED
  BY <1>2, <1>3 DEF Labelled

(* The scan finds a report, or there is none. *)
LEMMA ScanFinds ==
  ASSUME TypeOK
  PROVE  IF Scanned = 0 THEN Reports = {} ELSE Scanned \in Reports
<1>1. issues \in Seq(Issue) /\ Numbers \in SUBSET Numbers
  BY DEF TypeOK
<1>2. /\ CandidatesIn(Numbers) \in SUBSET Numbers
      /\ CandidatesIn(Numbers) \subseteq Reports
      /\ Reports # {} => CandidatesIn(Numbers) # {}
  BY <1>1, WalkFinds DEF Reports
<1>3. QED
  BY <1>1, <1>2, PickFinds DEF Scanned, ScannedAmong

-----------------------------------------------------------------------------
(* The labels section. *)

(* Whatever section a run applies, injected with the marker, leaves the marker. *)
LEMMA MarkerKept ==
  ASSUME NEW d \in Declaration, NEW L, Marker \in L
  PROVE  Marker \in LabelsAfter(InjectMarker(d), L)
<1>1. ASSUME NEW e, NEW D, e \in D.entries, Written(e) = Marker
      PROVE  Marker \in LabelsAfter(D, L)
  BY <1>1 DEF LabelsAfter
<1>2. CASE \E e \in d.entries : RenamesMarkerAway(e)
  <2>1. PICK e \in d.entries : RenamesMarkerAway(e)
    BY <1>2
  <2>2. [e EXCEPT !.to = Unset] \in InjectMarker(d).entries
    BY <1>2, <2>1 DEF InjectMarker, Declaration
  <2>3. Written([e EXCEPT !.to = Unset]) = Marker
    BY <2>1 DEF Written, RenamesMarkerAway, Declaration, LabelEntry
  <2>4. QED
    BY <1>1, <2>2, <2>3
<1>3. CASE ~\E e \in d.entries : RenamesMarkerAway(e)
  <2>1. InjectMarker(d) = InjectWithoutGuard(d)
    BY <1>3 DEF InjectMarker
  <2>2. CASE \E e \in d.entries : Marker \in {e.name, Written(e)}
    <3>1. PICK e \in d.entries : Marker \in {e.name, Written(e)}
      BY <2>2
    <3>2. Written(e) = Marker
      BY <1>3, <3>1 DEF RenamesMarkerAway
    <3>3. InjectMarker(d) = d
      BY <2>1, <2>2 DEF InjectWithoutGuard
    <3>4. QED
      BY <1>1, <3>2, <3>3
  <2>3. CASE d = Absent
    <3>1. InjectMarker(d) = Absent
      BY <2>1, <2>3 DEF InjectWithoutGuard
    <3>2. QED
      BY <3>1 DEF LabelsAfter, Absent
  <2>4. CASE d # Absent /\ ~\E e \in d.entries : Marker \in {e.name, Written(e)}
    <3>1. InjectMarker(d) = [d EXCEPT !.entries = @ \cup {[name |-> Marker, to |-> Unset]}]
      BY <2>1, <2>4 DEF InjectWithoutGuard
    <3>2. [name |-> Marker, to |-> Unset] \in InjectMarker(d).entries
      BY <3>1 DEF Declaration
    <3>3. Written([name |-> Marker, to |-> Unset]) = Marker
      BY DEF Written
    <3>4. QED
      BY <1>1, <3>2, <3>3
  <2>5. QED
    BY <2>2, <2>3, <2>4
<1>4. QED
  BY <1>2, <1>3
(* A run's labels section takes the marker off no issue. *)
LEMMA StartKeepsIssues ==
  ASSUME TypeOK, MarkedByLabel, NEW r \in Runs, Start(r)
  PROVE  /\ Marker \in labels => Marker \in labels'
         /\ issues' = issues
<1>1. PICK d \in Declarations :
        /\ labels' = LabelsAfter(InjectMarker(d), labels)
        /\ issues' = Unlabelled(labels')
  BY DEF Start
<1>2. Marker \in labels => Marker \in labels'
  BY <1>1, MarkerKept, ReportConstants
<1>3. \A n \in Numbers : Unlabelled(labels')[n] = issues[n]
  <2> SUFFICES ASSUME NEW n \in Numbers, Marker \notin labels'
               PROVE  [issues[n] EXCEPT !.labels = @ \ {Marker}] = issues[n]
    BY DEF Unlabelled
  <2>1. issues[n] \in Issue /\ Marker \notin issues[n].labels
    BY <1>2, NumbersAre DEF TypeOK, MarkedByLabel
  <2>2. issues[n].labels \ {Marker} = issues[n].labels
    BY <2>1
  <2>3. QED
    BY <2>1, <2>2 DEF Issue
<1>4. issues = [n \in Numbers |-> issues[n]] /\ Unlabelled(labels') = [n \in Numbers |-> Unlabelled(labels')[n]]
  BY DEF TypeOK, Unlabelled, Numbers
<1>5. QED
  BY <1>1, <1>2, <1>3, <1>4

-----------------------------------------------------------------------------
(* Requests. *)

(* A run as others cross it is what it was, or marked as crossed. *)
LEMMA SeenRuns ==
  ASSUME TypeOK, NEW who, NEW n
  PROVE  /\ Seen(who, n) \in [Runs -> RunState]
         /\ \A q \in Runs :
              /\ Seen(who, n)[q] \in {run[q], [run[q] EXCEPT !.crossed = TRUE]}
              /\ q # who /\ run[q].found = n /\ n # 0 => Seen(who, n)[q].crossed
         /\ who \in Runs => Seen(who, n)[who] = run[who]
<1>1. \A q \in Runs : run[q] \in RunState /\ [run[q] EXCEPT !.crossed = TRUE] \in RunState
                      /\ [run[q] EXCEPT !.crossed = TRUE].crossed
  BY DEF TypeOK, RunState
<1>2. \A q \in Runs :
        Seen(who, n)[q] = IF q # who /\ run[q].found = n /\ n # 0
                            THEN [run[q] EXCEPT !.crossed = TRUE] ELSE run[q]
  BY DEF Seen
<1>3. Seen(who, n) = [q \in Runs |-> Seen(who, n)[q]]
  BY DEF Seen
<1>4. QED
  BY <1>1, <1>2, <1>3

(* What a request may do: it writes one issue at most, keeps every report a report,
   and no marker without the label.                                        *)
Writes(n) ==
  /\ labels' \subseteq {Marker, Spare} /\ (Marker \in labels => Marker \in labels')
  /\ issues' \in Seq(Issue) /\ Len(issues') >= Len(issues)
  /\ \A m \in Numbers :
       /\ m # n => issues'[m] = issues[m]
       /\ issues'[m].report = issues[m].report
  /\ \A m \in Numbers' \ Numbers : m = n /\ issues'[m].report
  /\ n \in Numbers' /\ Marker \in issues'[n].labels => Marker \in labels'

(* The request run r is about to send writes its target. *)
LEMMA LandsWrites ==
  ASSUME IInv, NEW r \in Runs, Lands(r)
  PROVE  Writes(Target(r))
<1> DEFINE s == run[r]
<1>1. s \in RunState /\ issues \in Seq(Issue) /\ labels \subseteq {Marker, Spare} /\ Standing(r)
  BY DEF IInv, TypeOK
<1>2. /\ Len(issues) \in Nat /\ Numbers = 1..Len(issues)
      /\ \A n \in Numbers : issues[n] \in Issue
  BY <1>1, NumbersAre
<1>3. \A n \in Numbers : Marker \in issues[n].labels => Marker \in labels
  BY DEF IInv, MarkedByLabel
<1>4. CASE s.pc = "label"
  <2>1. issues' = issues /\ labels' = labels \cup {Marker}
    BY <1>4 DEF Lands
  <2>2. QED
    BY <1>1, <1>2, <2>1 DEF Writes, Numbers
<1>5. CASE s.pc = "patch"
  <2>1. /\ issues' = [issues EXCEPT ![s.found] = Patched(r, issues[s.found])]
        /\ labels' = labels \cup (s.relabel \ {Triage}) /\ Target(r) = s.found
    BY <1>5 DEF Lands, Target
  <2>2. s.found \in Numbers
    BY <1>1, <1>5 DEF Standing
  <2>3. Patched(r, issues[s.found]) \in Issue
        /\ Patched(r, issues[s.found]).report = issues[s.found].report
        /\ Patched(r, issues[s.found]).labels =
              IF s.relabel = {} THEN issues[s.found].labels ELSE s.relabel
    <3> DEFINE b == PatchedBodyOnly(r, issues[s.found])
    <3>1. /\ b \in Issue /\ b.report = issues[s.found].report
          /\ b.labels = issues[s.found].labels
      <4>1. issues[s.found] \in Issue /\ s.need \in BOOLEAN
        BY <1>1, <1>2, <2>2 DEF RunState
      <4>2. b = [issues[s.found] EXCEPT !.by = r, !.need = s.need]
        BY DEF PatchedBodyOnly
      <4> HIDE DEF s, b
      <4>3. QED
        BY <4>1, <4>2 DEF Issue
    <3>2. s.need \in BOOLEAN /\ s.relabel \in SUBSET {Marker, Triage}
      BY <1>1 DEF RunState
    <3>3. Patched(r, issues[s.found]) =
            [b EXCEPT !.open = s.need,
                      !.labels = IF s.relabel = {} THEN b.labels ELSE s.relabel]
      BY DEF Patched
    <3> HIDE DEF b
    <3>4. QED
      BY <3>1, <3>2, <3>3 DEF Issue
  <2>4. issues' \in Seq(Issue) /\ Len(issues') = Len(issues) /\ Numbers' = Numbers
    BY <1>1, <2>1, <2>2, <2>3 DEF Numbers
  <2>5. \A m \in Numbers : issues'[m] = IF m = s.found THEN Patched(r, issues[s.found]) ELSE issues[m]
    BY <1>1, <2>1 DEF Numbers
  <2>6. labels' \subseteq {Marker, Spare} /\ (Marker \in s.relabel => Marker \in labels')
    BY <1>1, <2>1 DEF RunState, Marker, Triage
  <2>7. Marker \in issues'[s.found].labels => Marker \in labels'
    BY <1>3, <2>1, <2>2, <2>3, <2>5, <2>6
  <2>8. QED
    BY <2>1, <2>2, <2>3, <2>4, <2>5, <2>6, <2>7 DEF Writes
<1>6. CASE s.pc = "create"
  <2>1. /\ issues' = Append(issues, Created(r)) /\ labels' = labels \cup {Marker}
        /\ Target(r) = Len(issues) + 1
    BY <1>6 DEF Lands, Target
  <2>2. Created(r) \in Issue /\ Created(r).report
    BY <1>1 DEF Created, Issue, RunState
  <2>3. /\ issues' \in Seq(Issue) /\ Len(issues') = Len(issues) + 1
        /\ Numbers' = 1..(Len(issues) + 1) /\ issues'[Len(issues) + 1] = Created(r)
        /\ \A m \in Numbers : issues'[m] = issues[m]
    BY <1>1, <1>2, <2>1, <2>2 DEF Numbers
  <2>4. QED
    BY <1>1, <1>2, <2>1, <2>2, <2>3 DEF Writes
<1>7. CASE s.pc = "close"
  <2>1. /\ issues' = [issues EXCEPT ![s.found].open = FALSE]
        /\ labels' = labels /\ Target(r) = s.found
    BY <1>7 DEF Lands, Target
  <2>2. s.found \in Numbers
    BY <1>1, <1>7 DEF Standing
  <2>3. [issues[s.found] EXCEPT !.open = FALSE] \in Issue
    BY <1>2, <2>2 DEF Issue
  <2>4. issues' \in Seq(Issue) /\ Len(issues') = Len(issues) /\ Numbers' = Numbers
    BY <1>1, <2>1, <2>2, <2>3 DEF Numbers
  <2>5. \A m \in Numbers :
          issues'[m] = IF m = s.found THEN [issues[m] EXCEPT !.open = FALSE] ELSE issues[m]
    BY <1>1, <2>1 DEF Numbers
  <2>6. [issues[s.found] EXCEPT !.open = FALSE].report = issues[s.found].report
        /\ [issues[s.found] EXCEPT !.open = FALSE].labels = issues[s.found].labels
    BY <1>2, <2>2 DEF Issue
  <2>7. QED
    BY <1>1, <1>2, <1>3, <2>1, <2>2, <2>4, <2>5, <2>6 DEF Writes
<1>8. CASE s.pc \notin {"label", "patch", "create", "close"}
  <2>1. issues' = issues /\ labels' = labels
    BY <1>8 DEF Lands
  <2>2. QED
    BY <1>1, <1>2, <1>3, <2>1 DEF Writes, Numbers
<1>9. QED
  BY <1>4, <1>5, <1>6, <1>7, <1>8
(* A run that did not act stands as before, unless the issue it has found was
   written, which crosses it.                                              *)
LEMMA OthersStand ==
  ASSUME TypeOK, NEW q \in Runs, Standing(q), NEW n, Writes(n),
         run'[q] \in {run[q], [run[q] EXCEPT !.crossed = TRUE]},
         run[q].found = n /\ n # 0 => run'[q].crossed
  PROVE  Standing(q)'
<1> DEFINE s == run[q]
<1> DEFINE t == run'[q]
<1>1. /\ Len(issues) \in Nat /\ Len(issues') \in Nat /\ Len(issues') >= Len(issues)
      /\ Numbers = 1..Len(issues) /\ Numbers' = 1..Len(issues')
  BY NumbersAre DEF TypeOK, Writes, Numbers
<1>2. /\ t.pc = s.pc /\ t.found = s.found /\ t.relabel = s.relabel /\ t.need = s.need
      /\ t.known = s.known /\ (~t.crossed => ~s.crossed) /\ s.known \in Nat
  BY DEF TypeOK, RunState
<1>3. s.found \in Numbers =>
        /\ s.found \in Numbers' /\ issues'[s.found].report = issues[s.found].report
        /\ ~t.crossed => issues'[s.found] = issues[s.found]
  BY <1>1 DEF Writes
<1>4. s.known <= Len(issues) /\ (\A m \in Reports : m > s.known)
        => s.known <= Len(issues') /\ (\A m \in Reports' : m > s.known)
  <2> SUFFICES ASSUME s.known <= Len(issues), \A m \in Reports : m > s.known, NEW m \in Reports'
               PROVE  m > s.known
    BY <1>1, <1>2
  <2>1. m \in Numbers' /\ issues'[m].report
    BY DEF Reports
  <2>2. CASE m \in Numbers
    BY <2>1, <2>2 DEF Reports, Writes
  <2>3. CASE m \notin Numbers
    BY <1>1, <1>2, <2>1, <2>3
  <2>4. QED
    BY <2>2, <2>3
<1> HIDE DEF s, t
<1>5. QED
  BY <1>2, <1>3, <1>4 DEF Standing, s, t
(* A write keeps the marker with its label. *)
LEMMA WritesKeepMarked ==
  ASSUME TypeOK, MarkedByLabel, NEW n, Writes(n)
  PROVE  MarkedByLabel'
<1> SUFFICES ASSUME NEW m \in Numbers', Marker \in issues'[m].labels PROVE Marker \in labels'
  BY DEF MarkedByLabel
<1>1. CASE m = n
  BY <1>1 DEF Writes
<1>2. CASE m # n
  BY <1>2 DEF Writes, MarkedByLabel
<1>3. QED
  BY <1>1, <1>2
(* The patch leaves the report a report, with the labels it sends, if any. *)
LEMMA PatchedIs ==
  ASSUME IInv, NEW r \in Runs, At(r, "patch"), Lands(r)
  PROVE  LET n == run[r].found IN
         /\ n \in Numbers /\ n \in Numbers' /\ issues'[n].report
         /\ issues'[n].by = r /\ issues'[n].need = run[r].need /\ issues'[n].open = run[r].need
         /\ issues'[n].labels = IF run[r].relabel = {} THEN issues[n].labels ELSE run[r].relabel
<1> DEFINE n == run[r].found
<1>1. n \in Numbers /\ issues[n] \in Issue /\ issues[n].report /\ run[r] \in RunState
  BY NumbersAre DEF IInv, TypeOK, Standing, At
<1>2. issues' = [issues EXCEPT ![n] = Patched(r, issues[n])]
  BY DEF Lands, At
<1>3. issues'[n] = Patched(r, issues[n]) /\ n \in Numbers'
  BY <1>1, <1>2 DEF IInv, TypeOK, Numbers
<1> DEFINE b == PatchedBodyOnly(r, issues[n])
<1>4. /\ b \in Issue /\ b.report /\ b.by = r /\ b.need = run[r].need /\ b.labels = issues[n].labels
  <2>1. b = [issues[n] EXCEPT !.by = r, !.need = run[r].need] /\ run[r].need \in BOOLEAN
    BY <1>1 DEF PatchedBodyOnly, RunState
  <2> HIDE DEF b, n
  <2>2. QED
    BY <1>1, <2>1 DEF Issue
<1>5. Patched(r, issues[n]) =
        [b EXCEPT !.open = run[r].need,
                  !.labels = IF run[r].relabel = {} THEN b.labels ELSE run[r].relabel]
  BY DEF Patched
<1> HIDE DEF b
<1>6. QED
  BY <1>1, <1>3, <1>4, <1>5 DEF Issue

(* The issue created is the run's report. *)
LEMMA CreatedIs ==
  ASSUME IInv, NEW r \in Runs, At(r, "create"), Lands(r)
  PROVE  LET n == Len(issues) + 1 IN
         /\ n \in Numbers' /\ issues'[n] = Created(r) /\ Len(issues') = n
         /\ \A m \in Numbers : issues'[m] = issues[m]
<1>1. run[r] \in RunState /\ issues \in Seq(Issue)
  BY DEF IInv, TypeOK
<1>2. Created(r) \in Issue /\ issues' = Append(issues, Created(r))
  BY <1>1 DEF Created, Issue, RunState, Lands, At
<1>3. QED
  BY <1>1, <1>2 DEF Numbers

(* Closing changes nothing else. *)
LEMMA ClosedIs ==
  ASSUME IInv, NEW r \in Runs, At(r, "close"), Lands(r)
  PROVE  LET n == run[r].found IN
         /\ n \in Numbers /\ n \in Numbers' /\ issues'[n] = [issues[n] EXCEPT !.open = FALSE]
         /\ issues[n] \in Issue
<1>1. run[r].found \in Numbers /\ issues[run[r].found] \in Issue
  BY NumbersAre DEF IInv, TypeOK, Standing, At
<1>2. issues' = [issues EXCEPT ![run[r].found].open = FALSE]
  BY DEF Lands, At
<1>3. QED
  BY <1>1, <1>2 DEF IInv, TypeOK, Numbers

(* A run with its own record changed leaves the others standing. *)
LEMMA ProceedKeeps ==
  ASSUME IInv, NEW r \in Runs, NEW s \in RunState, Lands(r),
         run' = [Seen(r, Target(r)) EXCEPT ![r] = s],
         UNCHANGED edits, faults' \in Nat
  PROVE  /\ TypeOK' /\ MarkedByLabel' /\ run'[r] = s
         /\ \A q \in Runs \ {r} : Standing(q)'
<1>1. Writes(Target(r))
  BY LandsWrites
<1>2. Seen(r, Target(r)) \in [Runs -> RunState]
  BY SeenRuns DEF IInv
<1>3. run' \in [Runs -> RunState] /\ run'[r] = s /\ \A q \in Runs \ {r} : run'[q] = Seen(r, Target(r))[q]
  BY <1>2
<1>4. TypeOK'
  BY <1>1, <1>3 DEF IInv, TypeOK, Writes
<1>5. MarkedByLabel'
  BY <1>1, WritesKeepMarked DEF IInv
<1>6. ASSUME NEW q \in Runs \ {r} PROVE Standing(q)'
  <2>1. /\ run'[q] \in {run[q], [run[q] EXCEPT !.crossed = TRUE]}
        /\ run[q].found = Target(r) /\ Target(r) # 0 => run'[q].crossed
    BY <1>3, SeenRuns DEF IInv
  <2>2. QED
    BY <1>1, <2>1, OthersStand DEF IInv
<1>7. QED
  BY <1>3, <1>4, <1>5, <1>6

(* A run whose request is answered stands where the answer takes it. *)
LEMMA StepKeeps ==
  ASSUME IInv, NEW r \in Runs, Step(r)
  PROVE  IInv'
<1> DEFINE s == run[r]
<1>1. /\ s \in RunState /\ issues \in Seq(Issue) /\ Len(issues) \in Nat /\ Standing(r)
      /\ edits \in Nat /\ faults \in Nat
  BY DEF IInv, TypeOK
<1>2. ASSUME NEW t \in RunState, Proceed(r, t), run'[r] = t => Standing(r)'
      PROVE  IInv'
  <2>1. Lands(r) /\ run' = [Seen(r, Target(r)) EXCEPT ![r] = t] /\ UNCHANGED <<edits, faults>>
    BY <1>2 DEF Proceed
  <2>2. QED
    BY <1>1, <1>2, <2>1, ProceedKeeps DEF IInv
<1>3. Over(r) \in RunState /\ Over(r).pc = "done"
  BY <1>1 DEF Over, Fresh, RunState
<1>4. ASSUME Proceed(r, Over(r)) PROVE IInv'
  BY <1>2, <1>3, <1>4 DEF Standing
<1>5. CASE EnsureMarkerLabel(r)
  <2> DEFINE t == [s EXCEPT !.pc = "lookup"]
  <2>1. t \in RunState /\ t.pc = "lookup" /\ t.relabel = {} /\ Proceed(r, t)
    BY <1>1, <1>5 DEF EnsureMarkerLabel, At, Standing, RunState, Requests
  <2>2. run'[r] = t => Standing(r)'
    BY <2>1 DEF Standing
  <2>3. QED
    BY <1>2, <2>1, <2>2
<1>6. CASE LookUp(r)
  <2> DEFINE closing == OnlyCloses(s.mode, s.need)
  <2> DEFINE n == LookedUp(closing)
  <2>1. s.pc = "lookup" /\ s.relabel = {}
        /\ Proceed(r, IF n # 0 THEN [s EXCEPT !.pc = "patch", !.found = n]
                      ELSE IF closing THEN Over(r) ELSE [s EXCEPT !.pc = "scan"])
    BY <1>1, <1>6 DEF LookUp, At, Standing
  <2>2. closing \in BOOLEAN
    BY DEF OnlyCloses
  <2>3. CASE n # 0
    <3> DEFINE t == [s EXCEPT !.pc = "patch", !.found = n]
    <3>1. n \in Reports /\ Marker \in issues[n].labels
      BY <2>2, <2>3, LookUpFinds DEF IInv
    <3>2. n \in Numbers /\ issues[n].report /\ n \in Nat
      BY <1>1, <3>1, NumbersAre DEF Reports
    <3> HIDE DEF n
    <3>3. t \in RunState /\ t.pc = "patch" /\ t.found = n /\ t.relabel = {}
      BY <1>1, <2>1, <3>2 DEF RunState, Requests
    <3>4. Proceed(r, t)
      BY <2>1, <2>3
    <3>5. issues' = issues
      BY <2>1, <3>4 DEF Proceed, Lands
    <3>6. run'[r] = t => Standing(r)'
      BY <3>1, <3>2, <3>3, <3>5 DEF Standing, Numbers
    <3>7. QED
      BY <1>2, <3>3, <3>4, <3>6
  <2>4. CASE n = 0 /\ closing
    BY <1>4, <2>1, <2>4
  <2>5. CASE n = 0 /\ ~closing
    <3> DEFINE t == [s EXCEPT !.pc = "scan"]
    <3>1. t \in RunState /\ t.pc = "scan" /\ t.relabel = {} /\ Proceed(r, t)
      BY <1>1, <2>1, <2>5 DEF RunState, Requests
    <3>2. run'[r] = t => Standing(r)'
      BY <3>1 DEF Standing
    <3>3. QED
      BY <1>2, <3>1, <3>2
  <2>6. QED
    BY <2>2, <2>3, <2>4, <2>5
<1>7. CASE ScanTitles(r)
  <2> DEFINE n == Scanned
  <2> DEFINE t == [s EXCEPT !.pc = IF n = 0 THEN "create" ELSE "patch", !.found = n,
                            !.relabel = Relabel(n), !.known = IF n = 0 THEN Len(issues) ELSE 0]
  <2>1. s.pc = "scan" /\ Proceed(r, t)
    BY <1>7 DEF ScanTitles, At
  <2>2. issues' = issues
    BY <2>1 DEF Proceed, Lands
  <2>3. IF n = 0 THEN Reports = {} ELSE n \in Reports
    BY ScanFinds DEF IInv
  <2>4. n # 0 => n \in Numbers /\ n \in Nat /\ issues[n].report /\ issues[n] \in Issue
    BY <1>1, <2>3, NumbersAre DEF Reports
  <2> HIDE DEF n
  <2>5. /\ Relabel(n) \in SUBSET {Marker, Triage}
        /\ Relabel(n) # {} => Marker \in Relabel(n) /\ issues[n].labels \subseteq Relabel(n)
        /\ n # 0 /\ Relabel(n) = {} => Marker \in issues[n].labels
    BY <2>4 DEF Relabel, Labelled, Issue
  <2>6. t \in RunState
    <3>1. /\ (IF n = 0 THEN "create" ELSE "patch") \in Requests \cup {"done"} /\ n \in Nat
          /\ (IF n = 0 THEN Len(issues) ELSE 0) \in Nat
      BY <1>1, <2>4 DEF Requests
    <3> HIDE DEF s
    <3>2. QED
      BY <1>1, <2>5, <3>1 DEF RunState
  <2>7. /\ t.pc = (IF n = 0 THEN "create" ELSE "patch") /\ t.found = n /\ t.relabel = Relabel(n)
        /\ n = 0 => t.known = Len(issues)
    BY <1>1 DEF RunState
  <2> HIDE DEF t
  <2>8. ASSUME run'[r] = t PROVE Standing(r)'
    <3>1. CASE n = 0
      <4>1. t.pc = "create" /\ t.known = Len(issues') /\ Reports' = {}
        BY <2>2, <2>3, <2>7, <3>1 DEF Reports, Numbers
      <4>2. QED
        BY <1>1, <2>2, <2>8, <4>1 DEF Standing
    <3>2. CASE n # 0
      BY <2>2, <2>4, <2>5, <2>7, <2>8, <3>2 DEF Standing, Numbers
    <3>3. QED
      BY <3>1, <3>2
  <2>9. QED
    BY <1>2, <2>1, <2>6, <2>8
<1>8. CASE UpdateReportIssue(r)
  BY <1>4, <1>8 DEF UpdateReportIssue
<1>9. CASE CreateReportIssue(r)
  <2> DEFINE t == [s EXCEPT !.pc = "close", !.found = Len(issues) + 1, !.known = 0]
  <2>1. At(r, "create") /\ Proceed(r, IF MustClose(r) THEN t ELSE Over(r))
    BY <1>9 DEF CreateReportIssue
  <2>2. CASE MustClose(r)
    <3>1. t \in RunState /\ t.pc = "close" /\ t.found = Len(issues) + 1 /\ t.need = s.need
      <4>1. "close" \in Requests /\ Len(issues) + 1 \in Nat /\ 0 \in Nat
        BY <1>1 DEF Requests
      <4> HIDE DEF s
      <4>2. QED
        BY <1>1, <4>1 DEF RunState
    <3>2. ~s.need /\ Proceed(r, t) /\ Lands(r)
      BY <2>1, <2>2 DEF MustClose, Proceed
    <3>3. t.found \in Numbers' /\ issues'[t.found] = Created(r)
      BY <2>1, <3>1, <3>2, CreatedIs
    <3> HIDE DEF t
    <3>4. run'[r] = t => Standing(r)'
      BY <3>1, <3>2, <3>3 DEF Standing, Created
    <3>5. QED
      BY <1>2, <3>1, <3>2, <3>4
  <2>3. CASE ~MustClose(r)
    BY <1>4, <2>1, <2>3
  <2>4. QED
    BY <2>2, <2>3
<1>10. CASE CloseCreated(r)
  BY <1>4, <1>10 DEF CloseCreated
<1>11. QED
  BY <1>5, <1>6, <1>7, <1>8, <1>9, <1>10 DEF Step
(* A request whose answer is lost leaves its run where it was: to send it again. *)
LEMMA LostAnswerKeeps ==
  ASSUME IInv, NEW r \in Runs, AnswerLost(r)
  PROVE  IInv'
<1> DEFINE s == run[r]
<1>1. /\ s \in RunState /\ issues \in Seq(Issue) /\ Len(issues) \in Nat /\ Standing(r)
      /\ run \in [Runs -> RunState] /\ edits \in Nat /\ faults \in Nat
  BY DEF IInv, TypeOK
<1>2. Lands(r) /\ run' = Seen(r, Target(r)) /\ UNCHANGED edits /\ faults' \in Nat
  BY <1>1 DEF AnswerLost
<1>3. Seen(r, Target(r))[r] = s /\ Seen(r, Target(r)) \in [Runs -> RunState]
  BY SeenRuns DEF IInv
<1>4. run' = [Seen(r, Target(r)) EXCEPT ![r] = s] /\ run'[r] = s
  BY <1>2, <1>3
<1>5. TypeOK' /\ MarkedByLabel' /\ \A q \in Runs \ {r} : Standing(q)'
  BY <1>1, <1>2, <1>4, ProceedKeeps
<1>6. Standing(r)'
  <2>1. CASE At(r, "label")
    <3>1. s.pc = "label"
      BY <2>1 DEF At
    <3>2. QED
      BY <1>1, <1>4, <3>1 DEF Standing
  <2>2. CASE At(r, "patch")
    BY <1>1, <1>2, <1>4, <2>2, PatchedIs DEF Standing, At
  <2>3. CASE At(r, "create")
    <3>1. /\ Numbers' = 1..(Len(issues) + 1) /\ Len(issues') = Len(issues) + 1 /\ Numbers = 1..Len(issues)
          /\ \A m \in Numbers : issues'[m] = issues[m]
      BY <1>1, <1>2, <1>5, <2>3, CreatedIs DEF TypeOK, Numbers
    <3>2. s.known <= Len(issues) /\ s.known \in Nat /\ \A m \in Reports : m > s.known
      BY <1>1, <2>3 DEF Standing, At, RunState
    <3>3. ASSUME NEW m \in Reports' PROVE m > s.known
      <4>1. m \in Numbers' /\ issues'[m].report
        BY DEF Reports
      <4>2. CASE m \in Numbers
        BY <3>1, <3>2, <4>1, <4>2 DEF Reports
      <4>3. CASE m = Len(issues) + 1
        BY <1>1, <3>2, <4>3
      <4>4. QED
        BY <1>1, <3>1, <4>1, <4>2, <4>3
    <3>4. s.known <= Len(issues')
      BY <1>1, <3>1, <3>2
    <3>5. QED
      BY <1>4, <2>3, <3>3, <3>4 DEF Standing, At
  <2>4. CASE At(r, "close")
    <3>1. /\ s.found \in Numbers' /\ issues'[s.found].report = issues[s.found].report
          /\ issues'[s.found].by = issues[s.found].by /\ issues'[s.found].need = issues[s.found].need
          /\ issues'[s.found].labels = issues[s.found].labels
      BY <1>2, <2>4, ClosedIs DEF Issue
    <3>2. QED
      BY <1>1, <1>4, <2>4, <3>1 DEF Standing, At
  <2>5. QED
    BY <2>1, <2>2, <2>3, <2>4 DEF AnswerLost, At
<1>7. QED
  BY <1>5, <1>6 DEF IInv
(* No run acts, and what is written is written by somebody else. *)
LEMMA AloneKeeps ==
  ASSUME IInv, NEW n, Writes(n), run' \in [Runs -> RunState],
         \A q \in Runs :
           \/ run'[q].pc \in {"label", "lookup", "done"} /\ run'[q].relabel = {}
           \/ /\ run'[q] \in {run[q], [run[q] EXCEPT !.crossed = TRUE]}
              /\ run[q].found = n /\ n # 0 => run'[q].crossed,
         edits' \in Nat, faults' \in Nat
  PROVE  IInv'
<1>1. TypeOK' /\ MarkedByLabel'
  BY WritesKeepMarked DEF IInv, TypeOK, Writes
<1>2. ASSUME NEW q \in Runs PROVE Standing(q)'
  <2>1. CASE run'[q].pc \in {"label", "lookup", "done"} /\ run'[q].relabel = {}
    BY <2>1 DEF Standing
  <2>2. CASE /\ run'[q] \in {run[q], [run[q] EXCEPT !.crossed = TRUE]}
             /\ run[q].found = n /\ n # 0 => run'[q].crossed
    BY <2>2, OthersStand DEF IInv
  <2>3. QED
    BY <2>1, <2>2
<1>3. QED
  BY <1>1, <1>2 DEF IInv

(* What no request writes stays. *)
LEMMA NothingWritten ==
  ASSUME IInv, issues' = issues, labels' \subseteq {Marker, Spare}, Marker \in labels => Marker \in labels'
  PROVE  Writes(0)
  BY NumbersAre DEF IInv, TypeOK, Writes, Numbers

(* A section's labels are labels. *)
LEMMA LabelsType ==
  ASSUME NEW d \in Declaration, NEW L \in SUBSET {Marker, Spare}
  PROVE  LabelsAfter(InjectMarker(d), L) \subseteq {Marker, Spare}
<1>1. InjectMarker(d).entries \subseteq LabelEntry
  <2>1. CASE \E e \in d.entries : RenamesMarkerAway(e)
    <3>1. InjectMarker(d).entries =
            {IF RenamesMarkerAway(e) THEN [e EXCEPT !.to = Unset] ELSE e : e \in d.entries}
      BY <2>1 DEF InjectMarker, Declaration
    <3>2. \A e \in d.entries : e \in LabelEntry /\ [e EXCEPT !.to = Unset] \in LabelEntry
      BY DEF Declaration, LabelEntry
    <3>3. QED
      BY <3>1, <3>2
  <2>2. CASE ~\E e \in d.entries : RenamesMarkerAway(e)
    <3>1. [name |-> Marker, to |-> Unset] \in LabelEntry
      BY DEF LabelEntry
    <3>2. InjectWithoutGuard(d).entries \subseteq d.entries \cup {[name |-> Marker, to |-> Unset]}
      BY DEF InjectWithoutGuard, Declaration
    <3>3. QED
      BY <2>2, <3>1, <3>2 DEF InjectMarker, Declaration
  <2>3. QED
    BY <2>1, <2>2
<1>2. \A e \in InjectMarker(d).entries : Written(e) \in {Marker, Spare}
  BY <1>1 DEF Written, LabelEntry
<1>3. QED
  BY <1>2 DEF LabelsAfter

(* A run that starts, or gives up, holds on to nothing. *)
LEMMA StartKeeps ==
  ASSUME IInv, NEW r \in Runs, Start(r) \/ RequestFails(r)
  PROVE  IInv'
<1>1. /\ run \in [Runs -> RunState] /\ run[r].need \in BOOLEAN /\ run[r].mode \in Modes
      /\ edits \in Nat /\ faults \in Nat
  BY DEF IInv, TypeOK, RunState
<1>2. \A pc \in {"label", "lookup", "done"}, need \in BOOLEAN, mode \in Modes :
        /\ Fresh(pc, need, mode) \in RunState /\ Fresh(pc, need, mode).pc = pc
        /\ Fresh(pc, need, mode).relabel = {}
  BY DEF Fresh, RunState, Requests
<1>3. PICK t \in RunState : /\ run' = [run EXCEPT ![r] = t]
                           /\ t.pc \in {"label", "lookup", "done"} /\ t.relabel = {}
  <2>1. CASE Start(r)
    <3>1. PICK need \in BOOLEAN :
            run' = [run EXCEPT ![r] = Fresh(IF OnlyCloses(run[r].mode, need) THEN "lookup" ELSE "label",
                                            need, run[r].mode)]
      BY <2>1 DEF Start
    <3>2. QED
      BY <1>1, <1>2, <3>1
  <2>2. CASE RequestFails(r)
    BY <1>1, <1>2, <2>2 DEF RequestFails, Over
  <2>3. QED
    BY <2>1, <2>2
<1>4. /\ run' \in [Runs -> RunState]
      /\ run'[r] = t /\ \A q \in Runs \ {r} : run'[q] = run[q]
  BY <1>1, <1>3
<1>5. ASSUME NEW q \in Runs
      PROVE  \/ run'[q].pc \in {"label", "lookup", "done"} /\ run'[q].relabel = {}
             \/ /\ run'[q] \in {run[q], [run[q] EXCEPT !.crossed = TRUE]}
                /\ run[q].found = 0 /\ 0 # 0 => run'[q].crossed
  BY <1>3, <1>4
<1>6. /\ issues' = issues /\ labels' \subseteq {Marker, Spare}
      /\ Marker \in labels => Marker \in labels'
  <2>1. CASE Start(r)
    <3>1. labels' \subseteq {Marker, Spare}
      BY <2>1, LabelsType, ReportConstants DEF Start, IInv, TypeOK
    <3>2. QED
      BY <2>1, <3>1, StartKeepsIssues DEF IInv
  <2>2. CASE RequestFails(r)
    BY <2>2 DEF RequestFails, IInv, TypeOK
  <2>3. QED
    BY <2>1, <2>2
<1>7. Writes(0)
  BY <1>6, NothingWritten
<1>8. edits' \in Nat /\ faults' \in Nat
  BY <1>1 DEF Start, RequestFails
<1>9. QED
  BY <1>4, <1>5, <1>7, <1>8, AloneKeeps

(* People open and close, and put labels on and take the marker off. *)
LEMMA PeopleWrite ==
  ASSUME IInv, People
  PROVE  /\ UNCHANGED <<labels, faults>> /\ edits' = edits + 1
         /\ \E n \in Numbers :
              /\ Writes(n) /\ run' = Seen(Unset, n)
              /\ issues[n].labels \ {Marker} \subseteq issues'[n].labels
<1>0. PICK n \in Numbers : \E i :
        /\ Edit(n, i)
        /\ \/ i = [issues[n] EXCEPT !.open = ~issues[n].open]
           \/ i = [issues[n] EXCEPT !.labels = issues[n].labels \cup {Triage}]
           \/ i = [issues[n] EXCEPT !.labels = issues[n].labels \ {Marker}]
  BY DEF People
<1>1. PICK i :
        /\ Edit(n, i)
        /\ \/ i = [issues[n] EXCEPT !.open = ~issues[n].open]
           \/ i = [issues[n] EXCEPT !.labels = issues[n].labels \cup {Triage}]
           \/ i = [issues[n] EXCEPT !.labels = issues[n].labels \ {Marker}]
  BY <1>0
<1>2. issues[n] \in Issue /\ issues \in Seq(Issue)
  BY NumbersAre DEF IInv, TypeOK
<1>3. /\ i \in Issue /\ i.report = issues[n].report
      /\ issues[n].labels \ {Marker} \subseteq i.labels
      /\ Marker \in i.labels => Marker \in issues[n].labels
  <2>1. CASE i = [issues[n] EXCEPT !.open = ~issues[n].open]
    <3>1. (~issues[n].open) \in BOOLEAN
      OBVIOUS
    <3>2. PICK b \in BOOLEAN : i = [issues[n] EXCEPT !.open = b]
      BY <2>1, <3>1
    <3>3. QED
      BY <1>2, <3>2 DEF Issue
  <2>2. CASE i = [issues[n] EXCEPT !.labels = issues[n].labels \cup {Triage}]
    BY <1>2, <2>2 DEF Issue, Marker, Triage
  <2>3. CASE i = [issues[n] EXCEPT !.labels = issues[n].labels \ {Marker}]
    BY <1>2, <2>3 DEF Issue
  <2>4. QED
    BY <1>1, <2>1, <2>2, <2>3
<1>4. /\ issues' \in Seq(Issue) /\ Len(issues') = Len(issues) /\ Numbers' = Numbers
      /\ \A m \in Numbers : issues'[m] = IF m = n THEN i ELSE issues[m]
  BY <1>1, <1>2, <1>3 DEF Edit, Numbers
<1>5. Writes(n)
  <2>1. labels' = labels /\ labels \subseteq {Marker, Spare} /\ Len(issues) \in Nat
    BY <1>1, <1>2 DEF Edit, IInv, TypeOK
  <2>2. Marker \in issues'[n].labels => Marker \in labels'
    BY <1>3, <1>4, <2>1 DEF IInv, MarkedByLabel
  <2>3. QED
    BY <1>3, <1>4, <2>1, <2>2 DEF Writes
<1>6. QED
  BY <1>1, <1>3, <1>4, <1>5 DEF Edit

(* The issue starts as GitHub has it, and no run has begun. *)
LEMMA InvariantInit == Init => IInv
<1> SUFFICES ASSUME Init PROVE IInv
  OBVIOUS
<1>1. issues \in Seq(Issue) /\ edits \in Nat /\ faults \in Nat
  BY ReportConstants DEF Init
<1>2. labels \subseteq {Marker, Spare} /\ MarkedByLabel
  BY DEF Init, MarkedByLabel
<1>3. PICK mode \in Modes : run = [r \in Runs |-> Fresh("done", FALSE, mode)]
  BY DEF Init
<1>4. Fresh("done", FALSE, mode) \in RunState /\ Fresh("done", FALSE, mode).pc = "done"
  BY DEF Fresh, RunState
<1>5. run \in [Runs -> RunState] /\ \A r \in Runs : run[r].pc = "done"
  BY <1>3, <1>4
<1>6. \A r \in Runs : Standing(r)
  BY <1>5 DEF Standing
<1>7. QED
  BY <1>1, <1>2, <1>5, <1>6 DEF IInv, TypeOK

LEMMA InvariantStep ==
  ASSUME IInv, [Next]_vars
  PROVE  IInv'
<1>1. ASSUME NEW r \in Runs, Start(r) \/ Step(r) \/ RequestFails(r) \/ AnswerLost(r) PROVE IInv'
  BY <1>1, StartKeeps, StepKeeps, LostAnswerKeeps
<1>2. CASE People
  <2>1. PICK n \in Numbers : Writes(n) /\ run' = Seen(Unset, n)
    BY <1>2, PeopleWrite
  <2>2. /\ run' \in [Runs -> RunState]
        /\ \A q \in Runs : /\ run'[q] \in {run[q], [run[q] EXCEPT !.crossed = TRUE]}
                           /\ run[q].found = n /\ n # 0 => run'[q].crossed
    BY <2>1, SeenRuns, ReportConstants DEF IInv
  <2>3. edits' \in Nat /\ faults' \in Nat
    BY <1>2, PeopleWrite DEF IInv, TypeOK
  <2>4. QED
    BY <2>1, <2>2, <2>3, AloneKeeps
<1>3. CASE UNCHANGED vars
  <2>1. \A q \in Runs : Standing(q)'
    BY <1>3 DEF vars, IInv, Standing, Numbers, Reports
  <2>2. QED
    BY <1>3, <2>1 DEF vars, IInv, TypeOK, MarkedByLabel, Numbers
<1>4. QED
  BY <1>1, <1>2, <1>3 DEF Next

-----------------------------------------------------------------------------
(* What a run knows of the issue it is about to write stays true until somebody
   else writes to it: the invariant the theorems below rest on.            *)
THEOREM Invariant == Spec => []IInv
  BY InvariantInit, InvariantStep, PTL DEF Spec

(* Every variable keeps its type throughout. *)
THEOREM TypeCorrect == Spec => []TypeOK
<1>1. IInv => TypeOK
  BY DEF IInv
<1>2. QED
  BY <1>1, Invariant, PTL
(* A delivery that says it delivered leaves its own report, open exactly when the
   target needs attention and under the marker, unless it was crossed.     *)
THEOREM DeliveriesMirrorTheRun == Spec => DeliveredMirrorsRun
<1>1. ASSUME IInv, NEW r \in Runs, Delivers(r), ~run[r].crossed
      PROVE  LET n == Target(r) IN
             /\ issues'[n].report /\ issues'[n].by = r /\ issues'[n].need = run[r].need
             /\ issues'[n].open = run[r].need /\ Marker \in issues'[n].labels
  <2>1. Standing(r) /\ run[r] \in RunState
    BY <1>1 DEF IInv, TypeOK
  <2>2. CASE UpdateReportIssue(r)
    <3>1. At(r, "patch") /\ Lands(r) /\ Target(r) = run[r].found
      BY <2>2 DEF UpdateReportIssue, Proceed, Target, At
    <3>2. QED
      BY <1>1, <2>1, <3>1, PatchedIs DEF Standing, At
  <2>3. CASE CloseCreated(r)
    <3>1. At(r, "close") /\ Lands(r) /\ Target(r) = run[r].found
      BY <2>3 DEF CloseCreated, Proceed, Target, At
    <3> DEFINE n == Target(r)
    <3>2. /\ issues[n].by = r /\ issues[n].report /\ ~issues[n].need
          /\ ~run[r].need /\ Marker \in issues[n].labels
      BY <1>1, <2>1, <3>1 DEF Standing, At
    <3>3. issues'[n] = [issues[n] EXCEPT !.open = FALSE] /\ issues[n] \in Issue
      BY <1>1, <3>1, ClosedIs
    <3> HIDE DEF n
    <3>4. /\ issues'[n].by = r /\ issues'[n].report /\ ~issues'[n].need
          /\ Marker \in issues'[n].labels /\ ~issues'[n].open
      BY <3>2, <3>3 DEF Issue
    <3>5. issues'[n].need \in BOOLEAN /\ issues'[n].open \in BOOLEAN /\ run[r].need \in BOOLEAN
      BY <2>1, <3>2, <3>3 DEF Issue, RunState
    <3>6. issues'[n].need = run[r].need /\ issues'[n].open = run[r].need
      BY <3>2, <3>4, <3>5
    <3>7. QED
      BY <3>4, <3>6 DEF n
  <2>4. CASE CreateReportIssue(r) /\ run'[r].pc = "done"
    <3>1. At(r, "create") /\ Lands(r) /\ Target(r) = Len(issues) + 1
      BY <2>4 DEF CreateReportIssue, Proceed, Target, At
    <3>2. run[r].need
      <4>1. SUFFICES ASSUME MustClose(r) PROVE FALSE
        BY DEF MustClose
      <4> DEFINE t == [run[r] EXCEPT !.pc = "close", !.found = Len(issues) + 1, !.known = 0]
      <4>2. run' = [Seen(r, Target(r)) EXCEPT ![r] = t]
        BY <2>4, <4>1 DEF CreateReportIssue, Proceed
      <4>3. r \in DOMAIN Seen(r, Target(r)) /\ t.pc = "close"
        BY <2>1 DEF Seen, RunState
      <4>4. QED
        BY <2>4, <4>2, <4>3
    <3>3. issues'[Len(issues) + 1] = Created(r)
      BY <1>1, <3>1, CreatedIs
    <3>4. QED
      BY <3>1, <3>2, <3>3 DEF Created
  <2>5. QED
    BY <1>1, <2>2, <2>3, <2>4 DEF Delivers
<1>2. IInv => [\A r \in Runs :
                 LET n == Target(r) IN
                 Delivers(r) /\ ~run[r].crossed
                   => /\ issues'[n].report /\ issues'[n].by = r /\ issues'[n].need = run[r].need
                      /\ issues'[n].open = run[r].need /\ Marker \in issues'[n].labels]_vars
  BY <1>1
<1>3. QED
  BY <1>2, Invariant, PTL DEF DeliveredMirrorsRun

(* Deliveries never write to an issue that is not a report, and take a label people
   gave the report only when they were crossed between the scan and the PATCH. *)
THEOREM PeoplesWorkIsSafe == Spec => PeoplesWorkIsKept
<1> DEFINE Kept(n) ==
      /\ ~issues[n].report /\ edits' = edits
           => [issues'[n] EXCEPT !.labels = {}] = [issues[n] EXCEPT !.labels = {}]
      /\ Triage \in issues[n].labels \ issues'[n].labels
           => \E r \in Runs : At(r, "patch") /\ run[r].found = n /\ run[r].crossed
<1>1. ASSUME NEW n, issues' = issues PROVE Kept(n)
  BY <1>1
<1>2. ASSUME IInv, NEW r \in Runs, Lands(r), NEW n \in Numbers PROVE Kept(n)
  <2>1. Writes(Target(r)) /\ Standing(r) /\ run[r] \in RunState
    BY <1>2, LandsWrites DEF IInv, TypeOK
  <2>2. CASE n # Target(r)
    BY <1>2, <2>1, <2>2 DEF Writes
  <2>3. CASE n = Target(r)
    <3>1. run[r].pc \in {"patch", "close"} /\ run[r].found = n
      <4>1. n # 0 /\ n # Len(issues) + 1
        BY <1>2, NumbersAre DEF IInv, TypeOK
      <4>2. QED
        BY <2>3, <4>1 DEF Target
    <3>2. issues[n].report
      BY <2>1, <3>1 DEF Standing
    <3>3. CASE At(r, "patch")
      <4>1. issues'[n].labels = IF run[r].relabel = {} THEN issues[n].labels ELSE run[r].relabel
        BY <1>2, <3>1, <3>3, PatchedIs
      <4>2. Triage \in issues[n].labels \ issues'[n].labels => run[r].crossed
        BY <2>1, <3>1, <3>3, <4>1 DEF Standing, At, Marker, Triage
      <4>3. QED
        BY <3>1, <3>2, <3>3, <4>2
    <3>4. CASE At(r, "close")
      <4>1. issues'[n].labels = issues[n].labels
        BY <1>2, <3>1, <3>4, ClosedIs DEF Issue
      <4>2. QED
        BY <3>2, <4>1
    <3>5. QED
      BY <3>1, <3>3, <3>4 DEF At
  <2>4. QED
    BY <2>2, <2>3
<1>3. ASSUME IInv, [Next]_vars, NEW n \in Numbers PROVE Kept(n)
  <2>1. ASSUME NEW r \in Runs, Start(r) PROVE Kept(n)
    BY <1>1, <1>3, <2>1, StartKeepsIssues DEF IInv
  <2>2. ASSUME NEW r \in Runs, RequestFails(r) PROVE Kept(n)
    BY <1>1, <2>2 DEF RequestFails
  <2>3. ASSUME NEW r \in Runs, Step(r) \/ AnswerLost(r) PROVE Kept(n)
    <3>1. Lands(r)
      BY <2>3 DEF Step, EnsureMarkerLabel, LookUp, ScanTitles, UpdateReportIssue, CreateReportIssue,
                  CloseCreated, Proceed, AnswerLost
    <3>2. QED
      BY <1>2, <1>3, <3>1
  <2>4. CASE People
    <3>1. edits' # edits
      BY <1>3, <2>4, PeopleWrite DEF IInv, TypeOK
    <3>2. PICK m \in Numbers : Writes(m) /\ issues[m].labels \ {Marker} \subseteq issues'[m].labels
      BY <1>3, <2>4, PeopleWrite
    <3>3. Triage \in issues[n].labels => Triage \in issues'[n].labels
      BY <3>2 DEF Writes, Marker, Triage
    <3>4. QED
      BY <3>1, <3>3
  <2>5. CASE UNCHANGED vars
    BY <1>1, <2>5 DEF vars
  <2>6. QED
    BY <1>3, <2>1, <2>2, <2>3, <2>4, <2>5 DEF Next
<1>4. IInv /\ [Next]_vars =>
        [\A n \in Numbers :
           /\ ~issues[n].report /\ edits' = edits
                => [issues'[n] EXCEPT !.labels = {}] = [issues[n] EXCEPT !.labels = {}]
           /\ Triage \in issues[n].labels \ issues'[n].labels
                => \E r \in Runs : At(r, "patch") /\ run[r].found = n /\ run[r].crossed]_vars
  BY <1>3
<1>5. QED
  BY <1>4, Invariant, PTL DEF Spec, PeoplesWorkIsKept

(* A report issue is opened beside another only when that other one was opened
   after the run had scanned them all.                                     *)
THEOREM DuplicatesAreNew == Spec => NoNeedlessDuplicate
<1>1. IInv => \A r \in Runs : At(r, "create") => \A n \in Reports : n > run[r].known
  BY DEF IInv, Standing, At
<1>2. IInv => [\A r \in Runs :
                 At(r, "create") /\ Len(issues') > Len(issues) /\ issues'[Len(issues')].by = r
                   => \A n \in Reports : n > run[r].known]_vars
  BY <1>1
<1>3. QED
  BY <1>2, Invariant, PTL DEF NoNeedlessDuplicate

(* Applying a labels section leaves the marker on the repository and its issues. *)
THEOREM MarkerSurvives == Spec => MarkerSurvivesApply
<1>1. IInv => [\A r \in Runs :
                 Start(r) /\ Marker \in labels
                   => /\ Marker \in labels'
                      /\ \A n \in Numbers :
                           Marker \in issues[n].labels => Marker \in issues'[n].labels]_vars
  BY StartKeepsIssues DEF IInv
<1>2. QED
  BY <1>1, Invariant, PTL DEF MarkerSurvivesApply
=============================================================================
