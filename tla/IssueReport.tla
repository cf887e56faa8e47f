---------------------------- MODULE IssueReport ----------------------------
(***************************************************************************)
(* The private report issue, src/report/issue-report.ts.  The report of a  *)
(* run lands on one issue of the target repository, reused for ever: found *)
(* by its marker label, else by title and body, else created.  The program *)
(* remembers nothing between runs and takes no lock, so runs may overlap,  *)
(* and people close the issue, label it and strip its label at any time.   *)
(*                                                                         *)
(* A run first applies its labels section, into which the marker has been  *)
(* injected, in one step here, then delivers.  Each request of a delivery  *)
(* is one step; a list walk is one step, since new issues only push older  *)
(* ones to later pages of a walk from the newest to the oldest.            *)
(***************************************************************************)
EXTENDS Integers, Sequences, FiniteSets, FiniteSetsExt

CONSTANTS
  Runs,          \* runs that may overlap
  Modes,         \* subset of {"always", "on-failure"}
  Declarations,  \* labels sections a run may apply, see Absent
  Opened,        \* the issues people may have opened under the report's title
  PageSize,      \* issues on one page of a list
  MaxEdits,      \* bound: edits by people
  MaxFaults      \* bound: requests that fail or whose answer is lost

Marker == "marker"     \* MARKER_LABEL
Spare == "spare"       \* another label of the repository
Triage == "triage"     \* a label people put on the report issue
Unset == "-"

(* A labels section: entries that may rename, and the undeclared policy. *)
LabelEntry == [name : {Marker, Spare}, to : {Marker, Spare, Unset}]
Declaration == [entries : SUBSET LabelEntry, policy : {"keep", "delete", "absent"}]
Absent == [entries |-> {}, policy |-> "absent"]

(* report: title and body are those of a report; by and need: whose report the
   body is and whether it says the target needs attention.                 *)
Issue == [report : BOOLEAN, by : Runs \cup {Unset}, need : BOOLEAN,
          open : BOOLEAN, labels : SUBSET {Marker, Triage}]

ASSUME ReportConstants ==
  /\ Modes \subseteq {"always", "on-failure"} /\ Unset \notin Runs
  /\ Declarations \subseteq Declaration
  /\ Opened \subseteq Seq(Issue)
  /\ PageSize \in Nat \ {0} /\ MaxEdits \in Nat /\ MaxFaults \in Nat

VARIABLES
  labels,  \* GitHub: which of Marker and Spare the repository has
  issues,  \* GitHub: its issues, oldest first; an issue's number is its place
  run,     \* per run, its progress and what it has read
  edits, faults

vars == <<labels, issues, run, edits, faults>>

Requests == {"label", "lookup", "scan", "patch", "create", "close"}

(* found: the number of the report issue, 0 for none.  relabel: the labels the
   PATCH writes, {} to leave them alone.  crossed: somebody else has written to
   the found issue since it was found (history).  known: how many issues there
   were when the run scanned them and found no report (history).           *)
RunState == [pc : Requests \cup {"done"}, need : BOOLEAN, mode : Modes,
             found : Nat, relabel : SUBSET {Marker, Triage},
             crossed : BOOLEAN, known : Nat]

Numbers == DOMAIN issues
Reports == {n \in Numbers : issues[n].report}

-----------------------------------------------------------------------------
(* The marker in a declared labels section. *)

Written(e) == IF e.to = Unset THEN e.name ELSE e.to
RenamesMarkerAway(e) == e.name = Marker /\ Written(e) # Marker

(* injectMarkerLabel(): an absent section stays absent, a rename of the marker
   is dropped, and a section that does not mention the marker declares it.  *)
InjectWithoutGuard(d) ==
  IF d = Absent \/ \E e \in d.entries : Marker \in {e.name, Written(e)}
    THEN d
    ELSE [d EXCEPT !.entries = @ \cup {[name |-> Marker, to |-> Unset]}]
InjectMarker(d) ==
  IF \E e \in d.entries : RenamesMarkerAway(e)
    THEN [d EXCEPT !.entries =
            {IF RenamesMarkerAway(e) THEN [e EXCEPT !.to = Unset] ELSE e : e \in @}]
    ELSE InjectWithoutGuard(d)

(* What the labels section makes of the repository's labels: renames whose
   target is free, removal of what no entry claims, creation of the rest.  *)
LabelsAfter(d, L) ==
  LET moved == {e \in d.entries : e.name \in L /\ Written(e) \notin L}
      claimed == UNION {{e.name, Written(e)} : e \in d.entries}
      spared == IF d.policy = "delete" THEN L \cap claimed ELSE L
  IN  (spared \ {e.name : e \in moved}) \cup {Written(e) : e \in d.entries}

Unlabelled(L) ==
  [n \in Numbers |-> IF Marker \in L THEN issues[n]
                                     ELSE [issues[n] EXCEPT !.labels = @ \ {Marker}]]

-----------------------------------------------------------------------------
(* Finding the report issue. *)

(* A candidate has the exact title and a body with the report heading. *)
CandidateByTitle(n) == TRUE
Candidate(n) == issues[n].report

(* The page of a newest-first walk over the issues `listed` that holds n. *)
PageOf(listed, n) == (Cardinality({m \in listed : m > n})) \div PageSize

(* The walk stops at the first page with a candidate. *)
CandidatesIn(listed) ==
  LET all == {n \in listed : Candidate(n)}
  IN  {n \in all : \A m \in all : PageOf(listed, n) <= PageOf(listed, m)}

(* Among several, an open one wins, then the newest. *)
PickNewest(found) == IF found = {} THEN 0 ELSE Max(found)
Pick(found) ==
  LET open == {n \in found : issues[n].open}
  IN  IF open # {} THEN Max(open) ELSE PickNewest(found)

Labelled == {n \in Numbers : Marker \in issues[n].labels}

(* The lookup by label; a run that only closes asks for open issues. *)
LookedUp(closing) == Pick(CandidatesIn({n \in Labelled : closing => issues[n].open}))

ScannedAmong(listed) == Pick(CandidatesIn(listed))
ScannedLabelled == ScannedAmong(Labelled)
Scanned == ScannedAmong(Numbers)

(* The labels a scanned issue is given back: none when it still has the marker. *)
RelabelNever(n) == {}
Relabel(n) == IF n = 0 \/ n \in Labelled THEN {} ELSE issues[n].labels \cup {Marker}

-----------------------------------------------------------------------------
(* Writes.  A write by `who` crosses the runs about to write to the same issue. *)

Seen(who, n) ==
  [r \in Runs |-> IF r # who /\ run[r].found = n /\ n # 0
                    THEN [run[r] EXCEPT !.crossed = TRUE] ELSE run[r]]

PatchedBodyOnly(r, i) == [i EXCEPT !.by = r, !.need = run[r].need]
Patched(r, i) ==
  [PatchedBodyOnly(r, i) EXCEPT
     !.open = run[r].need,
     !.labels = IF run[r].relabel = {} THEN @ ELSE run[r].relabel]

Created(r) ==
  [report |-> TRUE, by |-> r, need |-> run[r].need, open |-> TRUE, labels |-> {Marker}]

(* What the request run r is about to send does to GitHub; reads do nothing. *)
Lands(r) ==
  CASE run[r].pc = "label" -> labels' = labels \cup {Marker} /\ UNCHANGED issues
    [] run[r].pc = "patch" ->
         /\ issues' = [issues EXCEPT ![run[r].found] = Patched(r, @)]
         /\ labels' = labels \cup (run[r].relabel \ {Triage})
    [] run[r].pc = "create" ->
         /\ issues' = Append(issues, Created(r))
         /\ labels' = labels \cup {Marker}
    [] run[r].pc = "close" ->
         /\ issues' = [issues EXCEPT ![run[r].found].open = FALSE]
         /\ UNCHANGED labels
    [] OTHER -> UNCHANGED <<labels, issues>>

(* The issue that request writes, 0 for none. *)
Target(r) ==
  CASE run[r].pc \in {"patch", "close"} -> run[r].found
    [] run[r].pc = "create" -> Len(issues) + 1
    [] OTHER -> 0

-----------------------------------------------------------------------------
(* The delivery. *)

Fresh(pc, need, mode) ==
  [pc |-> pc, need |-> need, mode |-> mode, found |-> 0, relabel |-> {},
   crossed |-> FALSE, known |-> 0]

Init ==
  /\ issues \in Opened
  /\ labels = UNION {issues[n].labels \cap {Marker} : n \in Numbers}
  /\ \E mode \in Modes : run = [r \in Runs |-> Fresh("done", FALSE, mode)]
  /\ edits = 0 /\ faults = 0

OnlyCloses(mode, need) == mode = "on-failure" /\ ~need

(* A run applies its labels section, if the settings have one, and begins its
   delivery.                                                               *)
Start(r) ==
  /\ run[r].pc = "done"
  /\ \E need \in BOOLEAN, d \in Declarations :
       /\ labels' = LabelsAfter(InjectMarker(d), labels)
       /\ issues' = Unlabelled(labels')
       /\ run' = [run EXCEPT ![r] =
                    Fresh(IF OnlyCloses(@.mode, need) THEN "lookup" ELSE "label", need, @.mode)]
  /\ UNCHANGED <<edits, faults>>

(* Run r goes on, with its own record changed to s. *)
Proceed(r, s) ==
  /\ Lands(r)
  /\ run' = [Seen(r, Target(r)) EXCEPT ![r] = s]
  /\ UNCHANGED <<edits, faults>>

At(r, pc) == run[r].pc = pc
Over(r) == Fresh("done", run[r].need, run[r].mode)

EnsureMarkerLabel(r) ==
  /\ At(r, "label")
  /\ Proceed(r, [run[r] EXCEPT !.pc = "lookup"])

(* closeIfOpen() ends when no open report is found; locateReportIssue() scans. *)
LookUp(r) ==
  /\ At(r, "lookup")
  /\ LET closing == OnlyCloses(run[r].mode, run[r].need)
         n == LookedUp(closing)
     IN  Proceed(r, IF n # 0 THEN [run[r] EXCEPT !.pc = "patch", !.found = n]
                    ELSE IF closing THEN Over(r)
                    ELSE [run[r] EXCEPT !.pc = "scan"])

ScanTitles(r) ==
  /\ At(r, "scan")
  /\ Proceed(r, [run[r] EXCEPT !.pc = IF Scanned = 0 THEN "create" ELSE "patch",
                               !.found = Scanned,
                               !.relabel = Relabel(Scanned),
                               !.known = IF Scanned = 0 THEN Len(issues) ELSE 0])

UpdateReportIssue(r) ==
  /\ At(r, "patch")
  /\ Proceed(r, Over(r))

(* An issue is created open: a healthy run closes it with a second request. *)
MustClose(r) == ~run[r].need
CreateReportIssue(r) ==
  /\ At(r, "create")
  /\ Proceed(r, IF MustClose(r)
                  THEN [run[r] EXCEPT !.pc = "close", !.found = Len(issues) + 1, !.known = 0]
                  ELSE Over(r))

CloseCreated(r) ==
  /\ At(r, "close")
  /\ Proceed(r, Over(r))

Step(r) ==
  \/ EnsureMarkerLabel(r) \/ LookUp(r) \/ ScanTitles(r)
  \/ UpdateReportIssue(r) \/ CreateReportIssue(r) \/ CloseCreated(r)

(* The request is denied, gets no answer without having been made, or the run
   is cancelled: a warning, and nothing more is sent.                      *)
RequestFails(r) ==
  /\ run[r].pc # "done" /\ faults < MaxFaults
  /\ run' = [run EXCEPT ![r] = Over(r)]
  /\ faults' = faults + 1
  /\ UNCHANGED <<labels, issues, edits>>

(* The write is made and its answer lost: the client sends the request again. *)
AnswerLost(r) ==
  /\ run[r].pc \in {"label", "patch", "create", "close"} /\ faults < MaxFaults
  /\ Lands(r)
  /\ run' = Seen(r, Target(r))
  /\ faults' = faults + 1
  /\ UNCHANGED edits

(* People. *)
Edit(n, i) ==
  /\ edits < MaxEdits /\ edits' = edits + 1
  /\ issues' = [issues EXCEPT ![n] = i]
  /\ run' = Seen(Unset, n)
  /\ UNCHANGED <<labels, faults>>

People ==
  \E n \in Numbers :
    \/ Edit(n, [issues[n] EXCEPT !.open = ~@])
    \/ Triage \notin issues[n].labels /\ Edit(n, [issues[n] EXCEPT !.labels = @ \cup {Triage}])
    \/ n \in Labelled /\ Edit(n, [issues[n] EXCEPT !.labels = @ \ {Marker}])

Next == (\E r \in Runs : Start(r) \/ Step(r) \/ RequestFails(r) \/ AnswerLost(r)) \/ People

Spec == Init /\ [][Next]_vars

(* Every request of a run is answered in the end, and runs are scheduled. *)
FairSpec ==
  /\ Spec
  /\ \A r \in Runs : WF_vars(Start(r)) /\ WF_vars(Step(r))
-----------------------------------------------------------------------------
(* Properties. *)

(* Every variable has its type. *)
TypeOK ==
  /\ labels \subseteq {Marker, Spare}
  /\ issues \in Seq(Issue)
  /\ run \in [Runs -> RunState]
  /\ edits \in Nat /\ faults \in Nat

(* The step after which the delivery of r says that it created or updated. *)
Delivers(r) ==
  \/ UpdateReportIssue(r) \/ CloseCreated(r)
  \/ CreateReportIssue(r) /\ run'[r].pc = "done"

(* A delivery that says it delivered leaves its own report on the issue it names,
   open exactly when the target needs attention and carrying the marker the
   next run looks for, unless somebody else wrote to that issue meanwhile
   (updateReportIssue, createReportIssue, closeIfOpen).                    *)
DeliveredMirrorsRun ==
  [][\A r \in Runs :
       LET n == Target(r) IN
       Delivers(r) /\ ~run[r].crossed
         => /\ issues'[n].report /\ issues'[n].by = r /\ issues'[n].need = run[r].need
            /\ issues'[n].open = run[r].need /\ Marker \in issues'[n].labels]_vars

(* Deliveries never write to an issue that is not a report, whatever its title
   and labels, and take a label people gave the report only when somebody wrote
   to it between the scan and the PATCH (reportCandidatesIn, locateReportIssue). *)
PeoplesWorkIsKept ==
  [][\A n \in Numbers :
       /\ ~issues[n].report /\ edits' = edits
            => [issues'[n] EXCEPT !.labels = {}] = [issues[n] EXCEPT !.labels = {}]
       /\ Triage \in issues[n].labels \ issues'[n].labels
            => \E r \in Runs : At(r, "patch") /\ run[r].found = n /\ run[r].crossed]_vars

(* The comment on reportCandidatesIn: the marker is reattached "without
   clobbering human-added labels".                                         *)
HumanLabelsKept ==
  [][\A n \in Numbers : Triage \in issues[n].labels => Triage \in issues'[n].labels]_vars

(* One issue is reused: a report issue is opened beside another only when that
   other one was opened after the run had scanned them all, by an overlapping
   run or by its own POST whose answer was lost (fallbackScan).            *)
NoNeedlessDuplicate ==
  [][\A r \in Runs :
       At(r, "create") /\ Len(issues') > Len(issues) /\ issues'[Len(issues')].by = r
         => \A n \in Reports : n > run[r].known]_vars

(* Applying a labels section, under any policy and with any renames, leaves the
   marker on the repository and on its issues (injectMarkerLabel).         *)
MarkerSurvivesApply ==
  [][\A r \in Runs :
       Start(r) /\ Marker \in labels
         => /\ Marker \in labels'
            /\ \A n \in Numbers : Marker \in issues[n].labels => Marker \in issues'[n].labels]_vars

(* Once all runs are healthy, every report that carries the marker is closed in
   the end and stays so, duplicates and half-made creations included (closeIfOpen,
   pickReportIssue).                                                       *)
HealthCloses ==
  <>[](\A r \in Runs : ~run[r].need)
    => <>[](\A n \in Reports \cap Labelled : ~issues[n].open)

(* Once all runs fail, an open report that says so can be found by its marker,
   whatever people and lost answers did before (locateReportIssue).        *)
FailureShows ==
  <>[](\A r \in Runs : run[r].need)
    => <>[](\E n \in Reports \cap Labelled : issues[n].open /\ issues[n].need)
=============================================================================
