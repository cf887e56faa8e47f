--------------------------- MODULE MC_IssueReport ---------------------------
(* Small instances of IssueReport: labels sections that do not mention the
   marker, rename it away, and rename another label to it.                 *)
EXTENDS IssueReport, TLC

MCDeclarations ==
  {Absent,
   [entries |-> {[name |-> Spare, to |-> Unset]}, policy |-> "delete"],
   [entries |-> {[name |-> Marker, to |-> Spare]}, policy |-> "keep"],
   [entries |-> {[name |-> Spare, to |-> Marker]}, policy |-> "delete"]}
MCSymmetry == Permutations(Runs)
MCPersonsIssue ==
  [report |-> FALSE, by |-> Unset, need |-> FALSE, open |-> TRUE, labels |-> {Marker}]
MCOpened == {<<>>, <<MCPersonsIssue>>}
MCNoneOpened == {<<>>}
MCNoDeclarations == {Absent}
=============================================================================
