---------------------------- MODULE RunContract ----------------------------
(***************************************************************************)
(* What one run over one repository promises its operator, with nothing    *)
(* said of sections, plans, requests or retries: GitHub's state only moves *)
(* towards the declaration and only in an apply run whose every secret     *)
(* resolved, and the run ends in a result word of its own mode.  The       *)
(* detailed module RepoRun is shown to implement this one.                 *)
(***************************************************************************)
EXTENDS Integers, FiniteSets

CONSTANTS
  Items,        \* the units of declared state a plan compares and writes
  SectionOf,    \* the section an item belongs to
  Options       \* the run options an operator may choose, see RepoRun

VARIABLES
  opts,         \* the options of the current or last run
  live,         \* the items whose state on GitHub is the declared one
  wrote,        \* the items this run changed on GitHub
  running,      \* whether a run is under way
  result        \* the last run's result word, "none" while it runs

vars == <<opts, live, wrote, running, result>>

-----------------------------------------------------------------------------

(* dispositionOf(): declared, and not left out by a `sections` allowlist.  *)
ActiveIn(o) == {s \in o.declared : o.only = {} \/ s \in o.only}

(* An apply run writes only when every active section's references resolve. *)
MayWrite(o) == o.mode = "apply" /\ ActiveIn(o) \cap o.secrets \subseteq o.env

(* The words a run may end in; the healthy words belong to one mode each, a
   skip needs the warn policy, and a check run can only report.            *)
Verdicts(o) ==
  {"failed"} \cup (IF o.mode = "check" THEN {"clean", "drift"} ELSE {"applied"})
             \cup (IF o.policy = "warn" THEN {"partial"} ELSE {})

Init ==
  /\ opts \in Options
  /\ live \in SUBSET Items
  /\ wrote = {}
  /\ running = FALSE
  /\ result = "none"

Begin ==
  /\ ~running
  /\ \E o \in Options : opts' = o
  /\ wrote' = {}
  /\ running' = TRUE
  /\ result' = "none"
  /\ UNCHANGED live

(* One accepted write: an item of an active section becomes as declared.   *)
Write ==
  /\ running
  /\ MayWrite(opts)
  /\ \E i \in Items :
       /\ SectionOf[i] \in ActiveIn(opts)
       /\ live' = live \cup {i}
       /\ wrote' = wrote \cup {i}
  /\ UNCHANGED <<opts, running, result>>

(* Somebody else changes the repository, during a run or between two.      *)
Outside ==
  /\ \E i \in Items : live' = IF i \in live THEN live \ {i} ELSE live \cup {i}
  /\ UNCHANGED <<opts, wrote, running, result>>

Conclude ==
  /\ running
  /\ result' \in Verdicts(opts)
  /\ running' = FALSE
  /\ UNCHANGED <<opts, live, wrote>>

Next == Begin \/ Write \/ Outside \/ Conclude

Spec == Init /\ [][Next]_vars
=============================================================================
