---------------------------- MODULE ListSection ----------------------------
(***************************************************************************)
(* The list-section factory, src/sections/shared/list: labels, milestones, *)
(* autolinks, deploy keys, webhooks and rulesets.  A run lists what GitHub *)
(* holds, pairs it with the declared entries, plans an ordered sequence of *)
(* requests and sends them one at a time; the run may die anywhere, and a  *)
(* later one starts over from what GitHub then holds.                      *)
(*                                                                         *)
(* An item has a name, one field every entry declares (val) and one an     *)
(* entry may leave undeclared (flag).  Reading the list is one step.       *)
(***************************************************************************)
EXTENDS Integers, Sequences, FiniteSets, SequencesExt

CONSTANTS
  Names,        \* item names
  Vals,         \* values of the declared field
  Flags,        \* values of the field an entry may leave undeclared
  Default,      \* what GitHub sets that field to when a create or a PUT omits it
  Unset,        \* "undeclared"
  Decls,        \* the section declarations, see DeclSpace
  Documents,    \* the documents an operator may declare
  MaxRetries,   \* MAX_RETRIES of the client
  MaxItems,     \* bound: items others have put on GitHub
  MaxEdits,     \* bound: outside edits
  MaxFaults     \* bound: faults of the API

(* A declaration: how GitHub edits an item (PATCH, a PUT that replaces it, two
   requests one of which writes the nested mapping alone, or not at all), how it
   folds names, which names it refuses to hold together, whether it refuses two
   items with one val (a public key), whether requests address an item by its
   name, whether an entry may rename its item, and the vals the settings file
   cannot declare.                                                         *)
DeclSpace ==
  [edit : {"patch", "replace", "mapping", "recreate"},
   key : [Names -> Names], clash : SUBSET (Names \X Names),
   exclusive : BOOLEAN, byName : BOOLEAN, renames : BOOLEAN, foreign : SUBSET Vals]

Entry == [name : Names, to : Names \cup {Unset}, val : Vals, flag : Flags \cup {Unset}]
Content == [name : Names, val : Vals, flag : Flags]
Item == [id : Nat, name : Names, val : Vals, flag : Flags]

ASSUME ValuesAssumption == Default \in Flags /\ Unset \notin Flags \cup Names
ASSUME DeclsAssumption == Decls \subseteq DeclSpace
ASSUME DocumentsAssumption ==
  \A d \in Documents : d.entries \in Seq(Entry) /\ d.policy \in {"keep", "delete"}
ASSUME ListBoundsAssumption ==
  MaxRetries \in Nat /\ MaxItems \in Nat /\ MaxEdits \in Nat /\ MaxFaults \in Nat

VARIABLES
  decl,     \* the section's declaration
  doc,      \* its declared entries and undeclared policy
  live,     \* GitHub: the items it holds
  pc,       \* "idle" between two runs, "exec" while a plan is executed
  plan,     \* the operations not yet over, the first one in flight
  tries,    \* the retries of the operation in flight
  row       \* how the last run ended

(* History. *)
VARIABLES
  seen,         \* per entry, the undeclared flag the first plan found on its item
  interfered,   \* an outsider edited the list since the last plan
  faulted,      \* the API faulted since the last plan
  edits, faults

history == <<seen, interfered, faulted, edits, faults>>
vars == <<decl, doc, live, pc, plan, tries, row, history>>

-----------------------------------------------------------------------------
(* Entries. *)

(* An entry's name once written, and every identity it claims: a renaming entry
   also owns the item at its current name.                                 *)
WriteName(e) == IF e.to = Unset THEN e.name ELSE e.to
ClaimsWritten(d, e) == {d.key[WriteName(e)]}
Claims(d, e) == {d.key[e.name], d.key[WriteName(e)]}

Entries == DOMAIN doc.entries

(* validateList() and the entry's shape: what a document passes before any
   request is sent.                                                        *)
Shaped(d, es) ==
  \A i \in DOMAIN es : es[i].val \notin d.foreign /\ (es[i].to # Unset => d.renames)
ValidByCurrentName(d, es) ==
  Shaped(d, es) /\ \A i, j \in DOMAIN es : i # j => es[i].name # es[j].name
Valid(d, es) ==
  Shaped(d, es) /\ \A i, j \in DOMAIN es : i # j =>
    /\ Claims(d, es[i]) \cap Claims(d, es[j]) = {}
    /\ <<WriteName(es[i]), WriteName(es[j])>> \notin d.clash
    /\ d.exclusive => es[i].val # es[j].val

(* The items the section manages, and those no entry claims. *)
Managed == {l \in live : l.val \notin decl.foreign}
Claimed == UNION {Claims(decl, doc.entries[i]) : i \in Entries}
Undeclared == {l \in Managed : decl.key[l.name] \notin Claimed}
MatchesExactly(e) == {l \in Managed : l.name \in {e.name, WriteName(e)}}
Matches(e) == {l \in Managed : decl.key[l.name] \in Claims(decl, e)}

(* What ends the plan: two managed items under one identity, the section's own
   live conflict, an entry that matches two items.                         *)
Refused ==
  \/ \E l, m \in Managed : l # m /\ decl.key[l.name] = decl.key[m.name]
  \/ \E i \in Entries :
       LET e == doc.entries[i]
       IN  \/ decl.exclusive /\ \E l \in Managed : l.val = e.val /\ l.name # WriteName(e)
           \/ Cardinality(Matches(e)) > 1

-----------------------------------------------------------------------------
(* The plan. *)

NoTarget == [id |-> 0]

(* An operation: the item it addresses, the fields its request sets, and whether
   its before hook refuses it.                                             *)
Bodies == [name : Names, val : Vals, flag : Flags \cup {Unset}]
Operation ==
  [role : {"create"}, at : {NoTarget}, body : Bodies, refused : {FALSE}]
    \cup [role : {"remove"}, at : Item, body : {Unset}, refused : {FALSE}]
    \cup [role : {"update", "updateConfig"}, at : Item, body : Bodies, refused : BOOLEAN]
Op(role, at, body, refused) == [role |-> role, at |-> at, body |-> body, refused |-> refused]

Body(e) == [name |-> WriteName(e), val |-> e.val, flag |-> e.flag]

CreateOp(body) == Op("create", NoTarget, body, FALSE)
RemoveOp(l) == Op("remove", l, Unset, FALSE)

(* The undeclared items, removed before anything is written, as GitHub lists them. *)
AsListed(items) ==
  CHOOSE s \in [1..Cardinality(items) -> items] : \A i, j \in DOMAIN s : i < j => s[i].id < s[j].id
Removals ==
  IF doc.policy = "delete"
  THEN LET gone == AsListed(Undeclared) IN [i \in DOMAIN gone |-> RemoveOp(gone[i])]
  ELSE <<>>

FlagDiffers(e, l) == e.flag # Unset /\ e.flag # l.flag
Differs(e, l) == WriteName(e) # l.name \/ e.val # l.val \/ FlagDiffers(e, l)

(* The omitted-key sweep of a replacing write: a live value it would drop. *)
OmitsNothing(e, l) == FALSE
Omits(e, l) == decl.edit = "replace" /\ e.flag = Unset /\ l.flag # Default

(* An item GitHub cannot edit is deleted and created anew, its undeclared flag
   sent again.                                                             *)
RecreateCreatingFirst(e, l) ==
  <<CreateOp([Body(e) EXCEPT !.flag = IF e.flag = Unset THEN l.flag ELSE e.flag]), RemoveOp(l)>>
Recreate(e, l) ==
  <<RemoveOp(l), CreateOp([Body(e) EXCEPT !.flag = IF e.flag = Unset THEN l.flag ELSE e.flag])>>

(* updateOps(): the mapping alone through updateConfig, the rest through the
   general update, which never carries the mapping.                        *)
MappingOps(e, l) ==
  (IF e.val # l.val THEN <<Op("updateConfig", l, Body(e), FALSE)>> ELSE <<>>)
  \o (IF FlagDiffers(e, l) THEN <<Op("update", l, Body(e), FALSE)>> ELSE <<>>)

UpdateOps(e, l) ==
  CASE decl.edit = "recreate" -> IF Differs(e, l) THEN Recreate(e, l) ELSE <<>>
    [] decl.edit = "mapping" -> MappingOps(e, l)
    [] OTHER -> IF Differs(e, l) \/ Omits(e, l)
                THEN <<Op("update", l, Body(e), Omits(e, l))>> ELSE <<>>

(* One declared entry's operations. *)
Group(e) ==
  IF Matches(e) = {} THEN <<CreateOp(Body(e))>>
  ELSE UpdateOps(e, CHOOSE l \in Matches(e) : TRUE)

Groups == FlattenSeq([i \in Entries |-> Group(doc.entries[i])])
PlanRemovingLast == Groups \o Removals
Plan == Removals \o Groups

-----------------------------------------------------------------------------
(* GitHub. *)

Addressed(op) ==
  {l \in live : IF decl.byName THEN decl.key[l.name] = decl.key[op.at.name] ELSE l.id = op.at.id}

(* GitHub refuses a name or a val an item other than `own` holds. *)
Free(name, val, own) ==
  \A m \in live \ own :
    <<name, m.name>> \notin decl.clash /\ (decl.exclusive => m.val # val)

Accepts(op) ==
  CASE op.role = "create" -> Free(op.body.name, op.body.val, {})
    [] op.role = "remove" -> Addressed(op) # {}
    [] OTHER -> \E l \in Addressed(op) : Free(op.body.name, op.body.val, {l})

OrDefault(flag) == IF flag = Unset THEN Default ELSE flag

(* Item l as the update leaves it: a PATCH sets the fields it names, a PUT all. *)
Updated(l, op) ==
  CASE op.role = "updateConfig" -> [l EXCEPT !.val = op.body.val]
    [] op.role = "update" /\ decl.edit = "replace" ->
         [l EXCEPT !.name = op.body.name, !.val = op.body.val, !.flag = OrDefault(op.body.flag)]
    [] op.role = "update" /\ decl.edit = "mapping" -> [l EXCEPT !.flag = op.body.flag]
    [] OTHER -> [l EXCEPT !.name = op.body.name, !.val = op.body.val,
                          !.flag = IF op.body.flag = Unset THEN @ ELSE op.body.flag]

(* An id nothing holds and no planned operation addresses. *)
FreshId ==
  LET used == {l.id : l \in live} \cup {plan[i].at.id : i \in DOMAIN plan}
  IN  CHOOSE n \in 1..(Cardinality(used) + 1) : n \notin used

After(op) ==
  CASE op.role = "create" ->
         live \cup {[id |-> FreshId, name |-> op.body.name, val |-> op.body.val,
                     flag |-> OrDefault(op.body.flag)]}
    [] op.role = "remove" -> live \ Addressed(op)
    [] OTHER -> LET l == CHOOSE l \in Addressed(op) : TRUE IN (live \ {l}) \cup {Updated(l, op)}

(* What GitHub may hold: nothing it would have refused. *)
Consistent(d, items) ==
  \A l, m \in items : l # m =>
       l.id # m.id /\ <<l.name, m.name>> \notin d.clash /\ (d.exclusive => l.val # m.val)

-----------------------------------------------------------------------------
(* Runs. *)

Init ==
  /\ decl \in Decls
  /\ doc \in {d \in Documents : Valid(decl, d.entries)}
  /\ \E n \in 0..MaxItems : \E held \in [1..n -> Content] :
       /\ live = {[id |-> i, name |-> held[i].name, val |-> held[i].val, flag |-> held[i].flag] : i \in 1..n}
       /\ Consistent(decl, live)
  /\ pc = "idle" /\ plan = <<>> /\ tries = 0 /\ row = "none"
  /\ seen = [i \in Entries |-> Unset]
  /\ interfered = FALSE /\ faulted = FALSE /\ edits = 0 /\ faults = 0

(* The section's run ends in this row. *)
EndWith(word) == row' = word /\ pc' = "idle" /\ plan' = <<>> /\ tries' = 0

Fault == faults < MaxFaults /\ faults' = faults + 1 /\ faulted' = TRUE

(* planList(): every run reads the list afresh. *)
PlanRefused ==
  /\ pc = "idle" /\ Refused
  /\ EndWith("failed")
  /\ UNCHANGED <<decl, doc, live, history>>

PlanSection ==
  /\ pc = "idle" /\ ~Refused
  /\ plan' = Plan
  /\ pc' = "exec" /\ row' = "none"
  /\ seen' = [i \in Entries |->
       LET e == doc.entries[i]
       IN  IF e.flag = Unset /\ seen[i] = Unset /\ Matches(e) # {}
           THEN (CHOOSE l \in Matches(e) : TRUE).flag ELSE seen[i]]
  /\ interfered' = FALSE /\ faulted' = FALSE
  /\ UNCHANGED <<decl, doc, live, tries, edits, faults>>

(* executePlan() over the plan; Sending is its request to GitHub. *)
InFlight == pc = "exec" /\ plan # <<>>
Sending == InFlight /\ ~Head(plan).refused

HookRefuses ==
  /\ InFlight /\ Head(plan).refused
  /\ EndWith("failed")
  /\ UNCHANGED <<decl, doc, live, history>>

Lands ==
  /\ Sending /\ Accepts(Head(plan))
  /\ live' = After(Head(plan))
  /\ plan' = Tail(plan) /\ tries' = 0
  /\ UNCHANGED <<decl, doc, pc, row, history>>

(* A 422, or the 404 of an item no longer there. *)
Rejected ==
  /\ Sending /\ ~Accepts(Head(plan))
  /\ EndWith("failed")
  /\ UNCHANGED <<decl, doc, live, history>>

RetriesLeft == tries < MaxRetries

(* No answer, or a 5xx, whether or not GitHub took the write. *)
AnswerLost ==
  /\ Sending /\ Fault
  /\ live' \in {live} \cup (IF Accepts(Head(plan)) THEN {After(Head(plan))} ELSE {})
  /\ IF RetriesLeft THEN tries' = tries + 1 /\ UNCHANGED <<pc, plan, row>> ELSE EndWith("failed")
  /\ UNCHANGED <<decl, doc, seen, interfered, edits>>

(* Another failure, a denial, or the runner dies: the rest of the plan is lost. *)
RunFails ==
  /\ InFlight /\ Fault
  /\ EndWith("failed")
  /\ UNCHANGED <<decl, doc, live, seen, interfered, edits>>

FinishSection ==
  /\ pc = "exec" /\ plan = <<>>
  /\ EndWith("applied")
  /\ UNCHANGED <<decl, doc, live, history>>

(* Somebody adds, removes or changes an item; what they leave is theirs. *)
EditLive ==
  /\ edits < MaxEdits /\ edits' = edits + 1
  /\ interfered' = TRUE
  /\ \/ \E l \in live : live' = live \ {l}
     \/ \E l \in live, c \in Content :
          live' = (live \ {l}) \cup {[id |-> l.id, name |-> c.name, val |-> c.val, flag |-> c.flag]}
     \/ \E c \in Content :
          /\ Cardinality(live) < MaxItems
          /\ live' = live \cup {[id |-> FreshId, name |-> c.name, val |-> c.val, flag |-> c.flag]}
  /\ live' # live /\ Consistent(decl, live')
  /\ seen' = [i \in Entries |-> Unset]
  /\ UNCHANGED <<decl, doc, pc, plan, tries, row, faulted, faults>>

Step == PlanRefused \/ PlanSection \/ HookRefuses \/ Lands \/ Rejected \/ AnswerLost \/ RunFails
          \/ FinishSection

Next == Step \/ EditLive

Spec == Init /\ [][Next]_vars

(* Every await returns and the workflow is scheduled again. *)
FairSpec == Spec /\ WF_vars(Step)

-----------------------------------------------------------------------------
(* Properties. *)

(* The types of the variables, and what a run starts from: a document that passed
   validateList().                                                         *)
TypeOK ==
  /\ decl \in Decls /\ doc \in Documents /\ Valid(decl, doc.entries)
  /\ live \subseteq Item /\ IsFiniteSet(live)
  /\ pc \in {"idle", "exec"} /\ plan \in Seq(Operation) /\ tries \in Nat
  /\ row \in {"none", "failed", "applied"}
  /\ seen \in [Entries -> Flags \cup {Unset}]
  /\ interfered \in BOOLEAN /\ faulted \in BOOLEAN /\ edits \in Nat /\ faults \in Nat

(* Each declared entry is one item, in every field the entry declares, and
   nothing else is left under a delete policy.                             *)
Reconciled ==
  /\ \A i \in Entries :
       LET e == doc.entries[i]
       IN  \E l \in Managed :
             /\ l.name = WriteName(e) /\ l.val = e.val /\ e.flag \in {Unset, l.flag}
             /\ \A m \in Managed \ {l} : decl.key[m.name] # decl.key[l.name]
  /\ doc.policy = "delete" => \A l \in Managed : \E i \in Entries : WriteName(doc.entries[i]) = l.name

(* A section reported applied is reconciled, and planning it again finds nothing
   to do, unless an outsider changed it since the plan.                    *)
AppliedMeansReconciled ==
  row = "applied" /\ ~interfered => Reconciled /\ ~Refused /\ Plan = <<>>

(* An item this run keeps and that GitHub will not hold beside a declared one. *)
Blocked ==
  \E i \in Entries, l \in live :
    /\ l \in Undeclared => doc.policy = "keep"
    /\ l \notin Matches(doc.entries[i])
    /\ <<WriteName(doc.entries[i]), l.name>> \in decl.clash

(* "A delete has freed a name or prefix before the create that needs it is sent"
   (plan.ts): left alone, GitHub accepts every operation in the plan's order. *)
PlanIsFeasible ==
  Sending /\ ~interfered /\ ~faulted /\ ~Blocked => Accepts(Head(plan))

(* A run that fails anywhere leaves nothing its re-run refuses: the program never
   takes the list into a state that needs a person.                        *)
NeverWedges ==
  [][edits' = edits /\ ~interfered /\ ~Refused => ~Refused']_vars

(* A run removes an item only when no entry names it, under its current or its
   new name, and the policy is delete, or to create it anew; an item no entry
   names is never changed, nor one the section cannot declare.             *)
SparesUndeclared ==
  [][edits' = edits /\ ~interfered =>
       \A l \in live \ live' :
         /\ l.val \notin decl.foreign
         /\ \/ \E i \in Entries : decl.key[l.name] \in
                    {decl.key[doc.entries[i].name], decl.key[WriteName(doc.entries[i])]}
            \/ doc.policy = "delete" /\ ~\E m \in live' : m.id = l.id
         /\ (\E i \in Entries : decl.key[l.name] \in
                {decl.key[doc.entries[i].name], decl.key[WriteName(doc.entries[i])]})
            /\ (~\E m \in live' : m.id = l.id) => decl.edit = "recreate"]_vars

(* "An UNDECLARED read_only survives the recreate, since the live value is
   re-sent, so a rotation never widens access" (coverage.md): the field an entry
   leaves undeclared keeps the value the first plan found.                 *)
UndeclaredFlagKept ==
  \A i \in Entries : seen[i] # Unset => \A l \in Matches(doc.entries[i]) : l.flag = seen[i]

(* The same where no fault separates the two halves of a recreate: an update and a
   replacing PUT never lose it, a recreate keeps it when both its requests land. *)
UndeclaredFlagKeptUnbroken ==
  (decl.edit = "recreate" => faults = 0) => UndeclaredFlagKept

(* Scheduled runs reconcile the list whatever failed before, unless it takes a
   person: the plan is refused, a kept item is in the way, or a replacing write
   would drop what the file omits.                                         *)
NeedsPerson ==
  \/ Refused \/ Blocked
  \/ \E i \in Entries : \E l \in Matches(doc.entries[i]) : Omits(doc.entries[i], l)
Reconverges == <>[](Reconciled \/ NeedsPerson)
=============================================================================
