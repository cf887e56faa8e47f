--------------------------- MODULE RepoRunProofs ---------------------------
(***************************************************************************)
(* Proofs about RepoRun, for every number of sections, every set of items, *)
(* every option an operator may choose and every bound.                    *)
(***************************************************************************)
EXTENDS RepoRun, TLAPS

(* Every action that pushes a row leaves a well-typed run. *)
LEMMA SettleType ==
  ASSUME TypeOK, NEW row \in RowSpace, cur \in Sections, Settle(row)
  PROVE  /\ rows' \in [Sections -> RowSpace]
         /\ cur' \in 1..(N + 1) /\ pc' = "loop"
         /\ todo' = {} /\ op' = NoItem /\ tries' \in 0..MaxRetries /\ landed' \in Nat
         /\ changes' \in BOOLEAN /\ notes' \in BOOLEAN
<1>1. rows' \in [Sections -> RowSpace]
  BY DEF TypeOK, Settle
<1>2. cur' \in 1..(N + 1)
  BY NAssumption DEF TypeOK, Settle, Sections
<1>3. tries' \in 0..MaxRetries
  BY BoundsAssumption DEF Settle
<1>4. landed' \in Nat /\ changes' \in BOOLEAN /\ notes' \in BOOLEAN
  BY DEF Settle
<1>5. QED
  BY <1>1, <1>2, <1>3, <1>4 DEF Settle

(* The rows the code builds are rows. *)
LEMMA RowTypes ==
  /\ NoRow \in RowSpace
  /\ Row("excluded", "quiet") \in RowSpace
  /\ \A n : FailedRow(n) \in RowSpace
  /\ \A s, n : DeniedRow(s, n) \in RowSpace
  /\ AppliedRow \in RowSpace
  /\ \A s : CheckedRow(s) \in RowSpace
  BY DEF NoRow, Row, FailedRow, DeniedRow, AppliedRow, CheckedRow, RowSpace, Statuses, Details

(* Every action keeps every variable in its type. *)
THEOREM TypeCorrect == Spec => []TypeOK
<1>1. Init => TypeOK
  <2> SUFFICES ASSUME Init PROVE TypeOK
    OBVIOUS
  <2>1. opts \in OptionSpace
    BY OptionsAssumption DEF Init
  <2>2. rows \in [Sections -> RowSpace]
    BY RowTypes DEF Init
  <2>3. cur \in 1..(N + 1) /\ tries \in 0..MaxRetries /\ landed \in Nat
    BY NAssumption, BoundsAssumption DEF Init
  <2>4. edits \in 0..MaxEdits /\ faults \in 0..MaxFaults
    BY BoundsAssumption DEF Init
  <2> QED
    BY <2>1, <2>2, <2>3, <2>4 DEF Init, TypeOK
<1>2. ASSUME TypeOK, [Next]_vars PROVE TypeOK'
  <2> USE <1>2, ItemsAssumption
  <2>1. CASE StartRun
    <3>1. opts' \in OptionSpace /\ pc' \in {"preflight", "resolve", "loop"}
      BY <2>1, OptionsAssumption DEF StartRun, FirstPhase
    <3>2. cur' \in 1..(N + 1)
      BY <2>1, NAssumption DEF StartRun
    <3>3. rows' \in [Sections -> RowSpace]
      BY <2>1, RowTypes DEF StartRun
    <3> QED
      BY <2>1, <3>1, <3>2, <3>3 DEF TypeOK, StartRun
  <2>2. CASE ProbeSection
    <3>1. cur' \in 1..(N + 1) /\ cur \in Sections
      BY <2>2, NAssumption DEF TypeOK, ProbeSection, Sections
    <3> QED
      BY <2>2, <3>1 DEF TypeOK, ProbeSection, executing, history
  <2>3. CASE ProbeFails
    <3>1. cur' \in 1..(N + 1) /\ cur \in Sections
      BY <2>3, NAssumption DEF TypeOK, ProbeFails, Sections
    <3>2. faults' \in 0..MaxFaults
      BY <2>3, BoundsAssumption DEF TypeOK, ProbeFails
    <3> QED
      BY <2>3, <3>1, <3>2 DEF TypeOK, ProbeFails, executing, effects
  <2>4. CASE ConcludePreflight
    <3>1. cur' \in 1..(N + 1)
      BY <2>4, NAssumption DEF TypeOK, ConcludePreflight
    <3> QED
      BY <2>4, <3>1 DEF TypeOK, ConcludePreflight, executing, history
  <2>5. CASE ResolveSecrets
    <3>1. rows' \in [Sections -> RowSpace]
      <4>1. Row("failed", "quiet") \in RowSpace
        BY DEF Row, RowSpace, Statuses, Details
      <4> QED
        BY <2>5, <4>1, RowTypes DEF TypeOK, ResolveSecrets
    <3>2. masked' \subseteq Sections
      BY <2>5 DEF TypeOK, ResolveSecrets, References, OptionSpace
    <3> QED
      BY <2>5, <3>1, <3>2 DEF TypeOK, ResolveSecrets, executing, history
  <2>6. CASE SkipUndeclared
    <3>1. cur' \in 1..(N + 1)
      BY <2>6, NAssumption DEF TypeOK, SkipUndeclared, AtSection
    <3> QED
      BY <2>6, <3>1 DEF TypeOK, SkipUndeclared, AtSection, executing, history
  <2>7. CASE ExcludeSection
    <3>1. cur \in Sections
      BY <2>7 DEF TypeOK, ExcludeSection, AtSection, Sections
    <3> QED
      BY <2>7, <3>1, RowTypes, SettleType DEF TypeOK, ExcludeSection, history
  <2>8. CASE PlanSection
    <3>1. cur \in Sections
      BY <2>8, NAssumption DEF TypeOK, PlanSection, AtSection, Sections
    <3>2. differed' \subseteq Items /\ stale' \subseteq Items
      BY <2>8 DEF TypeOK, PlanSection, DriftIn, ItemsOf
    <3>3. CASE Executes
      <4>1. OpsOf(cur) \subseteq Items
        BY DEF OpsOf, DriftIn, ItemsOf
      <4>2. notes' \in BOOLEAN
        BY <2>8, <3>3 DEF PlanSection
      <4> QED
        BY <2>8, <3>1, <3>2, <3>3, <4>1, <4>2 DEF TypeOK, PlanSection, effects
    <3>4. CASE ~Executes
      BY <2>8, <3>1, <3>2, <3>4, RowTypes, SettleType DEF TypeOK, PlanSection, effects
    <3> QED BY <3>3, <3>4
  <2>9. CASE PlanDenied
    <3>1. cur \in Sections
      BY <2>9 DEF TypeOK, PlanDenied, AtSection, Sections
    <3> QED
      BY <2>9, <3>1, RowTypes, SettleType DEF TypeOK, PlanDenied, history
  <2>10. CASE PlanFails
    <3>1. cur \in Sections
      BY <2>10 DEF TypeOK, PlanFails, AtSection, Sections
    <3>2. faults' \in 0..MaxFaults
      BY <2>10, BoundsAssumption DEF TypeOK, PlanFails
    <3> QED
      BY <2>10, <3>1, <3>2, RowTypes, SettleType DEF TypeOK, PlanFails, effects
  <2>11. CASE ConcludeRun
    BY <2>11 DEF TypeOK, ConcludeRun, RepoResult, executing, history
  <2>12. CASE BeginOp
    BY <2>12, BoundsAssumption DEF TypeOK, BeginOp, history
  <2>13. ASSUME InFlight PROVE cur \in Sections /\ op \in Items
    BY <2>13 DEF TypeOK, InFlight
  <2>14. CASE OpLands
    <3>1. landed' \in Nat /\ tries' \in 0..MaxRetries
      BY <2>14, BoundsAssumption DEF TypeOK, OpLands, CountLanded, EndOp
    <3> QED
      BY <2>13, <2>14, <3>1 DEF TypeOK, OpLands, EndOp
  <2>15. CASE OpUnverified
    <3>1. faults' \in 0..MaxFaults
      BY <2>15, BoundsAssumption DEF TypeOK, OpUnverified
    <3> QED
      BY <2>13, <2>15, <3>1, RowTypes, SettleType DEF TypeOK, OpUnverified
  <2>16. CASE AnswerLost
    <3>1. faults' \in 0..MaxFaults
      BY <2>16, BoundsAssumption DEF TypeOK, AnswerLost
    <3>2. live' \subseteq Items /\ wrote' \subseteq Items /\ lost' \subseteq Items
      BY <2>13, <2>16 DEF TypeOK, AnswerLost
    <3>3. CASE tries < MaxRetries
      <4>1. tries' \in 0..MaxRetries
        BY <2>16, <3>3, BoundsAssumption DEF TypeOK, AnswerLost
      <4> QED
        BY <2>16, <3>1, <3>2, <3>3, <4>1 DEF TypeOK, AnswerLost
    <3>4. CASE ~(tries < MaxRetries)
      BY <2>13, <2>16, <3>1, <3>2, <3>4, RowTypes, SettleType DEF TypeOK, AnswerLost
    <3> QED BY <3>3, <3>4
  <2>17. CASE OpDenied
    BY <2>13, <2>17, RowTypes, SettleType DEF TypeOK, OpDenied, history
  <2>18. CASE OpTolerated
    <3>1. faults' \in 0..MaxFaults /\ tries' \in 0..MaxRetries
      BY <2>18, BoundsAssumption DEF TypeOK, OpTolerated, EndOp
    <3> QED
      BY <2>13, <2>18, <3>1 DEF TypeOK, OpTolerated, EndOp
  <2>19. CASE OpConflicts
    BY <2>13, <2>19, RowTypes, SettleType DEF TypeOK, OpConflicts, history
  <2>20. CASE OpFails
    <3>1. faults' \in 0..MaxFaults
      BY <2>20, BoundsAssumption DEF TypeOK, OpFails
    <3> QED
      BY <2>13, <2>20, <3>1, RowTypes, SettleType DEF TypeOK, OpFails, effects
  <2>21. CASE FinishSection
    <3>1. cur \in Sections
      BY <2>21 DEF TypeOK, FinishSection
    <3> QED
      BY <2>21, <3>1, RowTypes, SettleType DEF TypeOK, FinishSection, history
  <2>22. CASE EditLive
    <3>1. edits' \in 0..MaxEdits
      BY <2>22, BoundsAssumption DEF TypeOK, EditLive
    <3>2. live' \subseteq Items /\ stale' \subseteq Items
      BY <2>22 DEF TypeOK, EditLive
    <3> QED
      BY <2>22, <3>1, <3>2 DEF TypeOK, EditLive, program
  <2>23. CASE EditGrant
    <3>1. edits' \in 0..MaxEdits
      BY <2>23, BoundsAssumption DEF TypeOK, EditGrant
    <3>2. grant' \in [Sections -> {"none", "read", "write"}]
      BY <2>23 DEF TypeOK, EditGrant
    <3> QED
      BY <2>23, <3>1, <3>2 DEF TypeOK, EditGrant, program, effects
  <2>24. CASE UNCHANGED vars
    BY <2>24 DEF TypeOK, vars, program, history
  <2> QED
    BY <2>1, <2>2, <2>3, <2>4, <2>5, <2>6, <2>7, <2>8, <2>9, <2>10, <2>11, <2>12, <2>14,
       <2>15, <2>16, <2>17, <2>18, <2>19, <2>20, <2>21, <2>22, <2>23, <2>24
       DEF Next, Step, Gates, Loop, Exec
<1>3. QED
  BY <1>1, <1>2, PTL DEF Spec

-----------------------------------------------------------------------------
(* The inductive invariant. *)

LEMMA SectionNumbers ==
  /\ \A s \in Sections : s \in Int
  /\ \A i \in Items : SectionOf[i] \in Int
<1>1. \A s \in Sections : s \in Int
  BY NAssumption DEF Sections
<1> QED
  BY <1>1, ItemsAssumption

(* The effects of the step that ends a section: at most the operation in flight
   is written, and nothing is forgotten of the other sections.             *)
LastEffects ==
  /\ UNCHANGED <<opts, masked, noted>>
  /\ wrote' = wrote \/ (pc = "exec" /\ op # NoItem /\ wrote' = wrote \cup {op})
  /\ lost' \subseteq wrote'
  /\ \A i \in Items : SectionOf[i] # cur /\ i \in lost => i \in lost'

(* What the row pushed for the current section may claim of those effects. *)
HonestRow(row) ==
  /\ row # NoRow
  /\ row.status = "skipped" =>
       opts.policy = "warn" /\ cur \notin opts.required /\ wrote' \cap ItemsOf(cur) \subseteq lost'
  /\ row = FailedRow(0) => wrote' \cap ItemsOf(cur) \subseteq lost'
  /\ row.detail = "no changes needed" => wrote' \cap ItemsOf(cur) = {}

(* The items written are those written before and, in execution, one of the
   current section's.                                                      *)
LEMMA LastWrites ==
  ASSUME IInv, LastEffects
  PROVE  \A i \in wrote' : i \in wrote \/ (i \in Items /\ SectionOf[i] = cur /\ pc = "exec")
<1>1. op # NoItem => op \in Items /\ SectionOf[op] = cur
  BY DEF IInv, Working, Planned
<1> QED
  BY <1>1 DEF LastEffects

(* Pushing the current section's row keeps the invariant, whatever ended the
   section, if the row is honest.                                          *)
LEMMA SettleKeepsIInv ==
  ASSUME TypeOK, IInv, NEW row, Settle(row), LastEffects, HonestRow(row),
         cur \in Sections, pc \in {"loop", "exec"}
  PROVE  IInv'
<1>1. /\ rows' = [rows EXCEPT ![cur] = row] /\ cur' = cur + 1 /\ pc' = "loop"
      /\ todo' = {} /\ op' = NoItem /\ landed' = 0 /\ ~changes' /\ ~notes'
  BY DEF Settle
<1>2. cur \in Int
  BY SectionNumbers
<1>3. /\ rows'[cur] = row
      /\ \A s \in Sections : s # cur => rows'[s] = rows[s]
  BY <1>1 DEF TypeOK
<1>4. opts' = opts /\ masked' = masked /\ noted' = noted
  BY DEF LastEffects
<1>5. GatesQuiet' /\ Working' /\ Counted'
  BY <1>1 DEF GatesQuiet, Working, Counted
<1>6. RowsBehind'
  <2>1. ASSUME NEW s \in Sections, rows'[s] # NoRow, s # cur PROVE s < cur \/ pc = "done"
    BY <2>1, <1>3 DEF IInv, RowsBehind
  <2>2. ASSUME NEW s \in Sections, rows'[s] # NoRow PROVE s < cur + 1
    BY <2>1, <2>2, <1>2, SectionNumbers
  <2> QED
    BY <2>2, <1>1 DEF RowsBehind
<1>7. EffectsBehind'
  <2>1. ASSUME NEW i \in wrote' \cup noted'
        PROVE  opts.mode = "apply" /\ SectionOf[i] \in Active(opts) /\ SectionOf[i] < cur + 1
    <3>1. CASE i \in wrote \cup noted
      <4>1. i \in Items
        BY <3>1 DEF TypeOK
      <4>2. /\ opts.mode = "apply" /\ SectionOf[i] \in Active(opts)
            /\ SectionOf[i] < cur \/ SectionOf[i] <= cur
        BY <3>1 DEF IInv, EffectsBehind
      <4> QED
        BY <4>1, <4>2, <1>2, SectionNumbers
    <3>2. CASE SectionOf[i] = cur /\ pc = "exec"
      <4>1. opts.mode = "apply" /\ cur \in Active(opts)
        BY <3>2 DEF IInv, Working
      <4> QED
        BY <4>1, <3>2, <1>2
    <3> QED
      BY <2>1, <3>1, <3>2, <1>4, LastWrites
  <2>2. lost' \subseteq wrote'
    BY DEF LastEffects
  <2> QED
    BY <2>1, <2>2, <1>1, <1>4 DEF EffectsBehind, Active
<1>8. SecretsReady'
  <2>1. CASE pc = "exec" \/ opts.mode = "apply"
    <3>1. References \subseteq masked \cap opts.env
      BY <2>1 DEF IInv, SecretsReady, Working
    <3> QED
      BY <3>1, <1>4 DEF SecretsReady, References, Active
  <2>2. CASE pc = "loop" /\ opts.mode # "apply"
    <3>1. wrote' = {}
      BY <2>2, LastWrites DEF IInv, EffectsBehind
    <3> QED
      BY <2>2, <3>1, <1>4 DEF SecretsReady
  <2> QED
    BY <2>1, <2>2
<1>9. ASSUME NEW s \in Sections, s # cur
      PROVE  /\ wrote' \cap ItemsOf(s) = wrote \cap ItemsOf(s)
             /\ wrote \cap ItemsOf(s) \subseteq lost => wrote' \cap ItemsOf(s) \subseteq lost'
  <2>1. \A i \in ItemsOf(s) : i \in wrote' <=> i \in wrote
    BY <1>9, LastWrites DEF ItemsOf, LastEffects
  <2>2. \A i \in ItemsOf(s) : i \in lost => i \in lost'
    BY <1>9 DEF ItemsOf, LastEffects
  <2> QED
    BY <2>1, <2>2
<1>10. SkipConfirmsNothing'
  BY <1>3, <1>4, <1>9 DEF IInv, SkipConfirmsNothing, HonestRow, ItemsOf
<1>11. PartialIsSaid'
  BY <1>3, <1>9 DEF IInv, PartialIsSaid, HonestRow, ItemsOf, FailedRow
<1>12. NoChangesMeansNone'
  BY <1>3, <1>9 DEF IInv, NoChangesMeansNone, HonestRow, ItemsOf
<1> QED
  BY <1>5, <1>6, <1>7, <1>8, <1>10, <1>11, <1>12 DEF IInv

(* No more is claimed than a step that wrote nothing, or wrote the operation in
   flight unanswered, allows.                                              *)
LEMMA RowsAreHonest ==
  ASSUME TypeOK, IInv, lost' = lost, wrote' = wrote, cur \in Sections
  PROVE  /\ pc = "loop" => /\ HonestRow(FailedRow(0)) /\ HonestRow(DeniedRow(cur, 0))
                           /\ HonestRow(Row("excluded", "quiet")) /\ HonestRow(CheckedRow(cur))
         /\ pc = "exec" => HonestRow(FailedRow(landed)) /\ HonestRow(DeniedRow(cur, landed))
         /\ pc = "exec" /\ op = NoItem => HonestRow(AppliedRow)
<1>1. pc = "loop" => wrote \cap ItemsOf(cur) = {}
  <2>1. \A i \in wrote \cap ItemsOf(cur) : SectionOf[i] = cur
    BY DEF ItemsOf
  <2> QED
    BY <2>1, SectionNumbers DEF IInv, EffectsBehind
<1>2. ASSUME NEW n, n = 0 => wrote \cap ItemsOf(cur) \subseteq lost, n \in Nat
      PROVE  HonestRow(FailedRow(n)) /\ HonestRow(DeniedRow(cur, n))
  <2>1. HonestRow(FailedRow(n))
    <3>1. CASE n = 0
      BY <1>2, <3>1 DEF HonestRow, FailedRow, Row, NoRow
    <3>2. CASE n > 0
      <4>1. FailedRow(n).status = "failed" /\ FailedRow(n).detail = "partially applied"
        BY <3>2 DEF FailedRow, Row
      <4>2. FailedRow(0).detail = "quiet" /\ NoRow.status = "none"
        BY DEF FailedRow, Row, NoRow
      <4>3. FailedRow(n) # FailedRow(0) /\ FailedRow(n) # NoRow
        BY <4>1, <4>2
      <4> QED
        BY <4>1, <4>3 DEF HonestRow
    <3> QED
      BY <1>2, <3>1, <3>2
  <2> QED
    BY <1>2, <2>1 DEF HonestRow, DeniedRow, FailedRow, Row, NoRow
<1>3. pc = "loop" => HonestRow(FailedRow(0)) /\ HonestRow(DeniedRow(cur, 0))
  BY <1>1, <1>2
<1>4. HonestRow(Row("excluded", "quiet")) /\ HonestRow(CheckedRow(cur))
  BY DEF HonestRow, CheckedRow, FailedRow, Row, NoRow
<1>5. pc = "exec" => HonestRow(FailedRow(landed)) /\ HonestRow(DeniedRow(cur, landed))
  BY <1>2 DEF IInv, Counted, TypeOK
<1>6. pc = "exec" /\ op = NoItem => HonestRow(AppliedRow)
  <2>1. ASSUME pc = "exec", op = NoItem, ~changes, ~notes PROVE wrote \cap ItemsOf(cur) = {}
    <3>1. ItemsOf(cur) \subseteq Items /\ NoItem \notin Items
      BY ItemsAssumption DEF ItemsOf
    <3>2. landed = 0
      BY <2>1 DEF IInv, Counted, TypeOK
    <3> QED
      BY <2>1, <3>1, <3>2 DEF IInv, Counted
  <2> QED
    BY <2>1 DEF HonestRow, AppliedRow, FailedRow, Row, NoRow
<1> QED
  BY <1>3, <1>4, <1>5, <1>6

(* The gates keep the invariant: they write nothing, and the only rows they
   push are the failed ones of unresolved secrets.                         *)
LEMMA GatesKeepIInv ==
  ASSUME TypeOK, IInv, Gates
  PROVE  IInv'
<1>1. /\ pc \in {"preflight", "resolve"} /\ opts.mode = "apply"
      /\ wrote = {} /\ lost = {} /\ noted = {} /\ op = NoItem /\ todo = {}
      /\ landed = 0 /\ ~changes /\ ~notes
  BY DEF Gates, ProbeSection, ProbeFails, ConcludePreflight, ResolveSecrets, IInv, GatesQuiet, Working
<1>2. \A s \in Sections : rows[s] = NoRow
  BY <1>1 DEF IInv, GatesQuiet
<1>3. /\ wrote' = {} /\ lost' = {} /\ noted' = {} /\ opts' = opts /\ op' = NoItem /\ todo' = {}
      /\ landed' = 0 /\ ~changes' /\ ~notes'
  BY <1>1 DEF Gates, ProbeSection, ProbeFails, ConcludePreflight, ResolveSecrets,
     executing, effects, history
<1>4. pc' # "exec"
  BY <1>1 DEF Gates, ProbeSection, ProbeFails, ConcludePreflight, ResolveSecrets
<1>5. CASE ~ResolveSecrets
  <2>1. /\ rows' = rows /\ masked' = masked /\ pc' \in {"preflight", "resolve", "done"}
        /\ pc' = "resolve" => cur' = 1
    BY <1>1, <1>5 DEF Gates, ProbeSection, ProbeFails, ConcludePreflight
  <2>2. GatesQuiet' /\ Working' /\ EffectsBehind' /\ SecretsReady' /\ Counted'
    BY <1>1, <1>2, <1>3, <1>4, <2>1 DEF GatesQuiet, Working, EffectsBehind, SecretsReady, Counted
  <2>3. RowsBehind' /\ SkipConfirmsNothing' /\ PartialIsSaid' /\ NoChangesMeansNone'
    BY <1>2, <1>3, <2>1 DEF RowsBehind, SkipConfirmsNothing, PartialIsSaid, NoChangesMeansNone, NoRow, Row
  <2> QED
    BY <2>2, <2>3 DEF IInv
<1>6. CASE ResolveSecrets
  <2>1. \A s \in Sections : rows'[s] = NoRow \/ (rows'[s] = Row("failed", "quiet") /\ pc' = "done")
    BY <1>2, <1>6 DEF ResolveSecrets
  <2>2. pc' = "loop" => References \subseteq masked' \cap opts.env
    BY <1>6 DEF ResolveSecrets, Unresolved
  <2>3. pc' \in {"loop", "done"}
    BY <1>6 DEF ResolveSecrets
  <2>4. GatesQuiet' /\ Working' /\ EffectsBehind' /\ Counted'
    BY <1>3, <1>4, <2>3 DEF GatesQuiet, Working, EffectsBehind, Counted
  <2>5. SecretsReady'
    BY <1>3, <2>2, <2>3 DEF SecretsReady, References, Active
  <2>6. RowsBehind'
    BY <2>1 DEF RowsBehind
  <2>7. SkipConfirmsNothing' /\ PartialIsSaid' /\ NoChangesMeansNone'
    BY <1>3, <2>1 DEF SkipConfirmsNothing, PartialIsSaid, NoChangesMeansNone, NoRow, Row
  <2> QED
    BY <2>4, <2>5, <2>6, <2>7 DEF IInv
<1> QED
  BY <1>5, <1>6

(* The section loop keeps the invariant. *)
LEMMA LoopKeepsIInv ==
  ASSUME TypeOK, IInv, Loop
  PROVE  IInv'
<1>1. /\ pc = "loop" /\ opts' = opts /\ masked' = masked
      /\ wrote' = wrote /\ lost' = lost /\ noted' = noted
  BY DEF Loop, SkipUndeclared, ExcludeSection, PlanSection, PlanDenied, PlanFails, ConcludeRun,
     AtSection, effects, history
<1>2. LastEffects
  BY <1>1 DEF LastEffects, IInv, EffectsBehind
<1>3. AtSection => cur \in Sections
  BY NAssumption DEF TypeOK, AtSection, Sections
<1>4. CASE SkipUndeclared
  <2>1. /\ cur' = cur + 1 /\ pc' = pc /\ rows' = rows /\ todo' = {} /\ op' = NoItem
        /\ landed' = 0 /\ ~changes' /\ ~notes'
    BY <1>1, <1>4 DEF SkipUndeclared, executing, IInv, Working
  <2>2. GatesQuiet' /\ Working' /\ Counted' /\ SecretsReady'
    BY <1>1, <2>1 DEF GatesQuiet, Working, Counted, IInv, SecretsReady, References, Active
  <2>3. cur \in Int
    BY NAssumption DEF TypeOK
  <2>4. RowsBehind'
    BY <1>1, <2>1, <2>3, SectionNumbers DEF RowsBehind, IInv
  <2>5. EffectsBehind'
    <3>1. ASSUME NEW i \in wrote \cup noted
          PROVE opts.mode = "apply" /\ SectionOf[i] \in Active(opts) /\ SectionOf[i] < cur + 1
      <4>1. i \in Items
        BY <3>1 DEF TypeOK
      <4>2. opts.mode = "apply" /\ SectionOf[i] \in Active(opts) /\ SectionOf[i] < cur
        BY <1>1 DEF IInv, EffectsBehind
      <4> QED
        BY <4>1, <4>2, <2>3, SectionNumbers
    <3> QED
      BY <3>1, <1>1, <2>1 DEF EffectsBehind, IInv, Active
  <2>6. SkipConfirmsNothing' /\ PartialIsSaid' /\ NoChangesMeansNone'
    BY <1>1, <2>1 DEF SkipConfirmsNothing, PartialIsSaid, NoChangesMeansNone, IInv
  <2> QED
    BY <2>2, <2>4, <2>5, <2>6 DEF IInv
<1>5. CASE ExcludeSection
  <2>1. cur \in Sections
    BY <1>3, <1>5 DEF ExcludeSection
  <2>2. HonestRow(Row("excluded", "quiet")) /\ Settle(Row("excluded", "quiet"))
    BY <1>1, <1>5, <2>1, RowsAreHonest DEF ExcludeSection
  <2> QED
    BY <1>1, <1>2, <2>1, <2>2, SettleKeepsIInv
<1>6. CASE PlanSection
  <2>1. cur \in Sections
    BY <1>3, <1>6 DEF PlanSection
  <2>2. CASE ~Executes
    BY <1>1, <1>2, <1>6, <2>1, <2>2, SettleKeepsIInv, RowsAreHonest DEF PlanSection
  <2>3. CASE Executes
    <3>1. /\ opts.mode = "apply" /\ cur \in Active(opts) /\ pc' = "exec" /\ cur' = cur /\ rows' = rows
          /\ todo' = OpsOf(cur) /\ differed' = differed \cup DriftIn(cur)
          /\ op' = NoItem /\ landed' = 0 /\ ~changes'
      BY <1>1, <1>6, <2>3 DEF PlanSection, Executes, IInv, Working
    <3>2. \A i \in todo' : Planned(i)'
      BY <1>1, <3>1 DEF OpsOf, DriftIn, ItemsOf, Planned
    <3>3. rows[cur] = NoRow
      BY <1>1, <2>1, SectionNumbers DEF IInv, RowsBehind
    <3>4. Working'
      BY <1>1, <3>1, <3>2, <3>3 DEF Working, Active
    <3>5. (wrote \cup noted) \cap ItemsOf(cur) = {}
      <4>1. \A i \in (wrote \cup noted) \cap ItemsOf(cur) : SectionOf[i] = cur /\ SectionOf[i] < cur
        BY <1>1 DEF ItemsOf, IInv, EffectsBehind
      <4> QED
        BY <4>1, <2>1, SectionNumbers
    <3>6. Counted'
      BY <1>1, <3>1, <3>5 DEF Counted, ItemsOf, IInv, EffectsBehind
    <3>7. GatesQuiet' /\ SecretsReady'
      BY <1>1, <3>1 DEF GatesQuiet, IInv, SecretsReady, References, Active
    <3>8. RowsBehind'
      BY <1>1, <3>1 DEF RowsBehind, IInv
    <3>9. EffectsBehind'
      <4>1. ASSUME NEW i \in wrote \cup noted
            PROVE opts.mode = "apply" /\ SectionOf[i] \in Active(opts) /\ SectionOf[i] <= cur
        <5>1. i \in Items
          BY <4>1 DEF TypeOK
        <5>2. opts.mode = "apply" /\ SectionOf[i] \in Active(opts) /\ SectionOf[i] < cur
          BY <1>1 DEF IInv, EffectsBehind
        <5> QED
          BY <5>1, <5>2, <2>1, SectionNumbers
      <4> QED
        BY <4>1, <1>1, <3>1 DEF EffectsBehind, IInv, Active
    <3>10. SkipConfirmsNothing' /\ PartialIsSaid' /\ NoChangesMeansNone'
      BY <1>1, <3>1 DEF SkipConfirmsNothing, PartialIsSaid, NoChangesMeansNone, IInv
    <3> QED
      BY <3>4, <3>6, <3>7, <3>8, <3>9, <3>10 DEF IInv
  <2> QED
    BY <2>2, <2>3
<1>7. CASE PlanDenied
  <2>1. cur \in Sections
    BY <1>3, <1>7 DEF PlanDenied
  <2>2. HonestRow(DeniedRow(cur, 0)) /\ Settle(DeniedRow(cur, 0))
    BY <1>1, <1>7, <2>1, RowsAreHonest DEF PlanDenied
  <2> QED
    BY <1>1, <1>2, <2>1, <2>2, SettleKeepsIInv
<1>8. CASE PlanFails
  <2>1. cur \in Sections
    BY <1>3, <1>8 DEF PlanFails
  <2>2. HonestRow(FailedRow(0)) /\ Settle(FailedRow(0))
    BY <1>1, <1>8, <2>1, RowsAreHonest DEF PlanFails
  <2> QED
    BY <1>1, <1>2, <2>1, <2>2, SettleKeepsIInv
<1>9. CASE ConcludeRun
  <2>1. /\ cur' = cur /\ pc' = "done" /\ rows' = rows /\ todo' = {} /\ op' = NoItem
        /\ landed' = 0 /\ ~changes' /\ ~notes'
    BY <1>1, <1>9 DEF ConcludeRun, executing, IInv, Working
  <2>2. GatesQuiet' /\ Working' /\ Counted' /\ SecretsReady' /\ RowsBehind'
    BY <1>1, <2>1 DEF GatesQuiet, Working, Counted, RowsBehind, IInv, SecretsReady, References, Active
  <2>3. EffectsBehind'
    BY <1>1, <2>1 DEF EffectsBehind, IInv, Active
  <2>4. SkipConfirmsNothing' /\ PartialIsSaid' /\ NoChangesMeansNone'
    BY <1>1, <2>1 DEF SkipConfirmsNothing, PartialIsSaid, NoChangesMeansNone, IInv
  <2> QED
    BY <2>2, <2>3, <2>4 DEF IInv
<1> QED
  BY <1>4, <1>5, <1>6, <1>7, <1>8, <1>9 DEF Loop

(* A step inside a plan: the operation in flight stays in flight or is over, and
   only its own item is written, lost or noted.                            *)
InsidePlan ==
  /\ pc = "exec" /\ UNCHANGED <<opts, masked, pc, cur, rows, differed, todo>>
  /\ op \in Items /\ op' \in {op, NoItem}
  /\ wrote \subseteq wrote' /\ wrote' \subseteq wrote \cup {op}
  /\ lost' \subseteq wrote'
  /\ \A i \in Items : i # op => (i \in lost <=> i \in lost')
  /\ noted' \subseteq noted \cup {op}

(* Such a step keeps the invariant when it keeps the section's accounts. *)
LEMMA InsidePlanKeepsIInv ==
  ASSUME TypeOK, IInv, InsidePlan, Counted'
  PROVE  IInv'
<1>1. /\ pc = "exec" /\ pc' = pc /\ opts' = opts /\ masked' = masked /\ cur' = cur /\ rows' = rows
      /\ differed' = differed /\ todo' = todo /\ op \in Items /\ op' \in {op, NoItem}
  BY DEF InsidePlan
<1>2. /\ op # NoItem /\ Planned(op) /\ SectionOf[op] = cur /\ cur \in Sections /\ cur \in Int
      /\ opts.mode = "apply" /\ cur \in Active(opts) /\ rows[cur] = NoRow
  BY <1>1, ItemsAssumption, SectionNumbers DEF TypeOK, IInv, Working, Planned
<1>3. GatesQuiet'
  BY <1>1 DEF GatesQuiet
<1>4. Working'
  <2>1. \A i \in todo : Planned(i)'
    BY <1>1 DEF IInv, Working, Planned
  <2>2. op' # NoItem => Planned(op)'
    BY <1>1, <1>2 DEF Planned
  <2> QED
    BY <1>1, <1>2, <2>1, <2>2 DEF Working, Active, Planned
<1>5. RowsBehind'
  BY <1>1 DEF RowsBehind, IInv
<1>6. EffectsBehind'
  <2>1. \A i \in wrote' \cup noted' : i \in wrote \cup noted \/ i = op
    BY DEF InsidePlan
  <2>2. \A i \in wrote \cup noted :
          opts.mode = "apply" /\ SectionOf[i] \in Active(opts) /\ SectionOf[i] <= cur
    BY <1>1 DEF IInv, EffectsBehind
  <2>3. cur <= cur
    BY <1>2
  <2>4. lost' \subseteq wrote'
    BY DEF InsidePlan
  <2> QED
    BY <1>1, <1>2, <2>1, <2>2, <2>3, <2>4 DEF EffectsBehind, Active
<1>7. SecretsReady'
  BY <1>1, <1>2 DEF SecretsReady, IInv, References, Active
<1>8. ASSUME NEW s \in Sections, s # cur
      PROVE  /\ wrote' \cap ItemsOf(s) = wrote \cap ItemsOf(s)
             /\ wrote \cap ItemsOf(s) \subseteq lost => wrote' \cap ItemsOf(s) \subseteq lost'
  <2>1. \A i \in ItemsOf(s) : i \in Items /\ i # op
    BY <1>2, <1>8 DEF ItemsOf
  <2> QED
    BY <2>1 DEF InsidePlan
<1>9. SkipConfirmsNothing' /\ PartialIsSaid' /\ NoChangesMeansNone'
  <2>1. rows[cur].status # "skipped" /\ rows[cur] # FailedRow(0) /\ rows[cur].detail # "no changes needed"
    BY <1>2 DEF NoRow, FailedRow, Row
  <2>2. \A s \in Sections : ItemsOf(s)' = ItemsOf(s)
    BY DEF ItemsOf
  <2>3. SkipConfirmsNothing'
    BY <1>1, <1>8, <2>1, <2>2 DEF SkipConfirmsNothing, IInv
  <2>4. PartialIsSaid'
    BY <1>1, <1>8, <2>1, <2>2 DEF PartialIsSaid, IInv, FailedRow
  <2>5. NoChangesMeansNone'
    BY <1>1, <1>8, <2>1, <2>2 DEF NoChangesMeansNone, IInv
  <2> QED
    BY <2>3, <2>4, <2>5
<1> QED
  BY <1>3, <1>4, <1>5, <1>6, <1>7, <1>9 DEF IInv

(* executePlan() keeps the invariant. *)
LEMMA ExecKeepsIInv ==
  ASSUME TypeOK, IInv, Exec
  PROVE  IInv'
<1>1. pc = "exec" /\ cur \in Sections /\ opts' = opts /\ masked' = masked /\ differed' = differed
  BY DEF TypeOK, Exec, BeginOp, OpLands, OpUnverified, AnswerLost, OpDenied, OpTolerated, OpConflicts, OpFails,
     FinishSection, InFlight, history
<1>2. InFlight => op \in Items /\ op # NoItem /\ SectionOf[op] = cur
  BY DEF InFlight, TypeOK, IInv, Working, Planned
<1>3. NoItem \notin Items /\ ItemsOf(cur) \subseteq Items
  BY ItemsAssumption DEF ItemsOf
<1>4. CASE BeginOp
  <2>1. PICK i \in todo : op' = i /\ todo' = todo \ {i}
    BY <1>4 DEF BeginOp
  <2>2. /\ op = NoItem /\ UNCHANGED <<pc, cur, landed, changes, notes, rows, wrote, lost, noted>>
    BY <1>4 DEF BeginOp, history
  <2>3. Planned(i) /\ \A j \in todo : Planned(j)
    BY DEF IInv, Working
  <2>4. Working'
    BY <1>1, <2>1, <2>2, <2>3 DEF IInv, Working, Planned, Active
  <2>5. Counted'
    BY <1>3, <2>2 DEF Counted, IInv, ItemsOf
  <2>6. GatesQuiet' /\ RowsBehind' /\ EffectsBehind' /\ SecretsReady'
    BY <1>1, <2>2 DEF IInv, GatesQuiet, RowsBehind, EffectsBehind, SecretsReady, References, Active
  <2>7. SkipConfirmsNothing' /\ PartialIsSaid' /\ NoChangesMeansNone'
    BY <1>1, <2>2 DEF SkipConfirmsNothing, PartialIsSaid, NoChangesMeansNone, IInv
  <2> QED
    BY <2>4, <2>5, <2>6, <2>7 DEF IInv
<1>5. CASE OpLands
  <2>1. InsidePlan
    BY <1>1, <1>2, <1>5 DEF InsidePlan, OpLands, EndOp, IInv, EffectsBehind
  <2>2. landed' > 0 /\ landed' # 0
    BY <1>5 DEF OpLands, CountLanded, TypeOK
  <2>3. Counted'
    BY <1>1, <1>2, <1>5, <2>2 DEF Counted, IInv, OpLands, EndOp, ItemsOf
  <2> QED
    BY <2>1, <2>3, InsidePlanKeepsIInv
<1>6. CASE OpTolerated
  <2>1. InsidePlan
    BY <1>1, <1>2, <1>6 DEF InsidePlan, OpTolerated, EndOp, IInv, EffectsBehind
  <2>2. Counted'
    BY <1>1, <1>2, <1>6 DEF Counted, IInv, OpTolerated, EndOp, ItemsOf
  <2> QED
    BY <2>1, <2>2, InsidePlanKeepsIInv
<1>7. CASE AnswerLost /\ tries < MaxRetries
  <2>1. InsidePlan
    BY <1>1, <1>2, <1>7 DEF InsidePlan, AnswerLost, IInv, EffectsBehind
  <2>2. Counted'
    BY <1>1, <1>2, <1>7 DEF Counted, IInv, AnswerLost, ItemsOf
  <2> QED
    BY <2>1, <2>2, InsidePlanKeepsIInv
<1>8. CASE AnswerLost /\ ~(tries < MaxRetries)
  <2>1. Settle(FailedRow(landed))
    BY <1>8 DEF AnswerLost
  <2>2. LastEffects
    BY <1>2, <1>8 DEF LastEffects, AnswerLost, InFlight, IInv, EffectsBehind
  <2>3. wrote \cap ItemsOf(cur) \subseteq lost => wrote' \cap ItemsOf(cur) \subseteq lost'
    BY <1>8 DEF AnswerLost
  <2>4. HonestRow(FailedRow(landed))
    <3>1. CASE landed = 0
      BY <1>1, <2>3, <3>1 DEF HonestRow, FailedRow, Row, NoRow, IInv, Counted
    <3>2. CASE landed > 0
      <4>1. FailedRow(landed).status = "failed" /\ FailedRow(landed).detail = "partially applied"
        BY <3>2 DEF FailedRow, Row
      <4>2. FailedRow(0).detail = "quiet" /\ NoRow.status = "none"
        BY DEF FailedRow, Row, NoRow
      <4> QED
        BY <4>1, <4>2 DEF HonestRow
    <3> QED
      BY <3>1, <3>2 DEF TypeOK
  <2> QED
    BY <1>1, <2>1, <2>2, <2>4, SettleKeepsIInv
<1>9. CASE OpUnverified
  <2>1. Settle(FailedRow(CountLanded)) /\ CountLanded > 0
    BY <1>9 DEF OpUnverified, CountLanded, TypeOK
  <2>2. LastEffects
    BY <1>2, <1>9 DEF LastEffects, OpUnverified, InFlight, IInv, EffectsBehind
  <2>3. HonestRow(FailedRow(CountLanded))
    <3>1. FailedRow(CountLanded).status = "failed" /\ FailedRow(CountLanded).detail = "partially applied"
      BY <2>1 DEF FailedRow, Row
    <3>2. FailedRow(0).detail = "quiet" /\ NoRow.status = "none"
      BY DEF FailedRow, Row, NoRow
    <3> QED
      BY <3>1, <3>2 DEF HonestRow
  <2> QED
    BY <1>1, <2>1, <2>2, <2>3, SettleKeepsIInv
<1>10. CASE OpDenied \/ OpConflicts \/ OpFails \/ FinishSection
  <2>1. wrote' = wrote /\ lost' = lost /\ noted' = noted
    BY <1>10 DEF OpDenied, OpConflicts, OpFails, FinishSection, effects, history
  <2>2. LastEffects
    BY <1>1, <2>1 DEF LastEffects, IInv, EffectsBehind
  <2>3. PICK row \in {FailedRow(landed), DeniedRow(cur, landed), AppliedRow} :
          Settle(row) /\ (row = AppliedRow => op = NoItem \/ row \in {FailedRow(landed), DeniedRow(cur, landed)})
    BY <1>10 DEF OpDenied, OpConflicts, OpFails, FinishSection
  <2>4. HonestRow(row)
    BY <1>1, <2>1, <2>3, RowsAreHonest
  <2> QED
    BY <1>1, <2>2, <2>3, <2>4, SettleKeepsIInv
<1> QED
  BY <1>4, <1>5, <1>6, <1>7, <1>8, <1>9, <1>10 DEF Exec

(* A new run starts with nothing of the earlier one. *)
LEMMA StartKeepsIInv ==
  ASSUME TypeOK, IInv, StartRun
  PROVE  IInv'
<1>1. /\ pc = "done" /\ wrote' = {} /\ lost' = {} /\ noted' = {} /\ op' = NoItem /\ todo' = {}
      /\ landed' = 0 /\ ~changes' /\ ~notes' /\ cur' = 1 /\ \A s \in Sections : rows'[s] = NoRow
  BY DEF StartRun, IInv, Working
<1>2. /\ pc' \in {"preflight", "resolve"} => opts'.mode = "apply"
      /\ pc' = "loop" => opts'.mode # "apply"
      /\ pc' \in {"preflight", "resolve", "loop"}
  <2>1. PICK o \in Options : opts' = o /\ pc' = FirstPhase(o)
    BY DEF StartRun
  <2>2. o.mode \in {"check", "apply"}
    BY <2>1, OptionsAssumption DEF OptionSpace
  <2> QED
    BY <2>1, <2>2 DEF FirstPhase
<1>3. GatesQuiet' /\ Working' /\ RowsBehind' /\ EffectsBehind' /\ Counted'
  BY <1>1, <1>2 DEF GatesQuiet, Working, RowsBehind, EffectsBehind, Counted
<1>4. SecretsReady'
  BY <1>1, <1>2 DEF SecretsReady
<1>5. SkipConfirmsNothing' /\ PartialIsSaid' /\ NoChangesMeansNone'
  BY <1>1 DEF SkipConfirmsNothing, PartialIsSaid, NoChangesMeansNone, NoRow, Row
<1> QED
  BY <1>3, <1>4, <1>5 DEF IInv

(* What the others do is invisible to the invariant: it speaks of the run's own
   state and effects only.                                                 *)
LEMMA OthersKeepIInv ==
  ASSUME IInv, EditLive \/ EditGrant \/ UNCHANGED vars
  PROVE  IInv'
<1>1. UNCHANGED <<program, wrote, lost, differed, noted>>
  BY DEF EditLive, EditGrant, vars, history, effects
<1>2. UNCHANGED <<opts, pc, cur, masked, todo, op, landed, changes, notes, rows>>
  BY <1>1 DEF program
<1>3. GatesQuiet' /\ Working' /\ RowsBehind' /\ EffectsBehind' /\ Counted'
  BY <1>1, <1>2 DEF IInv, GatesQuiet, Working, Planned, RowsBehind, EffectsBehind, Counted, Active, ItemsOf
<1>4. SecretsReady' /\ SkipConfirmsNothing' /\ PartialIsSaid' /\ NoChangesMeansNone'
  BY <1>1, <1>2 DEF IInv, SecretsReady, References, Active, SkipConfirmsNothing, PartialIsSaid,
     NoChangesMeansNone, ItemsOf, FailedRow
<1> QED
  BY <1>3, <1>4 DEF IInv

(* The invariant holds in every reachable state. *)
THEOREM Invariant == Spec => []IInv
<1>1. Init => IInv
  <2> SUFFICES ASSUME Init PROVE IInv
    OBVIOUS
  <2>1. GatesQuiet /\ Working /\ RowsBehind /\ EffectsBehind /\ SecretsReady /\ Counted
    BY DEF Init, GatesQuiet, Working, RowsBehind, EffectsBehind, SecretsReady, Counted
  <2>2. SkipConfirmsNothing /\ PartialIsSaid /\ NoChangesMeansNone
    BY DEF Init, SkipConfirmsNothing, PartialIsSaid, NoChangesMeansNone, NoRow, Row
  <2> QED
    BY <2>1, <2>2 DEF IInv
<1>2. TypeOK /\ IInv /\ [Next]_vars => IInv'
  BY GatesKeepIInv, LoopKeepsIInv, ExecKeepsIInv, StartKeepsIInv, OthersKeepIInv DEF Next, Step
<1> QED
  BY <1>1, <1>2, TypeCorrect, PTL DEF Spec

-----------------------------------------------------------------------------
(* What follows from it. *)

(* No request is in flight, and none has landed, before every reference of every
   active section is resolved and masked.                                  *)
THEOREM SecretsAreMaskedFirst == Spec => []SecretsMaskedFirst
<1>1. IInv => SecretsMaskedFirst
  BY DEF IInv, Working, SecretsReady, SecretsMaskedFirst
<1> QED
  BY <1>1, Invariant, PTL

(* The rows tell the truth: a skip covers no confirmed write, a failed row with
   one says so, and "no changes needed" is only said where nothing was written. *)
THEOREM RowsAreTrue == Spec => []RowsTellTheTruth
<1>1. IInv => RowsTellTheTruth
  BY DEF IInv, RowsTellTheTruth
<1> QED
  BY <1>1, Invariant, PTL

(* Every write is of the section under execution and was planned. *)
THEOREM WritesAreDisciplined == Spec => WriteDiscipline
<1>1. TypeOK /\ IInv /\ [Next]_vars =>
        [\A i \in wrote' \ wrote :
           /\ pc = "exec" /\ SectionOf[i] = cur /\ rows[cur] = NoRow
           /\ i \in differed \/ (KindOf[i] = "resend" /\ cur \in opts.secrets)]_vars
  <2> SUFFICES ASSUME TypeOK, IInv, [Next]_vars, NEW i \in wrote' \ wrote
               PROVE  /\ pc = "exec" /\ SectionOf[i] = cur /\ rows[cur] = NoRow
                      /\ i \in differed \/ (KindOf[i] = "resend" /\ cur \in opts.secrets)
    OBVIOUS
  <2>1. ~(UNCHANGED wrote) /\ wrote' # {}
    OBVIOUS
  <2>2. OpLands \/ OpUnverified \/ AnswerLost
    BY <2>1 DEF Next, Step, Gates, Loop, Exec, StartRun, ProbeSection, ProbeFails, ConcludePreflight,
       ResolveSecrets, SkipUndeclared, ExcludeSection, PlanSection, PlanDenied, PlanFails, ConcludeRun,
       BeginOp, OpDenied, OpTolerated, OpConflicts, OpFails, FinishSection, EditLive, EditGrant,
       vars, history, effects
  <2>3. pc = "exec" /\ op # NoItem /\ i = op
    BY <2>2 DEF OpLands, OpUnverified, AnswerLost, InFlight
  <2> QED
    BY <2>3 DEF IInv, Working, Planned
<1> QED
  BY <1>1, TypeCorrect, Invariant, PTL DEF Spec, WriteDiscipline

-----------------------------------------------------------------------------
(* The preflight barrier. *)

(* Past the gates nothing the barrier looked at changes. *)
LEMMA PastTheBarrier ==
  ASSUME ResolveSecrets \/ Loop \/ Exec
  PROVE  /\ pc \in {"resolve", "loop", "exec"} /\ pc' \in {"loop", "exec", "done"}
         /\ UNCHANGED <<opts, grant, denied, blind, moved>>
<1>1. CASE ResolveSecrets
  BY <1>1 DEF ResolveSecrets, history
<1>2. CASE Loop
  BY <1>2 DEF Loop, SkipUndeclared, ExcludeSection, PlanSection, PlanDenied, PlanFails, ConcludeRun,
     AtSection, Settle, history
<1>3. CASE Exec
  BY <1>3 DEF Exec, BeginOp, OpLands, OpUnverified, AnswerLost, OpDenied, OpTolerated, OpConflicts, OpFails,
     FinishSection, InFlight, EndOp, Settle, effects, history
<1> QED
  BY <1>1, <1>2, <1>3

LEMMA BarrierKept ==
  ASSUME TypeOK, IInv, BarrierSaw, [Next]_vars
  PROVE  BarrierSaw'
<1>1. CASE StartRun
  <2>1. /\ pc' \in {"preflight", "resolve", "loop"} /\ wrote' = {} /\ cur' = 1 /\ blind' = {}
        /\ pc' \in {"resolve", "loop"} => opts'.mode # "apply" \/ opts'.policy # "fail"
    BY <1>1 DEF StartRun, FirstPhase
  <2>2. \A s \in Active(opts)' : ~(s < 1)
    <3>1. opts' \in OptionSpace
      BY <1>1, OptionsAssumption DEF StartRun
    <3> QED
      BY <3>1, NAssumption DEF Active, OptionSpace, Sections
  <2> QED
    BY <2>1, <2>2 DEF BarrierSaw
<1>2. CASE ProbeSection
  <2>1. \A s \in Active(opts) : s \in Int /\ cur \in Int
    BY NAssumption DEF TypeOK, OptionSpace, Active, Sections
  <2>2. /\ pc = "preflight" /\ cur' = cur + 1 /\ UNCHANGED <<opts, grant, pc, blind, moved>>
        /\ denied \subseteq denied' /\ (cur \in Active(opts) /\ grant[cur] = "none" => cur \in denied')
    BY <1>2 DEF ProbeSection, history
  <2> QED
    BY <2>1, <2>2 DEF BarrierSaw, Active
<1>3. CASE ProbeFails
  <2>1. \A s \in Active(opts) : s \in Int /\ cur \in Int
    BY NAssumption DEF TypeOK, OptionSpace, Active, Sections
  <2>2. /\ pc = "preflight" /\ cur' = cur + 1 /\ UNCHANGED <<opts, grant, pc, denied, moved>>
        /\ blind' = blind \cup {cur}
    BY <1>3 DEF ProbeFails
  <2> QED
    BY <2>1, <2>2 DEF BarrierSaw, Active
<1>4. CASE ConcludePreflight
  <2>1. /\ pc = "preflight" /\ cur = N + 1 /\ UNCHANGED <<opts, grant, denied, blind, moved, wrote>>
        /\ \/ pc' = "resolve" /\ denied = {}
           \/ pc' = "done" /\ result' = "failed"
    BY <1>4 DEF ConcludePreflight, BarrierOpen, history
  <2>2. \A s \in Active(opts) : s < N + 1
    BY NAssumption DEF TypeOK, OptionSpace, Active, Sections
  <2>3. wrote' = {}
    BY <2>1 DEF IInv, GatesQuiet
  <2> QED
    BY <2>1, <2>2, <2>3 DEF BarrierSaw, NoneDenied, Active
<1>5. CASE ResolveSecrets \/ Loop \/ Exec
  BY <1>5, PastTheBarrier DEF BarrierSaw, NoneDenied, Active
<1>6. CASE EditLive \/ UNCHANGED vars
  BY <1>6 DEF EditLive, vars, program, history, BarrierSaw, NoneDenied, Active
<1>7. CASE EditGrant
  BY <1>7 DEF EditGrant, BarrierSaw
<1> QED
  BY <1>1, <1>2, <1>3, <1>4, <1>5, <1>6, <1>7 DEF Next, Step, Gates

(* A strict apply run that could see a section its token cannot read wrote
   nothing, and fails.                                                     *)
THEOREM BarrierHolds == Spec => []PreflightBarrier
<1>1. Init => BarrierSaw
  BY DEF Init, BarrierSaw
<1>2. TypeOK /\ IInv /\ BarrierSaw => PreflightBarrier
  BY DEF TypeOK, IInv, GatesQuiet, BarrierSaw, NoneDenied, PreflightBarrier, Ended
<1> QED
  BY <1>1, <1>2, BarrierKept, TypeCorrect, Invariant, PTL DEF Spec

-----------------------------------------------------------------------------
(* The verdict. *)

(* Pushing the current section's row adds a row of the right kind. *)
LEMMA SettleKeepsRows ==
  ASSUME TypeOK, RowsSoFar, NEW row, Settle(row), opts' = opts, cur \in Sections, pc \in {"loop", "exec"},
         cur \in opts.declared,
         cur \notin Active(opts) => row.status = "excluded",
         cur \in Active(opts) => row.status \in RowWords(opts)
  PROVE  RowsSoFar'
<1>1. /\ rows' = [rows EXCEPT ![cur] = row] /\ cur' = cur + 1 /\ cur \in Int
  BY SectionNumbers DEF Settle
<1>2. ASSUME NEW s \in Sections, s < cur + 1
      PROVE  RowOfSection(s)'
  <2>1. CASE s = cur
    BY <1>1, <2>1 DEF RowOfSection, TypeOK, Active, RowWords
  <2>2. CASE s # cur
    <3>1. s < cur
      <4>1. s \in Int /\ cur \in Int
        BY SectionNumbers
      <4> QED
        BY <4>1, <1>2, <2>2
    <3>2. RowOfSection(s) /\ rows'[s] = rows[s]
      BY <1>1, <2>2, <3>1 DEF RowsSoFar, TypeOK
    <3> QED
      BY <3>2 DEF RowOfSection, Active, RowWords
  <2> QED
    BY <2>1, <2>2
<1> QED
  BY <1>1, <1>2 DEF RowsSoFar

(* The words the code's rows are in. *)
LEMMA RowsInWords ==
  ASSUME TypeOK
  PROVE  /\ \A n : FailedRow(n).status \in RowWords(opts)
         /\ \A s, n : DeniedRow(s, n).status \in RowWords(opts)
         /\ opts.mode # "check" => AppliedRow.status \in RowWords(opts)
         /\ opts.mode = "check" => \A s : CheckedRow(s).status \in RowWords(opts)
  BY DEF FailedRow, DeniedRow, AppliedRow, CheckedRow, Row, RowWords

LEMMA RowsKept ==
  ASSUME TypeOK, IInv, RowsSoFar, [Next]_vars
  PROVE  RowsSoFar'
<1> USE SectionNumbers
<1>1. CASE StartRun
  <2>1. cur' = 1 /\ \A s \in Sections : ~(s < 1)
    BY <1>1, NAssumption DEF StartRun, Sections
  <2> QED
    BY <2>1 DEF RowsSoFar
<1>2. CASE Gates
  <2>1. pc' \in {"loop", "exec"} => pc' = "loop" /\ cur' = 1
    BY <1>2 DEF Gates, ProbeSection, ProbeFails, ConcludePreflight, ResolveSecrets, IInv, GatesQuiet
  <2>2. \A s \in Sections : ~(s < 1)
    BY NAssumption DEF Sections
  <2> QED
    BY <2>1, <2>2 DEF RowsSoFar
<1>3. AtSection => cur \in Sections /\ cur \in Int /\ pc = "loop"
  BY NAssumption DEF TypeOK, AtSection, Sections
<1>4. CASE SkipUndeclared
  <2>1. AtSection /\ cur \notin opts.declared /\ cur' = cur + 1 /\ UNCHANGED <<opts, pc, rows>>
    BY <1>4 DEF SkipUndeclared
  <2>2. rows[cur] = NoRow
    BY <1>3, <2>1 DEF IInv, RowsBehind
  <2>3. cur \notin Active(opts)
    BY <2>1 DEF Active
  <2>4. ASSUME NEW s \in Sections, s < cur + 1 PROVE RowOfSection(s)'
    BY <1>3, <2>1, <2>2, <2>3, <2>4 DEF RowsSoFar, RowOfSection, Active, RowWords
  <2> QED
    BY <2>1, <2>4 DEF RowsSoFar
<1>5. CASE ExcludeSection
  <2>1. /\ AtSection /\ cur \in opts.declared \ Active(opts) /\ opts' = opts
        /\ Settle(Row("excluded", "quiet"))
    BY <1>5 DEF ExcludeSection
  <2> QED
    BY <1>3, <2>1, SettleKeepsRows DEF Row
<1>6. CASE PlanSection
  <2>1. AtSection /\ cur \in Active(opts) /\ opts' = opts
    BY <1>6 DEF PlanSection
  <2>2. CASE Executes
    BY <1>3, <1>6, <2>1, <2>2 DEF PlanSection, RowsSoFar, RowOfSection, Active, RowWords
  <2>3. CASE ~Executes
    <3>1. Settle(CheckedRow(cur)) /\ opts.mode = "check"
      BY <1>6, <2>3 DEF PlanSection, Executes, TypeOK, OptionSpace
    <3> QED
      BY <1>3, <2>1, <3>1, RowsInWords, SettleKeepsRows DEF Active
  <2> QED
    BY <2>2, <2>3
<1>7. CASE PlanDenied \/ PlanFails
  <2>1. PICK row \in {DeniedRow(cur, 0), FailedRow(0)} : Settle(row)
    BY <1>7 DEF PlanDenied, PlanFails
  <2>2. AtSection /\ cur \in Active(opts) /\ opts' = opts
    BY <1>7 DEF PlanDenied, PlanFails
  <2>3. row.status \in RowWords(opts)
    BY RowsInWords
  <2> QED
    BY <1>3, <2>1, <2>2, <2>3, SettleKeepsRows DEF Active
<1>8. CASE ConcludeRun
  BY <1>8 DEF ConcludeRun, RowsSoFar
<1>9. CASE Exec
  <2>1. pc = "exec" /\ cur \in Sections /\ opts' = opts
    BY <1>9 DEF TypeOK, Exec, BeginOp, OpLands, OpUnverified, AnswerLost, OpDenied, OpTolerated, OpConflicts,
       OpFails, FinishSection, InFlight
  <2>2. cur \in Active(opts) /\ opts.mode = "apply" /\ cur \in opts.declared
    BY <2>1 DEF IInv, Working, Active
  <2>3. \/ UNCHANGED <<pc, cur, rows>>
        \/ \E row \in {FailedRow(landed), FailedRow(CountLanded), DeniedRow(cur, landed), AppliedRow} : Settle(row)
    BY <1>9 DEF Exec, BeginOp, OpLands, OpUnverified, AnswerLost, OpDenied, OpTolerated, OpConflicts,
       OpFails, FinishSection, EndOp
  <2>4. CASE UNCHANGED <<pc, cur, rows>>
    BY <2>1, <2>4 DEF RowsSoFar, RowOfSection, Active, RowWords
  <2>5. ASSUME NEW row \in {FailedRow(landed), FailedRow(CountLanded), DeniedRow(cur, landed), AppliedRow}, Settle(row)
        PROVE  RowsSoFar'
    <3>1. row.status \in RowWords(opts)
      BY <2>2, RowsInWords
    <3> QED
      BY <2>1, <2>2, <2>5, <3>1, SettleKeepsRows
  <2> QED
    BY <2>3, <2>4, <2>5
<1>10. CASE EditLive \/ EditGrant \/ UNCHANGED vars
  <2>1. UNCHANGED <<opts, pc, cur, rows>>
    BY <1>10 DEF EditLive, EditGrant, vars, program
  <2> QED
    BY <2>1 DEF RowsSoFar, RowOfSection, Active, RowWords
<1> QED
  BY <1>1, <1>2, <1>4, <1>5, <1>6, <1>7, <1>8, <1>9, <1>10 DEF Next, Step, Loop

(* The row a section is left with decides nothing that is not so: a run that
   passed its gates has a row for each declared section, and its word is that of
   the worst of them.                                                      *)
LEMMA ConcludedVerdict ==
  ASSUME TypeOK, RowsSoFar, ConcludeRun
  PROVE  VerdictCoversRows'
<1>1. /\ cur = N + 1 /\ pc = "loop" /\ result' = RepoResult /\ UNCHANGED <<opts, rows, denied>>
  BY DEF ConcludeRun
<1>2. \A s \in Sections : RowOfSection(s)
  <2>1. \A s \in Sections : s < N + 1
    BY NAssumption DEF Sections
  <2> QED
    BY <1>1, <2>1 DEF RowsSoFar
<1>3. opts.mode \in {"check", "apply"}
  BY DEF TypeOK, OptionSpace
<1>4. \A s \in Sections : rows[s] = NoRow <=> s \notin opts.declared
  BY <1>2 DEF RowOfSection, RowWords, NoRow, Row
<1>5. result' = "failed" <=> \E s \in Sections : rows[s].status = "failed"
  BY <1>1 DEF RepoResult
<1>6. result' \in {"applied", "clean"} => \A s \in Active(opts) : rows[s].status = result'
  <2>1. ASSUME result' \in {"applied", "clean"}, NEW s \in Active(opts)
        PROVE  rows[s].status = result'
    <3>1. s \in Sections /\ rows[s].status \in RowWords(opts)
      BY <1>2 DEF TypeOK, OptionSpace, Active, RowOfSection
    <3>2. rows[s].status \notin {"failed", "skipped"}
      BY <1>1, <2>1, <3>1 DEF RepoResult
    <3>3. CASE opts.mode = "check"
      BY <1>1, <2>1, <3>1, <3>2, <3>3 DEF RepoResult, RowWords
    <3>4. CASE opts.mode = "apply"
      BY <1>1, <2>1, <3>1, <3>2, <3>4 DEF RepoResult, RowWords
    <3> QED
      BY <1>3, <3>3, <3>4
  <2> QED
    BY <2>1
<1> QED
  BY <1>1, <1>4, <1>5, <1>6 DEF VerdictCoversRows, Active

LEMMA VerdictKept ==
  ASSUME TypeOK, IInv, RowsSoFar, VerdictCoversRows, [Next]_vars
  PROVE  VerdictCoversRows'
<1>1. CASE StartRun
  BY <1>1 DEF StartRun, VerdictCoversRows, Ended
<1>2. CASE ProbeSection \/ ProbeFails
  BY <1>2 DEF ProbeSection, ProbeFails, VerdictCoversRows, Ended
<1>3. CASE ConcludePreflight
  BY <1>3 DEF ConcludePreflight, BarrierOpen, VerdictCoversRows, Ended
<1>4. CASE ResolveSecrets
  <2>1. pc' = "done" => Unresolved' # {} /\ opts'.mode = "apply"
    BY <1>4 DEF ResolveSecrets, Unresolved, References, Active, IInv, GatesQuiet
  <2> QED
    BY <2>1 DEF VerdictCoversRows, Ended
<1>5. CASE ConcludeRun
  BY <1>5, ConcludedVerdict
<1>6. CASE SkipUndeclared \/ ExcludeSection \/ PlanSection \/ PlanDenied \/ PlanFails
  <2>1. pc' # "done"
    BY <1>6 DEF SkipUndeclared, ExcludeSection, PlanSection, PlanDenied, PlanFails, AtSection, Settle
  <2> QED
    BY <2>1 DEF VerdictCoversRows, Ended
<1>7. CASE Exec
  <2>1. pc' # "done"
    BY <1>7 DEF Exec, BeginOp, OpLands, OpUnverified, AnswerLost, OpDenied, OpTolerated, OpConflicts, OpFails,
       FinishSection, InFlight, EndOp, Settle
  <2> QED
    BY <2>1 DEF VerdictCoversRows, Ended
<1>8. CASE EditLive \/ EditGrant \/ UNCHANGED vars
  <2>1. UNCHANGED <<opts, pc, rows, result, denied>>
    BY <1>8 DEF EditLive, EditGrant, vars, program
  <2> QED
    BY <2>1 DEF VerdictCoversRows, Ended, Unresolved, References, Active
<1> QED
  BY <1>1, <1>2, <1>3, <1>4, <1>5, <1>6, <1>7, <1>8 DEF Next, Step, Gates, Loop

(* The run's word covers its rows, and its rows cover the declaration. *)
THEOREM VerdictIsCovered == Spec => []VerdictCoversRows
<1>1. Init => RowsSoFar /\ VerdictCoversRows
  BY DEF Init, RowsSoFar, VerdictCoversRows, Ended
<1> QED
  BY <1>1, RowsKept, VerdictKept, TypeCorrect, Invariant, PTL DEF Spec

-----------------------------------------------------------------------------
(* Green means reconciled. *)

(* A section has what a green row of it would claim. *)
GreenClaim(status, s) ==
  \A i \in ItemsOf(s) \ (stale \cup noted) :
    /\ status = "applied" /\ KindOf[i] # "report" /\ (KindOf[i] = "resend" => s \in opts.secrets) => i \in live
    /\ status = "clean" /\ KindOf[i] # "resend" => i \in live

(* Pushing a row that claims no more than is so. *)
LEMMA SettleKeepsGreen ==
  ASSUME TypeOK, GreenMeansReconciled, NEW row, Settle(row), cur \in Sections, opts' = opts,
         live \subseteq live', stale \ ItemsOf(cur) \subseteq stale', noted \subseteq noted',
         NEW pushed, pushed = cur, GreenClaim(row.status, pushed)'
  PROVE  GreenMeansReconciled' /\ WorkRemains'
<1>1. rows' = [rows EXCEPT ![cur] = row] /\ pc' = "loop"
  BY DEF Settle
<1>2. ASSUME NEW s \in Sections PROVE GreenClaim(rows[s].status, s)'
  <2>1. CASE s = cur
    <3>1. rows'[s] = row
      BY <1>1, <2>1 DEF TypeOK
    <3> QED
      BY <2>1, <3>1 DEF GreenClaim, ItemsOf
  <2>2. CASE s # cur
    <3>1. rows'[s] = rows[s]
      BY <1>1, <2>2 DEF TypeOK
    <3>2. \A i \in ItemsOf(s) : i \in stale => i \in stale'
      BY <2>2 DEF ItemsOf
    <3> QED
      BY <3>1, <3>2 DEF GreenMeansReconciled, GreenClaim, ItemsOf
  <2> QED
    BY <2>1, <2>2
<1>3. GreenMeansReconciled'
  BY <1>2 DEF GreenMeansReconciled, GreenClaim
<1> QED
  BY <1>1, <1>3 DEF WorkRemains

(* The statuses that claim nothing. *)
LEMMA ClaimsNothing ==
  ASSUME NEW row, row.status \notin {"applied", "clean"}, NEW s
  PROVE  GreenClaim(row.status, s)'
  BY DEF GreenClaim

LEMMA RedRows ==
  /\ \A n : FailedRow(n).status \notin {"applied", "clean"}
  /\ \A s, n : DeniedRow(s, n).status \notin {"applied", "clean"}
  /\ Row("excluded", "quiet").status \notin {"applied", "clean"}
  BY DEF FailedRow, DeniedRow, Row

(* A step that pushes no row, under which GitHub's state only gains. *)
LEMMA KeepsGreen ==
  ASSUME GreenMeansReconciled, UNCHANGED <<opts, rows>>, live \subseteq live',
         stale \subseteq stale', noted \subseteq noted'
  PROVE  GreenMeansReconciled'
  BY DEF GreenMeansReconciled, ItemsOf

LEMMA GreenKept ==
  ASSUME TypeOK, IInv, GreenMeansReconciled, WorkRemains, [Next]_vars
  PROVE  GreenMeansReconciled' /\ WorkRemains'
<1>1. CASE StartRun
  BY <1>1 DEF StartRun, FirstPhase, GreenMeansReconciled, WorkRemains, NoRow, Row
<1>2. CASE Gates
  <2>1. UNCHANGED <<opts, live, stale, noted>> /\ pc' # "exec"
    BY <1>2 DEF Gates, ProbeSection, ProbeFails, ConcludePreflight, ResolveSecrets, effects, history
  <2>2. \A s \in Sections : rows'[s] = rows[s] \/ rows'[s] \in {NoRow, Row("failed", "quiet")}
    BY <1>2 DEF Gates, ProbeSection, ProbeFails, ConcludePreflight, ResolveSecrets
  <2> QED
    BY <2>1, <2>2 DEF GreenMeansReconciled, WorkRemains, NoRow, Row, ItemsOf
<1>3. AtSection => cur \in Sections
  BY NAssumption DEF TypeOK, AtSection, Sections
<1>4. CASE SkipUndeclared
  BY <1>4, KeepsGreen DEF SkipUndeclared, AtSection, history, WorkRemains
<1>5. CASE ExcludeSection
  BY <1>3, <1>5, RedRows, ClaimsNothing, SettleKeepsGreen DEF ExcludeSection, history
<1>6. CASE PlanSection
  <2>1. /\ cur \in Sections /\ opts' = opts /\ live' = live /\ noted' = noted
        /\ stale' = stale \ ItemsOf(cur) /\ op = NoItem
    BY <1>3, <1>6 DEF PlanSection, effects, IInv, Working, AtSection
  <2>2. CASE ~Executes
    <3>1. PICK pushed, row : pushed = cur /\ row = CheckedRow(cur)
      OBVIOUS
    <3>2. Settle(row)
      BY <1>6, <2>2, <3>1 DEF PlanSection
    <3>3. \A i \in ItemsOf(cur) : row.status = "clean" /\ KindOf[i] # "resend" => i \in live
      BY <3>1 DEF CheckedRow, DriftIn, Row
    <3>4. row.status # "applied"
      BY <3>1 DEF CheckedRow, Row
    <3>5. GreenClaim(row.status, pushed)'
      BY <2>1, <3>1, <3>3, <3>4 DEF GreenClaim, ItemsOf
    <3> QED
      BY <2>1, <3>1, <3>2, <3>5, SettleKeepsGreen
  <2>3. CASE Executes
    <3>1. todo' = OpsOf(cur) /\ pc' = "exec" /\ cur' = cur /\ rows' = rows /\ op' = op
      BY <1>6, <2>3 DEF PlanSection
    <3>2. WorkRemains'
      BY <2>1, <3>1 DEF WorkRemains, OpsOf, DriftIn, ItemsOf
    <3>3. rows[cur] = NoRow
      BY <1>6, <2>1, SectionNumbers DEF PlanSection, AtSection, IInv, RowsBehind
    <3>4. GreenMeansReconciled'
      BY <2>1, <3>1, <3>3 DEF GreenMeansReconciled, ItemsOf, NoRow, Row
    <3> QED
      BY <3>2, <3>4
  <2> QED
    BY <2>2, <2>3
<1>7. CASE PlanDenied \/ PlanFails
  <2>1. PICK row \in {DeniedRow(cur, 0), FailedRow(0)} : Settle(row)
    BY <1>7 DEF PlanDenied, PlanFails
  <2>2. cur \in Sections /\ UNCHANGED <<opts, live, stale, noted>>
    BY <1>3, <1>7 DEF PlanDenied, PlanFails, effects, history
  <2> QED
    BY <2>1, <2>2, RedRows, ClaimsNothing, SettleKeepsGreen
<1>8. CASE ConcludeRun
  BY <1>8, KeepsGreen DEF ConcludeRun, history, WorkRemains
<1>9. ASSUME Exec
      PROVE  /\ pc = "exec" /\ cur \in Sections /\ opts' = opts /\ stale' = stale
             /\ live \subseteq live' /\ noted \subseteq noted'
  BY <1>9 DEF TypeOK, Exec, BeginOp, OpLands, OpUnverified, AnswerLost, OpDenied, OpTolerated, OpConflicts,
     OpFails, FinishSection, InFlight, effects, history
<1>10. ASSUME UNCHANGED <<pc, cur, rows>>, Exec,
              todo \cup {op} \subseteq todo' \cup {op'} \cup live' \cup noted'
       PROVE  GreenMeansReconciled' /\ WorkRemains'
  <2>1. GreenMeansReconciled'
    BY <1>9, <1>10, KeepsGreen
  <2>2. WorkRemains'
    BY <1>9, <1>10 DEF WorkRemains, ItemsOf
  <2> QED
    BY <2>1, <2>2
<1>11. CASE BeginOp
  <2>1. todo \cup {op} \subseteq todo' \cup {op'} \cup {NoItem}
    BY <1>11 DEF BeginOp
  <2>2. UNCHANGED <<pc, cur, rows, live, noted>>
    BY <1>11 DEF BeginOp, history
  <2>3. GreenMeansReconciled'
    BY <1>9, <1>11, <2>2, KeepsGreen DEF Exec
  <2>4. WorkRemains'
    BY <1>9, <1>11, <2>1, <2>2, ItemsAssumption DEF Exec, WorkRemains, ItemsOf
  <2> QED
    BY <2>3, <2>4
<1>12. CASE OpLands \/ OpTolerated
  BY <1>10, <1>12 DEF Exec, OpLands, OpTolerated, EndOp
<1>13. CASE AnswerLost /\ tries < MaxRetries
  BY <1>10, <1>13 DEF Exec, AnswerLost
<1>14. CASE (AnswerLost /\ ~(tries < MaxRetries)) \/ OpUnverified \/ OpDenied \/ OpConflicts \/ OpFails
  <2>1. PICK row \in {FailedRow(landed), FailedRow(CountLanded), DeniedRow(cur, landed)} : Settle(row)
    BY <1>14 DEF AnswerLost, OpUnverified, OpDenied, OpConflicts, OpFails
  <2> QED
    BY <1>9, <1>14, <2>1, RedRows, ClaimsNothing, SettleKeepsGreen DEF Exec
<1>15. CASE FinishSection
  <2>1. /\ pc = "exec" /\ op = NoItem /\ todo = {} /\ Settle(AppliedRow)
        /\ UNCHANGED <<opts, live, stale, noted>>
    BY <1>15 DEF FinishSection, history
  <2>2. PICK pushed, row : pushed = cur /\ row = AppliedRow
    OBVIOUS
  <2>3. row.status = "applied"
    BY <2>2 DEF AppliedRow, Row
  <2>4. GreenClaim(row.status, pushed)'
    BY <2>1, <2>2, <2>3, ItemsAssumption DEF GreenClaim, WorkRemains, ItemsOf
  <2>5. cur \in Sections /\ Settle(row)
    BY <1>9, <1>15, <2>1, <2>2 DEF Exec
  <2> QED
    BY <2>1, <2>2, <2>4, <2>5, SettleKeepsGreen
<1>16. CASE EditLive
  <2>1. PICK i \in Items : /\ live' = IF i \in live THEN live \ {i} ELSE live \cup {i}
                           /\ stale' = stale \cup {i}
    BY <1>16 DEF EditLive
  <2>2. UNCHANGED <<opts, pc, cur, rows, todo, op, noted>>
    BY <1>16 DEF EditLive, program
  <2> QED
    BY <2>1, <2>2 DEF GreenMeansReconciled, WorkRemains, ItemsOf
<1>17. CASE EditGrant \/ UNCHANGED vars
  <2>1. UNCHANGED <<opts, pc, cur, rows, todo, op, noted, live, stale>>
    BY <1>17 DEF EditGrant, vars, program, effects, history
  <2> QED
    BY <2>1 DEF GreenMeansReconciled, WorkRemains, ItemsOf
<1> QED
  BY <1>1, <1>2, <1>4, <1>5, <1>6, <1>7, <1>8, <1>11, <1>12, <1>13, <1>14, <1>15, <1>16, <1>17
     DEF Next, Step, Loop, Exec

(* A section reported applied or clean is as declared in everything a plan can
   mend, but for what outsiders touched since and what a note speaks of.   *)
THEOREM GreenIsReconciled == Spec => []GreenMeansReconciled
<1>1. Init => GreenMeansReconciled /\ WorkRemains
  BY DEF Init, GreenMeansReconciled, WorkRemains, NoRow, Row
<1> QED
  BY <1>1, GreenKept, TypeCorrect, Invariant, PTL DEF Spec

(* A skipped row needs the warn policy, so the word "partial" does. *)
LEMMA Words ==
  ASSUME TypeOK, IInv
  PROVE  RepoResult \in Contract!Verdicts(opts)
<1>1. opts.mode \in {"check", "apply"}
  BY DEF TypeOK, OptionSpace
<1>2. (\E s \in Sections : rows[s].status = "skipped") => opts.policy = "warn"
  BY DEF IInv, SkipConfirmsNothing
<1> QED
  BY <1>1, <1>2 DEF RepoResult, Contract!Verdicts

(* The run implements its contract: every step of the detailed run is a step of
   the abstract one, or changes nothing it can see.                        *)
THEOREM Implements == Spec => ImplementsContract
<1>1. Init => Contract!Init
  BY DEF Init, Contract!Init
<1>2. TypeOK /\ IInv /\ [Next]_vars => [Contract!Next]_Contract!vars
  <2> SUFFICES ASSUME TypeOK, IInv, [Next]_vars PROVE [Contract!Next]_Contract!vars
    OBVIOUS
  <2>1. CASE StartRun
    <3>1. pc' # "done"
      BY <2>1 DEF StartRun, FirstPhase
    <3> QED
      BY <2>1, <3>1 DEF StartRun, Contract!Next, Contract!Begin
  <2>2. CASE ConcludePreflight \/ ResolveSecrets \/ ConcludeRun
    <3>1. pc # "done" /\ UNCHANGED <<opts, live, wrote>>
      BY <2>2 DEF ConcludePreflight, ResolveSecrets, ConcludeRun, history
    <3>2. CASE pc' = "done"
      <4>1. result' = "failed" \/ result' = RepoResult
        BY <2>2, <3>2 DEF ConcludePreflight, ResolveSecrets, ConcludeRun
      <4>2. result' \in Contract!Verdicts(opts)
        BY <4>1, Words DEF Contract!Verdicts
      <4> QED
        BY <3>1, <3>2, <4>2 DEF Contract!Next, Contract!Conclude
    <3>3. CASE pc' # "done"
      BY <2>2, <3>1, <3>3 DEF ConcludePreflight, ResolveSecrets, ConcludeRun, Contract!vars
    <3> QED BY <3>2, <3>3
  <2>3. CASE OpLands \/ OpUnverified \/ AnswerLost
    <3>1. /\ pc = "exec" /\ pc' # "done" /\ op \in Items /\ SectionOf[op] = cur /\ cur \in Active(opts)
          /\ opts.mode = "apply" /\ References \subseteq opts.env /\ UNCHANGED <<opts, result>>
      BY <2>3 DEF OpLands, OpUnverified, AnswerLost, InFlight, EndOp, Settle, IInv, Working, Planned, SecretsReady
    <3>2. \/ live' = live \cup {op} /\ wrote' = wrote \cup {op}
          \/ UNCHANGED <<live, wrote>>
      BY <2>3 DEF OpLands, OpUnverified, AnswerLost
    <3>3. Contract!MayWrite(opts)
      BY <3>1 DEF Contract!MayWrite, Contract!ActiveIn, References, Active
    <3>4. SectionOf[op] \in Contract!ActiveIn(opts)
      BY <3>1 DEF Contract!ActiveIn, Active
    <3> QED
      BY <3>1, <3>2, <3>3, <3>4 DEF Contract!Next, Contract!Write, Contract!vars
  <2>4. CASE EditLive
    BY <2>4 DEF EditLive, program, Contract!Next, Contract!Outside
  <2>5. CASE \/ ProbeSection \/ ProbeFails \/ SkipUndeclared \/ ExcludeSection
             \/ PlanSection \/ PlanDenied \/ PlanFails
    <3>1. UNCHANGED <<opts, live, wrote, result>> /\ pc # "done" /\ pc' # "done"
      BY <2>5 DEF ProbeSection, ProbeFails, SkipUndeclared, ExcludeSection, PlanSection, PlanDenied, PlanFails,
         AtSection, Settle, effects, history
    <3> QED
      BY <3>1 DEF Contract!vars
  <2>6. CASE BeginOp \/ OpDenied \/ OpTolerated \/ OpConflicts \/ OpFails \/ FinishSection
    <3>1. UNCHANGED <<opts, live, wrote, result>> /\ pc # "done" /\ pc' # "done"
      BY <2>6 DEF BeginOp, OpDenied, OpTolerated, OpConflicts, OpFails, FinishSection, InFlight,
         EndOp, Settle, effects, history
    <3> QED
      BY <3>1 DEF Contract!vars
  <2>7. CASE EditGrant \/ UNCHANGED vars
    BY <2>7 DEF EditGrant, vars, program, history, effects, Contract!vars
  <2> QED
    BY <2>1, <2>2, <2>3, <2>4, <2>5, <2>6, <2>7 DEF Next, Step, Gates, Loop, Exec
<1> QED
  BY <1>1, <1>2, TypeCorrect, Invariant, PTL DEF Spec, ImplementsContract, Contract!Spec
=============================================================================
