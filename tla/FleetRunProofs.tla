--------------------------- MODULE FleetRunProofs ---------------------------
(***************************************************************************)
(* Proofs about FleetRun, for every fleet, every admitted configuration    *)
(* and every bound.                                                        *)
(***************************************************************************)
EXTENDS FleetRun, Numbers

(* Whom a concatenation holds. *)
LEMMA ConcatenationHolds ==
  ASSUME NEW S, NEW s \in Seq(S), NEW t \in Seq(S)
  PROVE  /\ s \o t \in Seq(S) /\ ToSet(s \o t) \subseteq S
         /\ ToSet(s) \subseteq ToSet(s \o t) /\ ToSet(t) \subseteq ToSet(s \o t)
<1>1. s \o t \in Seq(S)
  OBVIOUS
<1>2. ToSet(s \o t) \subseteq S
  BY <1>1 DEF ToSet
<1>3. ToSet(s) \subseteq ToSet(s \o t)
  <2>1. \A i \in DOMAIN s : i \in DOMAIN (s \o t) /\ (s \o t)[i] = s[i]
    OBVIOUS
  <2>2. QED
    BY <2>1 DEF ToSet
<1>4. ToSet(t) \subseteq ToSet(s \o t)
  <2>1. \A i \in DOMAIN t : i + Len(s) \in DOMAIN (s \o t) /\ (s \o t)[i + Len(s)] = t[i]
    OBVIOUS
  <2>2. QED
    BY <2>1 DEF ToSet
<1>5. QED
  BY <1>1, <1>2, <1>3, <1>4

(* What is where in a concatenation. *)
LEMMA ConcatenationPlaces ==
  ASSUME NEW S, NEW s \in Seq(S), NEW t \in Seq(S)
  PROVE  /\ Len(s) \in Nat /\ Len(t) \in Nat
         /\ DOMAIN s = 1..Len(s) /\ DOMAIN t = 1..Len(t)
         /\ DOMAIN (s \o t) = 1..(Len(s) + Len(t))
         /\ \A i \in 1..Len(s) : (s \o t)[i] = s[i]
         /\ \A i \in 1..Len(t) : (s \o t)[i + Len(s)] = t[i]
<1>1. /\ Len(s) \in Nat /\ Len(t) \in Nat
      /\ DOMAIN s = 1..Len(s) /\ DOMAIN t = 1..Len(t)
  OBVIOUS
<1>2. DOMAIN (s \o t) = 1..(Len(s) + Len(t))
  OBVIOUS
<1>3. \A i \in 1..Len(s) : (s \o t)[i] = s[i]
  OBVIOUS
<1>4. \A i \in 1..Len(t) : (s \o t)[i + Len(s)] = t[i]
  OBVIOUS
<1>5. QED
  BY <1>1, <1>2, <1>3, <1>4

(* What the configurations give the proofs. *)
LEMMA ConfigFacts ==
  ASSUME cfg \in Configs
  PROVE  /\ cfg.remote \in Seq(Slugs) /\ cfg.filtered \subseteq Slugs
         /\ Ordered \in Seq(Slugs) /\ ToSet(Ordered) \subseteq Slugs
         /\ ToSet(cfg.central) \subseteq ToSet(Ordered)
         /\ ToSet(cfg.remote) \subseteq ToSet(Ordered)
<1>1. cfg \in ConfigSpace
  BY FleetConstants
<1>2. cfg.central \in Seq(Slugs) /\ cfg.remote \in Seq(Slugs) /\ cfg.filtered \subseteq Slugs
  BY <1>1 DEF ConfigSpace
<1>3. QED
  BY <1>2, ConcatenationHolds DEF Ordered

(* A sequence holds finitely many values. *)
LEMMA RangeFinite ==
  ASSUME NEW S, NEW s \in Seq(S)
  PROVE  IsFiniteSet(ToSet(s))
<1>1. IsFiniteSet(1..Len(s))
  BY FS_Interval
<1>2. s \in Surjection(1..Len(s), ToSet(s))
  BY DEF Surjection, ToSet
<1>3. QED
  BY <1>1, <1>2, FS_Surjection DEF ExistsSurjection

(* The label of a target is a label. *)
LEMMA DisplayType ==
  ASSUME cfg \in Configs, NEW s \in Slugs
  PROVE  Display(s) \in [slug : Slugs \cup {"-"}, n : Nat]
<1>1. IsFiniteSet(ToSet(Ordered))
  BY RangeFinite, ConfigFacts
<1>2. \A T \in SUBSET ToSet(Ordered) : Cardinality(T) \in Nat
  BY <1>1, FS_Subset, FS_CardinalityType
<1>3. {t \in MaskedTargets : Place(t) <= Place(s)} \in SUBSET ToSet(Ordered)
  BY DEF MaskedTargets
<1>4. QED
  BY <1>2, <1>3 DEF Display

(* A row is a target's. *)
LEMMA RowTargets ==
  ASSUME TypeOK, NEW i \in DOMAIN rows
  PROVE  rows[i].target \in Slugs
<1>1. rows[i] \in Row
  BY DEF TypeOK
<1>2. QED
  BY <1>1 DEF Row

(* What a rejected name, a report channel and a report may come to. *)
LEMMA ResultTypes ==
  /\ \A s : WorkResults(s) \subseteq Results
  /\ \A s : ReportFate(s) \subseteq Accounts
  BY DEF WorkResults, ReportFate, Results, Accounts

(* The first target and the next one are targets. *)
LEMMA FollowingType == \A i : Following(i) \subseteq Places
  BY DEF Following

(* Every run begins with every variable in its type. *)
LEMMA TypeInit == Init => TypeOK
<1> SUFFICES ASSUME Init PROVE TypeOK
  OBVIOUS
<1>1. faults \in 0..MaxFaults
  BY FleetConstants DEF Init
<1>2. rows \in Seq(Row) /\ DOMAIN vis = {}
  BY DEF Init
<1>3. account \in [Slugs -> Accounts] /\ result \in Results /\ pc \in Phases
  BY DEF Init, Accounts, Results, Phases
<1>4. QED
  BY <1>1, <1>2, <1>3 DEF Init, TypeOK

(* Every step keeps every variable in its type, the loop at a target. *)
LEMMA TypeStep ==
  ASSUME TypeOK, [Next]_vars
  PROVE  TypeOK'
<1>1. ToSet(Ordered) \subseteq Slugs /\ ToSet(cfg.remote) \subseteq Slugs
      /\ cfg.filtered \subseteq Slugs /\ CentralWarnings \subseteq Slugs
  BY ConfigFacts DEF TypeOK, CentralWarnings
<1>same. UNCHANGED cfg => Places' = Places
  BY DEF Places, Kept, Ordered
<1>2. ASSUME at \in Places PROVE Target \in Slugs
  BY <1>same, <1>1, <1>2 DEF Places, Target, ToSet
<1>3. ASSUME NEW text \in SUBSET Slugs, Say(text)
      PROVE  named' \cup starred' \subseteq Slugs
  BY <1>3 DEF Say, TypeOK
<1>4. ASSUME Fault \/ NoFault PROVE faults' \in 0..MaxFaults
  BY <1>4, FleetConstants DEF Fault, NoFault, TypeOK
<1>5. CASE ReadDefaults
  BY <1>5, <1>same, <1>1 DEF ReadDefaults, FailRun, TypeOK, Phases, runVars, history
<1>6. CASE ListFleet
  <2>1. DOMAIN vis' \subseteq Slugs /\ \A s \in DOMAIN vis' : vis'[s] \in Visibility
    <3>1. CASE cfg.discover /\ cfg.policy = "redact"
      <4>1. vis' = [s \in ToSet(cfg.remote) |-> IF s = Self THEN "public" ELSE actual[s]]
        BY <1>6, <3>1 DEF ListFleet
      <4>2. \A s \in Slugs : actual[s] \in Visibility
        BY FleetConstants DEF TypeOK, Visibility
      <4>3. QED
        BY <4>1, <4>2, <1>same, <1>1 DEF Visibility
    <3>2. CASE ~(cfg.discover /\ cfg.policy = "redact")
      BY <1>6, <3>2 DEF ListFleet
    <3>3. QED
      BY <3>1, <3>2
  <2>2. QED
    BY <1>6, <1>same, <1>1, <2>1 DEF ListFleet, TypeOK, Phases, history
<1>7. CASE DiscoveryFails
  BY <1>7, <1>same, <1>1, <1>3, <1>4 DEF DiscoveryFails, FailRun, TypeOK, Phases
<1>8. CASE Probe
  <2>1. \A s \in NextUnresolved : s \in Slugs
    BY <1>1 DEF NextUnresolved, Unresolved
  <2>2. \A s \in Slugs : Traced(s, TRUE) \subseteq Slugs /\ actual[s] \in Visibility
    BY FleetConstants DEF Traced, TypeOK, Visibility
  <2>3. PICK s \in Slugs :
          /\ vis' = Resolved(s, "public") \/ vis' = Resolved(s, actual[s])
               \/ vis' = Resolved(s, "unknown")
          /\ UNCHANGED <<named, starred>> \/ Say(Traced(s, TRUE))
          /\ Fault \/ NoFault
    BY <1>8, <2>1 DEF Probe
  <2>4. DOMAIN vis' \subseteq Slugs /\ \A t \in DOMAIN vis' : vis'[t] \in Visibility
    BY <2>2, <2>3 DEF Resolved, TypeOK, Visibility
  <2>5. named' \cup starred' \subseteq Slugs
    BY <1>3, <2>2, <2>3 DEF TypeOK
  <2>6. QED
    BY <1>8, <1>same, <1>1, <1>4, <2>3, <2>4, <2>5 DEF Probe, TypeOK
<1>9. CASE MaskFleet
  <2>1. masked' \subseteq Slugs
    BY <1>9, <1>same, <1>1 DEF MaskFleet, MaskedSlugs, MaskedTargets, TypeOK
  <2>2. QED
    BY <1>9, <1>same, <1>1, <2>1 DEF MaskFleet, TypeOK, Phases, history
<1>10. CASE Announce
  <2>1. Announced \subseteq Slugs
    BY <1>same, <1>1, ConfigFacts DEF Announced, Lines, Ignored, TypeOK
  <2>2. at' \in Following(0) => at' \in Places
    BY FollowingType
  <2>3. QED
    BY <1>10, <1>same, <1>1, <1>3, <1>4, <2>1, <2>2 DEF Announce, FailRun, TypeOK, Phases
<1>11. CASE ProcessTarget
  <2>1. Lines(Target) \cup Traced(Target, FALSE) \subseteq Slugs
    BY <1>11, <1>2 DEF ProcessTarget, Lines, Traced, TypeOK
  <2>2. marked' \subseteq Slugs
    BY <1>11, <1>2 DEF ProcessTarget, Tell, TypeOK
  <2>3. QED
    BY <1>11, <1>same, <1>1, <1>3, <1>4, <2>1, <2>2, ResultTypes DEF ProcessTarget, TypeOK, Phases
<1>12. CASE TargetCrashes
  <2>1. Lines(Target) \subseteq Slugs
    BY <1>12, <1>2 DEF TargetCrashes, Lines, TypeOK
  <2>2. marked' \subseteq Slugs
    BY <1>12, <1>2 DEF TargetCrashes, Tell, TypeOK
  <2>3. QED
    BY <1>12, <1>same, <1>1, <1>3, <1>4, <2>1, <2>2
       DEF TargetCrashes, CrashFailsTarget, TypeOK, Phases, Results
<1>13. CASE CloseTarget
  <2>1. PICK fate \in Accounts : Account(fate)
    BY <1>13, ResultTypes DEF CloseTarget, Accounts
  <2>2. account' \in [Slugs -> Accounts] /\ queued' \subseteq Slugs /\ pc' = "row"
    BY <1>13, <1>2, <2>1 DEF CloseTarget, Account, TypeOK
  <2>3. QED
    BY <1>13, <1>same, <1>1, <1>4, <2>2 DEF CloseTarget, TypeOK, Phases
<1>14. CASE ReportThrows
  BY <1>14, <1>same, <1>1, <1>4 DEF ReportThrows, TypeOK, Phases
<1>15. CASE PushRow
  <2>1. rows' \in Seq(Row)
    <3>1. [target |-> Target, display |-> Display(Target), result |-> result] \in Row
      BY <1>15, <1>2, DisplayType DEF PushRow, TypeOK, Row
    <3>2. QED
      BY <1>15, <3>1 DEF PushRow, TypeOK
  <2>2. at' \in Following(at) => at' \in Places
    BY FollowingType
  <2>3. QED
    BY <1>15, <1>same, <1>1, <2>1, <2>2 DEF PushRow, TypeOK, Phases, history
<1>16. CASE Flush
  <2>1. account' \in [Slugs -> Accounts]
    BY <1>16 DEF Flush, UploadedAs, Accounts, TypeOK
  <2>2. QED
    BY <1>16, <1>same, <1>1, <1>4, <2>1 DEF Flush, TypeOK, Phases, runVars
<1>17. CASE Conclude
  <2>1. end' \in [kind : {"running", "fatal", "thrown", "concluded"}, exit : {0, 1}]
    BY <1>17 DEF Conclude, ExitCode, TypeOK
  <2>2. QED
    BY <1>17, <1>same, <1>1, <2>1 DEF Conclude, TypeOK, Phases, history
<1>18. CASE ChangeVisibility
  BY <1>18, <1>same, <1>1 DEF ChangeVisibility, TypeOK, runVars
<1>19. CASE UNCHANGED vars
  BY <1>19, <1>same, <1>1 DEF TypeOK, vars, runVars, history
<1>20. QED
  BY <1>5, <1>6, <1>7, <1>8, <1>9, <1>10, <1>11, <1>12, <1>13, <1>14, <1>15, <1>16,
     <1>17, <1>18, <1>19 DEF Next

(* Every variable keeps its type throughout. *)
THEOREM TypeCorrect == Spec => []TypeOK
  BY TypeInit, TypeStep, PTL DEF Spec

-----------------------------------------------------------------------------
(* The places of the targets. *)

(* Every slug of the plan has one place, and each place is its slug's. *)
LEMMA PlacesAreOne ==
  ASSUME cfg \in Configs
  PROVE  /\ Places \subseteq Nat \ {0}
         /\ \A s \in ToSet(Ordered) : Place(s) \in Places /\ Ordered[Place(s)] = s
         /\ \A k \in Places : Ordered[k] \in ToSet(Ordered) /\ Place(Ordered[k]) = k
<1>1. /\ cfg.central \in Seq(Slugs) /\ cfg.remote \in Seq(Slugs)
      /\ IsInjective(cfg.central) /\ IsInjective(cfg.remote)
  BY FleetConstants DEF ConfigSpace, Admitted
<1> DEFINE n == Len(cfg.central)
<1> DEFINE m == Len(cfg.remote)
<1>2. /\ n \in Nat /\ m \in Nat /\ DOMAIN cfg.central = 1..n /\ DOMAIN cfg.remote = 1..m
      /\ DOMAIN Ordered = 1..(n + m)
      /\ \A i \in 1..n : Ordered[i] = cfg.central[i]
      /\ \A i \in 1..m : Ordered[i + n] = cfg.remote[i]
  <2>1. ASSUME NEW s \in Seq(Slugs), NEW t \in Seq(Slugs)
        PROVE  /\ Len(s) \in Nat /\ Len(t) \in Nat
               /\ DOMAIN s = 1..Len(s) /\ DOMAIN t = 1..Len(t)
               /\ DOMAIN (s \o t) = 1..(Len(s) + Len(t))
               /\ \A i \in 1..Len(s) : (s \o t)[i] = s[i]
               /\ \A i \in 1..Len(t) : (s \o t)[i + Len(s)] = t[i]
    BY ConcatenationPlaces
  <2>2. QED
    BY <1>1, <2>1, Zenon DEF Ordered
<1> HIDE DEF n, m
<1>3. \A i \in DOMAIN Ordered : i > n => i - n \in 1..m /\ Ordered[i] = cfg.remote[i - n]
  <2> SUFFICES ASSUME NEW i \in DOMAIN Ordered, i > n
               PROVE  i - n \in 1..m /\ Ordered[i] = cfg.remote[i - n]
    OBVIOUS
  <2>1. i \in Nat /\ i <= n + m /\ i - n \in 1..m /\ (i - n) + n = i
    BY <1>2
  <2>2. QED
    BY <1>2, <2>1
<1>4. \A i \in Places : i \in DOMAIN Ordered /\ (i > n => Ordered[i] \notin ToSet(cfg.central))
  BY <1>2 DEF Places, Kept, n
<1>5. \A i, j \in Places : Ordered[i] = Ordered[j] => i = j
  <2> SUFFICES ASSUME NEW i \in Places, NEW j \in Places, Ordered[i] = Ordered[j] PROVE i = j
    OBVIOUS
  <2>1. i \in Nat /\ j \in Nat /\ i >= 1 /\ j >= 1
    BY <1>2, <1>4
  <2>2. CASE i <= n /\ j <= n
    <3>1. i \in DOMAIN cfg.central /\ j \in DOMAIN cfg.central
      BY <1>2, <2>1, <2>2
    <3>2. cfg.central[i] = cfg.central[j]
      BY <1>2, <3>1
    <3>3. QED
      BY <1>1, <3>1, <3>2 DEF IsInjective
  <2>3. CASE i > n /\ j > n
    <3>1. i \in DOMAIN Ordered /\ j \in DOMAIN Ordered
      BY <1>4
    <3>2. /\ i - n \in 1..m /\ Ordered[i] = cfg.remote[i - n]
          /\ j - n \in 1..m /\ Ordered[j] = cfg.remote[j - n]
      BY <1>3, <2>3, <3>1
    <3>3. i - n \in DOMAIN cfg.remote /\ j - n \in DOMAIN cfg.remote /\ cfg.remote[i - n] = cfg.remote[j - n]
      BY <1>2, <3>2
    <3>4. i - n = j - n
      BY <1>1, <3>3 DEF IsInjective
    <3>5. QED
      BY <1>2, <2>1, <3>4
  <2>4. \A k \in Places : k <= n => Ordered[k] \in ToSet(cfg.central)
    BY <1>2, <1>4 DEF ToSet
  <2>5. QED
    BY <1>2, <1>4, <2>1, <2>2, <2>3, <2>4
<1>6. \A s \in ToSet(Ordered) : \E i \in Places : Ordered[i] = s
  <2> SUFFICES ASSUME NEW s \in ToSet(Ordered) PROVE \E i \in Places : Ordered[i] = s
    OBVIOUS
  <2>1. CASE s \in ToSet(cfg.central)
    <3>1. PICK i \in 1..n : cfg.central[i] = s
      BY <1>2, <2>1 DEF ToSet
    <3>2. i \in DOMAIN Ordered /\ Ordered[i] = s /\ i <= n
      BY <1>2, <3>1
    <3>3. QED
      BY <3>2 DEF Places, Kept, n
  <2>2. CASE s \notin ToSet(cfg.central)
    <3>1. PICK i \in DOMAIN Ordered : Ordered[i] = s
      BY DEF ToSet
    <3>2. QED
      BY <2>2, <3>1 DEF Places, Kept
  <2>3. QED
    BY <2>1, <2>2
<1>7. \A s \in ToSet(Ordered) : Place(s) \in Places /\ Ordered[Place(s)] = s
  BY <1>6 DEF Place
<1>8. \A k \in Places : Ordered[k] \in ToSet(Ordered)
  BY <1>4 DEF ToSet
<1>9. QED
  BY <1>2, <1>4, <1>5, <1>7, <1>8

(* The next target is past this one and nothing is between them, and there is
   no next one only when no target is past this one.                       *)
LEMMA NextTarget ==
  ASSUME cfg \in Configs, NEW i \in Nat
  PROVE  /\ \A j \in Following(i) : j \in Places /\ {k \in Places : k < j} = {k \in Places : k <= i}
         /\ Following(i) = {} => {k \in Places : k <= i} = Places
<1>1. Places \subseteq Nat
  BY PlacesAreOne
<1>2. ASSUME NEW j \in Following(i)
      PROVE  j \in Places /\ {k \in Places : k < j} = {k \in Places : k <= i}
  <2>1. j \in Places /\ j > i /\ \A k \in Places : k > i => j <= k
    BY DEF Following
  <2>2. \A k \in Places : k < j <=> k <= i
    BY <1>1, <2>1
  <2>3. QED
    BY <2>1, <2>2
<1>3. ASSUME Following(i) = {} PROVE {k \in Places : k > i} = {}
  <2>1. SUFFICES ASSUME {k \in Places : k > i} # {} PROVE FALSE
    OBVIOUS
  <2>2. PICK j \in {k \in Places : k > i} : \A k \in {k \in Places : k > i} : j <= k
    BY <1>1, <2>1, SmallestNumber
  <2>3. QED
    BY <1>3, <2>2 DEF Following
<1>4. ASSUME Following(i) = {} PROVE {k \in Places : k <= i} = Places
  <2>1. \A k \in Places : k <= i
    BY <1>1, <1>3, <1>4
  <2>2. QED
    BY <2>1
<1>5. QED
  BY <1>2, <1>4

(* Two targets never share a label: the hidden are numbered, the others named. *)
LEMMA LabelsDiffer ==
  ASSUME cfg \in Configs, NEW s \in ToSet(Ordered), NEW t \in ToSet(Ordered),
         Place(s) < Place(t)
  PROVE  Display(s) # Display(t)
<1> DEFINE UpTo(u) == {v \in MaskedTargets : Place(v) <= Place(u)}
<1>1. IsFiniteSet(ToSet(Ordered))
  BY RangeFinite, ConfigFacts
<1>2. \A u : UpTo(u) \in SUBSET ToSet(Ordered) /\ IsFiniteSet(UpTo(u))
  BY <1>1, FS_Subset DEF MaskedTargets
<1>3. Place(s) \in Nat /\ Place(t) \in Nat /\ \A u \in MaskedTargets : Place(u) \in Nat
  BY PlacesAreOne DEF MaskedTargets
<1>4. \A u \in ToSet(Ordered) :
        Display(u) = IF Hidden(u) THEN [slug |-> "-", n |-> Cardinality(UpTo(u))]
                                  ELSE [slug |-> u, n |-> 0]
  BY DEF Display
<1>5. ASSUME NEW u \in ToSet(Ordered), Hidden(u) PROVE u \in UpTo(u) /\ Cardinality(UpTo(u)) # 0
  <2>1. u \in UpTo(u)
    BY <1>3, <1>5 DEF MaskedTargets
  <2>2. QED
    BY <1>2, <2>1, FS_EmptySet
<1>6. CASE Hidden(s) /\ Hidden(t)
  <2>1. UpTo(s) \in SUBSET UpTo(t)
    BY <1>3
  <2>2. t \in UpTo(t) /\ t \notin UpTo(s)
    <3>1. ~(Place(t) <= Place(s))
      BY <1>3
    <3>2. QED
      BY <1>5, <1>6, <3>1
  <2>3. Cardinality(UpTo(s)) # Cardinality(UpTo(t))
    BY <1>2, <2>1, <2>2, FS_Subset
  <2> HIDE DEF UpTo
  <2>4. QED
    BY <1>4, <1>6, <2>3
<1> HIDE DEF UpTo
<1>7. CASE ~Hidden(s) /\ ~Hidden(t)
  <2>1. s # t
    BY <1>3
  <2>2. Display(s).slug = s /\ Display(t).slug = t
    BY <1>4, <1>7
  <2>3. QED
    BY <2>1, <2>2
<1>8. \A u \in ToSet(Ordered) : Display(u).n = 0 <=> ~Hidden(u)
  BY <1>4, <1>5
<1>9. QED
  BY <1>6, <1>7, <1>8

-----------------------------------------------------------------------------
(* The inductive invariant. *)

Before == {"defaults", "list", "resolve", "announce"}
Late == {"announce", "work", "report", "row", "flush", "conclude"}
Settled == {"delivered", "uploaded", "withheld", "nothing", "warned"}

ProvenTo(s) == cfg.policy = "redact" /\ s # Self /\ (s \in moved \/ actual[s] \in Proven)

(* What the run believes of a repository that has not changed is true. *)
BeliefsTrue ==
  /\ \A s \in DOMAIN vis : s # Self /\ s \notin moved => vis[s] \in {"unknown", actual[s]}
  /\ pc \in Late \cup {"resolve"} =>
       \A s \in cfg.filtered : s \notin moved /\ actual[s] # "public" => s \in private

(* From the mask on, every target is resolved and every hidden slug registered. *)
MaskDone ==
  pc \in Late =>
    /\ cfg.policy = "redact" => ToSet(Ordered) \subseteq DOMAIN vis
    /\ MaskedSlugs \subseteq masked

(* A run that could not begin is over. *)
FatalIsOver == end.kind = "fatal" => pc = "done"

(* A report leaves, or is queued, for the proven alone. *)
ReportsProven ==
  \A s \in Slugs :
    s \in marked \/ s \in queued \/ account[s] \in {"delivered", "queued", "uploaded"}
      => ProvenTo(s)

(* A concluded target's report is settled, or queued until the flush. *)
ReportsAccounted ==
  /\ pc \in Before => rows = <<>> /\ \A s \in Slugs : account[s] = "none"
  /\ \A s \in Slugs : account[s] = "queued" => s \in queued /\ pc \notin {"conclude", "done"}
  /\ cfg.channel # "none" =>
       /\ \A i \in DOMAIN rows :
            rows[i].display.n > 0 =>
              /\ Hidden(rows[i].target)
              /\ account[rows[i].target] \in Settled \cup {"queued"}
       /\ pc = "row" /\ Hidden(Target) => account[Target] \in Settled \cup {"queued"}

(* The places of the concluded targets. *)
PlacesSoFar == {Place(rows[i].target) : i \in DOMAIN rows}

(* The rows are those of the targets passed, in order, as the run labels them. *)
RowsFollowTargets ==
  /\ pc \in Before => rows = <<>> /\ end.kind # "thrown"
  /\ \A i \in DOMAIN rows :
       /\ rows[i].target \in ToSet(Ordered)
       /\ rows[i].display = Display(rows[i].target)
  /\ \A i, j \in DOMAIN rows : i < j => Place(rows[i].target) < Place(rows[j].target)
  /\ pc \in {"work", "report", "row"} =>
       PlacesSoFar = {k \in Places : k < at} /\ end.kind = "running"
  /\ pc \in {"flush", "conclude", "done"} =>
       end.kind \in {"fatal", "thrown"} \/ PlacesSoFar = Places
  /\ end.kind = "concluded" => pc = "done" /\ end.exit = ExitCode(Words)
  /\ end.kind = "thrown" => pc \in {"flush", "conclude", "done"} /\ Deliverable(Target)

IInv ==
  /\ TypeOK /\ BeliefsTrue /\ MaskDone /\ FatalIsOver
  /\ SecretsStaySecret /\ ReportsProven /\ ReportsAccounted /\ RowsFollowTargets

(* A secret the run could name once it has masked is hidden and registered. *)
LEMMA SecretsAreMasked ==
  ASSUME IInv, pc \in Late, NEW s \in Slugs, Secret(s)
  PROVE  /\ s \in ToSet(Ordered) => Hidden(s) /\ s \in masked
         /\ s \in cfg.filtered => s \in private /\ s \in masked
<1>1. ASSUME s \in ToSet(Ordered) PROVE Hidden(s)
  <2>1. s \in DOMAIN vis /\ vis[s] \in {"unknown", actual[s]}
    BY <1>1 DEF IInv, MaskDone, BeliefsTrue, Secret
  <2>2. QED
    BY <1>1, <2>1 DEF Hidden, VisibilityOf, Secret
<1>2. s \in cfg.filtered => s \in private
  BY DEF IInv, BeliefsTrue, Secret
<1>3. Hidden(s) \/ s \in private => s \in MaskedSlugs
  BY DEF MaskedSlugs, MaskedTargets, Hidden, Secret
<1>4. QED
  BY <1>1, <1>2, <1>3 DEF IInv, MaskDone

(* A report the run may deliver is for a repository that is proven private. *)
LEMMA DeliverableIsProven ==
  ASSUME BeliefsTrue, NEW s \in Slugs, Deliverable(s)
  PROVE  ProvenTo(s)
<1>1. s \in DOMAIN vis /\ vis[s] \in Proven
  BY DEF Deliverable, VisibilityOf, Proven
<1>2. QED
  BY <1>1 DEF Deliverable, Hidden, BeliefsTrue, ProvenTo, Proven

(* The plan, and what is secret or proven, depend on nothing else. *)
LEMMA SamePlan ==
  ASSUME UNCHANGED <<cfg, vis>>
  PROVE  /\ Ordered' = Ordered /\ CentralWarnings' = CentralWarnings
         /\ \A s : Hidden(s)' = Hidden(s)
         /\ \A s : Deliverable(s)' = Deliverable(s)
         /\ private' = private => MaskedSlugs' = MaskedSlugs
         /\ at' = at => Target' = Target
  BY DEF Ordered, CentralWarnings, Hidden, Deliverable, MaskedSlugs, MaskedTargets,
         VisibilityOf, Target
LEMMA SameWorld ==
  ASSUME UNCHANGED <<cfg, actual, moved>>
  PROVE  /\ \A s : Secret(s)' = Secret(s)
         /\ \A s : ProvenTo(s)' = ProvenTo(s)
  BY DEF Secret, ProvenTo

(* Saying what no secret is in keeps the secrets. *)
LEMMA SayingKeepsSecrets ==
  ASSUME IInv, NEW text, Say(text), UNCHANGED <<cfg, actual, moved>>,
         end' = end \/ end'.kind = "fatal",
         \A s \in Slugs : Secret(s) /\ s \in text =>
            s \in CentralWarnings /\ (s \in masked \/ end'.kind = "fatal")
  PROVE  SecretsStaySecret'
<1>1. CentralWarnings' = CentralWarnings
  BY DEF CentralWarnings
<1>2. QED
  BY <1>1, SameWorld DEF IInv, SecretsStaySecret, Say

-----------------------------------------------------------------------------
LEMMA InvariantInit == Init => IInv
<1> SUFFICES ASSUME Init PROVE IInv
  OBVIOUS
<1>1. TypeOK
  BY TypeInit
<1>2. BeliefsTrue /\ MaskDone /\ FatalIsOver /\ RowsFollowTargets
  BY DEF Init, BeliefsTrue, MaskDone, FatalIsOver, Late, RowsFollowTargets, Before
<1>3. SecretsStaySecret /\ ReportsProven /\ ReportsAccounted
  BY DEF Init, SecretsStaySecret, ReportsProven, ReportsAccounted, Before
<1>4. QED
  BY <1>1, <1>2, <1>3 DEF IInv

(* A step keeps what the run believes and what it has masked. *)
LEMMA BeliefsStep ==
  ASSUME IInv, [Next]_vars
  PROVE  BeliefsTrue' /\ MaskDone' /\ FatalIsOver'
<1>1. CASE ReadDefaults
  BY <1>1 DEF ReadDefaults, FailRun, IInv, BeliefsTrue, MaskDone, FatalIsOver, Late, runVars, history
<1>2. CASE ListFleet
  <2>1. ToSet(cfg.remote) \subseteq Slugs
    BY ConfigFacts DEF IInv, TypeOK
  <2>2. \A s \in DOMAIN vis' : s # Self => vis'[s] = actual[s]
    BY <1>2 DEF ListFleet
  <2>3. BeliefsTrue'
    BY <1>2, <2>2 DEF ListFleet, BeliefsTrue, history
  <2>4. QED
    BY <1>2, <2>3 DEF ListFleet, IInv, MaskDone, FatalIsOver, Late
<1>3. CASE DiscoveryFails
  BY <1>3 DEF DiscoveryFails, FailRun, IInv, BeliefsTrue, MaskDone, FatalIsOver, Late
<1>4. CASE Probe
  <2>1. PICK s \in NextUnresolved :
          \/ s = Self /\ vis' = Resolved(s, "public")
          \/ vis' = Resolved(s, actual[s])
          \/ vis' = Resolved(s, "unknown")
    BY <1>4 DEF Probe
  <2>2. \A t \in DOMAIN vis' : t # Self /\ t \notin moved => vis'[t] \in {"unknown", actual[t]}
    BY <2>1 DEF Resolved, IInv, BeliefsTrue
  <2>3. QED
    BY <1>4, <2>2 DEF Probe, IInv, BeliefsTrue, MaskDone, FatalIsOver, Late
<1>5. CASE MaskFleet
  <2>1. cfg.policy = "redact" => ToSet(Ordered) \subseteq DOMAIN vis
    BY <1>5 DEF MaskFleet, Unresolved
  <2>2. UNCHANGED <<cfg, vis, private>>
    BY <1>5 DEF MaskFleet
  <2>3. MaskDone'
    BY <1>5, <2>1, <2>2, SamePlan DEF MaskFleet, MaskDone
  <2>4. QED
    BY <1>5, <2>3 DEF MaskFleet, IInv, BeliefsTrue, FatalIsOver, Late, history
<1>6. ASSUME UNCHANGED <<cfg, actual, vis, private, masked, moved>>,
             pc' \in Late => pc \in Late, pc' # "resolve",
             \/ end' = end /\ pc # "done"
             \/ pc' = "done"
             \/ pc \in Late /\ end'.kind # "fatal"
      PROVE  BeliefsTrue' /\ MaskDone' /\ FatalIsOver'
  BY <1>6, SamePlan DEF IInv, BeliefsTrue, MaskDone, FatalIsOver
<1>7. CASE Announce
  BY <1>6, <1>7 DEF Announce, FailRun, Late
<1>8. CASE ProcessTarget
  BY <1>6, <1>8 DEF ProcessTarget, Late
<1>9. CASE TargetCrashes
  BY <1>6, <1>9 DEF TargetCrashes, CrashFailsTarget, Late
<1>10. CASE CloseTarget
  BY <1>6, <1>10 DEF CloseTarget, Account, Late
<1>11. CASE ReportThrows
  <2>1. end'.kind = "thrown"
    BY <1>11 DEF ReportThrows, IInv, TypeOK
  <2>2. QED
    BY <1>6, <1>11, <2>1 DEF ReportThrows, Late
<1>12. CASE PushRow
  BY <1>6, <1>12 DEF PushRow, Late, history
<1>13. CASE Flush
  BY <1>6, <1>13 DEF Flush, Late, runVars
<1>14. CASE Conclude
  BY <1>6, <1>14 DEF Conclude, Late, history
<1>15. CASE ChangeVisibility
  <2>1. PICK s \in Slugs, v \in Actual :
          actual' = [actual EXCEPT ![s] = v] /\ moved' = moved \cup {s}
    BY <1>15 DEF ChangeVisibility
  <2>2. \A t : t \notin moved' => t \notin moved /\ actual'[t] = actual[t]
    BY <2>1 DEF IInv, TypeOK
  <2>3. UNCHANGED <<cfg, pc, vis, private, masked, end>>
    BY <1>15 DEF ChangeVisibility, runVars
  <2>4. QED
    BY <2>2, <2>3, SamePlan DEF IInv, BeliefsTrue, MaskDone, FatalIsOver
<1>16. CASE UNCHANGED vars
  BY <1>16, SamePlan DEF vars, runVars, history, IInv, BeliefsTrue, MaskDone, FatalIsOver
<1>17. QED
  BY <1>1, <1>2, <1>3, <1>4, <1>5, <1>7, <1>8, <1>9, <1>10, <1>11, <1>12, <1>13,
     <1>14, <1>15, <1>16 DEF Next

(* A step names no secret. *)
LEMMA SecretsStep ==
  ASSUME IInv, [Next]_vars
  PROVE  SecretsStaySecret'
<1>1. ToSet(Ordered) \subseteq Slugs /\ CentralWarnings \subseteq ToSet(Ordered)
      /\ ToSet(cfg.remote) \subseteq ToSet(Ordered)
  BY ConfigFacts DEF IInv, TypeOK, CentralWarnings
<1>2. ASSUME UNCHANGED <<cfg, actual, moved, named, starred>>,
             end.kind = "fatal" => end'.kind = "fatal"
      PROVE  SecretsStaySecret'
  BY <1>2, SameWorld DEF CentralWarnings, IInv, SecretsStaySecret
<1>3. pc # "done" => end.kind # "fatal"
  BY DEF IInv, FatalIsOver
<1>4. CASE ReadDefaults
  BY <1>2, <1>3, <1>4 DEF ReadDefaults, FailRun, runVars, history
<1>5. CASE ListFleet
  BY <1>2, <1>5 DEF ListFleet, history
<1>6. CASE DiscoveryFails
  <2>1. Say(CentralWarnings) /\ end'.kind = "fatal" /\ UNCHANGED <<cfg, actual, moved>>
    BY <1>6 DEF DiscoveryFails, FailRun
  <2>2. QED
    BY <2>1, SayingKeepsSecrets
<1>7. CASE Probe
  <2>1. \A s : Say(Traced(s, TRUE)) => UNCHANGED <<named, starred>>
    BY DEF Say, Traced
  <2>2. UNCHANGED <<cfg, actual, moved, named, starred, end>>
    BY <1>7, <2>1 DEF Probe
  <2>3. QED
    BY <1>2, <2>2
<1>8. CASE MaskFleet
  BY <1>2, <1>8 DEF MaskFleet, history
<1>9. CASE Announce
  <2>1. pc \in Late /\ Say(Announced) /\ UNCHANGED <<cfg, actual, moved>>
        /\ (end' = end \/ end'.kind = "fatal")
    BY <1>9 DEF Announce, FailRun, Late
  <2>2. ASSUME NEW s \in Slugs, Secret(s), s \in Announced
        PROVE  s \in CentralWarnings /\ s \in masked
    <3>1. s \notin (IF cfg.policy = "show" THEN cfg.filtered ELSE cfg.filtered \ private)
      BY <2>1, <2>2, SecretsAreMasked DEF Secret
    <3>2. s \notin UNION {Lines(t) : t \in Ignored}
      <4>1. ASSUME NEW t \in Ignored, s \in Lines(t) PROVE FALSE
        <5>1. t = s /\ ~Hidden(s) /\ s \in ToSet(Ordered)
          BY <1>1, <4>1 DEF Lines, Ignored
        <5>2. QED
          BY <2>1, <2>2, <5>1, SecretsAreMasked
      <4>2. QED
        BY <4>1
    <3>3. s \in CentralWarnings
      BY <2>2, <3>1, <3>2 DEF Announced
    <3>4. QED
      BY <1>1, <2>1, <2>2, <3>3, SecretsAreMasked
  <2>3. QED
    BY <2>1, <2>2, SayingKeepsSecrets
<1>10. ASSUME pc = "work"
       PROVE  \A s \in Slugs : Secret(s) => s \notin Lines(Target) /\ s \notin Traced(Target, FALSE)
  <2>1. Target \in ToSet(Ordered)
    BY <1>10 DEF IInv, TypeOK, Places, Target, ToSet
  <2>2. pc \in Late
    BY <1>10 DEF Late
  <2>3. QED
    BY <2>1, <2>2, SecretsAreMasked DEF Lines, Traced
<1>11. CASE ProcessTarget
  <2>1. pc = "work" /\ Say(Lines(Target) \cup Traced(Target, FALSE))
        /\ UNCHANGED <<cfg, actual, moved, end>>
    BY <1>11 DEF ProcessTarget
  <2>2. QED
    BY <1>10, <2>1, SayingKeepsSecrets
<1>12. CASE TargetCrashes
  <2>1. pc = "work" /\ Say(Lines(Target)) /\ UNCHANGED <<cfg, actual, moved, end>>
    BY <1>12 DEF TargetCrashes, CrashFailsTarget
  <2>2. QED
    BY <1>10, <2>1, SayingKeepsSecrets
<1>13. CASE CloseTarget
  BY <1>2, <1>13 DEF CloseTarget
<1>14. CASE ReportThrows
  BY <1>2, <1>3, <1>14 DEF ReportThrows
<1>15. CASE PushRow
  BY <1>2, <1>15 DEF PushRow, history
<1>16. CASE Flush
  BY <1>2, <1>16 DEF Flush, runVars
<1>17. CASE Conclude
  BY <1>2, <1>3, <1>17 DEF Conclude, history
<1>18. CASE ChangeVisibility
  <2>1. PICK s \in Slugs, v \in Actual :
          actual' = [actual EXCEPT ![s] = v] /\ moved' = moved \cup {s}
    BY <1>18 DEF ChangeVisibility
  <2>2. \A t : Secret(t)' => Secret(t)
    BY <1>18, <2>1 DEF ChangeVisibility, Secret, IInv, TypeOK
  <2>3. QED
    BY <1>18, <2>2 DEF ChangeVisibility, runVars, CentralWarnings, IInv, SecretsStaySecret
<1>19. CASE UNCHANGED vars
  BY <1>2, <1>19 DEF vars, runVars, history
<1>20. QED
  BY <1>4, <1>5, <1>6, <1>7, <1>8, <1>9, <1>11, <1>12, <1>13, <1>14, <1>15, <1>16, <1>17,
     <1>18, <1>19 DEF Next

(* A step lets a report, or the label of its issue, go to the proven alone. *)
LEMMA ReportsStep ==
  ASSUME IInv, [Next]_vars
  PROVE  ReportsProven'
<1>1. ASSUME UNCHANGED <<cfg, actual, moved, marked, queued, account>>
      PROVE  ReportsProven'
  BY <1>1, SameWorld DEF IInv, ReportsProven
<1>2. ASSUME pc = "work", UNCHANGED <<cfg, actual, moved, queued, account>>, Tell(Target)
      PROVE  ReportsProven'
  <2>1. Target \in Slugs
    BY <1>2, ConfigFacts DEF IInv, TypeOK, Places, Target, ToSet
  <2>2. Injects(Target) => ProvenTo(Target)
    BY <2>1, DeliverableIsProven DEF Injects, IInv
  <2>3. QED
    BY <1>2, <2>2, SameWorld DEF Tell, IInv, ReportsProven
<1>3. CASE ReadDefaults
  BY <1>1, <1>3 DEF ReadDefaults, FailRun, runVars, history
<1>4. CASE ListFleet
  BY <1>1, <1>4 DEF ListFleet, history
<1>5. CASE DiscoveryFails
  BY <1>1, <1>5 DEF DiscoveryFails, FailRun
<1>6. CASE Probe
  BY <1>1, <1>6 DEF Probe
<1>7. CASE MaskFleet
  BY <1>1, <1>7 DEF MaskFleet, history
<1>8. CASE Announce
  BY <1>1, <1>8 DEF Announce, FailRun
<1>9. CASE ProcessTarget
  BY <1>2, <1>9 DEF ProcessTarget
<1>10. CASE TargetCrashes
  BY <1>2, <1>10 DEF TargetCrashes
<1>11. CASE CloseTarget
  <2>1. Target \in Slugs
    BY <1>11, ConfigFacts DEF CloseTarget, IInv, TypeOK, Places, Target, ToSet
  <2>2. PICK fate \in Accounts : Account(fate) /\ (fate \in ReportFate(Target) \/ fate = "warned")
    BY <1>11, ResultTypes DEF CloseTarget, Accounts
  <2>3. fate \in {"delivered", "queued", "uploaded"} => ProvenTo(Target)
    BY <2>1, <2>2, DeliverableIsProven DEF ReportFate, IInv
  <2>4. UNCHANGED <<cfg, actual, moved, marked>>
    BY <1>11 DEF CloseTarget
  <2>5. \A s \in Slugs : account'[s] = IF s = Target THEN fate ELSE account[s]
    BY <2>2 DEF Account, IInv, TypeOK
  <2>6. \A s \in Slugs : s \in queued' => s \in queued \/ (s = Target /\ fate = "queued")
    BY <2>2 DEF Account
  <2>7. QED
    BY <2>3, <2>4, <2>5, <2>6, SameWorld DEF IInv, ReportsProven
<1>12. CASE ReportThrows
  BY <1>1, <1>12 DEF ReportThrows
<1>13. CASE PushRow
  BY <1>1, <1>13 DEF PushRow, history
<1>14. CASE Flush
  <2>1. UNCHANGED <<cfg, actual, moved, marked, queued>>
    BY <1>14 DEF Flush, runVars
  <2>2. \A s \in Slugs : s \in queued \/ account'[s] = account[s]
    BY <1>14 DEF Flush, UploadedAs
  <2>3. QED
    BY <2>1, <2>2, SameWorld DEF IInv, ReportsProven
<1>15. CASE Conclude
  BY <1>1, <1>15 DEF Conclude, history
<1>16. CASE ChangeVisibility
  <2>1. PICK s \in Slugs, v \in Actual :
          actual' = [actual EXCEPT ![s] = v] /\ moved' = moved \cup {s}
    BY <1>16 DEF ChangeVisibility
  <2>2. \A t \in Slugs : ProvenTo(t) => ProvenTo(t)'
    BY <1>16, <2>1 DEF ChangeVisibility, ProvenTo, IInv, TypeOK
  <2>3. QED
    BY <1>16, <2>2 DEF ChangeVisibility, runVars, IInv, ReportsProven
<1>17. CASE UNCHANGED vars
  BY <1>1, <1>17 DEF vars, runVars, history
<1>18. QED
  BY <1>3, <1>4, <1>5, <1>6, <1>7, <1>8, <1>9, <1>10, <1>11, <1>12, <1>13, <1>14, <1>15,
     <1>16, <1>17 DEF Next

(* A step loses no report of a concluded target. *)
LEMMA AccountsStep ==
  ASSUME IInv, [Next]_vars
  PROVE  ReportsAccounted'
<1>1. ASSUME UNCHANGED <<cfg, rows, queued, account>>, pc \in Before,
             pc' \notin {"row"}
      PROVE  ReportsAccounted'
  BY <1>1 DEF IInv, ReportsAccounted, Settled
<1>2. ASSUME UNCHANGED <<cfg, vis, rows, queued, account>>,
             pc' \notin Before \cup {"row", "conclude", "done"}
      PROVE  ReportsAccounted'
  BY <1>2, SamePlan DEF IInv, ReportsAccounted
<1>3. CASE ReadDefaults
  BY <1>1, <1>3 DEF ReadDefaults, FailRun, Before, runVars, history
<1>4. CASE ListFleet
  BY <1>1, <1>4 DEF ListFleet, Before, history
<1>5. CASE DiscoveryFails
  BY <1>1, <1>5 DEF DiscoveryFails, FailRun, Before
<1>6. CASE Probe
  BY <1>1, <1>6 DEF Probe, Before
<1>7. CASE MaskFleet
  BY <1>1, <1>7 DEF MaskFleet, Before, history
<1>8. CASE Announce
  BY <1>1, <1>8 DEF Announce, FailRun, Before
<1>9. CASE ProcessTarget
  BY <1>2, <1>9 DEF ProcessTarget, Before
<1>10. CASE TargetCrashes
  BY <1>2, <1>10 DEF TargetCrashes, CrashFailsTarget, Before
<1>11. CASE CloseTarget
  <2>1. Target \in Slugs
    BY <1>11, ConfigFacts DEF CloseTarget, IInv, TypeOK, Places, Target, ToSet
  <2>2. PICK fate \in Accounts :
          Account(fate) /\ (fate \in ReportFate(Target)
                             \/ (fate = "warned" /\ "delivered" \in ReportFate(Target)))
    BY <1>11, ResultTypes DEF CloseTarget, Accounts
  <2>3. cfg.channel # "none" /\ Hidden(Target) => fate \in Settled \cup {"queued"}
    BY <2>2 DEF ReportFate, Settled
  <2>4. UNCHANGED <<cfg, vis, at, rows>> /\ pc = "report" /\ pc' = "row"
    BY <1>11, <2>2 DEF CloseTarget, Account
  <2>5. \A s \in Slugs : account'[s] = IF s = Target THEN fate ELSE account[s]
    BY <2>2 DEF Account, IInv, TypeOK
  <2>6. queued \subseteq queued' /\ (fate = "queued" => Target \in queued')
    BY <2>2 DEF Account
  <2>7. \A i \in DOMAIN rows : rows[i].target \in Slugs
    BY RowTargets DEF IInv
  <2>8. QED
    BY <2>1, <2>3, <2>4, <2>5, <2>6, <2>7, SamePlan DEF IInv, ReportsAccounted, Before
<1>12. CASE ReportThrows
  BY <1>2, <1>12 DEF ReportThrows, Before
<1>13. CASE PushRow
  <2>1. UNCHANGED <<cfg, vis, queued, account>> /\ pc = "row" /\ pc' \in {"work", "flush"}
    BY <1>13 DEF PushRow, history
  <2>2. Display(Target).n > 0 => Hidden(Target)
    BY DEF Display
  <2>3. \A i \in DOMAIN rows' :
          \/ i \in DOMAIN rows /\ rows'[i] = rows[i]
          \/ rows'[i] = [target |-> Target, display |-> Display(Target), result |-> result]
    BY <1>13 DEF PushRow, IInv, TypeOK
  <2>4. QED
    BY <2>1, <2>2, <2>3, SamePlan DEF IInv, ReportsAccounted, Before
<1>14. CASE Flush
  <2>1. UNCHANGED <<cfg, vis, rows, queued>> /\ pc' = "conclude"
    BY <1>14 DEF Flush, runVars
  <2>2. \A s \in Slugs : account'[s] \in {"uploaded", "warned"}
                           \/ (s \notin queued /\ account'[s] = account[s])
    BY <1>14 DEF Flush, UploadedAs
  <2>3. \A i \in DOMAIN rows : rows[i].target \in Slugs
    BY RowTargets DEF IInv
  <2>4. QED
    BY <2>1, <2>2, <2>3, SamePlan DEF IInv, ReportsAccounted, Before, Settled
<1>15. CASE Conclude
  <2>1. UNCHANGED <<cfg, vis, rows, queued, account>> /\ pc = "conclude" /\ pc' = "done"
    BY <1>15 DEF Conclude, history
  <2>2. QED
    BY <2>1, SamePlan DEF IInv, ReportsAccounted, Before
<1>16. CASE ChangeVisibility
  <2>1. UNCHANGED <<cfg, pc, vis, at, rows, queued, account>>
    BY <1>16 DEF ChangeVisibility, runVars
  <2>2. QED
    BY <2>1, SamePlan DEF IInv, ReportsAccounted
<1>17. CASE UNCHANGED vars
  BY <1>17, SamePlan DEF vars, runVars, history, IInv, ReportsAccounted
<1>18. QED
  BY <1>3, <1>4, <1>5, <1>6, <1>7, <1>8, <1>9, <1>10, <1>11, <1>12, <1>13, <1>14, <1>15,
     <1>16, <1>17 DEF Next

(* The labels and places of the targets depend on the plan alone. *)
LEMMA SameLabels ==
  ASSUME UNCHANGED <<cfg, vis>>
  PROVE  /\ Ordered' = Ordered /\ Places' = Places
         /\ \A s : Place(s)' = Place(s)
         /\ \A s : Display(s)' = Display(s)
<1>1. Ordered' = Ordered /\ Places' = Places /\ \A s : Hidden(s)' = Hidden(s)
  BY SamePlan DEF Places, Kept, Ordered
<1>2. \A s : Place(s)' = Place(s)
  BY <1>1 DEF Place
<1>3. MaskedTargets' = MaskedTargets
  BY <1>1 DEF MaskedTargets
<1>4. QED
  BY <1>1, <1>2, <1>3 DEF Display

(* A step adds the row of the target it leaves and no other. *)
LEMMA RowsStep ==
  ASSUME IInv, [Next]_vars
  PROVE  RowsFollowTargets'
<1>1. ASSUME pc \in Before, UNCHANGED rows,
             \/ end' = end /\ pc' \in Before
             \/ end'.kind = "fatal" /\ pc' = "done"
      PROVE  RowsFollowTargets'
  <2>1. rows' = <<>> /\ end.kind \notin {"thrown", "concluded"}
    BY <1>1 DEF IInv, RowsFollowTargets, Before
  <2>2. QED
    BY <1>1, <2>1 DEF RowsFollowTargets, Before
<1>2. ASSUME UNCHANGED <<cfg, vis, at, rows, end>>,
             \/ pc' = pc
             \/ pc \in {"work", "report"} /\ pc' \in {"report", "row"}
             \/ pc = "flush" /\ pc' = "conclude"
      PROVE  RowsFollowTargets'
  <2>1. PlacesSoFar' = PlacesSoFar /\ Words' = Words
    BY <1>2, SameLabels DEF PlacesSoFar, Words
  <2>2. ExitCode(Words)' = ExitCode(Words)
    BY <1>2, <2>1 DEF ExitCode
  <2>3. QED
    BY <1>2, <2>1, <2>2, SamePlan, SameLabels DEF IInv, RowsFollowTargets, Before
<1>3. CASE ReadDefaults
  <2>1. pc \in Before /\ rows' = rows
    BY <1>3 DEF ReadDefaults, FailRun, Before, runVars
  <2>2. \/ end' = end /\ pc' \in Before
        \/ end'.kind = "fatal" /\ pc' = "done"
    BY <1>3 DEF ReadDefaults, FailRun, Before, runVars
  <2>3. QED
    BY <1>1, <2>1, <2>2
<1>4. CASE ListFleet
  <2>1. pc \in Before /\ rows' = rows /\ end' = end /\ pc' \in Before
    BY <1>4 DEF ListFleet, Before
  <2>2. QED
    BY <1>1, <2>1
<1>5. CASE DiscoveryFails
  BY <1>1, <1>5 DEF DiscoveryFails, FailRun, Before
<1>6. CASE Probe
  <2>1. pc \in Before /\ rows' = rows /\ end' = end /\ pc' \in Before
    BY <1>6 DEF Probe, Before
  <2>2. QED
    BY <1>1, <2>1
<1>7. CASE MaskFleet
  <2>1. pc \in Before /\ rows' = rows /\ end' = end /\ pc' \in Before
    BY <1>7 DEF MaskFleet, Before
  <2>2. QED
    BY <1>1, <2>1
<1>8. CASE Announce
  <2>1. CASE FailRun
    BY <1>1, <1>8, <2>1 DEF Announce, FailRun, Before
  <2>2. CASE at' \in Following(0) /\ pc' = "work" /\ UNCHANGED <<cfg, vis, rows, end>>
    <3>1. rows = <<>> /\ end.kind = "running"
      BY <1>8 DEF Announce, IInv, TypeOK, FatalIsOver, RowsFollowTargets, Before
    <3>2. at' \in Places /\ {k \in Places : k < at'} = {}
      BY <2>2, NextTarget, PlacesAreOne DEF IInv, TypeOK
    <3>3. Places' = Places
      BY <2>2, SameLabels
    <3>4. PlacesSoFar' = {k \in Places : k < at}'
      BY <2>2, <3>1, <3>2, <3>3 DEF PlacesSoFar
    <3>5. QED
      BY <2>2, <3>1, <3>4 DEF RowsFollowTargets, Before
  <2>3. QED
    BY <1>8, <2>1, <2>2 DEF Announce
<1>9. CASE ProcessTarget
  BY <1>2, <1>9 DEF ProcessTarget
<1>10. CASE TargetCrashes
  BY <1>2, <1>10 DEF TargetCrashes, CrashFailsTarget
<1>11. CASE CloseTarget
  BY <1>2, <1>11 DEF CloseTarget, Account
<1>12. CASE ReportThrows
  <2>1. end'.kind = "thrown" /\ Deliverable(Target)' /\ pc' = "flush"
    BY <1>12, SamePlan DEF ReportThrows, IInv, TypeOK
  <2>2. UNCHANGED <<cfg, vis, rows>>
    BY <1>12 DEF ReportThrows
  <2>3. QED
    BY <2>1, <2>2, SameLabels DEF IInv, RowsFollowTargets, Before
<1>13. CASE PushRow
  <2>1. UNCHANGED <<cfg, vis, end>> /\ pc = "row" /\ at \in Places /\ end.kind = "running"
    BY <1>13 DEF PushRow, history, IInv, TypeOK, RowsFollowTargets
  <2>2. Target \in ToSet(Ordered) /\ Place(Target) = at /\ at \in Nat
    BY <2>1, PlacesAreOne DEF IInv, TypeOK, Target
  <2>3. rows \in Seq(Row)
        /\ rows' = Append(rows, [target |-> Target, display |-> Display(Target), result |-> result])
    BY <1>13 DEF PushRow, IInv, TypeOK
  <2>4. /\ DOMAIN rows = 1..Len(rows) /\ Len(rows) \in Nat /\ DOMAIN rows' = 1..(Len(rows) + 1)
        /\ \A i \in DOMAIN rows : rows'[i] = rows[i]
        /\ rows'[Len(rows) + 1].target = Target /\ rows'[Len(rows) + 1].display = Display(Target)
    BY <2>3
  <2>5. \A i \in DOMAIN rows : Place(rows[i].target) \in Places /\ Place(rows[i].target) < at
    BY <2>1 DEF IInv, RowsFollowTargets, PlacesSoFar
  <2>6. \A i \in DOMAIN rows' :
          /\ rows'[i].target \in ToSet(Ordered)
          /\ rows'[i].display = Display(rows'[i].target)
    BY <2>2, <2>4 DEF IInv, RowsFollowTargets
  <2>7. \A i, j \in DOMAIN rows' : i < j => Place(rows'[i].target) < Place(rows'[j].target)
    <3> SUFFICES ASSUME NEW i \in DOMAIN rows', NEW j \in DOMAIN rows', i < j
                 PROVE  Place(rows'[i].target) < Place(rows'[j].target)
      OBVIOUS
    <3>1. i \in DOMAIN rows
      BY <2>4
    <3>2. CASE j \in DOMAIN rows
      BY <2>4, <3>1, <3>2 DEF IInv, RowsFollowTargets
    <3>3. CASE j = Len(rows) + 1
      BY <2>2, <2>4, <2>5, <3>1, <3>3
    <3>4. QED
      BY <2>4, <3>2, <3>3
  <2>8. {Place(rows'[i].target) : i \in DOMAIN rows'} = {k \in Places : k <= at}
    <3>1. {Place(rows'[i].target) : i \in DOMAIN rows'} = PlacesSoFar \cup {at}
      <4>1. \A i \in DOMAIN rows' : i \in DOMAIN rows \/ i = Len(rows) + 1
        BY <2>4
      <4>2. Len(rows) + 1 \in DOMAIN rows' /\ \A i \in DOMAIN rows : i \in DOMAIN rows'
        BY <2>4
      <4>3. QED
        BY <2>2, <2>4, <4>1, <4>2 DEF PlacesSoFar
    <3>2. PlacesSoFar = {k \in Places : k < at}
      BY <2>1 DEF IInv, RowsFollowTargets
    <3>3. \A k \in Places : k <= at <=> k < at \/ k = at
      BY <2>2, PlacesAreOne DEF IInv, TypeOK
    <3>4. QED
      BY <2>1, <3>1, <3>2, <3>3
  <2>9. PlacesSoFar' = {k \in Places : k <= at}
    BY <2>1, <2>8, SameLabels DEF PlacesSoFar
  <2>10. CASE at' \in Following(at) /\ pc' = "work"
    <3>1. {k \in Places : k < at'} = {k \in Places : k <= at}
      BY <2>2, <2>10, NextTarget DEF IInv, TypeOK
    <3>2. PlacesSoFar' = {k \in Places : k < at}'
      BY <2>1, <2>9, <3>1, SameLabels
    <3>3. QED
      BY <2>1, <2>6, <2>7, <2>10, <3>2, SameLabels DEF RowsFollowTargets, Before
  <2>11. CASE Following(at) = {} /\ pc' = "flush"
    <3>1. PlacesSoFar' = Places'
      BY <2>1, <2>2, <2>9, <2>11, NextTarget, SameLabels DEF IInv, TypeOK
    <3>2. QED
      BY <2>1, <2>6, <2>7, <2>11, <3>1, SameLabels DEF RowsFollowTargets, Before
  <2>12. QED
    BY <1>13, <2>10, <2>11 DEF PushRow
<1>14. CASE Flush
  BY <1>2, <1>14 DEF Flush, runVars
<1>15. CASE Conclude
  <2>1. UNCHANGED <<cfg, vis, at, rows>> /\ pc = "conclude" /\ pc' = "done"
    BY <1>15 DEF Conclude
  <2>2. PlacesSoFar' = PlacesSoFar /\ ExitCode(Words)' = ExitCode(Words)
    BY <2>1, SameLabels DEF PlacesSoFar, Words, ExitCode
  <2>3. \/ end' = end /\ end.kind = "thrown"
        \/ end'.kind = "concluded" /\ end'.exit = ExitCode(Words) /\ end.kind # "thrown"
    BY <1>15 DEF Conclude
  <2>4. end.kind # "fatal"
    BY <2>1 DEF IInv, FatalIsOver
  <2>5. QED
    BY <2>1, <2>2, <2>3, <2>4, SamePlan, SameLabels DEF IInv, RowsFollowTargets, Before
<1>16. CASE ChangeVisibility
  BY <1>2, <1>16 DEF ChangeVisibility, runVars
<1>17. CASE UNCHANGED vars
  BY <1>2, <1>17 DEF vars, runVars
<1>18. QED
  BY <1>3, <1>4, <1>5, <1>6, <1>7, <1>8, <1>9, <1>10, <1>11, <1>12, <1>13, <1>14, <1>15,
     <1>16, <1>17 DEF Next

-----------------------------------------------------------------------------
(* What the run believes is true of the repositories that stayed as they were,
   and the mask covers all it must: the invariant the theorems below rest on. *)
THEOREM Invariant == Spec => []IInv
<1>1. IInv /\ [Next]_vars => IInv'
  BY TypeStep, BeliefsStep, SecretsStep, ReportsStep, AccountsStep, RowsStep DEF IInv
<1>2. QED
  BY <1>1, InvariantInit, PTL DEF Spec

(* No public line names a repository that is not public, whatever fails. *)
THEOREM SecretsAreKept == Spec => []SecretsStaySecret
<1>1. IInv => SecretsStaySecret
  BY DEF IInv
<1>2. QED
  BY <1>1, Invariant, PTL

(* Whenever the run names a repository, all it must hide is registered. *)
THEOREM MasksAreFirst == Spec => MasksComeFirst
<1>1. ASSUME IInv, [Next]_vars, named' # named, end'.kind # "fatal",
             NEW s \in ToSet(Ordered) \cup cfg.filtered, Secret(s)
      PROVE  s \in masked
  <2>1. s \in Slugs
    BY <1>1, ConfigFacts DEF IInv, TypeOK
  <2>2. \A t : Say(Traced(t, TRUE)) => named' = named
    BY DEF Say, Traced
  <2>3. Announce \/ ProcessTarget \/ TargetCrashes
    <3>1. ~ReadDefaults /\ ~ListFleet /\ ~MaskFleet /\ ~UNCHANGED vars
      BY <1>1 DEF ReadDefaults, FailRun, ListFleet, MaskFleet, vars, runVars, history
    <3>2. ~DiscoveryFails
      BY <1>1 DEF DiscoveryFails, FailRun
    <3>3. ~Probe
      BY <1>1, <2>2 DEF Probe
    <3>4. ~CloseTarget /\ ~ReportThrows /\ ~PushRow
      BY <1>1 DEF CloseTarget, ReportThrows, PushRow, history
    <3>5. ~Flush /\ ~Conclude /\ ~ChangeVisibility
      BY <1>1 DEF Flush, Conclude, ChangeVisibility, history
    <3>6. QED
      BY <1>1, <3>1, <3>2, <3>3, <3>4, <3>5 DEF Next
  <2>4. pc \in Late
    BY <2>3 DEF Announce, ProcessTarget, TargetCrashes, Late
  <2>5. QED
    BY <1>1, <2>1, <2>4, SecretsAreMasked
<1>2. IInv /\ [Next]_vars =>
        [named' # named /\ end'.kind # "fatal" =>
           \A s \in ToSet(Ordered) \cup cfg.filtered : Secret(s) => s \in masked]_vars
  BY <1>1
<1>3. QED
  BY <1>2, Invariant, PTL DEF Spec, MasksComeFirst

(* A report goes only to a repository that was proven private. *)
THEOREM ReportsAreProven == Spec => []ReportsOnlyWhereProven
<1>1. IInv => ReportsOnlyWhereProven
  BY DEF IInv, ReportsProven, ProvenTo, ReportsOnlyWhereProven
<1>2. QED
  BY <1>1, Invariant, PTL

(* At the end of a run, thrown or not, no report of a concluded target is lost. *)
THEOREM NoReportIsLost == Spec => []ReportsAreSettled
<1>1. ASSUME IInv PROVE ReportsAreSettled
  <2>1. \A i \in DOMAIN rows : rows[i].target \in Slugs
    BY <1>1, RowTargets DEF IInv
  <2>2. QED
    BY <1>1, <2>1 DEF IInv, ReportsAccounted, ReportsAreSettled, Settled
<1>2. QED
  BY <1>1, Invariant, PTL

(* A run that concludes has one row per target, in order, each under its own
   label, and the exit code its rows call for; a crash stops none.         *)
THEOREM TargetsConclude == Spec => []EveryTargetConcludes
<1>1. ASSUME IInv PROVE EveryTargetConcludes
  <2>1. end.kind = "thrown" => Deliverable(Target)
    BY <1>1 DEF IInv, RowsFollowTargets
  <2>2. ASSUME end.kind = "concluded"
        PROVE  /\ {rows[i].target : i \in DOMAIN rows} = ToSet(Ordered)
               /\ \A i, j \in DOMAIN rows : i < j => Place(rows[i].target) < Place(rows[j].target)
               /\ \A i, j \in DOMAIN rows : rows[i].display = rows[j].display => i = j
    <3>1. /\ PlacesSoFar = Places
          /\ \A i \in DOMAIN rows :
               rows[i].target \in ToSet(Ordered) /\ rows[i].display = Display(rows[i].target)
          /\ \A i, j \in DOMAIN rows : i < j => Place(rows[i].target) < Place(rows[j].target)
      BY <1>1, <2>2 DEF IInv, RowsFollowTargets
    <3>2. ASSUME NEW s \in ToSet(Ordered) PROVE \E i \in DOMAIN rows : rows[i].target = s
      <4>1. PICK i \in DOMAIN rows : Place(rows[i].target) = Place(s)
        BY <1>1, <3>1, PlacesAreOne DEF PlacesSoFar, IInv, TypeOK
      <4>2. QED
        BY <1>1, <3>1, <4>1, PlacesAreOne DEF IInv, TypeOK
    <3>3. ASSUME NEW i \in DOMAIN rows, NEW j \in DOMAIN rows, i # j
          PROVE  rows[i].display # rows[j].display
      <4>1. i \in Nat /\ j \in Nat
        BY <1>1 DEF IInv, TypeOK
      <4>2. i < j \/ j < i
        BY <3>3, <4>1
      <4>3. QED
        BY <1>1, <3>1, <4>2, LabelsDiffer DEF IInv, TypeOK
    <3>4. QED
      BY <3>1, <3>2, <3>3
  <2>3. ASSUME end.kind = "concluded"
        PROVE  end.exit = 1 <=>
                 \E i \in DOMAIN rows :
                   rows[i].result = "failed" \/ (cfg.check /\ rows[i].result = "drift")
    <3>1. end.exit = ExitCode(Words)
      BY <1>1, <2>3 DEF IInv, RowsFollowTargets
    <3>2. ("failed" \in Words \/ (cfg.check /\ "drift" \in Words))
            <=> \E i \in DOMAIN rows :
                  rows[i].result = "failed" \/ (cfg.check /\ rows[i].result = "drift")
      BY DEF Words
    <3>3. end.exit = 1 <=> "failed" \in Words \/ (cfg.check /\ "drift" \in Words)
      BY <3>1 DEF ExitCode
    <3>4. QED
      BY <3>2, <3>3
  <2>4. QED
    BY <2>1, <2>2, <2>3 DEF EveryTargetConcludes
<1>2. QED
  BY <1>1, Invariant, PTL
=============================================================================
