-------------------------- MODULE DocumentRunProofs --------------------------
(***************************************************************************)
(* Proofs about DocumentRun: what a snapshot's document says of the        *)
(* repository it was read from, that the files a run touches stay whole,   *)
(* that what a render folds is a document the planner accepts and says     *)
(* what the highest of its layers declare, and that the same content is    *)
(* written as the same bytes.                                              *)
(***************************************************************************)
EXTENDS DocumentRun, Numbers, SequenceTheorems, TLAPS

-----------------------------------------------------------------------------
(* The inductive invariant. *)

Phases == {"start", "merging", "locating", "reading", "open", "writing", "renaming", "over"}
Statuses == {"snapshot", "failed", "skipped", "unsupported"}
Failures == {"rate-limit", "permission-denied", "transport", "malformed", "server-error", "validation"}
Reasons == Failures \cup {"live-duplicate", "nothing", "concealed", "left out", "no read"}
RowSpace == [key : DOMAIN Kind, status : Statuses, why : SUBSET Reasons]
Results == {"refused", "malformed", "failed", "rendered", "partial", "snapshot"}
ReadSpace(names) ==
  [n : Nat \ {0}, page : Nat \ {0}, items : Seq(names), tries : [limited : Nat, server : Nat]]

StateOK ==
  /\ case \in Cases /\ phase \in Phases
  /\ Holds(case.names, live) /\ touched \subseteq Held
  /\ spent \in [FaultKinds \cup {"file", "edit", "crash"} -> Nat]
  /\ results \in Seq(Results) /\ (phase = "start" => results = <<>>)

(* Each section walked has one row, and that row is true; the document holds no
   item twice.                                                               *)
Once(s) == Kind[s] = "list" /\ doc[s] # Unset => IsInjective(doc[s])
RowTells(s, row) == row.key = s /\ Tells(s, row) /\ Once(s)
ReadSoFar ==
  phase = "reading" =>
    /\ read \in ReadSpace(case.names) /\ read.n <= Len(Sections) + 1
    /\ doc = [s \in ToSet(Sections) |-> doc[s]]
    /\ rows \in Seq(RowSpace)
    /\ \A row \in ToSet(rows) : \E k \in DOMAIN Sections : k < read.n /\ row.key = Sections[k]
    /\ \A row, other \in ToSet(rows) : row.key = other.key => row = other
    /\ \A k \in DOMAIN Sections : k < read.n /\ Sections[k] \in Selected =>
         \E row \in ToSet(rows) : RowTells(Sections[k], row)

(* The section being read: its attempts are faults that happened; the pages it has
   are the beginning of what GitHub holds, unless people changed it; a second read
   follows a first one that was granted.                                     *)
Attempts ==
  read.tries.limited <= spent["near"] /\ read.tries.server <= spent["server"] + spent["lost"]
PagesSoFar ==
  Kind[Section] = "list" /\ Section \notin touched =>
    LET seen == (read.page - 1) * PageSize
    IN  seen <= Len(live[Section]) /\ read.items = SubSeq(live[Section], 1, seen)
SecondRead ==
  Kind[Section] = "shared" => read.page \in {1, 2} /\ (read.page = 2 => Section \in case.granted)
UnderRead ==
  phase = "reading" /\ read.n <= Len(Sections) => Attempts /\ PagesSoFar /\ SecondRead

PartialIsSaid ==
  phase = "locating" /\ results # <<>> /\ Last(results) \in {"snapshot", "partial"} =>
    (Last(results) = "partial" <=> "skipped" \in StatusesOf(rows))

IInv == StateOK /\ ReadSoFar /\ UnderRead /\ PartialIsSaid

-----------------------------------------------------------------------------
(* Sequences. *)

(* What a sequence holds once an element is appended. *)
LEMMA Appended ==
  ASSUME NEW S, NEW s \in Seq(S), NEW e \in S
  PROVE  /\ Append(s, e) \in Seq(S) /\ Append(s, e) # <<>> /\ Last(Append(s, e)) = e
         /\ ToSet(Append(s, e)) = ToSet(s) \cup {e}
<1>1. /\ Append(s, e) \in Seq(S) /\ Append(s, e) # <<>> /\ Len(Append(s, e)) = Len(s) + 1
      /\ Append(s, e)[Len(s) + 1] = e /\ Len(s) \in Nat
      /\ DOMAIN s = 1..Len(s) /\ DOMAIN Append(s, e) = 1..(Len(s) + 1)
      /\ \A i \in DOMAIN s : Append(s, e)[i] = s[i]
  OBVIOUS
<1>2. Last(Append(s, e)) = e
  BY <1>1 DEF Last
<1>3. \A i \in 1..(Len(s) + 1) : i = Len(s) + 1 \/ i \in DOMAIN s
  BY <1>1
<1>4. Len(s) + 1 \in 1..(Len(s) + 1) /\ \A i \in DOMAIN s : i \in 1..(Len(s) + 1)
  BY <1>1
<1>5. ToSet(Append(s, e)) \subseteq ToSet(s) \cup {e}
  BY <1>1, <1>3 DEF ToSet
<1>6. ToSet(s) \cup {e} \subseteq ToSet(Append(s, e))
  BY <1>1, <1>4 DEF ToSet
<1>7. QED
  BY <1>1, <1>2, <1>5, <1>6

(* Where the elements of a concatenation are. *)
LEMMA JoinedPlaces ==
  ASSUME NEW S, NEW s \in Seq(S), NEW t \in Seq(S)
  PROVE  /\ s \o t \in Seq(S) /\ Len(s) \in Nat /\ Len(t) \in Nat
         /\ DOMAIN (s \o t) = 1..(Len(s) + Len(t))
         /\ \A k \in 1..(Len(s) + Len(t)) : (s \o t)[k] = IF k <= Len(s) THEN s[k] ELSE t[k - Len(s)]
<1> DEFINE c == s \o t
<1>1. c \in Seq(S) /\ Len(s) \in Nat /\ Len(t) \in Nat /\ Len(c) = Len(s) + Len(t) /\ DOMAIN c = 1..Len(c)
  OBVIOUS
<1>2. \A k \in 1..(Len(s) + Len(t)) : c[k] = IF k <= Len(s) THEN s[k] ELSE t[k - Len(s)]
  OBVIOUS
<1>3. QED
  BY <1>1, <1>2

(* The smaller of two numbers. *)
LEMMA SmallerOfTwo ==
  ASSUME NEW a \in Nat, NEW b \in Nat
  PROVE  Min({a, b}) = IF a <= b THEN a ELSE b
<1>1. CASE a <= b
  <2>1. a \in {a, b} /\ \A y \in {a, b} : a <= y
    BY <1>1
  <2>2. \A x \in {a, b} : (\A y \in {a, b} : x <= y) => x = a
    BY <1>1
  <2>3. QED
    BY <1>1, <2>1, <2>2 DEF Min
<1>2. CASE ~(a <= b)
  <2>1. b \in {a, b} /\ \A y \in {a, b} : b <= y
    BY <1>2
  <2>2. \A x \in {a, b} : (\A y \in {a, b} : x <= y) => x = b
    BY <1>2
  <2>3. QED
    BY <1>2, <2>1, <2>2 DEF Min
<1>3. QED
  BY <1>1, <1>2

(* A page begins where the one before it ended. *)
LEMMA PageEnds ==
  ASSUME NEW page \in Nat \ {0}
  PROVE  /\ (page - 1) * PageSize \in Nat /\ page * PageSize \in Nat
         /\ page * PageSize = (page - 1) * PageSize + PageSize
<1>1. PageSize \in Nat /\ page - 1 \in Nat
  BY SectionsAssumption
<1>2. (page - 1) * PageSize \in Nat /\ page * PageSize \in Nat
  BY <1>1
<1>3. page * PageSize = (page - 1) * PageSize + PageSize
  BY <1>1
<1>4. QED
  BY <1>2, <1>3

(* A page is part of the list; the pages up to one are the list's beginning. *)
LEMMA PagesJoin ==
  ASSUME NEW S, NEW list \in Seq(S), NEW page \in Nat \ {0}
  PROVE  /\ PageOf(list, page) \in Seq(S)
         /\ (page - 1) * PageSize <= Len(list) =>
              SubSeq(list, 1, (page - 1) * PageSize) \o PageOf(list, page)
                = IF page * PageSize < Len(list) THEN SubSeq(list, 1, page * PageSize) ELSE list
<1> DEFINE k == (page - 1) * PageSize
<1> DEFINE m == page * PageSize
<1> DEFINE n == Min({m, Len(list)})
<1>1. k \in Nat /\ m \in Nat /\ m = k + PageSize /\ PageSize \in Nat /\ Len(list) \in Nat
  BY PageEnds, SectionsAssumption
<1> HIDE DEF k, m
<1>2. n = IF m <= Len(list) THEN m ELSE Len(list)
  BY <1>1, SmallerOfTwo
<1> HIDE DEF n
<1>3. PageOf(list, page) = SubSeq(list, k + 1, n)
  BY DEF PageOf, k, m, n
<1>4. k + 1 \in Int /\ n \in Int /\ \A i \in (k + 1)..n : list[i] \in S
  BY <1>1, <1>2
<1>5. PageOf(list, page) \in Seq(S)
  BY <1>3, <1>4, SubSeqProperties
<1>6. ASSUME k <= Len(list)
      PROVE  SubSeq(list, 1, k) \o PageOf(list, page) = IF m < Len(list) THEN SubSeq(list, 1, m) ELSE list
  <2>1. k \in 1 - 1..Len(list) /\ n \in k..Len(list) /\ 1 \in 1..Len(list) + 1
    BY <1>1, <1>2, <1>6
  <2>2. SubSeq(list, 1, k) \o SubSeq(list, k + 1, n) = SubSeq(list, 1, n)
    BY <2>1, ConcatAdjacentSubSeq
  <2>3. SubSeq(list, 1, Len(list)) = list
    BY SubSeqFull
  <2>4. CASE m < Len(list)
    <3>1. n = m
      BY <1>1, <1>2, <2>4
    <3>2. QED
      BY <1>3, <2>2, <2>4, <3>1
  <2>5. CASE ~(m < Len(list))
    <3>1. n = Len(list)
      BY <1>1, <1>2, <2>5
    <3>2. QED
      BY <1>3, <2>2, <2>3, <2>5, <3>1
  <2>6. QED
    BY <2>4, <2>5
<1>7. QED
  BY <1>5, <1>6 DEF k, m

(* A list of different items with one taken out, or a new one put in, still is one. *)
LEMMA RemovedOne ==
  ASSUME NEW S, NEW list \in Seq(S), IsInjective(list), NEW i \in DOMAIN list
  PROVE  RemoveAt(list, i) \in Seq(S) /\ IsInjective(RemoveAt(list, i))
<1> DEFINE a == SubSeq(list, 1, i - 1)
<1> DEFINE b == SubSeq(list, i + 1, Len(list))
<1>1. i \in Nat /\ i >= 1 /\ i <= Len(list) /\ Len(list) \in Nat /\ DOMAIN list = 1..Len(list)
      /\ \A k \in 1..Len(list) : list[k] \in S
  OBVIOUS
<1>2. a \in Seq(S) /\ Len(a) = i - 1 /\ \A k \in 1..(i - 1) : a[k] = list[k]
  <2>1. 1 \in Int /\ i - 1 \in Int /\ \A k \in 1..(i - 1) : list[k] \in S
    BY <1>1
  <2>2. a \in Seq(S) /\ Len(a) = (IF 1 <= i - 1 THEN i - 1 - 1 + 1 ELSE 0) /\ \A k \in 1..(i - 1 - 1 + 1) : a[k] = list[1 + k - 1]
    BY <2>1, SubSeqProperties
  <2>3. QED
    BY <1>1, <2>2
<1>3. b \in Seq(S) /\ Len(b) = Len(list) - i /\ \A k \in 1..(Len(list) - i) : b[k] = list[i + k]
  <2>1. i + 1 \in Int /\ Len(list) \in Int /\ \A k \in (i + 1)..Len(list) : list[k] \in S
    BY <1>1
  <2>2. b \in Seq(S) /\ Len(b) = (IF i + 1 <= Len(list) THEN Len(list) - (i + 1) + 1 ELSE 0) /\ \A k \in 1..(Len(list) - (i + 1) + 1) : b[k] = list[(i + 1) + k - 1]
    BY <2>1, SubSeqProperties
  <2>3. QED
    BY <1>1, <2>2
<1>4. RemoveAt(list, i) = a \o b
  BY DEF RemoveAt
<1> HIDE DEF a, b
<1> DEFINE r == a \o b
<1>5. r \in Seq(S) /\ DOMAIN r = 1..(Len(list) - 1)
      /\ \A k \in 1..(Len(list) - 1) : r[k] = IF k < i THEN list[k] ELSE list[k + 1]
  <2>1. /\ r \in Seq(S) /\ DOMAIN r = 1..(Len(a) + Len(b))
        /\ \A k \in 1..(Len(a) + Len(b)) : r[k] = IF k <= Len(a) THEN a[k] ELSE b[k - Len(a)]
    BY <1>2, <1>3, JoinedPlaces
  <2>2. Len(a) + Len(b) = Len(list) - 1
    BY <1>1, <1>2, <1>3
  <2> HIDE DEF r
  <2>3. ASSUME NEW k \in 1..(Len(list) - 1)
        PROVE  r[k] = IF k < i THEN list[k] ELSE list[k + 1]
    <3>1. CASE k < i
      BY <1>1, <1>2, <2>1, <2>2, <3>1
    <3>2. CASE ~(k < i)
      <4>1. k - (i - 1) \in 1..(Len(list) - i) /\ i + (k - (i - 1)) = k + 1 /\ ~(k <= i - 1)
        BY <1>1, <3>2
      <4>2. QED
        BY <1>1, <1>2, <1>3, <2>1, <2>2, <3>2, <4>1
    <3>3. QED
      BY <3>1, <3>2
  <2>4. QED
    BY <2>1, <2>2, <2>3
<1> HIDE DEF r
<1>6. ASSUME NEW j \in DOMAIN r, NEW k \in DOMAIN r, r[j] = r[k] PROVE j = k
  <2>1. /\ j \in Nat /\ k \in Nat
        /\ (j < i => j \in DOMAIN list) /\ (k < i => k \in DOMAIN list)
        /\ j + 1 \in DOMAIN list /\ k + 1 \in DOMAIN list
    BY <1>1, <1>5
  <2>2. \A x, y \in DOMAIN list : list[x] = list[y] => x = y
    BY DEF IsInjective
  <2>3. CASE j < i /\ k < i
    BY <1>5, <1>6, <2>1, <2>2, <2>3
  <2>4. CASE j < i /\ ~(k < i)
    <3>1. j = k + 1
      BY <1>5, <1>6, <2>1, <2>2, <2>4
    <3>2. QED
      BY <1>1, <2>1, <2>4, <3>1
  <2>5. CASE ~(j < i) /\ k < i
    <3>1. j + 1 = k
      BY <1>5, <1>6, <2>1, <2>2, <2>5
    <3>2. QED
      BY <1>1, <2>1, <2>5, <3>1
  <2>6. CASE ~(j < i) /\ ~(k < i)
    <3>1. j + 1 = k + 1
      BY <1>5, <1>6, <2>1, <2>2, <2>6
    <3>2. QED
      BY <2>1, <3>1
  <2>7. QED
    BY <2>3, <2>4, <2>5, <2>6
<1>7. QED
  BY <1>4, <1>5, <1>6 DEF r, IsInjective

(* A new item put into a list of different items leaves them different. *)
LEMMA AddedOne ==
  ASSUME NEW S, NEW list \in Seq(S), IsInjective(list), NEW i \in 1..Len(list) + 1,
         NEW e \in S \ ToSet(list)
  PROVE  InsertAt(list, i, e) \in Seq(S) /\ IsInjective(InsertAt(list, i, e))
<1> DEFINE a == SubSeq(list, 1, i - 1)
<1> DEFINE b == SubSeq(list, i, Len(list))
<1>1. i \in Nat /\ i >= 1 /\ i <= Len(list) + 1 /\ Len(list) \in Nat /\ DOMAIN list = 1..Len(list)
      /\ \A k \in 1..Len(list) : list[k] \in S
  OBVIOUS
<1>2. a \in Seq(S) /\ Len(a) = i - 1 /\ \A k \in 1..(i - 1) : a[k] = list[k]
  <2>1. 1 \in Int /\ i - 1 \in Int /\ \A k \in 1..(i - 1) : list[k] \in S
    BY <1>1
  <2>2. a \in Seq(S) /\ Len(a) = (IF 1 <= i - 1 THEN i - 1 - 1 + 1 ELSE 0) /\ \A k \in 1..(i - 1 - 1 + 1) : a[k] = list[1 + k - 1]
    BY <2>1, SubSeqProperties
  <2>3. QED
    BY <1>1, <2>2
<1>3. b \in Seq(S) /\ Len(b) = Len(list) - i + 1 /\ \A k \in 1..(Len(list) - i + 1) : b[k] = list[i + k - 1]
  <2>1. i \in Int /\ Len(list) \in Int /\ \A k \in i..Len(list) : list[k] \in S
    BY <1>1
  <2>2. b \in Seq(S) /\ Len(b) = (IF i <= Len(list) THEN Len(list) - i + 1 ELSE 0) /\ \A k \in 1..(Len(list) - i + 1) : b[k] = list[i + k - 1]
    BY <2>1, SubSeqProperties
  <2>3. QED
    BY <1>1, <2>2
<1>4. InsertAt(list, i, e) = a \o <<e>> \o b
  BY DEF InsertAt
<1> HIDE DEF a, b
<1> DEFINE r == a \o <<e>> \o b
<1>5. r \in Seq(S) /\ DOMAIN r = 1..(Len(list) + 1)
      /\ \A k \in 1..(Len(list) + 1) :
           r[k] = IF k < i THEN list[k] ELSE IF k = i THEN e ELSE list[k - 1]
  <2>1. a \o <<e>> \in Seq(S) /\ Len(a \o <<e>>) = i /\ (a \o <<e>>)[i] = e
        /\ \A k \in 1..(i - 1) : (a \o <<e>>)[k] = list[k]
    BY <1>1, <1>2
  <2> DEFINE c == a \o <<e>>
  <2> HIDE DEF c
  <2>2. c \o b \in Seq(S) /\ DOMAIN (c \o b) = 1..(Len(list) + 1)
        /\ \A k \in 1..(Len(list) + 1) : (c \o b)[k] = IF k <= i THEN c[k] ELSE list[k - 1]
    <3>1. c \in Seq(S) /\ Len(c) = i
      BY <2>1 DEF c
    <3>2. /\ c \o b \in Seq(S) /\ DOMAIN (c \o b) = 1..(Len(c) + Len(b))
          /\ \A k \in 1..(Len(c) + Len(b)) : (c \o b)[k] = IF k <= Len(c) THEN c[k] ELSE b[k - Len(c)]
      BY <1>3, <3>1, JoinedPlaces
    <3>3. Len(c) + Len(b) = Len(list) + 1
      BY <1>1, <1>3, <3>1
    <3>4. ASSUME NEW k \in 1..(Len(list) + 1), ~(k <= i) PROVE b[k - i] = list[k - 1]
      <4>1. k - i \in 1..(Len(list) - i + 1) /\ i + (k - i) - 1 = k - 1
        BY <1>1, <3>4
      <4>2. QED
        BY <1>3, <4>1
    <3>5. QED
      BY <3>1, <3>2, <3>3, <3>4
  <2>3. \A k \in 1..(Len(list) + 1) : (c \o b)[k] = IF k < i THEN list[k] ELSE IF k = i THEN e ELSE list[k - 1]
    BY <1>1, <2>1, <2>2 DEF c
  <2>4. QED
    BY <2>2, <2>3 DEF c
<1> HIDE DEF r
<1>6. \A x \in DOMAIN list : list[x] # e
  BY DEF ToSet
<1>7. ASSUME NEW j \in DOMAIN r, NEW k \in DOMAIN r, r[j] = r[k] PROVE j = k
  <2> DEFINE of(x) == IF x < i THEN x ELSE x - 1
  <2>1. ASSUME NEW x \in DOMAIN r, x # i PROVE of(x) \in DOMAIN list /\ r[x] = list[of(x)]
    BY <1>1, <1>5, <2>1
  <2>2. r[i] = e /\ j \in Nat /\ k \in Nat
    BY <1>1, <1>5
  <2>3. CASE j = i \/ k = i
    BY <1>6, <1>7, <2>1, <2>2, <2>3
  <2>4. CASE j # i /\ k # i
    <3>1. of(j) = of(k)
      BY <1>7, <2>1, <2>4 DEF IsInjective
    <3>2. QED
      BY <1>1, <2>2, <2>4, <3>1
  <2>5. QED
    BY <2>3, <2>4
<1>8. QED
  BY <1>4, <1>5, <1>7 DEF r, IsInjective

-----------------------------------------------------------------------------
(* Answers. *)

(* GitHub's own answers are final: a 200 is the value, a 403 or a 404 a denial. *)
LEMMA TrueAnswer ==
  ASSUME NEW answer \in {Answer(200), Answer(403), Answer(404)}, NEW tries
  PROVE  /\ ~Retried(answer, tries)
         /\ answer = Answer(200) => Answered(answer)
         /\ answer # Answer(200) => ~Answered(answer) /\ FailureFor(answer) = "permission-denied"
         /\ ReadsAbsent(answer) <=> answer = Answer(404)
<1>1. answer \in {[status |-> 200, wait |-> NoWait, whole |-> TRUE], [status |-> 403, wait |-> NoWait, whole |-> TRUE],
                  [status |-> 404, wait |-> NoWait, whole |-> TRUE]}
  BY DEF Answer
<1>2. ~IsLimited(answer)
  BY <1>1 DEF IsLimited
<1>3. ~Retried(answer, tries)
  BY <1>1, <1>2 DEF Retried, WaitsOut, AsksAgain
<1>4. answer = Answer(200) <=> answer.status = 200
  BY <1>1 DEF Answer
<1>5. answer = Answer(404) <=> answer.status = 404
  BY <1>1 DEF Answer
<1>6. answer.status \in {200, 403, 404} /\ answer.whole
  BY <1>1
<1>7. answer.status # 200 => FailureFor(answer) = "permission-denied"
  BY <1>2, <1>6 DEF FailureFor, Class
<1>8. ReadsAbsent(answer) <=> answer.status = 404
  BY <1>2 DEF ReadsAbsent, Class
<1>9. QED
  BY <1>3, <1>4, <1>5, <1>6, <1>7, <1>8 DEF Answered

(* A fault is no answer and no denial; it fails a section only where it is none the
   client waits out or asks again, or one too many of those.                 *)
LEMMA FaultAnswer ==
  ASSUME NEW kind \in FaultKinds, NEW tries \in [limited : Nat, server : Nat],
         NEW answer, answer = Fault(kind)
  PROVE  /\ ~Answered(answer) /\ ~ReadsAbsent(answer)
         /\ FailureFor(answer) \in Failures /\ FailureFor(answer) # "permission-denied"
         /\ ~Retried(answer, tries) =>
              \/ kind \in {"far", "conflict", "shape"}
              \/ kind = "near" /\ tries.limited >= MaxRetries
              \/ kind \in {"server", "lost"} /\ tries.server >= MaxRetries
         /\ Retried(answer, tries) =>
              /\ Counted(answer, tries) \in [limited : Nat, server : Nat]
              /\ Counted(answer, tries).limited = tries.limited + (IF kind = "near" THEN 1 ELSE 0)
              /\ Counted(answer, tries).server = tries.server + (IF kind \in {"server", "lost"} THEN 1 ELSE 0)
<1>0. tries.limited \in Nat /\ tries.server \in Nat /\ MaxRetries \in Nat /\ MaxRetryWait \in Nat
      /\ MaxRetryWait # NoWait /\ MaxRetryWait + 1 # NoWait /\ ~(MaxRetryWait + 1 <= MaxRetryWait)
  BY ReadAssumption
<1>1. CASE kind = "near"
  <2>1. answer = [status |-> 403, wait |-> MaxRetryWait, whole |-> TRUE]
    BY <1>1 DEF Fault, Limited, Answer
  <2>2. IsLimited(answer) /\ (WaitsOut(answer, tries) <=> tries.limited < MaxRetries) /\ ~AsksAgain(answer, tries)
    BY <1>0, <2>1 DEF IsLimited, WaitsOut, AsksAgain
  <2>3. FailureFor(answer) = "rate-limit" /\ ~Answered(answer) /\ ~ReadsAbsent(answer)
    BY <2>1, <2>2 DEF FailureFor, Class, Answered, ReadsAbsent
  <2>4. Counted(answer, tries) = [tries EXCEPT !.limited = @ + 1]
    BY <2>2 DEF Counted
  <2>5. Retried(answer, tries) <=> tries.limited < MaxRetries
    BY <2>2 DEF Retried
  <2>6. /\ Counted(answer, tries) \in [limited : Nat, server : Nat]
        /\ Counted(answer, tries).limited = tries.limited + 1 /\ Counted(answer, tries).server = tries.server + 0
    BY <1>0, <2>4
  <2>7. QED
    BY <1>0, <1>1, <2>3, <2>5, <2>6 DEF Failures
<1>2. CASE kind = "far"
  <2>1. answer = [status |-> 403, wait |-> MaxRetryWait + 1, whole |-> TRUE]
    BY <1>2 DEF Fault, Limited, Answer
  <2>2. IsLimited(answer) /\ ~WaitsOut(answer, tries) /\ ~AsksAgain(answer, tries)
    BY <1>0, <2>1 DEF IsLimited, WaitsOut, AsksAgain
  <2>3. FailureFor(answer) = "rate-limit" /\ ~Answered(answer) /\ ~ReadsAbsent(answer)
    BY <2>1, <2>2 DEF FailureFor, Class, Answered, ReadsAbsent
  <2>4. QED
    BY <1>2, <2>2, <2>3 DEF Retried, Failures
<1>3. CASE kind \in {"server", "lost"}
  <2>1. answer = [status |-> IF kind = "server" THEN 500 ELSE 0, wait |-> NoWait, whole |-> TRUE]
    BY <1>3 DEF Fault, Answer
  <2>2. ~IsLimited(answer) /\ ~WaitsOut(answer, tries) /\ (AsksAgain(answer, tries) <=> tries.server < MaxRetries)
    BY <1>0, <2>1 DEF IsLimited, WaitsOut, AsksAgain
  <2>3. Class(answer) = "other" /\ ~Answered(answer) /\ ~ReadsAbsent(answer)
    BY <2>1, <2>2 DEF Class, Answered, ReadsAbsent
  <2>4. FailureFor(answer) \in {"transport", "server-error"}
    <3>1. CASE kind = "server"
      BY <2>1, <2>3, <3>1 DEF FailureFor
    <3>2. CASE kind = "lost"
      BY <2>1, <2>3, <3>2 DEF FailureFor
    <3>3. QED
      BY <1>3, <3>1, <3>2
  <2>5. Counted(answer, tries) = [tries EXCEPT !.server = @ + 1]
    BY <2>2 DEF Counted
  <2>6. Retried(answer, tries) <=> tries.server < MaxRetries
    BY <2>2 DEF Retried
  <2>7. /\ Counted(answer, tries) \in [limited : Nat, server : Nat]
        /\ Counted(answer, tries).limited = tries.limited + 0 /\ Counted(answer, tries).server = tries.server + 1
    BY <1>0, <2>5
  <2>8. kind # "near"
    BY <1>3
  <2>9. QED
    BY <1>0, <1>3, <2>3, <2>4, <2>6, <2>7, <2>8 DEF Failures
<1>4. CASE kind = "conflict"
  <2>1. answer = [status |-> 409, wait |-> NoWait, whole |-> TRUE]
    BY <1>4 DEF Fault, Answer
  <2>2. ~IsLimited(answer) /\ ~Retried(answer, tries)
    BY <2>1 DEF IsLimited, WaitsOut, AsksAgain, Retried
  <2>3. Class(answer) = "other" /\ ~Answered(answer) /\ ~ReadsAbsent(answer)
    BY <2>1, <2>2 DEF Class, Answered, ReadsAbsent
  <2>4. FailureFor(answer) = "validation"
    BY <2>1, <2>3 DEF FailureFor
  <2>5. QED
    BY <1>4, <2>2, <2>3, <2>4 DEF Failures
<1>5. CASE kind = "shape"
  <2>1. answer = [status |-> 200, wait |-> NoWait, whole |-> FALSE]
    BY <1>5 DEF Fault, Answer
  <2>2. ~IsLimited(answer) /\ ~Retried(answer, tries)
    BY <2>1 DEF IsLimited, WaitsOut, AsksAgain, Retried
  <2>3. Class(answer) = "other" /\ ~Answered(answer) /\ ~ReadsAbsent(answer)
    BY <2>1, <2>2 DEF Class, Answered, ReadsAbsent
  <2>4. FailureFor(answer) = "malformed"
    BY <2>1, <2>3 DEF FailureFor
  <2>5. QED
    BY <1>5, <2>2, <2>3, <2>4 DEF Failures
<1>6. QED
  BY <1>1, <1>2, <1>3, <1>4, <1>5 DEF FaultKinds

-----------------------------------------------------------------------------
(* What GitHub holds, and the sections of a run. *)

(* A run's sections are of known kinds, each in its one place. *)
LEMMA SectionKinds ==
  /\ Sections \in Seq(DOMAIN Kind) /\ Len(Sections) \in Nat /\ DOMAIN Sections = 1..Len(Sections)
  /\ \A k \in DOMAIN Sections : Sections[k] \in DOMAIN Kind /\ Sections[k] \in ToSet(Sections)
  /\ \A k, m \in DOMAIN Sections : Sections[k] = Sections[m] => k = m
  /\ \A s \in ToSet(Sections) : s \in DOMAIN Kind /\ \E k \in DOMAIN Sections : s = Sections[k]
  /\ \A s \in DOMAIN Kind : Kind[s] \in {"list", "probe", "shared", "writeonly"}
<1>1. Sections \in Seq(DOMAIN Kind) /\ IsInjective(Sections)
  BY SectionsAssumption
<1>2. /\ Len(Sections) \in Nat /\ DOMAIN Sections = 1..Len(Sections)
      /\ \A k \in DOMAIN Sections : Sections[k] \in DOMAIN Kind
  BY <1>1
<1>3. /\ \A k \in DOMAIN Sections : Sections[k] \in ToSet(Sections)
      /\ \A s \in ToSet(Sections) : \E k \in DOMAIN Sections : s = Sections[k]
  BY DEF ToSet
<1>4. QED
  BY <1>1, <1>2, <1>3, SectionsAssumption DEF IsInjective

(* The list or the answer GitHub holds for a section. *)
LEMMA HeldOne ==
  ASSUME NEW names, NEW held, Holds(names, held), NEW s \in DOMAIN Kind
  PROVE  /\ Kind[s] = "list" => held[s] \in Seq(names) /\ IsInjective(held[s])
         /\ Kind[s] = "probe" => held[s] \in BOOLEAN
  BY DEF Holds, Held

(* People leave a list of different items behind. *)
LEMMA EditHolds ==
  ASSUME StateOK, Edit
  PROVE  /\ Holds(case.names, live') /\ touched' \subseteq Held
         /\ touched \subseteq touched'
         /\ \A s \in DOMAIN Kind : s \notin touched' => live'[s] = live[s]
         /\ \A kind \in FaultKinds : spent'[kind] = spent[kind]
         /\ spent' \in [FaultKinds \cup {"file", "edit", "crash"} -> Nat]
<1>0. DOMAIN live = Held /\ \A s \in Held : s \in DOMAIN Kind
  BY DEF StateOK, Holds, Held
<1>0a. PICK s \in DOMAIN live :
         /\ \E now \in IF Kind[s] = "list" THEN Deleted(live[s]) \cup Added(live[s]) ELSE {~ live[s]} :
              live' = [live EXCEPT ![s] = now]
         /\ touched' = touched \cup {s}
         /\ Kind[s] \in {"list", "probe"}
  BY DEF Edit
<1>1. PICK now \in IF Kind[s] = "list" THEN Deleted(live[s]) \cup Added(live[s]) ELSE {~ live[s]} :
        live' = [live EXCEPT ![s] = now] /\ touched' = touched \cup {s}
  BY <1>0a
<1>2. s \in Held /\ s \in DOMAIN Kind
  BY <1>0
<1>3. Kind[s] = "list" => now \in Seq(case.names) /\ IsInjective(now)
  <2>1. SUFFICES ASSUME Kind[s] = "list" PROVE now \in Seq(case.names) /\ IsInjective(now)
    OBVIOUS
  <2>2. live[s] \in Seq(case.names) /\ IsInjective(live[s])
    BY <1>2, <2>1, HeldOne DEF StateOK
  <2>3. CASE now \in Deleted(live[s])
    BY <2>2, <2>3, RemovedOne DEF Deleted
  <2>4. CASE now \in Added(live[s])
    <3>1. PICK i \in 1..Len(live[s]) + 1, n \in case.names \ ToSet(live[s]) : now = InsertAt(live[s], i, n)
      BY <2>4 DEF Added
    <3>2. QED
      BY <2>2, <3>1, AddedOne
  <2>5. QED
    BY <1>1, <2>1, <2>3, <2>4
<1>4. Kind[s] # "list" => now \in BOOLEAN
  <2>1. SUFFICES ASSUME Kind[s] # "list" PROVE now \in BOOLEAN
    OBVIOUS
  <2>2. now = ~live[s]
    BY <1>1, <2>1
  <2>3. QED
    BY <2>2
<1>5. /\ live' = [t \in Held |-> live'[t]]
      /\ live'[s] = now /\ \A t \in Held : t # s => live'[t] = live[t]
  <2>1. live = [t \in Held |-> live[t]]
    BY DEF StateOK, Holds
  <2>2. live' = [t \in Held |-> IF t = s THEN now ELSE live[t]]
    BY <1>1, <1>2, <2>1
  <2>3. \A t \in Held : live'[t] = IF t = s THEN now ELSE live[t]
    BY <2>2
  <2>4. QED
    BY <1>2, <2>2, <2>3
<1>6. Holds(case.names, live')
  <2>1. ASSUME NEW t \in Held
        PROVE  IF Kind[t] = "list" THEN live'[t] \in Seq(case.names) /\ IsInjective(live'[t]) ELSE live'[t] \in BOOLEAN
    <3>1. CASE t = s
      BY <1>3, <1>4, <1>5, <3>1
    <3>2. CASE t # s
      BY <1>5, <3>2 DEF StateOK, Holds
    <3>3. QED
      BY <3>1, <3>2
  <2> DEFINE now2 == live'
  <2>2. now2 = [t \in Held |-> now2[t]]
    BY <1>5
  <2>3. \A t \in Held : IF Kind[t] = "list" THEN now2[t] \in Seq(case.names) /\ IsInjective(now2[t]) ELSE now2[t] \in BOOLEAN
    BY <2>1
  <2> HIDE DEF now2
  <2>4. Holds(case.names, now2)
    BY <2>2, <2>3 DEF Holds
  <2>5. QED
    BY <2>4 DEF now2
<1>7. \A t \in DOMAIN Kind : t \notin touched' => live'[t] = live[t]
  <2>1. ASSUME NEW t \in DOMAIN Kind, t \notin touched' PROVE live'[t] = live[t]
    <3>1. t # s
      BY <1>1, <2>1
    <3>2. live = [u \in Held |-> live[u]]
      BY DEF StateOK, Holds
    <3>3. QED
      BY <1>1, <3>1, <3>2
  <2>2. QED
    BY <2>1
<1>8. /\ \A kind \in FaultKinds : spent'[kind] = spent[kind]
      /\ spent' \in [FaultKinds \cup {"file", "edit", "crash"} -> Nat]
  <2>1. spent' = [spent EXCEPT !["edit"] = @ + 1] /\ spent["edit"] \in Nat
    BY DEF Edit, Spend, StateOK
  <2>2. "edit" \notin FaultKinds
    BY DEF FaultKinds
  <2>3. QED
    BY <2>1, <2>2 DEF StateOK
<1>9. QED
  BY <1>1, <1>2, <1>6, <1>7, <1>8 DEF StateOK

-----------------------------------------------------------------------------
(* The rows a target has. *)

(* A row stays true while people touch more and more faults happen. *)
LEMMA TellsKept ==
  ASSUME StateOK, case' = case, touched \subseteq touched',
         spent' \in [FaultKinds \cup {"file", "edit", "crash"} -> Nat],
         \A kind \in FaultKinds : spent[kind] <= spent'[kind],
         NEW t \in DOMAIN Kind, doc'[t] = doc[t], t \notin touched' => live'[t] = live[t],
         NEW row, RowTells(t, row)
  PROVE  RowTells(t, row)'
<1>1. Excused => Excused'
  <2>1. \A kind \in FaultKinds : spent[kind] \in Nat /\ spent'[kind] \in Nat /\ spent[kind] <= spent'[kind]
    BY DEF StateOK
  <2>2. {"far", "conflict", "shape", "near", "server", "lost"} \subseteq FaultKinds
    BY DEF FaultKinds
  <2>3. /\ \A kind \in {"far", "conflict", "shape"} : spent[kind] > 0 => spent'[kind] > 0
        /\ spent["near"] > MaxRetries => spent'["near"] > MaxRetries
        /\ spent["server"] + spent["lost"] > MaxRetries => spent'["server"] + spent'["lost"] > MaxRetries
    BY <2>1, <2>2, ReadAssumption
  <2>4. QED
    BY <2>3 DEF Excused
<1>2. Once(t)'
  BY DEF RowTells, Once
<1>3. (row.status # "snapshot" => doc[t] = Unset)' /\ (row.status = "unsupported" => Kind[t] = "writeonly")'
  BY DEF RowTells, Tells
<1>4. (row.status = "skipped" => t \notin case.granted /\ case.onMissing = "warn")'
  BY DEF RowTells, Tells
<1>5. (row.status = "failed" =>
        \/ Excused \/ t \in touched
        \/ case.onMissing = "fail" /\ (t \notin case.granted \/ SubGrant \notin case.granted))'
  BY <1>1 DEF RowTells, Tells
<1>6. ASSUME row.status = "snapshot", t \notin touched'
      PROVE  (IF doc[t] # Unset THEN t \in case.granted /\ Complete(t, row)
              ELSE \/ t \in case.granted /\ Nothing(t)
                   \/ t \notin case.granted /\ "concealed" \in row.why)'
  <2>1. t \notin touched /\ live'[t] = live[t]
    BY <1>6
  <2>2. IF doc[t] # Unset THEN t \in case.granted /\ Complete(t, row)
        ELSE \/ t \in case.granted /\ Nothing(t)
             \/ t \notin case.granted /\ "concealed" \in row.why
    BY <1>6, <2>1 DEF RowTells, Tells
  <2>3. (Complete(t, row)' <=> Complete(t, row)) /\ (Nothing(t)' <=> Nothing(t))
    BY <2>1 DEF Complete, Nothing
  <2>4. QED
    BY <2>2, <2>3
<1>7. Tells(t, row)'
  BY <1>3, <1>4, <1>5, <1>6 DEF Tells
<1>8. QED
  BY <1>2, <1>7 DEF RowTells

(* A section's first read begins with nothing read. *)
LEMMA NothingRead ==
  ASSUME Holds(case'.names, live'), NEW n \in Nat \ {0}, read' = FirstRead(n),
         spent' \in [FaultKinds \cup {"file", "edit", "crash"} -> Nat]
  PROVE  read'.n = n /\ (read \in ReadSpace(case.names))' /\ UnderRead'
<1>1. /\ read'.n = n /\ read'.page = 1 /\ read'.items = <<>>
      /\ read'.tries.limited = 0 /\ read'.tries.server = 0
      /\ read' = [n |-> n, page |-> 1, items |-> <<>>, tries |-> [limited |-> 0, server |-> 0]]
  BY DEF FirstRead, Fresh
<1>2. (read \in ReadSpace(case.names))'
  <2>1. <<>> \in Seq(case'.names) /\ [limited |-> 0, server |-> 0] \in [limited : Nat, server : Nat]
    OBVIOUS
  <2>2. QED
    BY <1>1, <2>1 DEF ReadSpace
<1>3. Attempts'
  <2>1. spent'["near"] \in Nat /\ spent'["server"] \in Nat /\ spent'["lost"] \in Nat
    BY DEF FaultKinds
  <2>2. QED
    BY <1>1, <2>1 DEF Attempts
<1>4. ASSUME n <= Len(Sections) PROVE PagesSoFar'
  <2>1. SUFFICES ASSUME Kind[Sections[n]] = "list"
                 PROVE  LET seen == (1 - 1) * PageSize
                        IN  seen <= Len(live'[Sections[n]]) /\ <<>> = SubSeq(live'[Sections[n]], 1, seen)
    BY <1>1 DEF PagesSoFar, Section
  <2>2. n \in DOMAIN Sections
    BY <1>4, SectionKinds
  <2>3. Sections[n] \in Held
    BY <2>1, <2>2, SectionKinds DEF Held
  <2>4. live'[Sections[n]] \in Seq(case'.names)
    BY <2>1, <2>3 DEF Holds
  <2>5. (1 - 1) * PageSize = 0
    BY SectionsAssumption
  <2>6. Len(live'[Sections[n]]) \in Nat /\ SubSeq(live'[Sections[n]], 1, 0) = <<>>
    BY <2>4, SubSeqProperties
  <2>7. QED
    BY <2>5, <2>6
<1>5. SecondRead'
  BY <1>1 DEF SecondRead
<1>6. QED
  BY <1>1, <1>2, <1>3, <1>4, <1>5 DEF UnderRead

(* What every step of a read keeps: people change what they touch, faults add up. *)
Steady ==
  /\ case' = case /\ phase' = phase /\ Holds(case'.names, live')
  /\ touched \subseteq touched' /\ \A s \in DOMAIN Kind : s \notin touched' => live'[s] = live[s]
  /\ spent' \in [FaultKinds \cup {"file", "edit", "crash"} -> Nat]
  /\ \A kind \in FaultKinds : spent[kind] <= spent'[kind]

(* A section ends with a row of its own; the rows before it stay true. *)
LEMMA SectionEnds ==
  ASSUME StateOK, ReadSoFar, phase = "reading", read.n <= Len(Sections), Steady,
         NEW s, s = Section, NEW row \in RowSpace, row.key = s, NEW value,
         EndSection(row, value), RowTells(s, row)'
  PROVE  ReadSoFar' /\ UnderRead'
<1> DEFINE n == read.n
<1>1. /\ n \in Nat \ {0} /\ n \in DOMAIN Sections /\ s = Sections[n] /\ s \in ToSet(Sections)
      /\ n + 1 <= Len(Sections) + 1 /\ n + 1 \in Nat \ {0}
  <2>1. n \in Nat \ {0}
    BY DEF ReadSoFar, ReadSpace
  <2>2. QED
    BY <2>1, SectionKinds DEF Section
<1>2. /\ read'.n = n + 1 /\ (read \in ReadSpace(case.names))' /\ UnderRead'
  <2>1. Holds(case'.names, live')
    BY DEF StateOK, Steady
  <2>2. QED
    BY <1>1, <2>1, NothingRead DEF Steady, EndSection
<1>3. /\ (doc = [t \in ToSet(Sections) |-> doc[t]])'
      /\ \A t \in ToSet(Sections) : t # s => doc'[t] = doc[t]
  <2>1. doc = [t \in ToSet(Sections) |-> doc[t]] /\ doc' = [doc EXCEPT ![s] = value]
    BY DEF ReadSoFar, EndSection
  <2>2. QED
    BY <2>1
<1>4. /\ rows' \in Seq(RowSpace) /\ ToSet(rows') = ToSet(rows) \cup {row}
      /\ \A r \in ToSet(rows) : \E k \in DOMAIN Sections : k < n /\ r.key = Sections[k]
  BY Appended DEF ReadSoFar, EndSection
<1>5. \A r \in ToSet(rows') : \E k \in DOMAIN Sections : k < n + 1 /\ r.key = Sections[k]
  <2>1. \A k \in DOMAIN Sections : k < n => k < n + 1
    BY <1>1, SectionKinds
  <2>2. n < n + 1
    BY <1>1
  <2>3. QED
    BY <1>1, <1>4, <2>1, <2>2
<1>6. \A r, other \in ToSet(rows') : r.key = other.key => r = other
  <2>1. \A r \in ToSet(rows) : r.key # s
    <3>1. \A k \in DOMAIN Sections : k < n => Sections[k] # s
      BY <1>1, SectionKinds
    <3>2. QED
      BY <1>4, <3>1
  <2>2. \A r, other \in ToSet(rows) : r.key = other.key => r = other
    BY DEF ReadSoFar
  <2>3. QED
    BY <1>4, <2>1, <2>2
<1>7. ASSUME NEW k \in DOMAIN Sections, k < n + 1, Sections[k] \in Selected
      PROVE  \E r \in ToSet(rows') : RowTells(Sections[k], r)'
  <2>1. CASE k = n
    BY <1>1, <1>4, <2>1
  <2>2. CASE k # n
    <3>1. k < n /\ Sections[k] # s /\ Sections[k] \in DOMAIN Kind /\ Sections[k] \in ToSet(Sections)
      BY <1>1, <1>7, <2>2, SectionKinds
    <3>2. PICK r \in ToSet(rows) : RowTells(Sections[k], r)
      BY <1>7, <3>1 DEF ReadSoFar
    <3>3. doc'[Sections[k]] = doc[Sections[k]]
      BY <1>3, <3>1
    <3>4. RowTells(Sections[k], r)'
      BY <3>1, <3>2, <3>3, TellsKept DEF Steady
    <3>5. QED
      BY <1>4, <3>2, <3>4
  <2>3. QED
    BY <2>1, <2>2
<1>8. Selected' = Selected
  BY DEF Steady, Selected
<1>9. QED
  BY <1>1, <1>2, <1>3, <1>4, <1>5, <1>6, <1>7, <1>8 DEF ReadSoFar

(* Where no section ends, or one nobody selected, the rows stay. *)
LEMMA RowsStay ==
  ASSUME StateOK, ReadSoFar, phase = "reading", Steady, rows' = rows, doc' = doc,
         (read \in ReadSpace(case.names))',
         \/ read'.n = read.n
         \/ read'.n = read.n + 1 /\ read.n <= Len(Sections) /\ Section \notin Selected
  PROVE  ReadSoFar'
<1>1. /\ read.n \in Nat \ {0} /\ read'.n \in Nat \ {0} /\ read.n <= read'.n
      /\ read.n <= Len(Sections) + 1 /\ read'.n <= Len(Sections) + 1
  <2>1. read.n \in Nat \ {0} /\ read'.n \in Nat \ {0} /\ read.n <= Len(Sections) + 1
    BY DEF ReadSoFar, ReadSpace
  <2>2. QED
    BY <2>1, SectionKinds
<1>2. \A row \in ToSet(rows) : \E k \in DOMAIN Sections : k < read'.n /\ row.key = Sections[k]
  <2>1. \A k \in DOMAIN Sections : k < read.n => k < read'.n
    BY <1>1, SectionKinds
  <2>2. QED
    BY <2>1 DEF ReadSoFar
<1>3. ASSUME NEW k \in DOMAIN Sections, k < read'.n, Sections[k] \in Selected
      PROVE  \E row \in ToSet(rows) : RowTells(Sections[k], row)'
  <2>1. k < read.n
    <3>1. k # read.n \/ read'.n = read.n
      BY <1>3 DEF Section
    <3>2. QED
      BY <1>1, <1>3, <3>1, SectionKinds
  <2>2. PICK row \in ToSet(rows) : RowTells(Sections[k], row)
    BY <1>3, <2>1 DEF ReadSoFar
  <2>3. Sections[k] \in DOMAIN Kind
    BY SectionKinds
  <2>4. RowTells(Sections[k], row)'
    BY <2>2, <2>3, TellsKept DEF Steady
  <2>5. QED
    BY <2>4
<1>4. Selected' = Selected
  BY DEF Steady, Selected
<1>5. QED
  BY <1>1, <1>2, <1>3, <1>4 DEF ReadSoFar

-----------------------------------------------------------------------------
(* One answer to a section's read. *)

Midway ==
  /\ StateOK /\ ReadSoFar /\ UnderRead
  /\ phase = "reading" /\ read.n <= Len(Sections) /\ Section \in Selected
  /\ case' = case /\ phase' = phase /\ live' = live /\ touched' = touched

(* What a read under way may rely on. *)
LEMMA MidwayFacts ==
  ASSUME Midway
  PROVE  /\ read.n \in Nat \ {0} /\ Section \in ToSet(Sections) /\ Section \in DOMAIN Kind
         /\ Kind[Section] \in {"list", "probe", "shared", "writeonly"}
         /\ read \in ReadSpace(case.names) /\ case.onMissing \in {"warn", "fail"}
         /\ Attempts /\ PagesSoFar /\ SecondRead
         /\ Unset \notin Seq(case.names) /\ Unset # <<TRUE>> /\ Unset # <<"all">> /\ Unset # <<"some">>
         /\ (Kind[Section] = "list" => live[Section] \in Seq(case.names) /\ IsInjective(live[Section]))
         /\ (Kind[Section] = "probe" => live[Section] \in BOOLEAN)
<1>1. read \in ReadSpace(case.names) /\ read.n \in Nat \ {0}
  BY DEF Midway, ReadSoFar, ReadSpace
<1>2. read.n \in DOMAIN Sections
  BY <1>1, SectionKinds DEF Midway
<1>3. Section \in ToSet(Sections) /\ Section \in DOMAIN Kind /\ Kind[Section] \in {"list", "probe", "shared", "writeonly"}
  BY <1>2, SectionKinds DEF Section
<1>4. case \in Cases /\ Holds(case.names, live)
  BY DEF Midway, StateOK
<1>5. case.onMissing \in {"warn", "fail"}
      /\ Unset \notin Seq(case.names) /\ Unset # <<TRUE>> /\ Unset # <<"all">> /\ Unset # <<"some">>
  BY <1>4, CasesAssumption
<1>6. Attempts /\ PagesSoFar /\ SecondRead
  BY DEF Midway, UnderRead
<1>7. /\ (Kind[Section] = "list" => live[Section] \in Seq(case.names) /\ IsInjective(live[Section]))
      /\ (Kind[Section] = "probe" => live[Section] \in BOOLEAN)
  BY <1>3, <1>4, HeldOne
<1>8. QED
  BY <1>1, <1>3, <1>5, <1>6, <1>7

(* A fault that happens is counted. *)
LEMMA Spent ==
  ASSUME StateOK, NEW kind \in FaultKinds, Spend(kind)
  PROVE  /\ spent' \in [FaultKinds \cup {"file", "edit", "crash"} -> Nat]
         /\ \A other \in FaultKinds :
              /\ spent[other] \in Nat /\ spent[other] <= spent'[other]
              /\ spent'[other] = IF other = kind THEN spent[kind] + 1 ELSE spent[other]
  BY DEF StateOK, Spend

(* The section a step ends: its document entry, and what is left to show of its row. *)
LEMMA EndsMidway ==
  ASSUME Midway, Steady, NEW s, s = Section, NEW row \in RowSpace, row.key = s, NEW value,
         EndSection(row, value), doc'[s] = value => RowTells(s, row)'
  PROVE  ReadSoFar' /\ UnderRead'
<1>1. doc = [t \in ToSet(Sections) |-> doc[t]] /\ s \in ToSet(Sections) /\ doc' = [doc EXCEPT ![s] = value]
  BY MidwayFacts DEF Midway, ReadSoFar, EndSection
<1>2. doc'[s] = value
  BY <1>1
<1>3. QED
  BY <1>2, SectionEnds DEF Midway

(* A fault ends a read only once no attempt is left. *)
LEMMA FaultExcuses ==
  ASSUME Midway, NEW kind \in FaultKinds, Spend(kind), ~Retried(Fault(kind), read.tries)
  PROVE  Excused'
<1>1. read.tries \in [limited : Nat, server : Nat] /\ StateOK /\ Attempts
  BY MidwayFacts DEF ReadSpace, Midway
<1>2. \/ kind \in {"far", "conflict", "shape"}
      \/ kind = "near" /\ read.tries.limited >= MaxRetries
      \/ kind \in {"server", "lost"} /\ read.tries.server >= MaxRetries
  <2>1. PICK answer : answer = Fault(kind)
    OBVIOUS
  <2>2. QED
    BY <1>1, <2>1, FaultAnswer
<1>3. /\ read.tries.limited \in Nat /\ read.tries.server \in Nat /\ MaxRetries \in Nat
      /\ read.tries.limited <= spent["near"] /\ read.tries.server <= spent["server"] + spent["lost"]
  BY <1>1, ReadAssumption DEF Attempts
<1>4. /\ spent["near"] \in Nat /\ spent["server"] \in Nat /\ spent["lost"] \in Nat /\ spent[kind] \in Nat
      /\ spent'[kind] = spent[kind] + 1
      /\ \A other \in {"near", "server", "lost"} : other # kind => spent'[other] = spent[other]
  BY <1>1, Spent DEF FaultKinds
<1>5. CASE kind \in {"far", "conflict", "shape"}
  <2>1. spent'[kind] > 0
    BY <1>4
  <2>2. QED
    BY <1>5, <2>1 DEF Excused
<1>6. CASE kind = "near" /\ read.tries.limited >= MaxRetries
  <2>1. spent'["near"] > MaxRetries
    BY <1>3, <1>4, <1>6
  <2>2. QED
    BY <2>1 DEF Excused
<1>7. CASE kind \in {"server", "lost"} /\ read.tries.server >= MaxRetries
  <2>1. spent'["server"] + spent'["lost"] = spent["server"] + spent["lost"] + 1
    BY <1>4, <1>7
  <2>2. spent'["server"] + spent'["lost"] > MaxRetries
    BY <1>3, <1>4, <1>7, <2>1
  <2>3. QED
    BY <2>2 DEF Excused
<1>8. QED
  BY <1>2, <1>5, <1>6, <1>7

(* A fault the client asks again about leaves the read where it is. *)
LEMMA FaultAgain ==
  ASSUME Midway, NEW kind \in FaultKinds, Spend(kind), Retried(Fault(kind), read.tries), Take(Fault(kind))
  PROVE  ReadSoFar' /\ UnderRead'
<1>1. PICK answer : answer = Fault(kind)
  OBVIOUS
<1>2. /\ read \in ReadSpace(case.names) /\ read.tries \in [limited : Nat, server : Nat]
      /\ Attempts /\ PagesSoFar /\ SecondRead /\ StateOK
  BY MidwayFacts DEF ReadSpace, Midway
<1>3. /\ Counted(answer, read.tries) \in [limited : Nat, server : Nat]
      /\ Counted(answer, read.tries).limited = read.tries.limited + (IF kind = "near" THEN 1 ELSE 0)
      /\ Counted(answer, read.tries).server = read.tries.server + (IF kind \in {"server", "lost"} THEN 1 ELSE 0)
  BY <1>1, <1>2, FaultAnswer
<1>4. read' = [read EXCEPT !.tries = Counted(answer, read.tries)] /\ rows' = rows /\ doc' = doc
  BY <1>1 DEF Take, Goes
<1>5. /\ (read \in ReadSpace(case.names))' /\ read'.n = read.n /\ read'.page = read.page /\ read'.items = read.items
      /\ read'.tries = Counted(answer, read.tries)
  BY <1>2, <1>3, <1>4 DEF ReadSpace, Midway
<1>6. Steady
  BY <1>2, Spent DEF Steady, Midway, StateOK
<1>7. ReadSoFar'
  BY <1>4, <1>5, <1>6, RowsStay DEF Midway
<1>8. Attempts'
  <2>1. /\ spent["near"] \in Nat /\ spent["server"] \in Nat /\ spent["lost"] \in Nat
        /\ \A other \in {"near", "server", "lost"} :
             spent'[other] = IF other = kind THEN spent[other] + 1 ELSE spent[other]
    BY <1>2, Spent DEF FaultKinds
  <2>2. read.tries.limited \in Nat /\ read.tries.server \in Nat
        /\ read.tries.limited <= spent["near"] /\ read.tries.server <= spent["server"] + spent["lost"]
    BY <1>2 DEF Attempts
  <2>3. read'.tries.limited <= spent'["near"]
    BY <1>3, <1>5, <2>1, <2>2
  <2>4. read'.tries.server <= spent'["server"] + spent'["lost"]
    <3>1. CASE kind = "server"
      BY <1>3, <1>5, <2>1, <2>2, <3>1
    <3>2. CASE kind = "lost"
      BY <1>3, <1>5, <2>1, <2>2, <3>2
    <3>3. CASE kind \notin {"server", "lost"}
      BY <1>3, <1>5, <2>1, <2>2, <3>3
    <3>4. QED
      BY <3>1, <3>2, <3>3
  <2>5. QED
    BY <2>3, <2>4 DEF Attempts
<1>9. PagesSoFar' /\ SecondRead'
  BY <1>2, <1>5 DEF PagesSoFar, SecondRead, Section, Midway
<1>10. QED
  BY <1>7, <1>8, <1>9 DEF UnderRead

(* Any other fault fails the section, for a reason that is counted. *)
LEMMA FaultFails ==
  ASSUME Midway, Kind[Section] # "writeonly",
         NEW kind \in FaultKinds, Spend(kind), ~Retried(Fault(kind), read.tries), Take(Fault(kind))
  PROVE  ReadSoFar' /\ UnderRead'
<1>1. PICK answer, s, row :
        /\ answer = Fault(kind) /\ s = Section
        /\ row = Row(FailedRow(FailureFor(answer), case.onMissing), {FailureFor(answer)})
  OBVIOUS
<1>2. StateOK /\ read.tries \in [limited : Nat, server : Nat] /\ s \in DOMAIN Kind /\ Kind[s] \in {"list", "probe", "shared"}
  BY <1>1, MidwayFacts DEF ReadSpace, Midway
<1>3. /\ ~Answered(answer) /\ ~ReadsAbsent(answer)
      /\ FailureFor(answer) \in Failures /\ FailureFor(answer) # "permission-denied"
  BY <1>1, <1>2, FaultAnswer
<1>4. Fails(answer)
  <2>1. CASE Kind[s] = "list"
    <3>1. ReadList(answer)
      BY <1>1, <2>1 DEF Take
    <3>2. QED
      BY <1>3, <3>1 DEF ReadList, EndsWalk
  <2>2. CASE Kind[s] = "probe"
    <3>1. ReadProbe(answer)
      BY <1>1, <2>2 DEF Take
    <3>2. QED
      BY <1>3, <3>1 DEF ReadProbe
  <2>3. CASE Kind[s] = "shared"
    <3>1. ReadShared(answer)
      BY <1>1, <2>3 DEF Take
    <3>2. QED
      BY <1>3, <3>1 DEF ReadShared, NotesDenial
  <2>4. QED
    BY <1>2, <2>1, <2>2, <2>3
<1>5. row = [key |-> s, status |-> "failed", why |-> {FailureFor(answer)}]
  BY <1>1, <1>3 DEF Row, FailedRow
<1>6. row \in RowSpace /\ EndSection(row, Unset)
  <2>1. EndSection(row, Unset)
    BY <1>1, <1>4 DEF Fails
  <2>2. {FailureFor(answer)} \in SUBSET Reasons
    BY <1>3 DEF Reasons
  <2>3. row \in RowSpace
    BY <1>2, <1>5, <2>2 DEF RowSpace, Statuses
  <2>4. QED
    BY <2>1, <2>3
<1>7. Steady
  BY <1>2, Spent DEF Steady, Midway, StateOK
<1>8. doc'[s] = Unset => RowTells(s, row)'
  BY <1>5, FaultExcuses DEF RowTells, Tells, Once
<1>9. QED
  BY <1>1, <1>5, <1>6, <1>7, <1>8, EndsMidway

(* A denial skips the section under warn and fails it under fail. *)
LEMMA DenialEnds ==
  ASSUME Midway, spent' = spent, NEW answer, FailureFor(answer) = "permission-denied", Fails(answer),
         \/ Section \notin case.granted
         \/ SubGrant \notin case.granted /\ case.onMissing = "fail"
  PROVE  ReadSoFar' /\ UnderRead'
<1>1. PICK s, row :
        /\ s = Section
        /\ row = Row(FailedRow(FailureFor(answer), case.onMissing), {FailureFor(answer)})
  OBVIOUS
<1>2. StateOK /\ s \in DOMAIN Kind /\ case.onMissing \in {"warn", "fail"}
  BY <1>1, MidwayFacts DEF Midway
<1>3. row = [key |-> s, status |-> IF case.onMissing = "warn" THEN "skipped" ELSE "failed",
             why |-> {"permission-denied"}]
  BY <1>1 DEF Row, FailedRow
<1>4. row \in RowSpace /\ EndSection(row, Unset)
  <2>1. EndSection(row, Unset)
    BY <1>1 DEF Fails
  <2>2. {"permission-denied"} \in SUBSET Reasons
    BY DEF Reasons, Failures
  <2>3. row \in RowSpace
    BY <1>2, <1>3, <2>2 DEF RowSpace, Statuses
  <2>4. QED
    BY <2>1, <2>3
<1>5. Steady
  BY <1>2 DEF Steady, Midway, StateOK
<1>6. doc'[s] = Unset => RowTells(s, row)'
  BY <1>1, <1>2, <1>3 DEF RowTells, Tells, Once, Midway
<1>7. QED
  BY <1>1, <1>3, <1>4, <1>5, <1>6, EndsMidway

(* GitHub answers a section's first read by its grant, and what it holds. *)
LEMMA Asked ==
  ASSUME Midway, NEW answer \in TrueAnswers
  PROVE  /\ answer \in {Answer(200), Answer(403), Answer(404)}
         /\ Grant \notin case.granted => answer # Answer(200)
         /\ Grant \in case.granted =>
              answer = IF Kind[Section] = "probe" /\ ~live[Section] THEN Answer(404) ELSE Answer(200)
<1>1. Answer(200) # Answer(403) /\ Answer(200) # Answer(404) /\ Answer(403) # Answer(404)
  BY DEF Answer
<1>2. QED
  BY <1>1 DEF TrueAnswers

(* A page of a list: the walk goes on, or ends with all GitHub holds. *)
LEMMA ListAnswered ==
  ASSUME Midway, spent' = spent, Kind[Section] = "list", NEW answer \in TrueAnswers, ReadList(answer)
  PROVE  ReadSoFar' /\ UnderRead'
<1>1. PICK s : s = Section
  OBVIOUS
<1>2. /\ StateOK /\ ReadSoFar /\ read \in ReadSpace(case.names) /\ read.page \in Nat \ {0} /\ read.items \in Seq(case.names)
      /\ s \in DOMAIN Kind /\ s = Section /\ Kind[s] = "list" /\ Attempts /\ PagesSoFar
      /\ live[s] \in Seq(case.names) /\ IsInjective(live[s]) /\ Unset \notin Seq(case.names)
  BY <1>1, MidwayFacts DEF ReadSpace, Midway
<1>3. Steady
  BY <1>2 DEF Steady, Midway, StateOK
<1>4. Grant = s
  BY <1>1 DEF Grant
<1>5. CASE s \notin case.granted
  <2>1. answer \in {Answer(200), Answer(403), Answer(404)} /\ answer # Answer(200)
    BY <1>4, <1>5, Asked
  <2>2. ~Answered(answer) /\ FailureFor(answer) = "permission-denied"
    BY <2>1, TrueAnswer
  <2>3. Fails(answer)
    BY <2>2 DEF ReadList, EndsWalk
  <2>4. QED
    BY <1>2, <1>5, <2>2, <2>3, DenialEnds
<1>6. CASE s \in case.granted
  <2> DEFINE items == read.items \o PageOf(live[s], read.page)
  <2> DEFINE seen == (read.page - 1) * PageSize
  <2> DEFINE upto == read.page * PageSize
  <2>1. Answered(answer)
    <3>1. answer = Answer(200)
      BY <1>2, <1>4, <1>6, Asked
    <3>2. QED
      BY <3>1, TrueAnswer
  <2>2. /\ items \in Seq(case.names)
        /\ s \notin touched => items = IF upto < Len(live[s]) THEN SubSeq(live[s], 1, upto) ELSE live[s]
    <3>1. /\ PageOf(live[s], read.page) \in Seq(case.names)
          /\ seen <= Len(live[s]) =>
               SubSeq(live[s], 1, seen) \o PageOf(live[s], read.page)
                 = IF upto < Len(live[s]) THEN SubSeq(live[s], 1, upto) ELSE live[s]
      <4>1. live[s] \in Seq(case.names) /\ read.page \in Nat \ {0}
        BY <1>2
      <4>2. QED
        BY <4>1, PagesJoin
    <3>2. s \notin touched => seen <= Len(live[s]) /\ read.items = SubSeq(live[s], 1, seen)
      <4>1. PagesSoFar => (Kind[Section] = "list" /\ Section \notin touched =>
              seen <= Len(live[Section]) /\ read.items = SubSeq(live[Section], 1, seen))
        BY Zenon DEF PagesSoFar
      <4> HIDE DEF seen
      <4>2. QED
        BY <1>2, <4>1
    <3>3. items \in Seq(case.names)
      <4>1. read.items \in Seq(case.names) /\ PageOf(live[s], read.page) \in Seq(case.names)
        BY <1>2, <3>1
      <4>2. QED
        BY <4>1, JoinedPlaces
    <3>4. QED
      BY <3>1, <3>2, <3>3
  <2>3. More <=> upto < Len(live[s])
    BY <1>2 DEF More
  <2>4. CASE More
    <3>1. read' = [read EXCEPT !.items = items, !.page = @ + 1, !.tries = Fresh] /\ rows' = rows /\ doc' = doc
      BY <1>1, <2>1, <2>4 DEF ReadList, EndsWalk, Goes
    <3> HIDE DEF items
    <3>2. /\ read'.n = read.n /\ read'.page = read.page + 1 /\ read'.items = items
          /\ read'.tries = [limited |-> 0, server |-> 0] /\ (read \in ReadSpace(case.names))'
      <4>1. [limited |-> 0, server |-> 0] \in [limited : Nat, server : Nat] /\ case' = case
            /\ items \in Seq(case.names) /\ read.page + 1 \in Nat \ {0}
        BY <1>2, <2>2 DEF Midway
      <4>2. read.n \in Nat \ {0} /\ read = [n |-> read.n, page |-> read.page, items |-> read.items, tries |-> read.tries]
        BY <1>2 DEF ReadSpace
      <4>3. read' = [n |-> read.n, page |-> read.page + 1, items |-> items, tries |-> [limited |-> 0, server |-> 0]]
        BY <3>1, <4>2 DEF Fresh
      <4>4. QED
        BY <4>1, <4>2, <4>3 DEF ReadSpace
    <3>3. ReadSoFar'
      BY <1>2, <1>3, <3>1, <3>2, RowsStay DEF Midway
    <3>4. Attempts'
      <4>1. spent["near"] \in Nat /\ spent["server"] \in Nat /\ spent["lost"] \in Nat /\ spent' = spent
        BY <1>2 DEF StateOK, FaultKinds
      <4>2. QED
        BY <3>2, <4>1 DEF Attempts
    <3>5. PagesSoFar'
      <4>1. (read.page + 1) - 1 = read.page /\ upto \in Nat /\ Len(live[s]) \in Nat
        BY <1>2, SectionsAssumption
      <4>2. s \notin touched => upto <= Len(live[s]) /\ items = SubSeq(live[s], 1, upto)
        BY <2>2, <2>3, <2>4, <4>1
      <4>3. Section' = s /\ live' = live /\ touched' = touched
        BY <1>2, <3>2 DEF Midway, Section
      <4>4. QED
        BY <3>2, <4>1, <4>2, <4>3 DEF PagesSoFar
    <3>6. SecondRead'
      BY <1>2, <3>2 DEF SecondRead, Section
    <3>7. QED
      BY <3>3, <3>4, <3>5, <3>6 DEF UnderRead
  <2>5. CASE ~More
    <3>1. EndList(items)
      BY <1>1, <2>1, <2>5 DEF ReadList, EndsWalk
    <3>2. s \notin touched => items = live[s]
      BY <2>2, <2>3, <2>5
    <3> HIDE DEF items
    <3>3. CASE ~IsInjective(items)
      <4>1. PICK row : row = Row("failed", {"live-duplicate"})
        OBVIOUS
      <4>2. row = [key |-> s, status |-> "failed", why |-> {"live-duplicate"}]
        BY <1>1, <4>1 DEF Row
      <4>3. row \in RowSpace
        BY <1>2, <4>2 DEF RowSpace, Statuses, Reasons
      <4>4. EndSection(row, Unset)
        BY <3>1, <3>3, <4>1 DEF EndList
      <4>5. s \in touched /\ touched' = touched
        BY <1>2, <3>2, <3>3 DEF Midway
      <4>6. doc'[s] = Unset => RowTells(s, row)'
        BY <4>2, <4>5 DEF RowTells, Tells, Once
      <4>7. QED
        BY <1>1, <1>3, <4>2, <4>3, <4>4, <4>6, EndsMidway
    <3>4. CASE IsInjective(items)
      <4>1. PICK row, value :
              /\ row = Row("snapshot", IF items = <<>> THEN {"nothing"} ELSE {})
              /\ value = IF items = <<>> THEN Unset ELSE items
        OBVIOUS
      <4>2. row = [key |-> s, status |-> "snapshot", why |-> IF items = <<>> THEN {"nothing"} ELSE {}]
        BY <1>1, <4>1 DEF Row
      <4>3. row \in RowSpace
        BY <1>2, <4>2 DEF RowSpace, Statuses, Reasons
      <4>4. EndSection(row, value)
        BY <3>1, <3>4, <4>1 DEF EndList
      <4>5. s \in case'.granted /\ live' = live /\ touched' = touched
        BY <1>6 DEF Midway
      <4>6. items = <<>> => value = Unset
        BY <4>1
      <4>7. items # <<>> => value = items /\ value # Unset
        BY <1>2, <2>2, <4>1
      <4>8. ASSUME doc'[s] = value PROVE RowTells(s, row)'
        <5>1. Once(s)'
          BY <3>4, <4>6, <4>7, <4>8 DEF Once
        <5>2. s \notin touched' /\ items # <<>> => Complete(s, row)'
          BY <1>2, <3>2, <4>5, <4>7, <4>8 DEF Complete
        <5>3. s \notin touched' /\ items = <<>> => Nothing(s)'
          BY <1>2, <3>2, <4>5 DEF Nothing
        <5>4. Tells(s, row)'
          BY <4>2, <4>5, <4>6, <4>7, <4>8, <5>2, <5>3 DEF Tells
        <5>5. QED
          BY <4>2, <5>1, <5>4 DEF RowTells
      <4>9. QED
        BY <1>1, <1>3, <4>2, <4>3, <4>4, <4>8, EndsMidway
    <3>5. QED
      BY <3>3, <3>4
  <2>6. QED
    BY <2>4, <2>5
<1>7. QED
  BY <1>5, <1>6

(* A probe: the thing is there, it is not, or a 404 hides which. *)
LEMMA ProbeAnswered ==
  ASSUME Midway, spent' = spent, Kind[Section] = "probe", NEW answer \in TrueAnswers, ReadProbe(answer)
  PROVE  ReadSoFar' /\ UnderRead'
<1>1. PICK s : s = Section
  OBVIOUS
<1>2. /\ StateOK /\ ReadSoFar /\ s \in DOMAIN Kind /\ s = Section /\ Kind[s] = "probe"
      /\ live[s] \in BOOLEAN /\ Unset # <<TRUE>>
  BY <1>1, MidwayFacts DEF Midway
<1>3. Steady /\ case' = case /\ live' = live
  BY <1>2 DEF Steady, Midway, StateOK
<1>4. Grant = s
  BY <1>1, <1>2 DEF Grant
<1>5. answer \in {Answer(200), Answer(403), Answer(404)}
  BY Asked
<1>6. CASE answer = Answer(200)
  <2>1. s \in case.granted /\ live[s]
    <3>1. Answer(200) # Answer(404)
      BY DEF Answer
    <3>2. QED
      BY <1>2, <1>4, <1>6, <3>1, Asked
  <2>2. PICK row : row = Row("snapshot", {})
    OBVIOUS
  <2>3. row = [key |-> s, status |-> "snapshot", why |-> {}]
    BY <1>1, <2>2 DEF Row
  <2>4. row \in RowSpace
    BY <1>2, <2>3 DEF RowSpace, Statuses
  <2>5. EndSection(row, <<TRUE>>)
    BY <1>6, <2>2, TrueAnswer DEF ReadProbe
  <2>6. doc'[s] = <<TRUE>> => RowTells(s, row)'
    BY <1>2, <1>3, <2>1, <2>3 DEF RowTells, Tells, Once, Complete
  <2>7. QED
    BY <1>1, <1>3, <2>3, <2>4, <2>5, <2>6, EndsMidway
<1>7. CASE answer = Answer(404)
  <2>1. s \in case.granted => ~live[s]
    <3>1. Answer(200) # Answer(404)
      BY DEF Answer
    <3>2. QED
      BY <1>2, <1>4, <1>7, <3>1, Asked
  <2>2. PICK row : row = Row("snapshot", {"nothing", "concealed"})
    OBVIOUS
  <2>3. row = [key |-> s, status |-> "snapshot", why |-> {"nothing", "concealed"}]
    BY <1>1, <2>2 DEF Row
  <2>4. row \in RowSpace
    BY <1>2, <2>3 DEF RowSpace, Statuses, Reasons
  <2>5. EndSection(row, Unset)
    <3>1. answer # Answer(200) /\ ReadsAbsent(answer) /\ ~Answered(answer)
      <4>1. Answer(200) # Answer(404)
        BY DEF Answer
      <4>2. QED
        BY <1>5, <1>7, <4>1, TrueAnswer
    <3>2. QED
      BY <2>2, <3>1 DEF ReadProbe
  <2>6. doc'[s] = Unset => RowTells(s, row)'
    BY <1>2, <1>3, <2>1, <2>3 DEF RowTells, Tells, Once, Nothing
  <2>7. QED
    BY <1>1, <1>3, <2>3, <2>4, <2>5, <2>6, EndsMidway
<1>8. CASE answer # Answer(200) /\ answer # Answer(404)
  <2>1. ~Answered(answer) /\ FailureFor(answer) = "permission-denied" /\ ~ReadsAbsent(answer)
    BY <1>5, <1>8, TrueAnswer
  <2>2. Fails(answer)
    BY <2>1 DEF ReadProbe
  <2>3. s \notin case.granted
    BY <1>2, <1>4, <1>8, Asked
  <2>4. QED
    BY <1>2, <2>1, <2>2, <2>3, DenialEnds
<1>9. QED
  BY <1>6, <1>7, <1>8

(* A shared section: its first read, and the one behind a grant of its own. *)
LEMMA SharedAnswered ==
  ASSUME Midway, spent' = spent, Kind[Section] = "shared", NEW answer \in TrueAnswers, ReadShared(answer)
  PROVE  ReadSoFar' /\ UnderRead'
<1>1. PICK s : s = Section
  OBVIOUS
<1>2. /\ StateOK /\ ReadSoFar /\ s \in DOMAIN Kind /\ s = Section /\ Kind[s] = "shared"
      /\ read \in ReadSpace(case.names) /\ read.page \in Nat \ {0} /\ case.onMissing \in {"warn", "fail"}
      /\ Unset # <<"all">> /\ Unset # <<"some">> /\ SecondRead
  BY <1>1, MidwayFacts DEF Midway, ReadSpace
<1>3. Steady /\ case' = case /\ live' = live
  BY <1>2 DEF Steady, Midway, StateOK
<1>4. Grant = IF read.page = 2 THEN SubGrant ELSE s
  BY <1>1, <1>2 DEF Grant
<1>5. read.page \in {1, 2} /\ (read.page = 2 => s \in case.granted)
  BY <1>2 DEF SecondRead
<1>6. answer \in {Answer(200), Answer(403), Answer(404)}
  BY Asked
<1>7. CASE Grant \notin case.granted
  <2>1. ~Answered(answer) /\ FailureFor(answer) = "permission-denied"
    BY <1>6, <1>7, Asked, TrueAnswer
  <2>2. CASE read.page = 1
    <3>1. Fails(answer)
      BY <2>1, <2>2 DEF ReadShared
    <3>2. s \notin case.granted
      BY <1>4, <1>7, <2>2
    <3>3. QED
      BY <1>2, <2>1, <3>1, <3>2, DenialEnds
  <2>3. CASE read.page = 2 /\ case.onMissing = "fail"
    <3>1. Fails(answer)
      BY <2>1, <2>3 DEF ReadShared, NotesDenial
    <3>2. SubGrant \notin case.granted
      BY <1>4, <1>7, <2>3
    <3>3. QED
      BY <2>1, <2>3, <3>1, <3>2, DenialEnds
  <2>4. CASE read.page = 2 /\ case.onMissing = "warn"
    <3>1. PICK row : row = Row("snapshot", {"left out"})
      OBVIOUS
    <3>2. row = [key |-> s, status |-> "snapshot", why |-> {"left out"}]
      BY <1>1, <3>1 DEF Row
    <3>3. row \in RowSpace
      BY <1>2, <3>2 DEF RowSpace, Statuses, Reasons
    <3>4. EndSection(row, <<"some">>)
      <4>1. NotesDenial(answer, case.onMissing) /\ read.page # 1
        BY <2>1, <2>4 DEF NotesDenial
      <4>2. QED
        BY <2>1, <3>1, <4>1 DEF ReadShared
    <3>5. SubGrant \notin case.granted /\ s \in case.granted
      BY <1>4, <1>5, <1>7, <2>4
    <3>6. doc'[s] = <<"some">> => RowTells(s, row)'
      BY <1>2, <1>3, <3>2, <3>5 DEF RowTells, Tells, Once, Complete
    <3>7. QED
      BY <1>1, <1>3, <3>2, <3>3, <3>4, <3>6, EndsMidway
  <2>5. QED
    BY <1>2, <1>5, <2>2, <2>3, <2>4
<1>8. CASE Grant \in case.granted
  <2>1. Answered(answer)
    <3>1. answer = Answer(200)
      BY <1>2, <1>8, Asked
    <3>2. QED
      BY <3>1, TrueAnswer
  <2>2. CASE read.page = 1
    <3>1. read' = [read EXCEPT !.page = 2, !.tries = Fresh] /\ rows' = rows /\ doc' = doc
      BY <2>1, <2>2 DEF ReadShared, Goes
    <3>2. /\ read'.n = read.n /\ read'.page = 2
          /\ read'.tries = [limited |-> 0, server |-> 0] /\ (read \in ReadSpace(case.names))'
      <4>1. [limited |-> 0, server |-> 0] \in [limited : Nat, server : Nat] /\ case' = case
        BY <1>3
      <4>2. /\ read.n \in Nat \ {0} /\ read.items \in Seq(case.names)
            /\ read = [n |-> read.n, page |-> read.page, items |-> read.items, tries |-> read.tries]
        BY <1>2 DEF ReadSpace
      <4>3. read' = [n |-> read.n, page |-> 2, items |-> read.items, tries |-> [limited |-> 0, server |-> 0]]
        BY <3>1, <4>2 DEF Fresh
      <4>4. QED
        BY <4>1, <4>2, <4>3 DEF ReadSpace
    <3>3. ReadSoFar'
      BY <1>2, <1>3, <3>1, <3>2, RowsStay DEF Midway
    <3>4. Attempts'
      <4>1. spent["near"] \in Nat /\ spent["server"] \in Nat /\ spent["lost"] \in Nat /\ spent' = spent
        BY <1>2 DEF StateOK, FaultKinds
      <4>2. QED
        BY <3>2, <4>1 DEF Attempts
    <3>5. Section' = s
      BY <1>2, <3>2 DEF Section
    <3>6. PagesSoFar'
      BY <1>2, <3>5 DEF PagesSoFar
    <3>7. SecondRead'
      <4>1. s \in case'.granted
        BY <1>3, <1>4, <1>8, <2>2
      <4>2. QED
        BY <3>2, <3>5, <4>1 DEF SecondRead
    <3>8. QED
      BY <3>3, <3>4, <3>6, <3>7 DEF UnderRead
  <2>3. CASE read.page = 2
    <3>1. PICK row : row = Row("snapshot", {})
      OBVIOUS
    <3>2. row = [key |-> s, status |-> "snapshot", why |-> {}]
      BY <1>1, <3>1 DEF Row
    <3>3. row \in RowSpace
      BY <1>2, <3>2 DEF RowSpace, Statuses
    <3>4. EndSection(row, <<"all">>)
      BY <2>1, <2>3, <3>1 DEF ReadShared
    <3>5. doc'[s] = <<"all">> => RowTells(s, row)'
      BY <1>2, <1>3, <1>5, <2>3, <3>2 DEF RowTells, Tells, Once, Complete
    <3>6. QED
      BY <1>1, <1>3, <3>2, <3>3, <3>4, <3>5, EndsMidway
  <2>4. QED
    BY <1>5, <2>2, <2>3
<1>9. QED
  BY <1>7, <1>8

(* One step of a section's read. *)
LEMMA SectionStep ==
  ASSUME StateOK, ReadSoFar, UnderRead, SnapshotSection
  PROVE  StateOK' /\ ReadSoFar' /\ UnderRead' /\ phase' = phase
<1>1. /\ phase = "reading" /\ read.n <= Len(Sections)
      /\ case' = case /\ phase' = phase /\ live' = live /\ touched' = touched /\ results' = results
      /\ Holds(case.names, live)
  BY DEF SnapshotSection, files, StateOK
<1>2. CASE Section \notin Selected
  <2>1. read' = FirstRead(read.n + 1) /\ rows' = rows /\ doc' = doc /\ spent' = spent
    BY <1>2 DEF SnapshotSection, Goes
  <2>2. read.n + 1 \in Nat \ {0} /\ Steady
    BY <1>1, <2>1 DEF Steady, StateOK, ReadSoFar, ReadSpace
  <2>3. read'.n = read.n + 1 /\ (read \in ReadSpace(case.names))' /\ UnderRead'
    BY <2>1, <2>2, NothingRead DEF Steady
  <2>4. ReadSoFar'
    BY <1>1, <1>2, <2>1, <2>2, <2>3, RowsStay
  <2>5. QED
    BY <1>1, <2>1, <2>3, <2>4 DEF StateOK
<1>3. CASE Section \in Selected
  <2>1. Midway
    BY <1>1, <1>3 DEF Midway
  <2>2. CASE Kind[Section] = "writeonly"
    <3>1. PICK s, row : s = Section /\ row = Row("unsupported", {"no read"})
      OBVIOUS
    <3>2. row = [key |-> s, status |-> "unsupported", why |-> {"no read"}]
      BY <3>1 DEF Row
    <3>3. row \in RowSpace
      <4>1. s \in DOMAIN Kind
        BY <2>1, <3>1, MidwayFacts
      <4>2. QED
        BY <3>2, <4>1 DEF RowSpace, Statuses, Reasons
    <3>4. EndSection(row, Unset) /\ spent' = spent
      BY <1>3, <2>2, <3>1 DEF SnapshotSection
    <3>5. Steady
      BY <1>1, <3>4 DEF Steady, StateOK
    <3>6. doc'[s] = Unset => RowTells(s, row)'
      <4>1. Kind[s] = "writeonly"
        BY <2>2, <3>1
      <4>2. row.key = s /\ row.status = "unsupported"
        BY <3>2
      <4>3. QED
        BY <4>1, <4>2 DEF RowTells, Tells, Once
    <3>7. ReadSoFar' /\ UnderRead'
      BY <2>1, <3>1, <3>2, <3>3, <3>4, <3>5, <3>6, EndsMidway
    <3>8. QED
      BY <1>1, <3>4, <3>7 DEF StateOK
  <2>3. CASE Kind[Section] # "writeonly"
    <3>1. CASE \E answer \in TrueAnswers : Take(answer) /\ UNCHANGED spent
      <4>1. PICK answer \in TrueAnswers : Take(answer) /\ spent' = spent
        BY <3>1
      <4>2. ~Retried(answer, read.tries)
        BY <2>1, Asked, TrueAnswer
      <4>3. Kind[Section] \in {"list", "probe", "shared"}
        BY <2>1, <2>3, MidwayFacts
      <4>4. CASE Kind[Section] = "list"
        <5>1. ReadList(answer)
          BY <4>1, <4>2, <4>4 DEF Take
        <5>2. QED
          BY <1>1, <2>1, <4>1, <4>4, <5>1, ListAnswered DEF StateOK
      <4>5. CASE Kind[Section] = "probe"
        <5>1. ReadProbe(answer)
          BY <4>1, <4>2, <4>5 DEF Take
        <5>2. QED
          BY <1>1, <2>1, <4>1, <4>5, <5>1, ProbeAnswered DEF StateOK
      <4>6. CASE Kind[Section] = "shared"
        <5>1. ReadShared(answer)
          BY <4>1, <4>2, <4>6 DEF Take
        <5>2. QED
          BY <1>1, <2>1, <4>1, <4>6, <5>1, SharedAnswered DEF StateOK
      <4>7. QED
        BY <4>3, <4>4, <4>5, <4>6
    <3>2. CASE \E kind \in FaultKinds : Spend(kind) /\ Take(Fault(kind))
      <4>1. PICK kind \in FaultKinds : Spend(kind) /\ Take(Fault(kind))
        BY <3>2
      <4>2. ReadSoFar' /\ UnderRead'
        BY <2>1, <2>3, <4>1, FaultAgain, FaultFails
      <4>3. StateOK'
        BY <1>1, <4>1, Spent DEF StateOK
      <4>4. QED
        BY <1>1, <4>2, <4>3
    <3>3. QED
      BY <1>3, <2>3, <3>1, <3>2 DEF SnapshotSection
  <2>4. QED
    BY <2>2, <2>3
<1>4. QED
  BY <1>2, <1>3

-----------------------------------------------------------------------------
(* The other steps. *)

(* Where no target is being read, nothing is asked of its rows. *)
LEMMA ElsewhereNothing ==
  ASSUME phase' # "reading"
  PROVE  ReadSoFar' /\ UnderRead'
  BY DEF ReadSoFar, UnderRead

(* A target is refused, or its reading begins with nothing read. *)
LEMMA Locating ==
  ASSUME StateOK, PartialIsSaid, Locate
  PROVE  IInv'
<1>1. /\ case' = case /\ live' = live /\ spent' = spent /\ case \in Cases /\ phase = "locating"
      /\ Holds(case.names, live) /\ results \in Seq(Results)
      /\ spent' \in [FaultKinds \cup {"file", "edit", "crash"} -> Nat]
  BY DEF Locate, StateOK
<1>2. CASE at > Len(case.targets)
  <2>1. phase' = "over" /\ touched' = touched /\ results' = results
    BY <1>2 DEF Locate
  <2>2. StateOK'
    BY <1>1, <2>1 DEF StateOK, Phases
  <2>3. QED
    BY <2>1, <2>2, ElsewhereNothing DEF IInv, PartialIsSaid
<1>3. CASE ~(at > Len(case.targets)) /\ (Target.rejected \/ Refused)
  <2>1. phase' = phase /\ touched' = touched /\ results' = Append(results, "failed")
    BY <1>3 DEF Locate
  <2>2. results' \in Seq(Results) /\ Last(results') = "failed"
    <3>1. "failed" \in Results
      BY DEF Results
    <3>2. QED
      BY <1>1, <2>1, <3>1, Appended
  <2>3. StateOK'
    BY <1>1, <2>1, <2>2 DEF StateOK
  <2>4. PartialIsSaid'
    BY <2>2 DEF PartialIsSaid
  <2>5. QED
    BY <1>1, <2>1, <2>3, <2>4, ElsewhereNothing DEF IInv
<1>4. CASE ~(at > Len(case.targets)) /\ ~(Target.rejected \/ Refused)
  <2>1. /\ doc' = EmptyDocument /\ read' = FirstRead(1) /\ rows' = <<>> /\ touched' = {}
        /\ phase' = "reading" /\ results' = results
    BY <1>4 DEF Locate
  <2>2. StateOK'
    BY <1>1, <2>1 DEF StateOK, Phases
  <2>3. read'.n = 1 /\ (read \in ReadSpace(case.names))' /\ UnderRead'
    BY <1>1, <2>1, NothingRead
  <2>4. ReadSoFar'
    <3>1. ToSet(rows') = {} /\ rows' \in Seq(RowSpace)
      BY <2>1 DEF ToSet
    <3>2. 1 <= Len(Sections) + 1 /\ \A k \in DOMAIN Sections : ~(k < 1)
      BY SectionKinds
    <3>3. (doc = [s \in ToSet(Sections) |-> doc[s]])'
      BY <2>1 DEF EmptyDocument
    <3>4. QED
      BY <2>3, <3>1, <3>2, <3>3 DEF ReadSoFar
  <2>5. QED
    BY <2>1, <2>2, <2>3, <2>4 DEF IInv, PartialIsSaid
<1>5. QED
  BY <1>2, <1>3, <1>4

(* People edit what is being read: its section is touched, the others stay true. *)
LEMMA Editing ==
  ASSUME StateOK, ReadSoFar, UnderRead, Edit
  PROVE  IInv'
<1>1. /\ phase = "reading" /\ case' = case /\ phase' = phase /\ results' = results
      /\ doc' = doc /\ read' = read /\ rows' = rows
  BY DEF Edit, fold
<1>2. /\ Holds(case.names, live') /\ touched' \subseteq Held
      /\ touched \subseteq touched'
      /\ \A s \in DOMAIN Kind : s \notin touched' => live'[s] = live[s]
      /\ \A kind \in FaultKinds : spent'[kind] = spent[kind]
      /\ spent' \in [FaultKinds \cup {"file", "edit", "crash"} -> Nat]
  BY EditHolds
<1>3. StateOK'
  BY <1>1, <1>2 DEF StateOK
<1>4. \A kind \in FaultKinds : spent[kind] <= spent'[kind]
  <2>1. \A kind \in FaultKinds : spent[kind] \in Nat
    BY DEF StateOK
  <2>2. QED
    BY <1>2, <2>1
<1>5. Steady
  BY <1>1, <1>2, <1>4 DEF Steady
<1>6. (read \in ReadSpace(case.names))'
  BY <1>1 DEF ReadSoFar
<1>7. ReadSoFar'
  BY <1>1, <1>5, <1>6, RowsStay
<1>8. ASSUME read.n <= Len(Sections) PROVE (Attempts /\ PagesSoFar /\ SecondRead)'
  <2>1. Attempts /\ PagesSoFar /\ SecondRead
    BY <1>1, <1>8 DEF UnderRead
  <2>2. Attempts'
    BY <1>1, <1>2, <2>1 DEF Attempts, FaultKinds
  <2>3. PagesSoFar'
    <3>1. Section' = Section
      BY <1>1 DEF Section
    <3>2. Section \in DOMAIN Kind
      <4>1. read.n \in DOMAIN Sections
        BY <1>1, <1>8, SectionKinds DEF ReadSoFar, ReadSpace
      <4>2. QED
        BY <4>1, SectionKinds DEF Section
    <3>3. Section \notin touched' => Section \notin touched /\ live'[Section] = live[Section]
      BY <1>2, <3>2
    <3>4. QED
      BY <1>1, <2>1, <3>1, <3>3 DEF PagesSoFar
  <2>4. SecondRead'
    BY <1>1, <2>1 DEF SecondRead, Section
  <2>5. QED
    BY <2>2, <2>3, <2>4
<1>9. UnderRead'
  BY <1>1, <1>8 DEF UnderRead
<1>10. QED
  BY <1>1, <1>3, <1>7, <1>9 DEF IInv, PartialIsSaid

(* A target ends with its result; the next one starts from what it says. *)
LEMMA Concluding ==
  ASSUME results \in Seq(Results), NEW result \in Results, Concludes(result), rows' = rows,
         ~Rendering /\ result \in {"snapshot", "partial"} =>
           (result = "partial" <=> "skipped" \in StatusesOf(rows))
  PROVE  results' \in Seq(Results) /\ phase' \in {"over", "locating"} /\ PartialIsSaid'
<1>1. results' = Append(results, result) /\ NextTarget
  BY DEF Concludes
<1>2. results' \in Seq(Results) /\ Last(results') = result
  BY <1>1, Appended
<1>3. phase' = IF Rendering THEN "over" ELSE "locating"
  BY <1>1 DEF NextTarget
<1>4. StatusesOf(rows)' = StatusesOf(rows)
  BY DEF StatusesOf
<1>5. PartialIsSaid'
  BY <1>2, <1>3, <1>4 DEF PartialIsSaid
<1>6. QED
  BY <1>2, <1>3, <1>5

(* What a step keeps that reads nothing. *)
LEMMA Kept ==
  ASSUME StateOK, case' = case, live' = live, touched' = touched,
         spent' \in [FaultKinds \cup {"file", "edit", "crash"} -> Nat],
         phase' \in Phases, phase' \notin {"reading", "start"}, results' \in Seq(Results), PartialIsSaid'
  PROVE  IInv'
<1>1. StateOK'
  BY DEF StateOK
<1>2. QED
  BY <1>1, ElsewhereNothing DEF IInv

-----------------------------------------------------------------------------
(* The theorems. *)

(* The invariant holds of every state a run starts in. *)
LEMMA Beginning == Init => IInv
<1> SUFFICES ASSUME Init PROVE IInv
  OBVIOUS
<1>1. case \in Cases /\ live = case.live /\ phase = "start" /\ touched = {} /\ spent = Unspent /\ results = <<>>
  BY DEF Init
<1>2. StateOK
  <2>1. Holds(case.names, live)
    BY <1>1, CasesAssumption
  <2>2. spent \in [FaultKinds \cup {"file", "edit", "crash"} -> Nat]
    BY <1>1 DEF Unspent
  <2>3. QED
    BY <1>1, <2>1, <2>2 DEF StateOK, Phases
<1>3. QED
  BY <1>1, <1>2 DEF IInv, ReadSoFar, UnderRead, PartialIsSaid

(* A failed write and a killed process are counted too. *)
LEMMA SpentAny ==
  ASSUME StateOK, NEW kind \in {"file", "crash"}, Spend(kind)
  PROVE  spent' \in [FaultKinds \cup {"file", "edit", "crash"} -> Nat]
  BY DEF StateOK, Spend

(* A failed write ends its target as failed. *)
LEMMA WriteFailing ==
  ASSUME StateOK, NEW made, NEW met, WriteFails(made, met), Spend("file"),
         case' = case, live' = live, touched' = touched, rows' = rows
  PROVE  IInv'
<1>1. "failed" \in Results /\ Concludes("failed") /\ results \in Seq(Results)
  BY DEF Results, WriteFails, StateOK
<1>2. results' \in Seq(Results) /\ phase' \in {"over", "locating"} /\ PartialIsSaid'
  BY <1>1, Concluding
<1>3. spent' \in [FaultKinds \cup {"file", "edit", "crash"} -> Nat]
  BY SpentAny
<1>4. QED
  BY <1>2, <1>3, Kept DEF Phases

(* Every step of a run, of people or of the process keeps the invariant. *)
LEMMA Stepping == IInv /\ [Next]_vars => IInv'
<1> SUFFICES ASSUME IInv, [Next]_vars PROVE IInv'
  OBVIOUS
<1>0. /\ StateOK /\ ReadSoFar /\ UnderRead /\ PartialIsSaid /\ results \in Seq(Results) /\ phase \in Phases
      /\ spent \in [FaultKinds \cup {"file", "edit", "crash"} -> Nat]
  BY DEF IInv, StateOK
<1>1. CASE Start
  <2>1. case' = case /\ live' = live /\ touched' = touched /\ spent' = spent /\ results = <<>>
    BY <1>0, <1>1 DEF Start, reading, StateOK
  <2>2. CASE phase' = "over" /\ results' = <<"refused">>
    <3>1. results' \in Seq(Results)
      BY <2>2 DEF Results
    <3>2. QED
      BY <1>0, <2>1, <2>2, <3>1, Kept DEF Phases, PartialIsSaid
  <2>3. CASE phase' \in {"merging", "locating"} /\ results' = results
    BY <1>0, <2>1, <2>3, Kept DEF Phases, PartialIsSaid
  <2>4. QED
    BY <1>1, <2>2, <2>3 DEF Start
<1>2. CASE MergeLayer
  <2>1. /\ case' = case /\ live' = live /\ touched' = touched /\ spent' = spent /\ phase = "merging"
        /\ \/ phase' = "over" /\ results' = <<"refused">>
           \/ phase' = phase /\ results' = results
    BY <1>2 DEF MergeLayer, reading
  <2>2. results' \in Seq(Results) /\ phase' \in {"over", "merging"}
    <3>1. <<"refused">> \in Seq(Results)
      BY DEF Results
    <3>2. QED
      BY <1>0, <2>1, <3>1
  <2>3. QED
    BY <1>0, <2>1, <2>2, Kept DEF Phases, PartialIsSaid
<1>3. CASE Judge
  <2>1. /\ case' = case /\ live' = live /\ touched' = touched /\ spent' = spent
        /\ \/ phase' = "open" /\ results' = results
           \/ phase' = "over" /\ results' = <<"malformed">>
    BY <1>3 DEF Judge, reading
  <2>2. results' \in Seq(Results) /\ phase' \in {"over", "open"}
    <3>1. <<"malformed">> \in Seq(Results)
      BY DEF Results
    <3>2. QED
      BY <1>0, <2>1, <3>1
  <2>3. QED
    BY <1>0, <2>1, <2>2, Kept DEF Phases, PartialIsSaid
<1>4. CASE Locate
  BY <1>0, <1>4, Locating
<1>5. CASE SnapshotSection
  <2>1. StateOK' /\ ReadSoFar' /\ UnderRead' /\ phase' = phase /\ phase = "reading"
    BY <1>0, <1>5, SectionStep DEF SnapshotSection
  <2>2. QED
    BY <2>1 DEF IInv, PartialIsSaid
<1>6. CASE Assemble
  <2>1. case' = case /\ live' = live /\ touched' = touched /\ spent' = spent /\ rows' = rows
    BY <1>6 DEF Assemble, reading
  <2>2. CASE Concludes("failed")
    <3>1. "failed" \in Results
      BY DEF Results
    <3>2. results' \in Seq(Results) /\ phase' \in {"over", "locating"} /\ PartialIsSaid'
      BY <1>0, <2>1, <2>2, <3>1, Concluding
    <3>3. QED
      BY <1>0, <2>1, <3>2, Kept DEF Phases
  <2>3. CASE phase' = "open" /\ results' = results
    BY <1>0, <2>1, <2>3, Kept DEF Phases, PartialIsSaid
  <2>4. QED
    BY <1>6, <2>2, <2>3 DEF Assemble
<1>7. CASE OpenStaging
  <2>1. case' = case /\ live' = live /\ touched' = touched /\ rows' = rows
    BY <1>7 DEF OpenStaging, reading
  <2>2. CASE phase' = "writing" /\ results' = results /\ spent' = spent
    BY <1>0, <2>1, <2>2, Kept DEF Phases, PartialIsSaid
  <2>3. CASE Spend("file") /\ WriteFails(MadeBy("no directory"), {})
    BY <1>0, <2>1, <2>3, WriteFailing
  <2>4. CASE Spend("file") /\ \E s \in InTheWay : WriteFails(MadeBy("exists"), {s})
    BY <1>0, <2>1, <2>4, WriteFailing
  <2>5. QED
    BY <1>7, <2>2, <2>3, <2>4 DEF OpenStaging
<1>8. CASE WriteStaging
  <2>1. case' = case /\ live' = live /\ touched' = touched /\ rows' = rows
    BY <1>8 DEF WriteStaging, reading
  <2>2. CASE phase' = "renaming" /\ results' = results /\ spent' = spent
    BY <1>0, <2>1, <2>2, Kept DEF Phases, PartialIsSaid
  <2>3. CASE Spend("file") /\ WriteFails(created, {})
    BY <1>0, <2>1, <2>3, WriteFailing
  <2>4. QED
    BY <1>8, <2>2, <2>3 DEF WriteStaging
<1>9. CASE Rename
  <2>1. case' = case /\ live' = live /\ touched' = touched /\ rows' = rows
    BY <1>9 DEF Rename, reading
  <2>2. CASE Concludes(Written) /\ spent' = spent
    <3>1. PICK result : result = Written
      OBVIOUS
    <3>2. result \in Results
      BY <3>1 DEF Written, Results
    <3>3. ~Rendering /\ result \in {"snapshot", "partial"} =>
            (result = "partial" <=> "skipped" \in StatusesOf(rows))
      BY <3>1 DEF Written
    <3>4. results' \in Seq(Results) /\ phase' \in {"over", "locating"} /\ PartialIsSaid'
      BY <1>0, <2>1, <2>2, <3>1, <3>2, <3>3, Concluding
    <3>5. QED
      BY <1>0, <2>1, <2>2, <3>4, Kept DEF Phases
  <2>3. CASE Spend("file") /\ WriteFails(created, {})
    BY <1>0, <2>1, <2>3, WriteFailing
  <2>4. QED
    BY <1>9, <2>2, <2>3 DEF Rename
<1>10. CASE Edit
  BY <1>0, <1>10, Editing
<1>11. CASE Crash
  <2>1. case' = case /\ live' = live /\ touched' = touched /\ results' = results /\ phase' = "over" /\ Spend("crash")
    BY <1>11 DEF Crash, reading
  <2>2. QED
    BY <1>0, <2>1, SpentAny, Kept DEF Phases, PartialIsSaid
<1>12. CASE Rerun
  <2>1. case' = case /\ live' = live /\ touched' = {} /\ results' = <<>> /\ phase' = "start" /\ spent' = Unspent
    BY <1>12 DEF Rerun
  <2>2. spent' \in [FaultKinds \cup {"file", "edit", "crash"} -> Nat]
    BY <2>1 DEF Unspent
  <2>3. StateOK'
    BY <1>0, <2>1, <2>2 DEF StateOK, Phases
  <2>4. QED
    BY <2>1, <2>3, ElsewhereNothing DEF IInv, PartialIsSaid
<1>13. CASE UNCHANGED vars
  <2>1. /\ case' = case /\ phase' = phase /\ doc' = doc /\ read' = read /\ rows' = rows
        /\ live' = live /\ touched' = touched /\ spent' = spent /\ results' = results
    BY <1>13 DEF vars, fold, reading
  <2>2. StateOK'
    BY <1>0, <2>1 DEF StateOK
  <2>3. ReadSoFar'
    <3>1. SUFFICES ASSUME phase = "reading" PROVE ReadSoFar'
      BY <2>1 DEF ReadSoFar
    <3>2. Steady
      BY <1>0, <2>1 DEF Steady, StateOK
    <3>3. (read \in ReadSpace(case.names))'
      BY <1>0, <2>1, <3>1 DEF ReadSoFar
    <3>4. QED
      BY <1>0, <2>1, <3>1, <3>2, <3>3, RowsStay
  <2>4. UnderRead'
    BY <1>0, <2>1 DEF UnderRead, Attempts, PagesSoFar, SecondRead, Section
  <2>5. PartialIsSaid'
    BY <1>0, <2>1 DEF PartialIsSaid, StatusesOf
  <2>6. QED
    BY <2>2, <2>3, <2>4, <2>5 DEF IInv
<1>14. QED
  BY <1>1, <1>2, <1>3, <1>4, <1>5, <1>6, <1>7, <1>8, <1>9, <1>10, <1>11, <1>12, <1>13 DEF Next

(* In every state of every run, the rows of the target being read are true, and the
   read under way has what it says it has.                                   *)
THEOREM Invariant == Spec => []IInv
<1>1. QED
  BY Beginning, Stepping, PTL DEF Spec

(* A snapshot's document tells the truth: once every section of a target has been
   read, each section nobody changed meanwhile stands in the document with exactly
   what GitHub holds, or its row says why it does not, however many sections a
   repository has, however long their lists are, and whatever faults, denials and
   edits fall between the pages; and a target is called partial exactly if one of
   its sections was skipped.  src/engine/snapshot.ts:168-280,
   src/github/api.ts:308-372.                                                 *)
THEOREM DocumentIsTrue == Spec => []DocumentTellsTheTruth
<1>1. IInv => DocumentTellsTheTruth
  <2> SUFFICES ASSUME IInv PROVE DocumentTellsTheTruth
    OBVIOUS
  <2>1. ASSUME Done, NEW s \in Selected
        PROVE  Tells(s, RowOf(s)) /\ (Kind[s] = "list" /\ doc[s] # Unset => IsInjective(doc[s]))
    <3>1. ReadSoFar /\ phase = "reading" /\ read.n > Len(Sections) /\ read.n \in Nat
      BY <2>1 DEF Done, IInv, ReadSoFar, ReadSpace
    <3>2. PICK k \in DOMAIN Sections : s = Sections[k]
      BY SectionKinds DEF Selected
    <3>3. k < read.n
      BY <3>1, SectionKinds
    <3>4. PICK row \in ToSet(rows) : RowTells(s, row)
      BY <3>1, <3>2, <3>3 DEF ReadSoFar
    <3>5. row.key = s /\ \A other \in ToSet(rows) : other.key = s => other = row
      BY <3>1, <3>4 DEF ReadSoFar, RowTells
    <3>6. RowOf(s) = row
      BY <3>4, <3>5 DEF RowOf
    <3>7. QED
      BY <3>4, <3>6 DEF RowTells, Once
  <2>2. PartialIsSaid
    BY DEF IInv
  <2>3. QED
    BY <2>1, <2>2 DEF DocumentTellsTheTruth, PartialIsSaid
<1>2. QED
  BY Invariant, <1>1, PTL

-----------------------------------------------------------------------------
(* Names and what is read through them. *)

(* The entry under a path, if there is one, goes by the path's name. *)
LEMMA EntryFound ==
  ASSUME NEW fs, NEW disk_, NEW path, RenameEntry(fs, disk_, path) # Nowhere
  PROVE  LET n == RenameEntry(fs, disk_, path)
         IN  /\ n \in DOMAIN disk_ /\ n.dir = CanonicalDir(fs, path.dir)
             /\ Folded(fs, n.leaf) = Folded(fs, path.leaf)
  BY DEF RenameEntry

(* The entry that goes by a path's name is the entry under it. *)
LEMMA EntryIs ==
  ASSUME NEW fs, NEW disk_, NEW path, UniqueNames(fs, disk_), NEW n \in DOMAIN disk_,
         n.dir = CanonicalDir(fs, path.dir), Folded(fs, n.leaf) = Folded(fs, path.leaf)
  PROVE  RenameEntry(fs, disk_, path) = n
<1> DEFINE found == {m \in DOMAIN disk_ : /\ m.dir = CanonicalDir(fs, path.dir)
                                          /\ Folded(fs, m.leaf) = Folded(fs, path.leaf)}
<1>1. n \in found /\ \A m \in found : m = n
  BY DEF UniqueNames
<1>2. found # {} /\ (CHOOSE m \in found : TRUE) = n
  BY <1>1
<1>3. RenameEntry(fs, disk_, path) = IF found = {} THEN Nowhere ELSE CHOOSE m \in found : TRUE
  BY DEF RenameEntry
<1>4. QED
  BY <1>2, <1>3

(* A read follows a path hop by hop. *)
LEMMA WalkDefined ==
  ASSUME NEW fs, NEW disk_, NEW path
  PROVE  /\ Walk(fs, disk_, path)[0] = RenameEntry(fs, disk_, path)
         /\ \A k \in 1..Hops :
              Walk(fs, disk_, path)[k] = Followed(fs, disk_, Walk(fs, disk_, path)[k - 1])
<1> DEFINE Hop(f, k) == IF k = 0 THEN RenameEntry(fs, disk_, path) ELSE Followed(fs, disk_, f[k - 1])
<1> DEFINE Good(n) == \E f : f = [k \in 0..n |-> Hop(f, k)]
<1> DEFINE S == {n \in Nat : Good(n)}
<1>1. 0 \in S
  <2>1. [k \in 0..0 |-> RenameEntry(fs, disk_, path)]
          = [k \in 0..0 |-> Hop([i \in 0..0 |-> RenameEntry(fs, disk_, path)], k)]
    OBVIOUS
  <2>2. QED
    BY <2>1
<1>2. ASSUME NEW n \in S PROVE n + 1 \in S
  <2>1. PICK f : f = [k \in 0..n |-> Hop(f, k)]
    BY <1>2
  <2> DEFINE g == [k \in 0..n + 1 |-> IF k = n + 1 THEN Followed(fs, disk_, f[n]) ELSE f[k]]
  <2>2. ASSUME NEW k \in 0..n + 1 PROVE g[k] = Hop(g, k)
    <3>1. CASE k = n + 1
      <4>1. g[k] = Followed(fs, disk_, f[n]) /\ k - 1 = n /\ k # 0 /\ n \in 0..n + 1 /\ n # n + 1
        BY <3>1
      <4>2. g[n] = f[n]
        BY <4>1
      <4>3. QED
        BY <4>1, <4>2
    <3>2. CASE k # n + 1 /\ k # 0
      <4>1. k \in 0..n /\ k - 1 \in 0..n + 1 /\ k - 1 # n + 1
        BY <3>2
      <4>2. g[k] = f[k] /\ g[k - 1] = f[k - 1]
        BY <3>2, <4>1
      <4>3. f[k] = Hop(f, k)
        BY <2>1, <4>1
      <4>4. QED
        BY <3>2, <4>2, <4>3
    <3>3. CASE k # n + 1 /\ k = 0
      <4>1. k \in 0..n
        BY <3>3
      <4>2. g[k] = f[k] /\ f[k] = Hop(f, k)
        BY <2>1, <3>3, <4>1
      <4>3. QED
        BY <3>3, <4>2
    <3>4. QED
      BY <3>1, <3>2, <3>3
  <2>3. g = [k \in 0..n + 1 |-> Hop(g, k)]
    BY <2>2
  <2> HIDE DEF g
  <2>4. QED
    BY <2>3
<1>3. \A n \in Nat : n \in S
  <2>1. S \in SUBSET Nat
    OBVIOUS
  <2> HIDE DEF S
  <2>2. QED
    BY <1>1, <1>2, <2>1, EveryNumber
<1>4. Good(Hops)
  BY <1>3, SectionsAssumption
<1> DEFINE w == CHOOSE f : f = [k \in 0..Hops |-> Hop(f, k)]
<1>5. w = [k \in 0..Hops |-> Hop(w, k)]
  BY <1>4
<1>6. Walk(fs, disk_, path) = w
  BY DEF Walk
<1> HIDE DEF w
<1>7. \A k \in 0..Hops : w[k] = Hop(w, k)
  BY <1>5
<1>8. QED
  BY <1>6, <1>7, SectionsAssumption

(* What holds of the first hop, and of each that follows one it holds of, holds of
   them all.                                                                  *)
LEMMA EveryHop ==
  ASSUME NEW S \in SUBSET Nat, 0 \in S, \A k \in 1..Hops : k - 1 \in S => k \in S
  PROVE  \A k \in 0..Hops : k \in S
<1> DEFINE T == S \cup {n \in Nat : n > Hops}
<1>1. T \in SUBSET Nat /\ 0 \in T
  OBVIOUS
<1>2. ASSUME NEW n \in T PROVE n + 1 \in T
  <2>1. n \in Nat /\ Hops \in Nat
    BY SectionsAssumption
  <2>2. CASE n + 1 > Hops
    BY <2>1, <2>2
  <2>3. CASE ~(n + 1 > Hops)
    <3>1. n + 1 \in 1..Hops /\ (n + 1) - 1 = n /\ n \in S
      BY <2>1, <2>3
    <3>2. QED
      BY <3>1
  <2>4. QED
    BY <2>2, <2>3
<1>3. \A n \in Nat : n \in T
  <2> HIDE DEF T
  <2>1. QED
    BY <1>1, <1>2, EveryNumber
<1>4. QED
  BY <1>3, SectionsAssumption

(* A read that comes to an entry comes to one there is. *)
LEMMA WalkLands ==
  ASSUME NEW fs, NEW disk_, NEW path, NEW k \in 0..Hops, Walk(fs, disk_, path)[k] # Nowhere
  PROVE  Walk(fs, disk_, path)[k] \in DOMAIN disk_
<1> DEFINE w == Walk(fs, disk_, path)
<1> DEFINE S == {i \in Nat : i <= Hops /\ w[i] # Nowhere => w[i] \in DOMAIN disk_}
<1>1. w[0] = RenameEntry(fs, disk_, path) /\ \A i \in 1..Hops : w[i] = Followed(fs, disk_, w[i - 1])
  BY WalkDefined
<1> HIDE DEF w
<1>2. 0 \in S
  BY <1>1, EntryFound
<1>3. ASSUME NEW i \in 1..Hops, i - 1 \in S PROVE i \in S
  <2>1. i \in Nat /\ i - 1 \in Nat /\ i - 1 <= Hops
    BY SectionsAssumption
  <2>2. w[i] = Followed(fs, disk_, w[i - 1])
    BY <1>1
  <2>3. SUFFICES ASSUME w[i] # Nowhere PROVE w[i] \in DOMAIN disk_
    BY <2>1
  <2>4. CASE w[i - 1] = Nowhere \/ disk_[w[i - 1]].link = Nowhere
    <3>1. w[i] = w[i - 1]
      BY <2>2, <2>4 DEF Followed
    <3>2. QED
      BY <1>3, <2>1, <2>3, <3>1
  <2>5. CASE ~(w[i - 1] = Nowhere \/ disk_[w[i - 1]].link = Nowhere)
    <3>1. w[i] = RenameEntry(fs, disk_, disk_[w[i - 1]].link)
      BY <2>2, <2>5 DEF Followed
    <3>2. QED
      BY <2>3, <3>1, EntryFound
  <2>6. QED
    BY <2>4, <2>5
<1>4. \A i \in 0..Hops : i \in S
  <2>1. S \in SUBSET Nat
    OBVIOUS
  <2> HIDE DEF S
  <2>2. QED
    BY <1>2, <1>3, <2>1, EveryHop
<1>5. k \in S /\ k <= Hops
  BY <1>4, SectionsAssumption
<1>6. QED
  BY <1>5 DEF w

(* A read that comes to a file, or to nothing, goes no further. *)
LEMMA WalkStays ==
  ASSUME NEW fs, NEW disk_, NEW path, NEW j \in 0..Hops, NEW n, n = Walk(fs, disk_, path)[j],
         n = Nowhere \/ disk_[n].link = Nowhere
  PROVE  \A k \in j..Hops : Walk(fs, disk_, path)[k] = n
<1> DEFINE w == Walk(fs, disk_, path)
<1> DEFINE S == {i \in Nat : j <= i /\ i <= Hops => w[i] = n}
<1>1. \A i \in 1..Hops : w[i] = Followed(fs, disk_, w[i - 1])
  BY WalkDefined
<1>2. w[j] = n /\ j \in Nat
  BY SectionsAssumption
<1> HIDE DEF w
<1>3. 0 \in S
  BY <1>2
<1>4. ASSUME NEW i \in 1..Hops, i - 1 \in S PROVE i \in S
  <2>1. i \in Nat /\ i - 1 \in Nat /\ i - 1 <= Hops /\ Hops \in Nat
    BY SectionsAssumption
  <2>2. SUFFICES ASSUME j <= i PROVE w[i] = n
    BY <2>1
  <2>3. CASE j = i
    BY <1>2, <2>3
  <2>4. CASE j # i
    <3>1. j <= i - 1
      BY <1>2, <2>1, <2>2, <2>4
    <3>2. w[i - 1] = n
      BY <1>4, <2>1, <3>1
    <3>3. w[i] = Followed(fs, disk_, n)
      BY <1>1, <3>2
    <3>4. QED
      BY <3>3 DEF Followed
  <2>5. QED
    BY <2>3, <2>4
<1>5. \A i \in 0..Hops : i \in S
  <2>1. S \in SUBSET Nat
    OBVIOUS
  <2> HIDE DEF S
  <2>2. QED
    BY <1>3, <1>4, <2>1, EveryHop
<1>6. ASSUME NEW k \in j..Hops PROVE w[k] = n
  <2>1. k \in 0..Hops /\ j <= k /\ k <= Hops
    BY <1>2, SectionsAssumption
  <2>2. QED
    BY <1>5, <2>1
<1>7. QED
  BY <1>6 DEF w

(* What can be read is there at every hop. *)
LEMMA ReadableWalk ==
  ASSUME NEW fs, NEW disk_, NEW path, Readable(fs, disk_, path), NEW k \in 0..Hops
  PROVE  /\ Walk(fs, disk_, path)[k] # Nowhere /\ Walk(fs, disk_, path)[k] \in DOMAIN disk_
         /\ Walk(fs, disk_, path)[k] \in ReadEntries(fs, disk_, path)
<1>1. Walk(fs, disk_, path)[k] # Nowhere
  <2>1. SUFFICES ASSUME Walk(fs, disk_, path)[k] = Nowhere PROVE FALSE
    OBVIOUS
  <2>2. \A i \in k..Hops : Walk(fs, disk_, path)[i] = Nowhere
    BY <2>1, WalkStays
  <2>3. Hops \in k..Hops
    BY SectionsAssumption
  <2>4. Referent(fs, disk_, path) = Nowhere
    BY <2>2, <2>3 DEF Referent
  <2>5. QED
    BY <2>4 DEF Readable
<1>2. QED
  BY <1>1, WalkLands DEF ReadEntries

(* Two paths that meet at an entry on the way to a file are read as one file. *)
LEMMA SameReferent ==
  ASSUME NEW fs, NEW disk_, NEW path, NEW other, Readable(fs, disk_, other),
         RenameEntry(fs, disk_, path) \in ReadEntries(fs, disk_, other)
  PROVE  /\ CanonicalPath(fs, disk_, path) = CanonicalPath(fs, disk_, other)
         /\ CanonicalPath(fs, disk_, path) = Referent(fs, disk_, other)
<1> DEFINE w == Walk(fs, disk_, path)
<1> DEFINE v == Walk(fs, disk_, other)
<1>1. PICK j \in 0..Hops : RenameEntry(fs, disk_, path) = v[j]
  BY DEF ReadEntries
<1>2. w[0] = v[j] /\ \A i \in 1..Hops : w[i] = Followed(fs, disk_, w[i - 1])
  BY <1>1, WalkDefined
<1>3. \A i \in 1..Hops : v[i] = Followed(fs, disk_, v[i - 1])
  BY WalkDefined
<1>4. Referent(fs, disk_, path) = w[Hops] /\ Referent(fs, disk_, other) = v[Hops]
  BY DEF Referent
<1>5. \A i \in 0..Hops : \A n : n = w[i] /\ disk_[n].link = Nowhere => \A k \in i..Hops : w[k] = n
  BY WalkStays
<1> HIDE DEF w, v
<1> DEFINE S == {i \in Nat : i + j <= Hops => w[i] = v[i + j]}
<1>6. Hops \in Nat /\ j \in Nat /\ j <= Hops
  BY SectionsAssumption
<1>7. 0 \in S
  BY <1>2, <1>6
<1>8. ASSUME NEW i \in 1..Hops, i - 1 \in S PROVE i \in S
  <2>1. i \in Nat /\ i - 1 \in Nat
    BY <1>6
  <2>2. SUFFICES ASSUME i + j <= Hops PROVE w[i] = v[i + j]
    BY <2>1
  <2>3. (i - 1) + j <= Hops /\ i + j \in 1..Hops /\ (i + j) - 1 = (i - 1) + j
    BY <1>6, <2>1, <2>2
  <2>4. w[i - 1] = v[(i - 1) + j]
    BY <1>8, <2>3
  <2>5. v[i + j] = Followed(fs, disk_, v[(i - 1) + j])
    BY <1>3, <2>3
  <2>6. QED
    BY <1>2, <2>4, <2>5
<1>9. \A i \in 0..Hops : i \in S
  <2>1. S \in SUBSET Nat
    OBVIOUS
  <2> HIDE DEF S
  <2>2. QED
    BY <1>7, <1>8, <2>1, EveryHop
<1>10. Hops - j \in 0..Hops /\ (Hops - j) + j = Hops /\ Hops \in (Hops - j)..Hops
  BY <1>6
<1>11. w[Hops - j] = v[Hops]
  BY <1>6, <1>9, <1>10
<1>12. v[Hops] # Nowhere /\ disk_[v[Hops]].link = Nowhere
  BY <1>4 DEF Readable
<1>13. w[Hops] = v[Hops]
  BY <1>5, <1>10, <1>11, <1>12
<1>14. QED
  BY <1>4, <1>12, <1>13 DEF CanonicalPath

(* A file is read under its own name. *)
LEMMA FileRead ==
  ASSUME NEW fs, NEW disk_, NEW path, NEW n, n = RenameEntry(fs, disk_, path),
         n # Nowhere, disk_[n].link = Nowhere
  PROVE  /\ Referent(fs, disk_, path) = n /\ ReadThrough(fs, disk_, path) = disk_[n]
         /\ n \in LandingNames(fs, disk_, path)
<1>1. 0 \in 0..Hops /\ Hops \in 0..Hops
  BY SectionsAssumption
<1>2. Walk(fs, disk_, path)[0] = n
  BY WalkDefined
<1>3. Referent(fs, disk_, path) = n
  BY <1>1, <1>2, WalkStays DEF Referent
<1>4. ~IsLink(fs, disk_, path) /\ CanonicalPath(fs, disk_, path) = n
  BY <1>3 DEF IsLink, CanonicalPath
<1>5. QED
  BY <1>3, <1>4 DEF ReadThrough, LandingNames

(* A rename puts its file under the path's own spelling, and moves no other entry. *)
LEMMA RenameKeeps ==
  ASSUME NEW fs, NEW disk_, NEW path, NEW node, NEW next, next = Renamed(fs, disk_, path, node),
         NEW old, old = RenameEntry(fs, disk_, path), NEW home, home = RenameTarget(fs, path),
         UniqueNames(fs, disk_), Nowhere \notin DOMAIN disk_, home # Nowhere
  PROVE  /\ UniqueNames(fs, next) /\ Nowhere \notin DOMAIN next
         /\ home \in DOMAIN next /\ next[home] = node /\ RenameEntry(fs, next, path) = home
         /\ \A m \in DOMAIN disk_ : m # old => m \in DOMAIN next /\ m # home /\ next[m] = disk_[m]
         /\ \A m \in DOMAIN next : m # home => m \in DOMAIN disk_ /\ next[m] = disk_[m]
<1>1. home.dir = CanonicalDir(fs, path.dir) /\ home.leaf = path.leaf
  BY DEF RenameTarget, Path
<1>2. /\ DOMAIN next = (DOMAIN disk_ \ {old}) \cup {home} /\ next[home] = node
      /\ \A m \in DOMAIN next : m # home => next[m] = disk_[m]
  BY DEF Renamed
<1>3. \A m \in DOMAIN disk_ : m.dir = home.dir /\ Folded(fs, m.leaf) = Folded(fs, home.leaf) => m = old
  BY <1>1, EntryIs
<1>4. home \in DOMAIN disk_ => home = old
  BY <1>3
<1>5. \A m \in DOMAIN disk_ : m # old => m \in DOMAIN next /\ m # home /\ next[m] = disk_[m]
  BY <1>2, <1>4
<1>6. \A m \in DOMAIN next : m # home => m \in DOMAIN disk_ /\ m # old /\ next[m] = disk_[m]
  BY <1>2
<1>7. ASSUME NEW m \in DOMAIN next, NEW n \in DOMAIN next, m.dir = n.dir,
             Folded(fs, m.leaf) = Folded(fs, n.leaf)
      PROVE  m = n
  <2>1. CASE m # home /\ n # home
    BY <1>6, <1>7, <2>1 DEF UniqueNames
  <2>2. CASE m # home /\ n = home
    BY <1>3, <1>6, <1>7, <2>2
  <2>3. CASE m = home /\ n # home
    BY <1>3, <1>6, <1>7, <2>3
  <2>4. CASE m = home /\ n = home
    BY <2>4
  <2>5. QED
    BY <2>1, <2>2, <2>3, <2>4
<1>8. UniqueNames(fs, next)
  BY <1>7 DEF UniqueNames
<1>9. RenameEntry(fs, next, path) = home
  BY <1>1, <1>2, <1>8, EntryIs
<1>10. QED
  BY <1>2, <1>5, <1>6, <1>8, <1>9

(* An entry the rename did not replace is still found under every path that led to
   it.                                                                        *)
LEMMA RenameFinds ==
  ASSUME NEW fs, NEW disk_, NEW path, NEW node, NEW next, next = Renamed(fs, disk_, path, node),
         UniqueNames(fs, disk_), Nowhere \notin DOMAIN disk_, RenameTarget(fs, path) # Nowhere,
         NEW other, NEW n, n = RenameEntry(fs, disk_, other), n # Nowhere,
         n # RenameEntry(fs, disk_, path)
  PROVE  RenameEntry(fs, next, other) = n /\ n \in DOMAIN next /\ next[n] = disk_[n]
<1>1. n \in DOMAIN disk_ /\ n.dir = CanonicalDir(fs, other.dir) /\ Folded(fs, n.leaf) = Folded(fs, other.leaf)
  BY EntryFound
<1>2. UniqueNames(fs, next) /\ n \in DOMAIN next /\ next[n] = disk_[n]
  BY <1>1, RenameKeeps
<1>3. QED
  BY <1>1, <1>2, EntryIs

(* A path whose read does not follow the entry a rename replaces is read as before. *)
LEMMA RenameSpares ==
  ASSUME NEW fs, NEW disk_, NEW path, NEW node, NEW next, next = Renamed(fs, disk_, path, node),
         UniqueNames(fs, disk_), Nowhere \notin DOMAIN disk_, RenameTarget(fs, path) # Nowhere,
         NEW a, \A k \in 0..Hops : Walk(fs, disk_, a)[k] \in DOMAIN disk_,
         RenameEntry(fs, disk_, path) \notin ReadEntries(fs, disk_, a)
  PROVE  \A k \in 0..Hops :
           LET n == Walk(fs, disk_, a)[k]
           IN  Walk(fs, next, a)[k] = n /\ n \in DOMAIN next /\ next[n] = disk_[n]
<1> DEFINE w == Walk(fs, disk_, a)
<1> DEFINE v == Walk(fs, next, a)
<1>1. w[0] = RenameEntry(fs, disk_, a) /\ \A i \in 1..Hops : w[i] = Followed(fs, disk_, w[i - 1])
  BY WalkDefined
<1>2. v[0] = RenameEntry(fs, next, a) /\ \A i \in 1..Hops : v[i] = Followed(fs, next, v[i - 1])
  BY WalkDefined
<1>3. ASSUME NEW k \in 0..Hops PROVE w[k] \in DOMAIN disk_ /\ w[k] # Nowhere /\ w[k] # RenameEntry(fs, disk_, path)
  BY <1>3 DEF ReadEntries
<1> HIDE DEF w, v
<1>4. \A k \in 0..Hops : w[k] \in DOMAIN next /\ next[w[k]] = disk_[w[k]]
  BY <1>3, RenameKeeps
<1> DEFINE S == {i \in Nat : i <= Hops => v[i] = w[i]}
<1>5. 0 \in S
  <2>1. 0 \in 0..Hops
    BY SectionsAssumption
  <2>2. w[0] # Nowhere /\ w[0] # RenameEntry(fs, disk_, path)
    BY <1>3, <2>1
  <2>3. v[0] = w[0]
    BY <1>1, <1>2, <2>2, RenameFinds
  <2>4. QED
    BY <2>3
<1>6. ASSUME NEW i \in 1..Hops, i - 1 \in S PROVE i \in S
  <2>1. i \in Nat /\ i - 1 \in Nat /\ i \in 0..Hops /\ i - 1 \in 0..Hops /\ i - 1 <= Hops
    BY SectionsAssumption
  <2>2. v[i - 1] = w[i - 1]
    BY <1>6, <2>1
  <2>3. w[i] = Followed(fs, disk_, w[i - 1]) /\ v[i] = Followed(fs, next, w[i - 1])
    BY <1>1, <1>2, <2>2
  <2>4. w[i - 1] # Nowhere /\ next[w[i - 1]] = disk_[w[i - 1]]
    BY <1>3, <1>4, <2>1
  <2>5. CASE disk_[w[i - 1]].link = Nowhere
    <3>1. v[i] = w[i]
      BY <2>3, <2>4, <2>5 DEF Followed
    <3>2. QED
      BY <2>1, <3>1
  <2>6. CASE disk_[w[i - 1]].link # Nowhere
    <3>1. /\ w[i] = RenameEntry(fs, disk_, disk_[w[i - 1]].link)
          /\ v[i] = RenameEntry(fs, next, disk_[w[i - 1]].link)
      BY <2>3, <2>4, <2>6 DEF Followed
    <3>2. w[i] # Nowhere /\ w[i] # RenameEntry(fs, disk_, path)
      BY <1>3, <2>1
    <3>3. v[i] = w[i]
      BY <3>1, <3>2, RenameFinds
    <3>4. QED
      BY <2>1, <3>3
  <2>7. QED
    BY <2>5, <2>6
<1>7. \A i \in 0..Hops : i \in S
  <2>1. S \in SUBSET Nat
    OBVIOUS
  <2> HIDE DEF S
  <2>2. QED
    BY <1>5, <1>6, <2>1, EveryHop
<1>8. \A k \in 0..Hops : v[k] = w[k]
  BY <1>7, SectionsAssumption
<1>9. QED
  BY <1>4, <1>8 DEF v, w
-----------------------------------------------------------------------------
(* What keeps the files whole. *)

Delivered == {t \in DOMAIN results : results[t] \in {"rendered", "snapshot", "partial"}}
Home(t) == RenameTarget(case.fs, FileOf(t))

(* What has been done agrees with where the run is. *)
Underway == {"reading", "open", "writing", "renaming"}
Progress ==
  /\ run \in Nat \ {0} /\ at \in Nat \ {0}
  /\ Rendering =>
       /\ phase \notin {"locating", "reading"} /\ Len(results) <= 1
       /\ phase # "over" => results = <<>>
  /\ ~Rendering =>
       /\ phase # "merging"
       /\ phase \in Underway => at \in DOMAIN case.targets /\ Home(at) \in claimed
       /\ phase \in Underway \cup {"start", "locating"} => Len(results) = at - 1
       /\ results = <<"refused">> \/ DOMAIN results \subseteq DOMAIN case.targets
       /\ \A t \in Delivered : Home(t) \in claimed

(* Every entry is whole under a name of its own, and what bears this run's number
   is a target's that the run calls written.                                 *)
DiskSound ==
  /\ UniqueNames(case.fs, disk) /\ Nowhere \notin DOMAIN disk
  /\ \A n \in DOMAIN disk :
       /\ disk[n].link # Nowhere \/ disk[n].whole
       /\ disk[n].run \in Nat /\ disk[n].run <= run
       /\ disk[n].run = run => \E t \in Delivered : disk[n].by = AuthorOf(t)

(* An authored document is read through the entries it was always read through. *)
AuthoredStand ==
  \A a \in case.authored : \A k \in 0..Hops :
    LET n == Walk(case.fs, case.disk, a)[k]
    IN  Walk(case.fs, disk, a)[k] = n /\ n \in DOMAIN disk /\ disk[n] = case.disk[n]

(* What was written lies under its own spelling. *)
WrittenStand ==
  \A t \in Delivered :
    /\ Home(t) \in DOMAIN disk /\ disk[Home(t)].link = Nowhere
    /\ disk[Home(t)].by = AuthorOf(t) /\ disk[Home(t)].run = run

(* Once the run has checked a destination, the entry its rename will replace is
   neither read for an authored document nor one that was written.           *)
Harmless(path) ==
  LET n == RenameEntry(case.fs, disk, path)
  IN  /\ \A a \in case.authored : n \notin ReadEntries(case.fs, disk, a)
      /\ \A t \in Delivered : n # Home(t)
Checked ==
  phase \in Underway \cup {"merging"} \/ (phase = "locating" /\ case.mode = "file" /\ at = 1)
CheckedHolds == Checked => Harmless(FileOf(at))

OthersStay == {s \in case.staging : s.by = "other"} \subseteq staging

FileInv ==
  Progress /\ DiskSound /\ AuthoredStand /\ WrittenStand /\ CheckedHolds /\ OthersStay

-----------------------------------------------------------------------------
(* What the parts of the invariant say of one another. *)

(* What is known of the inputs of a run. *)
LEMMA Inputs ==
  ASSUME case \in Cases
  PROVE  /\ case.mode \in {"render", "file", "dir"} /\ FilesFound(case) /\ TargetsResolved(case)
         /\ case.targets \in Seq(ToSet(case.targets)) /\ Len(case.targets) \in Nat
         /\ DOMAIN case.targets = 1..Len(case.targets)
<1>1. case.mode \in {"render", "file", "dir"} /\ FilesFound(case) /\ TargetsResolved(case)
  BY CasesAssumption
<1>2. case.targets \in Seq(ToSet(case.targets))
  BY <1>1 DEF TargetsResolved
<1>3. QED
  BY <1>1, <1>2

(* The name a destination is renamed to is one. *)
LEMMA HomeIsSomewhere ==
  ASSUME case \in Cases, NEW t, Rendering \/ t \in DOMAIN case.targets
  PROVE  Home(t) # Nowhere
<1>1. FileOf(t) \in Destinations(case)
  <2>1. CASE Rendering
    BY <2>1 DEF Destinations, Rendering, FileOf
  <2>2. CASE ~Rendering
    <3>1. case.targets[t] \in ToSet(case.targets)
      BY <2>2 DEF ToSet
    <3>2. QED
      BY <2>2, <3>1 DEF Destinations, Rendering, FileOf
  <2>3. QED
    BY <2>1, <2>2
<1>2. QED
  BY <1>1, Inputs DEF FilesFound, Home

(* An authored document is there to be read, and in mode snapshot under its own name. *)
LEMMA AuthoredRead ==
  ASSUME case \in Cases, AuthoredStand, Nowhere \notin DOMAIN disk, NEW a \in case.authored
  PROVE  /\ Readable(case.fs, disk, a)
         /\ \A k \in 0..Hops : Walk(case.fs, disk, a)[k] \in DOMAIN disk
         /\ ReadThrough(case.fs, disk, a) = ReadThrough(case.fs, case.disk, a)
         /\ case.mode = "dir" => ReadEntries(case.fs, disk, a) = {a} /\ Referent(case.fs, disk, a) = a
<1> DEFINE w == Walk(case.fs, case.disk, a)
<1> DEFINE v == Walk(case.fs, disk, a)
<1>1. \A k \in 0..Hops : v[k] = w[k] /\ w[k] \in DOMAIN disk /\ disk[w[k]] = case.disk[w[k]]
  BY DEF AuthoredStand
<1>2. Hops \in 0..Hops
  BY SectionsAssumption
<1>3. Readable(case.fs, case.disk, a) /\ (case.mode = "dir" => ReadEntries(case.fs, case.disk, a) = {a})
  BY Inputs DEF FilesFound
<1>4. Referent(case.fs, disk, a) = w[Hops] /\ Referent(case.fs, case.disk, a) = w[Hops]
  BY <1>1, <1>2 DEF Referent
<1>5. ReadEntries(case.fs, disk, a) = ReadEntries(case.fs, case.disk, a)
  BY <1>1 DEF ReadEntries
<1>6. w[Hops] \in ReadEntries(case.fs, case.disk, a)
  BY <1>2, <1>3, ReadableWalk
<1> HIDE DEF w, v
<1>7. w[Hops] # Nowhere /\ disk[w[Hops]] = case.disk[w[Hops]] /\ disk[w[Hops]].link = Nowhere
  BY <1>1, <1>2, <1>3, <1>4 DEF Readable
<1>8. Readable(case.fs, disk, a) /\ ReadThrough(case.fs, disk, a) = ReadThrough(case.fs, case.disk, a)
  BY <1>4, <1>7 DEF Readable, ReadThrough
<1>9. case.mode = "dir" => ReadEntries(case.fs, disk, a) = {a} /\ Referent(case.fs, disk, a) = a
  BY <1>3, <1>4, <1>5, <1>6
<1>10. QED
  BY <1>1, <1>8, <1>9 DEF v

(* What was written is the entry under its path, a file, and is read under it. *)
LEMMA WrittenRead ==
  ASSUME DiskSound, WrittenStand, NEW t \in Delivered
  PROVE  /\ RenameEntry(case.fs, disk, FileOf(t)) = Home(t) /\ Home(t) # Nowhere
         /\ ReadThrough(case.fs, disk, FileOf(t)) = disk[Home(t)]
<1>1. Home(t) \in DOMAIN disk /\ disk[Home(t)].link = Nowhere /\ UniqueNames(case.fs, disk) /\ Nowhere \notin DOMAIN disk
  BY DEF DiskSound, WrittenStand
<1>2. Home(t).dir = CanonicalDir(case.fs, FileOf(t).dir) /\ Home(t).leaf = FileOf(t).leaf
  BY DEF Home, RenameTarget, Path
<1>3. RenameEntry(case.fs, disk, FileOf(t)) = Home(t) /\ Home(t) # Nowhere
  BY <1>1, <1>2, EntryIs
<1>4. QED
  BY <1>1, <1>3, FileRead

(* The files are whole while the invariant holds. *)
LEMMA FilesWhole ==
  ASSUME StateOK, FileInv
  PROVE  FilesStayWhole
<1>1. case \in Cases /\ results \in Seq(Results) /\ Progress /\ DiskSound /\ AuthoredStand /\ WrittenStand /\ OthersStay
  BY DEF StateOK, FileInv
<1>2. \A n \in DOMAIN disk : disk[n].link # Nowhere \/ disk[n].whole
  BY <1>1 DEF DiskSound
<1>3. \A a \in case.authored : ReadThrough(case.fs, disk, a) = ReadThrough(case.fs, case.disk, a)
  BY <1>1, AuthoredRead DEF DiskSound
<1>4. ASSUME NEW t \in DOMAIN results, results[t] \in {"rendered", "snapshot", "partial"}
      PROVE  LET node == ReadThrough(case.fs, disk, FileOf(t))
             IN  node.by = AuthorOf(t) /\ node.run = run
  <2>1. t \in Delivered
    BY <1>4 DEF Delivered
  <2>2. ReadThrough(case.fs, disk, FileOf(t)) = disk[Home(t)]
    BY <1>1, <2>1, WrittenRead
  <2>3. QED
    BY <1>1, <2>1, <2>2 DEF WrittenStand
<1>5. ASSUME NEW t \in DOMAIN results, results[t] \notin {"rendered", "snapshot", "partial"},
             NEW n \in DOMAIN disk, disk[n].by = AuthorOf(t), disk[n].run = run
      PROVE  FALSE
  <2>1. PICK s \in Delivered : disk[n].by = AuthorOf(s)
    BY <1>1, <1>5 DEF DiskSound
  <2>2. s # t /\ s \in DOMAIN results
    BY <1>5, <2>1 DEF Delivered
  <2>3. DOMAIN results = 1..Len(results) /\ Len(results) \in Nat
    BY <1>1
  <2>4. CASE Rendering
    <3>1. Len(results) <= 1
      BY <1>1, <2>4 DEF Progress
    <3>2. QED
      BY <1>5, <2>2, <2>3, <3>1
  <2>5. CASE ~Rendering
    <3>1. DOMAIN results \subseteq DOMAIN case.targets
      <4>1. CASE results = <<"refused">>
        <5>1. DOMAIN results = {1}
          BY <2>3, <4>1
        <5>2. QED
          BY <1>5, <2>2, <5>1
      <4>2. QED
        BY <1>1, <2>5, <4>1 DEF Progress
    <3>2. case.targets[s].slug = case.targets[t].slug
      BY <1>5, <2>1, <2>5 DEF AuthorOf
    <3>3. QED
      BY <1>1, <2>2, <3>1, <3>2, Inputs DEF TargetsResolved
  <2>6. QED
    BY <2>4, <2>5
<1>6. {s \in case.staging : s.by = "other"} \subseteq staging
  BY <1>1 DEF OthersStay
<1>7. QED
  BY <1>2, <1>3, <1>4, <1>5, <1>6 DEF FilesStayWhole

-----------------------------------------------------------------------------
(* The invariant holds at the start and survives every step. *)

(* The files are sound as they are found. *)
LEMMA FilesBegin == Init => FileInv
<1> SUFFICES ASSUME Init PROVE FileInv
  OBVIOUS
<1>1. /\ case \in Cases /\ disk = case.disk /\ staging = case.staging /\ run = 1
      /\ phase = "start" /\ at = 1 /\ results = <<>>
  BY DEF Init
<1>2. Delivered = {} /\ Len(results) = 0 /\ DOMAIN results = {}
  BY <1>1 DEF Delivered
<1>3. Progress
  BY <1>1, <1>2 DEF Progress, Underway
<1>4. FilesFound(case)
  BY <1>1, Inputs
<1>5. DiskSound
  BY <1>1, <1>4 DEF DiskSound, FilesFound
<1>6. AuthoredStand
  BY <1>1, <1>4, ReadableWalk DEF AuthoredStand, FilesFound
<1>7. WrittenStand /\ OthersStay
  BY <1>1, <1>2 DEF WrittenStand, OthersStay
<1>8. CheckedHolds
  BY <1>1 DEF CheckedHolds, Checked, Underway
<1>9. QED
  BY <1>3, <1>5, <1>6, <1>7, <1>8 DEF FileInv

(* The files stay sound while no entry moves and no target is added to the written. *)
LEMMA FilesRest ==
  ASSUME DiskSound, AuthoredStand, WrittenStand, case' = case, run' = run, disk' = disk,
         Delivered' = Delivered
  PROVE  /\ DiskSound' /\ AuthoredStand' /\ WrittenStand'
         /\ \A path : Harmless(path) => Harmless(path)'
<1>1. \A t : AuthorOf(t)' = AuthorOf(t) /\ Home(t)' = Home(t)
  BY DEF AuthorOf, Home, FileOf, Rendering
<1>2. DiskSound'
  BY <1>1 DEF DiskSound
<1>3. AuthoredStand'
  BY DEF AuthoredStand
<1>4. WrittenStand'
  BY <1>1 DEF WrittenStand
<1>5. \A path : Harmless(path) => Harmless(path)'
  BY <1>1 DEF Harmless
<1>6. QED
  BY <1>2, <1>3, <1>4, <1>5

(* A step that concludes nothing moves no entry. *)
LEMMA FilesUnmoved ==
  ASSUME FileInv, case' = case, run' = run, disk' = disk, results' = results, OthersStay',
         Progress', Checked' => Checked /\ FileOf(at)' = FileOf(at)
  PROVE  FileInv'
<1>1. Delivered' = Delivered
  BY DEF Delivered
<1>2. DiskSound' /\ AuthoredStand' /\ WrittenStand' /\ \A path : Harmless(path) => Harmless(path)'
  BY <1>1, FilesRest DEF FileInv
<1>3. CheckedHolds'
  <2>1. SUFFICES ASSUME Checked' PROVE Harmless(FileOf(at))'
    BY DEF CheckedHolds
  <2>2. PICK path : path = FileOf(at)
    OBVIOUS
  <2>3. Harmless(path) /\ FileOf(at)' = path
    BY <2>1, <2>2 DEF FileInv, CheckedHolds
  <2>4. Harmless(path)'
    BY <1>2, <2>3
  <2>5. QED
    BY <2>3, <2>4 DEF Harmless
<1>4. QED
  BY <1>2, <1>3 DEF FileInv

(* A step that goes on from one part of a target to the next leaves the files. *)
LEMMA FilesGoOn ==
  ASSUME FileInv, case' = case, run' = run, disk' = disk, claimed' = claimed, at' = at,
         results' = results, phase \in Underway, phase' \in {"open", "writing", "renaming"}, OthersStay'
  PROVE  FileInv'
<1>1. Rendering' = Rendering /\ Delivered' = Delivered /\ (\A t : Home(t)' = Home(t)) /\ FileOf(at)' = FileOf(at)
  BY DEF Rendering, Delivered, Home, FileOf
<1>2. Progress'
  BY <1>1 DEF FileInv, Progress, Underway
<1>3. Checked
  BY DEF Checked
<1>4. QED
  BY <1>1, <1>2, <1>3, FilesUnmoved DEF FileInv

(* A step that leaves the run where it is, and its files as they are, keeps the invariant. *)
LEMMA FilesAbide ==
  ASSUME FileInv, case' = case, run' = run, disk' = disk, claimed' = claimed, staging' = staging,
         at' = at, results' = results, phase' = phase
  PROVE  FileInv'
<1>1. Rendering' = Rendering /\ Delivered' = Delivered /\ (\A t : Home(t)' = Home(t)) /\ FileOf(at)' = FileOf(at)
  BY DEF Rendering, Delivered, Home, FileOf
<1>2. Progress'
  BY <1>1 DEF FileInv, Progress, Underway
<1>3. Checked' => Checked
  BY DEF Checked
<1>4. OthersStay'
  BY DEF FileInv, OthersStay
<1>5. QED
  BY <1>1, <1>2, <1>3, <1>4, FilesUnmoved

(* A result that is appended is that of the target the run is at. *)
LEMMA ResultAppended ==
  ASSUME Progress, results \in Seq(Results), NEW result, results' = Append(results, result),
         phase \in Underway \cup {"locating"}
  PROVE  /\ Len(results) \in Nat /\ Len(results') = Len(results) + 1 /\ DOMAIN results' = 1..(Len(results) + 1)
         /\ ~Rendering => Len(results) + 1 = at
         /\ Rendering => Len(results) = 0
         /\ Delivered' = IF result \in {"rendered", "snapshot", "partial"}
                         THEN Delivered \cup {Len(results) + 1} ELSE Delivered
<1> DEFINE n == Len(results)
<1>1. /\ n \in Nat /\ DOMAIN results = 1..n /\ Len(results') = n + 1 /\ DOMAIN results' = 1..(n + 1)
      /\ results'[n + 1] = result /\ \A i \in 1..n : results'[i] = results[i]
  OBVIOUS
<1>2. /\ at \in Nat
      /\ ~Rendering => n = at - 1
      /\ Rendering => results = <<>>
  BY DEF Progress, Underway
<1>3. results = <<>> => n = 0
  OBVIOUS
<1> HIDE DEF n
<1>4. 1..(n + 1) = 1..n \cup {n + 1} /\ n + 1 \notin 1..n
  BY <1>1
<1>5. Delivered' = IF result \in {"rendered", "snapshot", "partial"} THEN Delivered \cup {n + 1} ELSE Delivered
  BY <1>1, <1>4 DEF Delivered
<1>6. QED
  BY <1>1, <1>2, <1>3, <1>5 DEF n

(* A target is concluded, written or not. *)
LEMMA TargetConcluded ==
  ASSUME case \in Cases, Progress, results \in Seq(Results), NEW result, Concludes(result),
         phase \in Underway, case' = case, run' = run, claimed' = claimed
  PROVE  Progress' /\ ~Checked'
<1>1. /\ results' = Append(results, result) /\ at \in Nat \ {0} /\ run \in Nat \ {0}
      /\ Rendering' = Rendering /\ (\A t : Home(t)' = Home(t))
      /\ Rendering => phase' = "over" /\ at' = at
      /\ ~Rendering => phase' = "locating" /\ at' = at + 1
  BY DEF Concludes, NextTarget, Rendering, Home, FileOf, Progress
<1>2. /\ Len(results) \in Nat /\ Len(results') = Len(results) + 1 /\ DOMAIN results' = 1..(Len(results) + 1)
      /\ ~Rendering => Len(results) + 1 = at
      /\ Rendering => Len(results) = 0
      /\ Delivered' \subseteq Delivered \cup {Len(results) + 1}
  BY <1>1, ResultAppended
<1>3. CASE Rendering
  <2>1. Progress'
    BY <1>1, <1>2, <1>3 DEF Progress, Underway
  <2>2. ~Checked'
    BY <1>1, <1>3 DEF Checked, Underway
  <2>3. QED
    BY <2>1, <2>2
<1>4. CASE ~Rendering
  <2>1. at \in DOMAIN case.targets /\ Home(at) \in claimed /\ \A t \in Delivered : Home(t) \in claimed
    BY <1>4 DEF Progress
  <2>2. DOMAIN results' \subseteq DOMAIN case.targets
    <3>1. at \in 1..Len(case.targets) /\ Len(case.targets) \in Nat /\ DOMAIN case.targets = 1..Len(case.targets)
      BY <2>1, Inputs
    <3>2. QED
      BY <1>2, <1>4, <3>1
  <2>3. \A t \in Delivered' : Home(t)' \in claimed'
    BY <1>1, <1>2, <1>4, <2>1
  <2>4. Len(results') = at' - 1 /\ at' \in Nat \ {0} /\ at' # 1
    BY <1>1, <1>2, <1>4
  <2>5. Progress'
    BY <1>1, <1>4, <2>2, <2>3, <2>4 DEF Progress, Underway
  <2>6. ~Checked'
    BY <1>1, <1>4, <2>4 DEF Checked, Underway
  <2>7. QED
    BY <2>5, <2>6
<1>5. QED
  BY <1>3, <1>4

(* A target that fails moves no entry. *)
LEMMA TargetFailed ==
  ASSUME case \in Cases, FileInv, results \in Seq(Results), Concludes("failed"),
         phase \in Underway, case' = case, run' = run, claimed' = claimed, disk' = disk, OthersStay'
  PROVE  FileInv'
<1>1. Progress' /\ ~Checked'
  BY TargetConcluded DEF FileInv
<1>2. results' = Append(results, "failed")
  BY DEF Concludes
<1>3. Delivered' = Delivered
  BY <1>2, ResultAppended DEF FileInv
<1>4. DiskSound' /\ AuthoredStand' /\ WrittenStand'
  BY <1>3, FilesRest DEF FileInv
<1>5. QED
  BY <1>1, <1>4 DEF FileInv, CheckedHolds

(* No file of this program's bears another writer's name. *)
LEMMA SignedByItself ==
  ASSUME case \in Cases, Progress, phase \in Underway
  PROVE  Staging(FALSE).by # "other" /\ Staging(TRUE).by # "other"
<1>1. Author # "other"
  <2>1. CASE Rendering
    BY <2>1 DEF Author
  <2>2. CASE ~Rendering
    <3>1. at \in DOMAIN case.targets /\ case.targets[at] \in ToSet(case.targets)
      BY <2>2 DEF Progress, ToSet
    <3>2. QED
      BY <2>2, <3>1, Inputs DEF TargetsResolved, Author, Target
  <2>3. QED
    BY <2>1, <2>2
<1>2. QED
  BY <1>1 DEF Staging

(* A write that fails removes no file but its own, and concludes its target. *)
LEMMA WriteFailed ==
  ASSUME case \in Cases, FileInv, results \in Seq(Results), NEW made, NEW met, WriteFails(made, met),
         phase \in Underway, case' = case, run' = run, made => met = {}
  PROVE  FileInv'
<1>1. Concludes("failed") /\ disk' = disk /\ claimed' = claimed /\ staging' = CleanUp(made, met)
  BY DEF WriteFails
<1>2. Staging(FALSE).by # "other" /\ Staging(TRUE).by # "other"
  BY SignedByItself DEF FileInv
<1>3. \A s \in staging : s.by = "other" => s \in staging'
  BY <1>1, <1>2 DEF CleanUp
<1>4. OthersStay'
  BY <1>3 DEF OthersStay, FileInv
<1>5. QED
  BY <1>1, <1>4, TargetFailed

(* A destination the run admits is not a file that is read for another. *)
LEMMA AdmittedFile ==
  ASSUME case \in Cases, AuthoredStand, Nowhere \notin DOMAIN disk, NEW path,
         ~ \E a \in case.authored : FileCollision(case.fs, disk, path, a)
  PROVE  \A a \in case.authored : RenameEntry(case.fs, disk, path) \notin ReadEntries(case.fs, disk, a)
<1>1. SUFFICES ASSUME NEW a \in case.authored, RenameEntry(case.fs, disk, path) \in ReadEntries(case.fs, disk, a)
               PROVE  FALSE
  OBVIOUS
<1>2. Readable(case.fs, disk, a)
  BY AuthoredRead
<1>3. CanonicalPath(case.fs, disk, path) = CanonicalPath(case.fs, disk, a)
  BY <1>1, <1>2, SameReferent
<1>4. QED
  BY <1>3 DEF FileCollision

(* A target the run admits lands on no authored file and on no file it has written. *)
LEMMA AdmittedTarget ==
  ASSUME case \in Cases, case.mode = "dir", FileInv, ~ Refused
  PROVE  Harmless(Target.path)
<1> DEFINE p == Target.path
<1> DEFINE n == RenameEntry(case.fs, disk, p)
<1>1. Progress /\ DiskSound /\ AuthoredStand /\ WrittenStand /\ Nowhere \notin DOMAIN disk
  BY DEF FileInv, DiskSound
<1>2. /\ CanonicalPath(case.fs, disk, p) \notin case.authored
      /\ \A m \in LandingNames(case.fs, disk, p) : m \notin claimed
  BY DEF Refused, LandsOnAuthored, LandsOnClaimed
<1>3. ASSUME NEW a \in case.authored, n \in ReadEntries(case.fs, disk, a)
      PROVE  FALSE
  <2>1. Readable(case.fs, disk, a) /\ Referent(case.fs, disk, a) = a
    BY <1>1, AuthoredRead
  <2>2. CanonicalPath(case.fs, disk, p) = a
    BY <1>3, <2>1, SameReferent
  <2>3. QED
    BY <1>2, <2>2
<1>4. ASSUME NEW t \in Delivered, n = Home(t)
      PROVE  FALSE
  <2>1. Home(t) # Nowhere /\ disk[Home(t)].link = Nowhere
    BY <1>1, WrittenRead DEF WrittenStand
  <2>2. n \in LandingNames(case.fs, disk, p)
    BY <1>4, <2>1, FileRead
  <2>3. ~Rendering
    BY DEF Rendering
  <2>4. Home(t) \in claimed
    BY <1>1, <2>3 DEF Progress
  <2>5. QED
    BY <1>2, <1>4, <2>2, <2>4
<1>5. QED
  BY <1>3, <1>4 DEF Harmless

(* A run that starts has checked the destination of a render or of a single file. *)
LEMMA Starting ==
  ASSUME StateOK, FileInv, Start
  PROVE  FileInv'
<1>1. /\ case \in Cases /\ phase = "start" /\ results = <<>> /\ case' = case /\ run' = run /\ at' = at
      /\ disk' = disk /\ staging' = staging /\ claimed' = claimed
  BY DEF StateOK, Start, files
<1>2. Rendering' = Rendering /\ Progress /\ DiskSound /\ AuthoredStand /\ Nowhere \notin DOMAIN disk
  BY <1>1 DEF Rendering, FileInv, DiskSound
<1>3. Delivered = {} /\ Len(results) = 0 /\ DOMAIN results = {}
  BY <1>1 DEF Delivered
<1>4. at \in Nat \ {0} /\ run \in Nat \ {0} /\ (~Rendering => at = 1)
  BY <1>1, <1>2, <1>3 DEF Progress
<1>5. OthersStay'
  BY <1>1 DEF FileInv, OthersStay
<1>6. CASE phase' = "over" /\ results' = <<"refused">>
  <2>1. Len(results') = 1 /\ DOMAIN results' = {1} /\ results'[1] = "refused"
    BY <1>6
  <2>2. Delivered' = {}
    BY <2>1 DEF Delivered
  <2>3. DiskSound' /\ AuthoredStand' /\ WrittenStand'
    BY <1>1, <1>3, <2>2, FilesRest DEF FileInv
  <2>4. Progress'
    BY <1>1, <1>2, <1>4, <1>6, <2>1, <2>2 DEF Progress, Underway
  <2>5. CheckedHolds'
    BY <1>6 DEF CheckedHolds, Checked, Underway
  <2>6. QED
    BY <1>5, <2>3, <2>4, <2>5 DEF FileInv
<1>7. CASE /\ ~Collides /\ results' = results
           /\ phase' = (IF Rendering THEN "merging" ELSE "locating")
  <2>1. Delivered' = Delivered
    BY <1>7 DEF Delivered
  <2>2. DiskSound' /\ AuthoredStand' /\ WrittenStand' /\ \A path : Harmless(path) => Harmless(path)'
    BY <1>1, <2>1, FilesRest DEF FileInv
  <2>3. Progress'
    BY <1>1, <1>2, <1>3, <1>4, <1>7, <2>1 DEF Progress, Underway
  <2>4. ASSUME Checked' PROVE Harmless(FileOf(at))
    <3>1. CASE Rendering
      <4>1. ~RenderedFileCollision(case.fs, disk, case.path, case.authored)
        BY <1>7, <3>1 DEF Collides, Rendering
      <4>2. \A a \in case.authored : RenameEntry(case.fs, disk, case.path) \notin ReadEntries(case.fs, disk, a)
        BY <4>1 DEF RenderedFileCollision, ReadEntries
      <4>3. QED
        BY <1>3, <3>1, <4>2 DEF Harmless, FileOf
    <3>2. CASE ~Rendering
      <4>1. case.mode = "file" /\ at = 1
        BY <1>1, <1>4, <1>7, <2>4, <3>2 DEF Checked, Underway
      <4>2. ~ \E a \in case.authored : FileCollision(case.fs, disk, case.targets[1].path, a)
        BY <1>7, <4>1 DEF Collides
      <4>3. \A a \in case.authored :
              RenameEntry(case.fs, disk, case.targets[1].path) \notin ReadEntries(case.fs, disk, a)
        BY <1>1, <1>2, <4>2, AdmittedFile
      <4>4. QED
        BY <1>3, <3>2, <4>1, <4>3 DEF Harmless, FileOf
    <3>3. QED
      BY <3>1, <3>2
  <2>5. CheckedHolds'
    <3>1. SUFFICES ASSUME Checked' PROVE Harmless(FileOf(at))'
      BY DEF CheckedHolds
    <3>2. PICK path : path = FileOf(at)
      OBVIOUS
    <3>3. Harmless(path)' /\ FileOf(at)' = path
      BY <1>1, <1>2, <2>2, <2>4, <3>1, <3>2 DEF FileOf
    <3>4. QED
      BY <3>3 DEF Harmless
  <2>6. QED
    BY <1>5, <2>2, <2>3, <2>5 DEF FileInv
<1>8. QED
  BY <1>6, <1>7 DEF Start

(* A target is claimed, and read, only once its file is checked. *)
LEMMA Claiming ==
  ASSUME StateOK, FileInv, Locate
  PROVE  FileInv'
<1>1. /\ case \in Cases /\ results \in Seq(Results) /\ phase = "locating" /\ case' = case /\ run' = run
      /\ disk' = disk /\ staging' = staging
  BY DEF StateOK, Locate
<1>2. Rendering' = Rendering /\ ~Rendering /\ Progress /\ DiskSound /\ AuthoredStand /\ WrittenStand
  BY <1>1 DEF Rendering, FileInv, Progress
<1>3. at \in Nat \ {0} /\ run \in Nat \ {0} /\ Len(results) = at - 1
      /\ (results = <<"refused">> \/ DOMAIN results \subseteq DOMAIN case.targets)
      /\ \A t \in Delivered : Home(t) \in claimed
  BY <1>1, <1>2 DEF Progress
<1>4. OthersStay' /\ \A t : Home(t)' = Home(t)
  BY <1>1 DEF FileInv, OthersStay, Home, FileOf, Rendering
<1>5. CASE phase' = "over" /\ at' = at /\ claimed' = claimed /\ results' = results
  <2>1. Delivered' = Delivered
    BY <1>5 DEF Delivered
  <2>2. Progress'
    BY <1>1, <1>2, <1>3, <1>4, <1>5, <2>1 DEF Progress, Underway
  <2>3. ~Checked'
    BY <1>5 DEF Checked, Underway
  <2>4. QED
    BY <1>1, <1>4, <1>5, <2>2, <2>3, FilesUnmoved
<1>6. CASE ~(at > Len(case.targets))
  <2>1. at \in DOMAIN case.targets
    BY <1>1, <1>3, <1>6, Inputs
  <2>2. CASE results' = Append(results, "failed") /\ at' = at + 1 /\ phase' = phase /\ claimed' = claimed
    <3>1. /\ Len(results') = Len(results) + 1 /\ DOMAIN results' = 1..(Len(results) + 1)
          /\ Len(results) + 1 = at /\ Delivered' = Delivered
      BY <1>1, <1>2, <2>2, ResultAppended
    <3>2. DOMAIN results' \subseteq DOMAIN case.targets
      <4>1. at \in 1..Len(case.targets) /\ Len(case.targets) \in Nat /\ DOMAIN case.targets = 1..Len(case.targets)
        BY <1>1, <2>1, Inputs
      <4>2. QED
        BY <3>1, <4>1
    <3>3. Len(results') = at' - 1 /\ at' \in Nat \ {0} /\ at' # 1
      BY <1>3, <2>2, <3>1
    <3>4. Progress'
      BY <1>1, <1>2, <1>3, <1>4, <2>2, <3>1, <3>2, <3>3 DEF Progress, Underway
    <3>5. ~Checked'
      BY <1>1, <2>2, <3>3 DEF Checked, Underway
    <3>6. DiskSound' /\ AuthoredStand' /\ WrittenStand'
      BY <1>1, <1>2, <3>1, FilesRest
    <3>7. QED
      BY <1>4, <3>4, <3>5, <3>6 DEF FileInv, CheckedHolds
  <2>3. CASE /\ ~ Refused /\ claimed' = claimed \cup {RenameTarget(case.fs, Target.path)}
             /\ phase' = "reading" /\ at' = at /\ results' = results
    <3>1. Delivered' = Delivered
      BY <2>3 DEF Delivered
    <3>2. FileOf(at) = Target.path /\ Home(at) = RenameTarget(case.fs, Target.path)
      BY <1>2 DEF FileOf, Home, Target
    <3>3. Progress'
      BY <1>1, <1>2, <1>3, <1>4, <2>1, <2>3, <3>1, <3>2 DEF Progress, Underway
    <3>4. Harmless(FileOf(at))
      <4>1. CASE case.mode = "dir"
        BY <1>1, <2>3, <3>2, <4>1, AdmittedTarget
      <4>2. CASE case.mode = "file"
        <5>1. Len(case.targets) = 1 /\ at = 1
          BY <1>1, <2>1, <4>2, Inputs DEF TargetsResolved
        <5>2. QED
          BY <1>1, <4>2, <5>1 DEF FileInv, CheckedHolds, Checked
      <4>3. QED
        BY <1>1, <1>2, <4>1, <4>2, Inputs DEF Rendering
    <3>5. DiskSound' /\ AuthoredStand' /\ WrittenStand' /\ \A path : Harmless(path) => Harmless(path)'
      BY <1>1, <1>2, <3>1, FilesRest
    <3>6. CheckedHolds'
      <4>1. PICK path : path = FileOf(at)
        OBVIOUS
      <4>2. Harmless(path)' /\ FileOf(at)' = path
        BY <1>1, <1>2, <2>3, <3>4, <3>5, <4>1 DEF FileOf
      <4>3. QED
        BY <4>2 DEF Harmless, CheckedHolds
    <3>7. QED
      BY <1>4, <3>3, <3>5, <3>6 DEF FileInv
  <2>4. QED
    BY <1>6, <2>2, <2>3 DEF Locate
<1>7. QED
  BY <1>5, <1>6 DEF Locate

(* The rename puts a target's document in its place, and leaves every other entry
   that is read, or was written, in its own.                                  *)
LEMMA Renaming ==
  ASSUME StateOK, FileInv, phase = "renaming", case' = case, run' = run, claimed' = claimed,
         disk' = Renamed(case.fs, disk, Destination,
                         [link |-> Nowhere, by |-> Author, run |-> run, whole |-> TRUE]),
         staging' = staging \ {Staging(TRUE)}, Concludes(Written)
  PROVE  FileInv'
<1> DEFINE m == Len(results) + 1
<1> DEFINE node == [link |-> Nowhere, by |-> Author, run |-> run, whole |-> TRUE]
<1>1. /\ case \in Cases /\ results \in Seq(Results) /\ Progress /\ DiskSound /\ AuthoredStand
      /\ WrittenStand /\ phase \in Underway /\ run \in Nat
  BY DEF StateOK, FileInv, Underway, Progress
<1>2. PICK result : result = Written
  OBVIOUS
<1>3. result \in {"rendered", "snapshot", "partial"} /\ Concludes(result)
  BY <1>2 DEF Written, Concludes
<1>4. Progress' /\ ~Checked'
  BY <1>1, <1>3, TargetConcluded
<1>5. Delivered' = Delivered \cup {m} /\ (~Rendering => m = at)
  <2>1. results' = Append(results, result)
    BY <1>3 DEF Concludes
  <2>2. QED
    BY <1>1, <1>3, <2>1, ResultAppended
<1> HIDE DEF m
<1>6. /\ Destination = FileOf(at) /\ Author = AuthorOf(m)
      /\ RenameTarget(case.fs, Destination) = Home(m) /\ Home(m) = Home(at)
  BY <1>5 DEF Destination, Author, FileOf, AuthorOf, Home, Target
<1>7. Harmless(Destination)
  BY <1>1, <1>6 DEF FileInv, CheckedHolds, Checked
<1>8. Home(m) # Nowhere
  <2>1. Rendering \/ at \in DOMAIN case.targets
    BY <1>1 DEF Progress
  <2>2. QED
    BY <1>1, <1>6, <2>1, HomeIsSomewhere
<1>9. PICK next : next = disk'
  OBVIOUS
<1>10. PICK old : old = RenameEntry(case.fs, disk, Destination)
  OBVIOUS
<1>11. next = Renamed(case.fs, disk, Destination, node) /\ UniqueNames(case.fs, disk) /\ Nowhere \notin DOMAIN disk
  BY <1>1, <1>9 DEF DiskSound
<1>12. node.link = Nowhere /\ node.by = AuthorOf(m) /\ node.run = run /\ node.whole
  BY <1>6
<1> HIDE DEF node
<1>13. /\ UniqueNames(case.fs, next) /\ Nowhere \notin DOMAIN next
       /\ Home(m) \in DOMAIN next /\ next[Home(m)] = node
       /\ \A n \in DOMAIN disk : n # old => n \in DOMAIN next /\ next[n] = disk[n]
       /\ \A n \in DOMAIN next : n # Home(m) => n \in DOMAIN disk /\ next[n] = disk[n]
  BY <1>6, <1>8, <1>10, <1>11, RenameKeeps
<1>14. \A t : AuthorOf(t)' = AuthorOf(t) /\ Home(t)' = Home(t)
  BY DEF AuthorOf, Home, FileOf, Rendering
<1>15. DiskSound'
  <2>1. ASSUME NEW n \in DOMAIN next
        PROVE  /\ next[n].link # Nowhere \/ next[n].whole
               /\ next[n].run \in Nat /\ next[n].run <= run
               /\ next[n].run = run => \E t \in Delivered \cup {m} : next[n].by = AuthorOf(t)
    <3>1. CASE n = Home(m)
      BY <1>1, <1>12, <1>13, <3>1
    <3>2. CASE n # Home(m)
      <4>1. n \in DOMAIN disk /\ next[n] = disk[n]
        BY <1>13, <3>2
      <4>2. /\ disk[n].link # Nowhere \/ disk[n].whole
            /\ disk[n].run \in Nat /\ disk[n].run <= run
            /\ disk[n].run = run => \E t \in Delivered : disk[n].by = AuthorOf(t)
        BY <1>1, <4>1 DEF DiskSound
      <4>3. QED
        BY <4>1, <4>2
    <3>3. QED
      BY <3>1, <3>2
  <2>2. QED
    BY <1>5, <1>9, <1>13, <1>14, <2>1 DEF DiskSound
<1>16. AuthoredStand'
  <2>1. ASSUME NEW a \in case.authored, NEW k \in 0..Hops
        PROVE  LET n == Walk(case.fs, case.disk, a)[k]
               IN  Walk(case.fs, next, a)[k] = n /\ n \in DOMAIN next /\ next[n] = case.disk[n]
    <3>1. \A i \in 0..Hops : Walk(case.fs, disk, a)[i] \in DOMAIN disk
      BY <1>1, <1>11, AuthoredRead
    <3>2. RenameEntry(case.fs, disk, Destination) \notin ReadEntries(case.fs, disk, a)
      BY <1>7 DEF Harmless
    <3>3. LET n == Walk(case.fs, disk, a)[k]
          IN  Walk(case.fs, next, a)[k] = n /\ n \in DOMAIN next /\ next[n] = disk[n]
      BY <1>6, <1>8, <1>11, <3>1, <3>2, RenameSpares
    <3>4. QED
      BY <1>1, <3>3 DEF AuthoredStand
  <2>2. QED
    BY <1>9, <2>1 DEF AuthoredStand
<1>17. WrittenStand'
  <2>1. ASSUME NEW t \in Delivered \cup {m}
        PROVE  /\ Home(t) \in DOMAIN next /\ next[Home(t)].link = Nowhere
               /\ next[Home(t)].by = AuthorOf(t) /\ next[Home(t)].run = run
    <3>1. CASE t = m
      BY <1>12, <1>13, <3>1
    <3>2. CASE t \in Delivered
      <4>1. /\ Home(t) \in DOMAIN disk /\ disk[Home(t)].link = Nowhere
            /\ disk[Home(t)].by = AuthorOf(t) /\ disk[Home(t)].run = run
        BY <1>1, <3>2 DEF WrittenStand
      <4>2. Home(t) # old
        BY <1>7, <1>10, <3>2 DEF Harmless
      <4>3. QED
        BY <1>13, <4>1, <4>2
    <3>3. QED
      BY <3>1, <3>2
  <2>2. QED
    BY <1>5, <1>9, <1>14, <2>1 DEF WrittenStand
<1>18. OthersStay'
  <2>1. Staging(TRUE).by # "other"
    BY <1>1, SignedByItself
  <2>2. QED
    BY <2>1 DEF FileInv, OthersStay
<1>19. QED
  BY <1>4, <1>15, <1>16, <1>17, <1>18 DEF FileInv, CheckedHolds

(* Every step of a run keeps the files sound. *)
LEMMA FilesStep == StateOK /\ FileInv /\ [Next]_vars => FileInv'
<1> SUFFICES ASSUME StateOK, FileInv, [Next]_vars PROVE FileInv'
  OBVIOUS
<1>0. /\ case \in Cases /\ results \in Seq(Results) /\ Progress
      /\ at \in Nat \ {0} /\ run \in Nat \ {0}
  BY DEF StateOK, FileInv, Progress
<1>1. CASE Start
  BY <1>1, Starting
<1>2. CASE MergeLayer
  <2>1. /\ case' = case /\ run' = run /\ disk' = disk /\ staging' = staging /\ claimed' = claimed
        /\ phase = "merging"
    BY <1>2 DEF MergeLayer, files
  <2>2. Rendering /\ Rendering' /\ results = <<>> /\ Len(results) = 0
    BY <1>0, <2>1 DEF Progress, Rendering
  <2>3. CASE phase' = "over" /\ results' = <<"refused">> /\ at' = at
    <3>1. Delivered' = {} /\ Len(results') <= 1 /\ Delivered = {}
      BY <2>2, <2>3 DEF Delivered
    <3>2. Progress' /\ ~Checked'
      BY <1>0, <2>1, <2>2, <2>3, <3>1 DEF Progress, Checked, Underway
    <3>3. DiskSound' /\ AuthoredStand' /\ WrittenStand'
      BY <2>1, <3>1, FilesRest DEF FileInv
    <3>4. OthersStay'
      BY <2>1 DEF FileInv, OthersStay
    <3>5. QED
      BY <3>2, <3>3, <3>4 DEF FileInv, CheckedHolds
  <2>4. CASE phase' = phase /\ results' = results /\ at' = at + 1
    <3>1. Progress'
      BY <1>0, <2>1, <2>2, <2>4 DEF Progress, Underway
    <3>2. Checked /\ FileOf(at)' = FileOf(at) /\ OthersStay'
      BY <2>1, <2>2 DEF Checked, FileOf, FileInv, OthersStay
    <3>3. QED
      BY <2>1, <2>4, <3>1, <3>2, FilesUnmoved
  <2>5. QED
    BY <1>2, <2>3, <2>4 DEF MergeLayer
<1>3. CASE Judge
  <2>1. /\ case' = case /\ run' = run /\ disk' = disk /\ staging' = staging /\ claimed' = claimed
        /\ phase = "merging" /\ at' = at
    BY <1>3 DEF Judge, files
  <2>2. Rendering /\ Rendering' /\ results = <<>> /\ Len(results) = 0
    BY <1>0, <2>1 DEF Progress, Rendering
  <2>3. CASE phase' = "over" /\ results' = <<"malformed">>
    <3>1. Delivered' = {} /\ Len(results') <= 1 /\ Delivered = {}
      BY <2>2, <2>3 DEF Delivered
    <3>2. Progress' /\ ~Checked'
      BY <1>0, <2>1, <2>2, <2>3, <3>1 DEF Progress, Checked, Underway
    <3>3. DiskSound' /\ AuthoredStand' /\ WrittenStand'
      BY <2>1, <3>1, FilesRest DEF FileInv
    <3>4. OthersStay'
      BY <2>1 DEF FileInv, OthersStay
    <3>5. QED
      BY <3>2, <3>3, <3>4 DEF FileInv, CheckedHolds
  <2>4. CASE phase' = "open" /\ results' = results
    <3>1. Progress'
      BY <1>0, <2>1, <2>2, <2>4 DEF Progress, Underway
    <3>2. Checked /\ FileOf(at)' = FileOf(at) /\ OthersStay'
      BY <2>1, <2>2 DEF Checked, FileOf, FileInv, OthersStay
    <3>3. QED
      BY <2>1, <2>4, <3>1, <3>2, FilesUnmoved
  <2>5. QED
    BY <1>3, <2>3, <2>4 DEF Judge
<1>4. CASE Locate
  BY <1>4, Claiming
<1>5. CASE SnapshotSection
  BY <1>5, FilesAbide DEF SnapshotSection, files
<1>6. CASE Assemble
  <2>1. /\ case' = case /\ run' = run /\ disk' = disk /\ staging' = staging /\ claimed' = claimed
        /\ phase = "reading" /\ phase \in Underway
    BY <1>6 DEF Assemble, files, Underway
  <2>2. CASE Concludes("failed")
    <3>1. OthersStay'
      BY <2>1 DEF FileInv, OthersStay
    <3>2. QED
      BY <1>0, <2>1, <2>2, <3>1, TargetFailed
  <2>3. CASE phase' = "open" /\ at' = at /\ results' = results
    <3>1. OthersStay'
      BY <2>1 DEF FileInv, OthersStay
    <3>2. QED
      BY <2>1, <2>3, <3>1, FilesGoOn
  <2>4. QED
    BY <1>6, <2>2, <2>3 DEF Assemble
<1>7. CASE OpenStaging
  <2>1. case' = case /\ run' = run /\ phase = "open" /\ phase \in Underway
    BY <1>7 DEF OpenStaging, Underway
  <2>2. CASE /\ staging' = staging \cup {Staging(FALSE)} /\ disk' = disk /\ claimed' = claimed
             /\ phase' = "writing" /\ at' = at /\ results' = results
    <3>1. OthersStay'
      BY <2>1, <2>2 DEF FileInv, OthersStay
    <3>2. QED
      BY <2>1, <2>2, <3>1, FilesGoOn
  <2>3. CASE WriteFails(MadeBy("no directory"), {})
    BY <1>0, <2>1, <2>3, WriteFailed
  <2>4. CASE \E s \in InTheWay : WriteFails(MadeBy("exists"), {s})
    <3>1. PICK s : WriteFails(MadeBy("exists"), {s})
      BY <2>4
    <3>2. MadeBy("exists") = FALSE
      BY DEF MadeBy
    <3>3. WriteFails(FALSE, {s})
      BY <3>1, <3>2 DEF WriteFails, CleanUp
    <3>4. QED
      BY <1>0, <2>1, <3>3, WriteFailed
  <2>5. QED
    BY <1>7, <2>2, <2>3, <2>4 DEF OpenStaging
<1>8. CASE WriteStaging
  <2>1. case' = case /\ run' = run /\ phase = "writing" /\ phase \in Underway
    BY <1>8 DEF WriteStaging, Underway
  <2>2. CASE /\ staging' = (staging \ {Staging(FALSE)}) \cup {Staging(TRUE)} /\ disk' = disk
             /\ claimed' = claimed /\ phase' = "renaming" /\ at' = at /\ results' = results
    <3>1. Staging(FALSE).by # "other"
      BY <1>0, <2>1, SignedByItself
    <3>2. OthersStay'
      BY <2>1, <2>2, <3>1 DEF FileInv, OthersStay
    <3>3. QED
      BY <2>1, <2>2, <3>2, FilesGoOn
  <2>3. CASE WriteFails(created, {})
    BY <1>0, <2>1, <2>3, WriteFailed
  <2>4. QED
    BY <1>8, <2>2, <2>3 DEF WriteStaging
<1>9. CASE Rename
  <2>1. case' = case /\ run' = run /\ phase = "renaming" /\ phase \in Underway
    BY <1>9 DEF Rename, Underway
  <2>2. CASE /\ disk' = Renamed(case.fs, disk, Destination,
                                [link |-> Nowhere, by |-> Author, run |-> run, whole |-> TRUE])
             /\ staging' = staging \ {Staging(TRUE)} /\ Concludes(Written) /\ claimed' = claimed
    BY <2>1, <2>2, Renaming
  <2>3. CASE WriteFails(created, {})
    BY <1>0, <2>1, <2>3, WriteFailed
  <2>4. QED
    BY <1>9, <2>2, <2>3 DEF Rename
<1>10. CASE Edit
  BY <1>10, FilesAbide DEF Edit, files
<1>11. CASE Crash
  <2>1. /\ case' = case /\ run' = run /\ disk' = disk /\ staging' = staging /\ claimed' = claimed
        /\ phase \in Underway /\ phase' = "over" /\ at' = at /\ results' = results
    BY <1>11 DEF Crash, files, Underway
  <2>2. Rendering' = Rendering /\ Delivered' = Delivered /\ (\A t : Home(t)' = Home(t))
    BY <2>1 DEF Rendering, Delivered, Home, FileOf
  <2>3. Progress'
    BY <1>0, <2>1, <2>2 DEF Progress, Underway
  <2>4. ~Checked'
    BY <2>1 DEF Checked, Underway
  <2>5. OthersStay'
    BY <2>1 DEF FileInv, OthersStay
  <2>6. QED
    BY <2>1, <2>3, <2>4, <2>5, FilesUnmoved
<1>12. CASE Rerun
  <2>1. /\ case' = case /\ run' = run + 1 /\ disk' = disk /\ staging' = staging /\ claimed' = {}
        /\ phase' = "start" /\ at' = 1 /\ results' = <<>>
    BY <1>12 DEF Rerun
  <2>2. Delivered' = {} /\ Len(results') = 0 /\ DOMAIN results' = {}
    BY <2>1 DEF Delivered
  <2>3. Progress'
    BY <1>0, <2>1, <2>2 DEF Progress, Underway
  <2>4. DiskSound'
    <3>1. \A n \in DOMAIN disk : disk[n].run \in Nat /\ disk[n].run <= run + 1 /\ disk[n].run # run + 1
      BY <1>0 DEF FileInv, DiskSound
    <3>2. QED
      BY <2>1, <3>1 DEF FileInv, DiskSound
  <2>5. AuthoredStand' /\ OthersStay'
    BY <2>1 DEF FileInv, AuthoredStand, OthersStay
  <2>6. WrittenStand' /\ CheckedHolds'
    BY <2>1, <2>2 DEF WrittenStand, CheckedHolds, Checked, Underway
  <2>7. QED
    BY <2>3, <2>4, <2>5, <2>6 DEF FileInv
<1>13. CASE UNCHANGED vars
  BY <1>13, FilesAbide DEF vars
<1>14. QED
  BY <1>1, <1>2, <1>3, <1>4, <1>5, <1>6, <1>7, <1>8, <1>9, <1>10, <1>11, <1>12, <1>13 DEF Next

(* In every state of every run, the files are sound: each name stands for one whole
   entry, the authored documents are read through the entries they always were, and
   what bears the run's number is what the run calls written.                 *)
THEOREM FilesInvariant == Spec => []FileInv
<1>1. IInv => StateOK
  BY DEF IInv
<1>2. QED
  BY Invariant, FilesBegin, FilesStep, <1>1, PTL DEF Spec

(* The files a run touches stay whole: whatever links and case-folding names lead
   where, and across failed writes, killed processes and second runs, an authored
   document is read as it was, what a target's row calls written is read back as
   that target's whole document, what it calls failed wrote nothing, and another
   writer's staging file is still there.  src/flows/settings-write.ts:179-220,
   src/flows/snapshot.ts:196-241, src/flows/render.ts:35-46.                  *)
THEOREM FilesAreWhole == Spec => []FilesStayWhole
<1>1. IInv /\ FileInv => FilesStayWhole
  BY FilesWhole DEF IInv
<1>2. QED
  BY Invariant, FilesInvariant, <1>1, PTL

-----------------------------------------------------------------------------
(* What the fold of layers makes of a list. *)

(* The pairs of a set in their order: each of them once. *)
LEMMA InOrderLists ==
  ASSUME NEW S \in SUBSET (Nat \X Nat), IsFiniteSet(S)
  PROVE  /\ Cardinality(S) \in Nat /\ DOMAIN InOrder(S) = 1..Cardinality(S)
         /\ \A k \in DOMAIN InOrder(S) : InOrder(S)[k] \in S
         /\ \A k, l \in DOMAIN InOrder(S) : InOrder(S)[k] = InOrder(S)[l] => k = l
         /\ \A p \in S : \E k \in DOMAIN InOrder(S) : InOrder(S)[k] = p
         /\ \A k, l \in DOMAIN InOrder(S) : k < l => Before(InOrder(S)[k], InOrder(S)[l])
<1> DEFINE Ahead(p) == {q \in S : Before(q, p)}
           n == Cardinality(S)
           place == [p \in S |-> Cardinality(Ahead(p)) + 1]
<1>1. \A p \in S : IsFiniteSet(Ahead(p)) /\ Cardinality(Ahead(p)) \in Nat /\ Cardinality(Ahead(p)) < n
  <2> TAKE p \in S
  <2>1. p \notin Ahead(p)
    BY DEF Before
  <2>2. Ahead(p) \in SUBSET S
    OBVIOUS
  <2> HIDE DEF Ahead
  <2>3. IsFiniteSet(Ahead(p))
    BY <2>2, FS_Subset
  <2>4. QED
    BY <2>1, <2>2, <2>3, StrictPartIsSmaller
<1>2. \A p, q \in S : Before(p, q) => Cardinality(Ahead(p)) < Cardinality(Ahead(q))
  <2> TAKE p, q \in S
  <2> HAVE Before(p, q)
  <2>1. Ahead(p) \in SUBSET Ahead(q) /\ p \in Ahead(q) /\ p \notin Ahead(p)
    <3>1. \A r \in S : Before(r, p) => Before(r, q)
      BY DEF Before
    <3>2. ~Before(p, p)
      BY DEF Before
    <3>3. QED
      BY <3>1, <3>2
  <2> HIDE DEF Ahead
  <2>2. QED
    BY <2>1, <1>1, StrictPartIsSmaller
<1>3. \A p, q \in S : p # q => Before(p, q) \/ Before(q, p)
  BY DEF Before
<1>4. n \in Nat
  BY FS_CardinalityType
<1>5. place \in Injection(S, 1..n)
  <2> HIDE DEF Ahead, n
  <2>1. \A p \in S : place[p] \in 1..n
    BY <1>1, <1>4
  <2>2. \A p, q \in S : place[p] = place[q] => p = q
    BY <1>1, <1>2, <1>3
  <2> HIDE DEF place
  <2>3. place \in [S -> 1..n]
    BY <2>1 DEF place
  <2>4. QED
    BY <2>2, <2>3 DEF Injection, IsInjective
<1>6. place \in Surjection(S, 1..n)
  <2>1. IsFiniteSet(1..n) /\ Cardinality(1..n) = n
    BY <1>4, FS_Interval
  <2>2. QED
    BY <1>5, <2>1, FS_Injection
<1>7. \A k \in 1..n : \E p \in S : Cardinality(Ahead(p)) = k - 1
  <2> TAKE k \in 1..n
  <2>1. PICK p \in S : place[p] = k
    BY <1>6 DEF Surjection
  <2>2. Cardinality(Ahead(p)) \in Nat /\ place[p] = Cardinality(Ahead(p)) + 1
    BY <1>1
  <2> HIDE DEF place, Ahead
  <2>3. QED
    BY <2>1, <2>2
<1>8. InOrder(S) = [k \in 1..n |-> CHOOSE p \in S : Cardinality(Ahead(p)) = k - 1]
  BY DEF InOrder
<1>9. \A k \in 1..n : InOrder(S)[k] \in S /\ Cardinality(Ahead(InOrder(S)[k])) = k - 1
  <2> HIDE DEF Ahead, n
  <2> TAKE k \in 1..n
  <2>1. InOrder(S)[k] = CHOOSE p \in S : Cardinality(Ahead(p)) = k - 1
    BY <1>8
  <2>2. QED
    BY <1>7, <2>1
<1>10. \A k, l \in 1..n : InOrder(S)[k] = InOrder(S)[l] => k = l
  <2> HIDE DEF Ahead, n
  <2>1. QED
    BY <1>9, <1>4
<1>11. \A p \in S : \E k \in 1..n : InOrder(S)[k] = p
  <2> TAKE p \in S
  <2>1. place[p] \in 1..n /\ place[p] = Cardinality(Ahead(p)) + 1
    BY <1>5 DEF Injection
  <2> HIDE DEF n
  <2>2. Cardinality(Ahead(InOrder(S)[place[p]])) = Cardinality(Ahead(p))
    BY <2>1, <1>9, <1>1
  <2>3. InOrder(S)[place[p]] = p
    <3> HIDE DEF place, Ahead
    <3>1. QED
      BY <2>1, <2>2, <1>9, <1>1, <1>2, <1>3
  <2> HIDE DEF place
  <2>4. QED
    BY <2>1, <2>3
<1>12. \A k, l \in 1..n : k < l => Before(InOrder(S)[k], InOrder(S)[l])
  <2> TAKE k, l \in 1..n
  <2> HAVE k < l
  <2> DEFINE p == InOrder(S)[k]
             q == InOrder(S)[l]
  <2>1. p \in S /\ q \in S /\ Cardinality(Ahead(p)) = k - 1 /\ Cardinality(Ahead(q)) = l - 1
    BY <1>9
  <2> HIDE DEF Ahead, place, n, p, q
  <2>2. ~Before(q, p)
    <3>1. Before(q, p) => l - 1 < k - 1
      BY <2>1, <1>2
    <3>2. QED
      BY <3>1, <1>4
  <2>3. p # q
    BY <2>1, <1>4
  <2>4. QED
    BY <2>1, <2>2, <2>3, <1>3 DEF p, q
<1> HIDE DEF Ahead, place
<1>13. QED
  BY <1>4, <1>8, <1>9, <1>10, <1>11, <1>12

(* An entry that claims one other claims no second. *)
LEMMA ClaimsCounted ==
  ASSUME NEW entry, NEW among, NEW n \in Nat, DOMAIN among = 1..n
  PROVE  /\ Claims(entry, among) = 0 <=> \A i \in DOMAIN among : ~Meet(among[i], entry)
         /\ Claims(entry, among) = 1 =>
              \A i, j \in DOMAIN among : Meet(among[i], entry) /\ Meet(among[j], entry) => i = j
<1> DEFINE S == {i \in DOMAIN among : Meet(entry, among[i])}
<1>1. IsFiniteSet(S)
  <2>1. IsFiniteSet(1..n) /\ S \in SUBSET (1..n)
    BY FS_Interval
  <2> HIDE DEF S
  <2>2. QED
    BY <2>1, FS_Subset
<1>2. \A i \in DOMAIN among : Meet(among[i], entry) <=> Meet(entry, among[i])
  BY DEF Meet
<1>3. Claims(entry, among) = Cardinality(S)
  BY DEF Claims
<1>4. Cardinality(S) = 0 <=> S = {}
  <2> HIDE DEF S
  <2>1. QED
    BY <1>1, FS_EmptySet
<1>5. Cardinality(S) = 1 => \E x : S = {x}
  <2> HIDE DEF S
  <2>1. QED
    BY <1>1, FS_Singleton
<1>6. QED
  BY <1>2, <1>3, <1>4, <1>5

(* The slot of an entry is one it claims, and there is one if it claims any. *)
LEMMA SlotClaimed ==
  ASSUME NEW lower, NEW n \in Nat, DOMAIN lower = 1..n, NEW entry
  PROVE  /\ Slot(lower, entry) # 0 => Slot(lower, entry) \in 1..n /\ Meet(lower[Slot(lower, entry)], entry)
         /\ Slot(lower, entry) = 0 => \A i \in DOMAIN lower : ~Meet(lower[i], entry)
         /\ Slot(lower, entry) \in Nat
<1> DEFINE S == {i \in DOMAIN lower : Meet(lower[i], entry)}
<1>1. Slot(lower, entry) = IF S = {} THEN 0 ELSE Min(S)
  BY DEF Slot
<1>2. S \in SUBSET Nat /\ S \subseteq 1..n
  OBVIOUS
<1>3. S # {} => Min(S) \in S
  <2> HIDE DEF S
  <2>1. QED
    BY <1>2, SmallestNumber DEF Min
<1>4. QED
  BY <1>1, <1>2, <1>3

(* The three ways an entry comes into a union. *)
Stays(lower, higher, p) ==
  p[2] = 0 /\ p[1] \in DOMAIN lower /\ \A j \in DOMAIN higher : ~Meet(lower[p[1]], higher[j])
Pairs(lower, higher, p) ==
  /\ p[1] \in DOMAIN lower /\ p[2] \in DOMAIN higher /\ ~higher[p[2]].remove
  /\ Slot(lower, higher[p[2]]) = p[1] /\ Meet(lower[p[1]], higher[p[2]])
  /\ Paired(lower, higher, lower[p[1]], higher[p[2]])
  /\ \A j \in DOMAIN higher : Meet(lower[p[1]], higher[j]) => j = p[2]
  /\ \A i \in DOMAIN lower : Meet(lower[i], higher[p[2]]) => i = p[1]
Joins(lower, higher, p) ==
  /\ p[2] \in DOMAIN higher /\ ~higher[p[2]].remove
  /\ LET slot == Slot(lower, higher[p[2]])
     IN  slot = 0 \/ ~Paired(lower, higher, lower[slot], higher[p[2]])

LEMMA Placing ==
  ASSUME NEW lower, NEW m \in Nat, DOMAIN lower = 1..m, Len(lower) = m,
         NEW higher, NEW n \in Nat, DOMAIN higher = 1..n, NEW merged
  PROVE  LET P == Placements(lower, higher)
         IN  /\ P \in SUBSET (Nat \X Nat) /\ IsFiniteSet(P)
             /\ \A p \in P :
                  \/ Stays(lower, higher, p) /\ PlaceOver(lower, higher, merged, p) = lower[p[1]]
                  \/ Pairs(lower, higher, p) /\ PlaceOver(lower, higher, merged, p) = merged[p]
                  \/ Joins(lower, higher, p) /\ PlaceOver(lower, higher, merged, p) = higher[p[2]]
             /\ \A p, q \in P : p[2] = q[2] /\ p[2] # 0 => p = q
             /\ \A i \in DOMAIN lower :
                  (\A j \in DOMAIN higher : ~Meet(lower[i], higher[j])) => <<i, 0>> \in P
             /\ \A j \in DOMAIN higher :
                  ~higher[j].remove => \E p \in P : p[2] = j
<1> DEFINE After(slot) == IF slot = 0 THEN Len(lower) + 1 ELSE slot
           P == Placements(lower, higher)
           Unclaimed == {i \in DOMAIN lower : Claims(lower[i], higher) = 0}
           Put == {j \in DOMAIN higher : ~higher[j].remove}
           where == [j \in DOMAIN higher |-> After(Slot(lower, higher[j]))]
<1>1. P = {<<i, 0>> : i \in Unclaimed} \cup {<<where[j], j>> : j \in Put}
  BY DEF Placements
<1>2. \A j \in DOMAIN higher :
        /\ where[j] \in 1..m + 1
        /\ IF where[j] = m + 1 THEN Slot(lower, higher[j]) = 0
           ELSE /\ where[j] \in DOMAIN lower /\ Meet(lower[where[j]], higher[j])
                /\ where[j] = Slot(lower, higher[j])
  <2> TAKE j \in DOMAIN higher
  <2> DEFINE k == Slot(lower, higher[j])
  <2>1. k \in Nat /\ (k # 0 => k \in 1..m /\ Meet(lower[k], higher[j]))
    BY SlotClaimed
  <2>2. where[j] = IF k = 0 THEN m + 1 ELSE k
    OBVIOUS
  <2> HIDE DEF where
  <2>3. QED
    BY <2>1, <2>2
<1>3. \A i \in DOMAIN lower :
        /\ i \in Unclaimed <=> \A j \in DOMAIN higher : ~Meet(lower[i], higher[j])
        /\ Claims(lower[i], higher) = 1 =>
             \A j, k \in DOMAIN higher : Meet(lower[i], higher[j]) /\ Meet(lower[i], higher[k]) => j = k
  <2> TAKE i \in DOMAIN lower
  <2>1. \A j \in DOMAIN higher : Meet(higher[j], lower[i]) <=> Meet(lower[i], higher[j])
    BY DEF Meet
  <2>2. QED
    BY <2>1, ClaimsCounted
<1>4. \A j \in DOMAIN higher :
        Claims(higher[j], lower) = 1 =>
          \A i, k \in DOMAIN lower : Meet(lower[i], higher[j]) /\ Meet(lower[k], higher[j]) => i = k
  BY ClaimsCounted
<1> HIDE DEF where, Unclaimed, P
<1>5. P \in SUBSET (Nat \X Nat)
  BY <1>1, <1>2 DEF Unclaimed
<1>6. IsFiniteSet(P)
  <2>1. P \subseteq (1..m + 1) \X (0..n)
    <3>1. \A i \in Unclaimed : i \in 1..m + 1
      BY DEF Unclaimed
    <3>2. QED
      BY <1>1, <1>2, <3>1
  <2>2. IsFiniteSet(1..m + 1) /\ IsFiniteSet(0..n)
    BY FS_Interval
  <2>3. IsFiniteSet((1..m + 1) \X (0..n))
    BY <2>2, FS_Product
  <2>4. QED
    BY <2>1, <2>3, FS_Subset
<1>7. ASSUME NEW p \in P
      PROVE  \/ Stays(lower, higher, p) /\ PlaceOver(lower, higher, merged, p) = lower[p[1]]
             \/ Pairs(lower, higher, p) /\ PlaceOver(lower, higher, merged, p) = merged[p]
             \/ Joins(lower, higher, p) /\ PlaceOver(lower, higher, merged, p) = higher[p[2]]
  <2>1. CASE \E i \in Unclaimed : p = <<i, 0>>
    <3>1. PICK i \in Unclaimed : p = <<i, 0>>
      BY <2>1
    <3>2. i \in DOMAIN lower /\ p[1] = i /\ p[2] = 0
      BY <3>1 DEF Unclaimed
    <3>3. PlaceOver(lower, higher, merged, p) = lower[p[1]]
      BY <3>2 DEF PlaceOver
    <3>4. QED
      BY <3>1, <3>2, <3>3, <1>3 DEF Stays
  <2>2. CASE \E j \in Put : p = <<where[j], j>>
    <3>1. PICK j \in Put : p = <<where[j], j>>
      BY <2>2
    <3>2. j \in DOMAIN higher /\ p[1] = where[j] /\ p[2] = j /\ j # 0 /\ ~higher[j].remove
      BY <3>1
    <3>3. CASE p[1] \in DOMAIN lower /\ Paired(lower, higher, lower[p[1]], higher[p[2]])
      <4>1. PlaceOver(lower, higher, merged, p) = merged[p]
        BY <3>2, <3>3 DEF PlaceOver
      <4>2. Claims(lower[p[1]], higher) = 1 /\ Claims(higher[p[2]], lower) = 1
        BY <3>3 DEF Paired
      <4>3. where[j] # m + 1 /\ Meet(lower[p[1]], higher[p[2]])
        BY <3>2, <3>3, <1>2
      <4>4. QED
        BY <3>2, <3>3, <4>1, <4>2, <4>3, <1>2, <1>3, <1>4 DEF Pairs
    <3>4. CASE ~(p[1] \in DOMAIN lower /\ Paired(lower, higher, lower[p[1]], higher[p[2]]))
      <4>1. PlaceOver(lower, higher, merged, p) = higher[p[2]]
        BY <3>2, <3>4 DEF PlaceOver
      <4>2. Slot(lower, higher[p[2]]) # 0 => p[1] \in DOMAIN lower /\ p[1] = Slot(lower, higher[p[2]])
        BY <3>2, <1>2
      <4>3. QED
        BY <3>2, <3>4, <4>1, <4>2 DEF Joins
    <3>5. QED
      BY <3>3, <3>4
  <2>3. QED
    BY <1>1, <2>1, <2>2
<1>8. \A p, q \in P : p[2] = q[2] /\ p[2] # 0 => p = q
  BY <1>1
<1>9. \A i \in DOMAIN lower :
        (\A j \in DOMAIN higher : ~Meet(lower[i], higher[j])) => <<i, 0>> \in P
  BY <1>1, <1>3
<1>10. \A j \in DOMAIN higher : ~higher[j].remove => \E p \in P : p[2] = j
  <2> TAKE j \in DOMAIN higher
  <2> HAVE ~higher[j].remove
  <2>1. <<where[j], j>> \in P
    BY <1>1
  <2>2. QED
    BY <2>1
<1>11. QED
  BY <1>5, <1>6, <1>7, <1>8, <1>9, <1>10 DEF P

(* What a union holds, each at a place of its own. *)
LEMMA UnionListed ==
  ASSUME NEW lower, NEW m \in Nat, DOMAIN lower = 1..m, Len(lower) = m,
         NEW higher, NEW n \in Nat, DOMAIN higher = 1..n, NEW merged
  PROVE  LET P == Placements(lower, higher)
             U == UnionKeyed(lower, higher, merged)
             Item(p) == PlaceOver(lower, higher, merged, p)
         IN  /\ U \in Seq(ToSet(U)) /\ ToSet(U) = {Item(p) : p \in P}
             /\ \A k, l \in DOMAIN U : k # l =>
                  \E p, q \in P : p # q /\ U[k] = Item(p) /\ U[l] = Item(q)
<1> DEFINE P == Placements(lower, higher)
           U == UnionKeyed(lower, higher, merged)
           Item(p) == PlaceOver(lower, higher, merged, p)
           order == InOrder(P)
<1>1. P \in SUBSET (Nat \X Nat) /\ IsFiniteSet(P)
  BY Placing
<1>2. U = [k \in DOMAIN order |-> Item(order[k])]
  BY DEF UnionKeyed
<1> HIDE DEF P, U, Item
<1>3. /\ Cardinality(P) \in Nat /\ DOMAIN order = 1..Cardinality(P)
      /\ \A k \in DOMAIN order : order[k] \in P
      /\ \A k, l \in DOMAIN order : order[k] = order[l] => k = l
      /\ \A p \in P : \E k \in DOMAIN order : order[k] = p
  BY <1>1, InOrderLists
<1> HIDE DEF order
<1>4. DOMAIN U = 1..Cardinality(P) /\ \A k \in DOMAIN U : order[k] \in P /\ U[k] = Item(order[k])
  BY <1>2, <1>3
<1>5. ToSet(U) = {U[k] : k \in DOMAIN U}
  BY DEF ToSet
<1>6. U \in Seq(ToSet(U))
  <2>1. U = [k \in 1..Cardinality(P) |-> U[k]]
    BY <1>2, <1>3
  <2>2. \A k \in 1..Cardinality(P) : U[k] \in ToSet(U)
    BY <1>4, <1>5
  <2>3. QED
    BY <2>1, <2>2, <1>3
<1>7. ToSet(U) = {Item(p) : p \in P}
  BY <1>3, <1>4, <1>5
<1>8. \A k, l \in DOMAIN U : k # l => \E p, q \in P : p # q /\ U[k] = Item(p) /\ U[l] = Item(q)
  BY <1>3, <1>4
<1>9. QED
  BY <1>6, <1>7, <1>8 DEF P, U, Item

(* A list that no admitted layer declares a key of twice. *)
KeyedOnce(list) == \A i, j \in DOMAIN list : i # j => ~Meet(list[i], list[j])

LEMMA KeyedOnceIs ==
  ASSUME NEW list, NEW n \in Nat, DOMAIN list = 1..n
  PROVE  KeyedOnce(list) <=> ~KeyedTwice(list)
<1>1. \A i, j \in DOMAIN list : Meet(list[i], list[j]) <=> Meet(list[j], list[i])
  BY DEF Meet
<1>2. \A i, j \in DOMAIN list : i # j => i < j \/ j < i
  OBVIOUS
<1>3. \A i, j \in DOMAIN list : i < j => i # j
  OBVIOUS
<1>4. QED
  BY <1>1, <1>2, <1>3 DEF KeyedOnce, KeyedTwice

(* No two entries of a union claim one key, if no two of each list do and a merged
   entry claims only what the two it is made of claim.                        *)
LEMMA UnionKeyedOnce ==
  ASSUME NEW lower, NEW m \in Nat, DOMAIN lower = 1..m, Len(lower) = m, KeyedOnce(lower),
         NEW higher, NEW n \in Nat, DOMAIN higher = 1..n, KeyedOnce(higher), NEW merged,
         \A p \in Couples(lower, higher) :
           Keys(merged[p]) \subseteq Keys(lower[p[1]]) \cup Keys(higher[p[2]])
  PROVE  KeyedOnce(UnionKeyed(lower, higher, merged))
<1> DEFINE P == Placements(lower, higher)
           U == UnionKeyed(lower, higher, merged)
           Item(p) == PlaceOver(lower, higher, merged, p)
<1>1. /\ P \in SUBSET (Nat \X Nat)
      /\ \A p \in P : \/ Stays(lower, higher, p) /\ Item(p) = lower[p[1]]
                      \/ Pairs(lower, higher, p) /\ Item(p) = merged[p]
                      \/ Joins(lower, higher, p) /\ Item(p) = higher[p[2]]
      /\ \A p, q \in P : p[2] = q[2] /\ p[2] # 0 => p = q
  BY Placing
<1>2. \A k, l \in DOMAIN U : k # l => \E p, q \in P : p # q /\ U[k] = Item(p) /\ U[l] = Item(q)
  BY UnionListed
<1> HIDE DEF P, U, Item
<1>3. \A i, k \in DOMAIN lower : i # k => Keys(lower[i]) \cap Keys(lower[k]) = {}
  BY DEF KeyedOnce, Meet
<1>4. \A j, k \in DOMAIN higher : j # k => Keys(higher[j]) \cap Keys(higher[k]) = {}
  BY DEF KeyedOnce, Meet
<1>5. \A p, q \in P : p[2] # 0 /\ p # q => p[2] # q[2]
  BY <1>1
<1>6. \A p \in P : p[2] = 0 => p = <<p[1], 0>>
  BY <1>1
<1>7. \A j \in DOMAIN higher : j # 0
  OBVIOUS
<1>8. ASSUME NEW p \in P, NEW q \in P, p # q
      PROVE  Keys(Item(p)) \cap Keys(Item(q)) = {}
  <2> DEFINE Low(r) == IF r[2] = 0 \/ Pairs(lower, higher, r) THEN Keys(lower[r[1]]) ELSE {}
             High(r) == IF r[2] = 0 THEN {} ELSE Keys(higher[r[2]])
  <2>1. \A r \in P :
          /\ Keys(Item(r)) \subseteq Low(r) \cup High(r)
          /\ r[2] = 0 => r[1] \in DOMAIN lower /\ \A j \in DOMAIN higher : Keys(lower[r[1]]) \cap Keys(higher[j]) = {}
          /\ r[2] # 0 => r[2] \in DOMAIN higher
    <3> TAKE r \in P
    <3>1. CASE Stays(lower, higher, r) /\ Item(r) = lower[r[1]]
      BY <3>1 DEF Stays, Meet
    <3>2. CASE Pairs(lower, higher, r) /\ Item(r) = merged[r]
      <4>1. r[1] \in DOMAIN lower /\ r[2] \in DOMAIN higher /\ r[2] # 0
        BY <3>2, <1>7 DEF Pairs
      <4>2. r = <<r[1], r[2]>>
        <5>1. r \in Nat \X Nat
          BY <1>1
        <5>2. QED
          BY <5>1
      <4>3. r \in Couples(lower, higher)
        BY <4>1, <4>2 DEF Couples
      <4>4. Keys(merged[r]) \subseteq Keys(lower[r[1]]) \cup Keys(higher[r[2]])
        BY <4>3
      <4>5. QED
        BY <3>2, <4>1, <4>4
    <3>3. CASE Joins(lower, higher, r) /\ Item(r) = higher[r[2]]
      BY <3>3, <1>7 DEF Joins
    <3>4. QED
      <4>1. \/ Stays(lower, higher, r) /\ Item(r) = lower[r[1]]
            \/ Pairs(lower, higher, r) /\ Item(r) = merged[r]
            \/ Joins(lower, higher, r) /\ Item(r) = higher[r[2]]
        BY <1>1
      <4> HIDE DEF Low, High
      <4>2. QED
        BY <4>1, <3>1, <3>2, <3>3
  <2>2. High(p) \cap High(q) = {}
    <3>1. CASE p[2] = 0 \/ q[2] = 0
      BY <3>1
    <3>2. CASE p[2] # 0 /\ q[2] # 0
      <4>1. p[2] # q[2] /\ p[2] \in DOMAIN higher /\ q[2] \in DOMAIN higher
        BY <3>2, <2>1, <1>5, <1>8
      <4>2. QED
        BY <4>1, <3>2, <1>4
    <3>3. QED
      BY <3>1, <3>2
  <2>3. ASSUME NEW r \in P, NEW s \in P, r # s PROVE Low(r) \cap High(s) = {}
    <3>1. CASE r[2] = 0 \/ s[2] = 0
      BY <3>1, <2>1, <1>7 DEF Pairs, Meet
    <3>2. CASE r[2] # 0 /\ s[2] # 0
      <4>1. s[2] \in DOMAIN higher /\ r[2] # s[2]
        BY <3>2, <2>1, <2>3, <1>5
      <4>2. Pairs(lower, higher, r) => Keys(lower[r[1]]) \cap Keys(higher[s[2]]) = {}
        BY <4>1 DEF Pairs, Meet
      <4>3. QED
        BY <3>2, <4>2
    <3>3. QED
      BY <3>1, <3>2
  <2>4. Low(p) \cap Low(q) = {}
    <3>1. ASSUME NEW r \in P, NEW s \in P, r # s, r[1] = s[1], Low(r) # {}, Low(s) # {} PROVE FALSE
      <4>1. r[2] # s[2]
        BY <1>1, <3>1
      <4>2. CASE r[2] = 0
        <5>1. Pairs(lower, higher, s)
          BY <3>1, <4>1, <4>2
        <5>2. QED
          BY <5>1, <4>2, <2>1, <3>1 DEF Pairs, Meet
      <4>3. CASE s[2] = 0
        <5>1. Pairs(lower, higher, r)
          BY <3>1, <4>1, <4>3
        <5>2. QED
          BY <5>1, <4>3, <2>1, <3>1 DEF Pairs, Meet
      <4>4. CASE r[2] # 0 /\ s[2] # 0
        <5>1. Pairs(lower, higher, r) /\ Pairs(lower, higher, s)
          BY <3>1, <4>4
        <5>2. QED
          BY <5>1, <3>1, <4>1 DEF Pairs
      <4>5. QED
        BY <4>2, <4>3, <4>4
    <3>2. \A r \in P : Low(r) # {} => r[1] \in DOMAIN lower
      BY <2>1 DEF Pairs
    <3>3. CASE Low(p) # {} /\ Low(q) # {}
      <4>1. p[1] # q[1] /\ p[1] \in DOMAIN lower /\ q[1] \in DOMAIN lower
        BY <1>8, <3>1, <3>2, <3>3
      <4>2. QED
        BY <4>1, <1>3
    <3>4. QED
      BY <3>3
  <2>5. Low(p) \cap High(q) = {} /\ Low(q) \cap High(p) = {}
    BY <2>3, <1>8
  <2>6. Keys(Item(p)) \subseteq Low(p) \cup High(p) /\ Keys(Item(q)) \subseteq Low(q) \cup High(q)
    BY <2>1
  <2> HIDE DEF Low, High
  <2>7. QED
    BY <2>2, <2>4, <2>5, <2>6
<1>9. \A k, l \in DOMAIN U : k # l => ~Meet(U[k], U[l])
  BY <1>2, <1>8 DEF Meet
<1>10. QED
  BY <1>9 DEF KeyedOnce, U

(* A nested list, whatever the fields of its entries are set to. *)
NestedWritten(names, nested) ==
  /\ nested \in [policy : {nested.policy}, entries : {nested.entries}]
  /\ EntriesWritten(names, nested.entries)

(* A list that no removal and no second claim is left in, nested lists included:
   what the planner accepts.                                                  *)
EntriesSound(names, entries) ==
  /\ EntriesWritten(names, entries) /\ KeyedOnce(entries)
  /\ \A e \in ToSet(entries) : ~e.remove
EntrySound(names, e) ==
  /\ EntryWritten(names, e) /\ ~e.remove
  /\ e.nested # Unset => NestedWritten(names, e.nested) /\ EntriesSound(names, e.nested.entries)
ListSound(names, list) ==
  /\ list \in [policy : {list.policy}, entries : {list.entries}]
  /\ EntriesSound(names, list.entries)
  /\ \A e \in ToSet(list.entries) : EntrySound(names, e)

(* A list of entries has its places, and its entries stand at them. *)
LEMMA Listed ==
  ASSUME NEW list, list \in Seq(ToSet(list))
  PROVE  /\ Len(list) \in Nat /\ DOMAIN list = 1..Len(list)
         /\ \A i \in DOMAIN list : list[i] \in ToSet(list)
         /\ \A e \in ToSet(list) : \E i \in DOMAIN list : e = list[i]
<1>1. Len(list) \in Nat /\ DOMAIN list = 1..Len(list)
  OBVIOUS
<1>2. QED
  BY <1>1 DEF ToSet

(* The planner's own check of a list agrees. *)
LEMMA SoundIsAccepted ==
  ASSUME NEW names, NEW list, ListSound(names, list)
  PROVE  AcceptedList(list)
<1>1. ASSUME NEW entries, EntriesSound(names, entries) PROVE AcceptedEntries(entries)
  <2>1. entries \in Seq(ToSet(entries)) /\ KeyedOnce(entries)
    BY <1>1 DEF EntriesSound, EntriesWritten
  <2>2. ~KeyedTwice(entries)
    BY <2>1, Listed, KeyedOnceIs
  <2>3. \A i \in DOMAIN entries : ~entries[i].remove
    BY <2>1, <1>1, Listed DEF EntriesSound
  <2>4. QED
    BY <2>2, <2>3 DEF AcceptedEntries
<1>2. EntriesSound(names, list.entries) /\ \A e \in ToSet(list.entries) : EntrySound(names, e)
  BY DEF ListSound
<1>3. \A i \in DOMAIN list.entries : list.entries[i] \in ToSet(list.entries)
  BY <1>2, Listed DEF EntriesSound, EntriesWritten
<1>4. \A i \in DOMAIN list.entries :
        list.entries[i].nested # Unset => AcceptedEntries(list.entries[i].nested.entries)
  BY <1>1, <1>2, <1>3 DEF EntrySound
<1>5. QED
  BY <1>1, <1>2, <1>4 DEF AcceptedList

(* Two entries merge into an entry. *)
LEMMA MergedWritten ==
  ASSUME NEW names, NEW below, NEW above, EntryWritten(names, below), EntryWritten(names, above)
  PROVE  EntryWritten(names, MergeFields(below, above))
<1>1. above \in [name : names, renames : names \cup {Unset}, fields : {above.fields},
                 nested : {above.nested}, remove : BOOLEAN]
  BY DEF EntryWritten
<1>2. DOMAIN above.fields = Fields /\ below.renames \in names \cup {Unset}
  BY DEF EntryWritten
<1> DEFINE r == Over(below.renames, above.renames)
           v == Overlaid(below.fields, above.fields)
           e == MergeFields(below, above)
<1>3. e = [above EXCEPT !.renames = r, !.fields = v]
  BY DEF MergeFields
<1>4. DOMAIN v = Fields
  BY <1>2 DEF Overlaid
<1>5. r \in names \cup {Unset}
  BY <1>1, <1>2 DEF Over
<1> HIDE DEF e, v, r
<1>6. /\ e \in [name : names, renames : {r}, fields : {v}, nested : {above.nested}, remove : BOOLEAN]
      /\ e.fields = v /\ e.nested = above.nested
  BY <1>1, <1>3
<1>7. EntryWritten(names, e)
  BY <1>4, <1>5, <1>6 DEF EntryWritten
<1>8. QED
  BY <1>7 DEF e

(* It is what the higher one says, over what the lower one said, and claims what
   the two claim.                                                             *)
LEMMA FieldsMerged ==
  ASSUME NEW names, NEW below, NEW above, EntryWritten(names, above)
  PROVE  LET e == MergeFields(below, above)
         IN  /\ e.name = above.name /\ e.renames = Over(below.renames, above.renames)
             /\ e.fields = Overlaid(below.fields, above.fields)
             /\ e.remove = above.remove /\ e.nested = above.nested
             /\ Keys(e) \subseteq Keys(below) \cup Keys(above)
<1>1. above \in [name : names, renames : names \cup {Unset}, fields : {above.fields},
                 nested : {above.nested}, remove : BOOLEAN]
  BY DEF EntryWritten
<1> DEFINE r == Over(below.renames, above.renames)
           v == Overlaid(below.fields, above.fields)
           e == MergeFields(below, above)
<1>2. e = [above EXCEPT !.renames = r, !.fields = v]
  BY DEF MergeFields
<1>3. r \in {below.renames, above.renames}
  BY DEF Over
<1> HIDE DEF e, v, r
<1>4. /\ e.name = above.name /\ e.renames = r /\ e.fields = v
      /\ e.remove = above.remove /\ e.nested = above.nested
  BY <1>1, <1>2
<1>5. Keys(e) \subseteq Keys(below) \cup Keys(above)
  BY <1>3, <1>4 DEF Keys
<1>6. QED
  BY <1>4, <1>5 DEF e, r, v

(* A union of sound entries with admitted ones is sound. *)
LEMMA UnionSound ==
  ASSUME NEW names, NEW lower, EntriesSound(names, lower),
         NEW higher, EntriesWritten(names, higher), KeyedOnce(higher), NEW merged,
         \A p \in Couples(lower, higher) :
           /\ EntryWritten(names, merged[p]) /\ merged[p].remove = higher[p[2]].remove
           /\ Keys(merged[p]) \subseteq Keys(lower[p[1]]) \cup Keys(higher[p[2]])
  PROVE  EntriesSound(names, UnionKeyed(lower, higher, merged))
<1> DEFINE P == Placements(lower, higher)
           U == UnionKeyed(lower, higher, merged)
           Item(p) == PlaceOver(lower, higher, merged, p)
<1>1. /\ lower \in Seq(ToSet(lower)) /\ KeyedOnce(lower)
      /\ \A e \in ToSet(lower) : EntryWritten(names, e) /\ ~e.remove
      /\ higher \in Seq(ToSet(higher)) /\ \A e \in ToSet(higher) : EntryWritten(names, e)
  BY DEF EntriesSound, EntriesWritten
<1>2. /\ Len(lower) \in Nat /\ DOMAIN lower = 1..Len(lower)
      /\ \A i \in DOMAIN lower : lower[i] \in ToSet(lower)
  BY <1>1, Listed
<1>3. /\ Len(higher) \in Nat /\ DOMAIN higher = 1..Len(higher)
      /\ \A i \in DOMAIN higher : higher[i] \in ToSet(higher)
  BY <1>1, Listed
<1>4. KeyedOnce(U)
  BY <1>1, <1>2, <1>3, UnionKeyedOnce
<1>5. U \in Seq(ToSet(U)) /\ ToSet(U) = {Item(p) : p \in P}
  BY <1>2, <1>3, UnionListed
<1>6. /\ P \in SUBSET (Nat \X Nat)
      /\ \A p \in P : \/ Stays(lower, higher, p) /\ Item(p) = lower[p[1]]
                      \/ Pairs(lower, higher, p) /\ Item(p) = merged[p]
                      \/ Joins(lower, higher, p) /\ Item(p) = higher[p[2]]
  BY <1>2, <1>3, Placing
<1> HIDE DEF P, U, Item
<1>7. ASSUME NEW p \in P PROVE EntryWritten(names, Item(p)) /\ ~Item(p).remove
  <2>1. CASE Stays(lower, higher, p) /\ Item(p) = lower[p[1]]
    BY <2>1, <1>1, <1>2 DEF Stays
  <2>2. CASE Pairs(lower, higher, p) /\ Item(p) = merged[p]
    <3>1. p \in Nat \X Nat
      BY <1>6
    <3>2. p = <<p[1], p[2]>> /\ p[1] \in DOMAIN lower /\ p[2] \in DOMAIN higher /\ ~higher[p[2]].remove
      BY <3>1, <2>2 DEF Pairs
    <3>3. p \in Couples(lower, higher)
      BY <3>2 DEF Couples
    <3>4. QED
      BY <3>2, <3>3, <2>2
  <2>3. CASE Joins(lower, higher, p) /\ Item(p) = higher[p[2]]
    BY <2>3, <1>1, <1>3 DEF Joins
  <2>4. QED
    BY <1>6, <2>1, <2>2, <2>3
<1>8. QED
  BY <1>4, <1>5, <1>7 DEF EntriesSound, EntriesWritten, U

(* A nested list over one of a pair. *)
LEMMA NestedMerged ==
  ASSUME NEW names, NEW below, NEW above,
         below # Unset => NestedWritten(names, below) /\ EntriesSound(names, below.entries),
         above # Unset => NestedWritten(names, above) /\ KeyedOnce(above.entries),
         below = Unset /\ above # Unset => \A i \in DOMAIN above.entries : ~above.entries[i].remove
  PROVE  LET nested == MergeNested(below, above)
         IN  nested # Unset => NestedWritten(names, nested) /\ EntriesSound(names, nested.entries)
<1>1. CASE above = Unset
  BY <1>1 DEF MergeNested, Over
<1>2. CASE above # Unset /\ below = Unset
  <2>1. MergeNested(below, above) = above
    BY <1>2 DEF MergeNested, Over
  <2>2. above.entries \in Seq(ToSet(above.entries))
    BY <1>2 DEF NestedWritten, EntriesWritten
  <2>3. \A e \in ToSet(above.entries) : ~e.remove
    BY <1>2, <2>2, Listed
  <2>4. QED
    BY <1>2, <2>1, <2>3 DEF NestedWritten, EntriesSound
<1>3. CASE above # Unset /\ below # Unset
  <2> DEFINE merged == [p \in Couples(below.entries, above.entries) |->
                          MergeFields(below.entries[p[1]], above.entries[p[2]])]
             U == UnionKeyed(below.entries, above.entries, merged)
             nested == MergeNested(below, above)
  <2>1. nested = [policy |-> Over(below.policy, above.policy), entries |-> U]
    BY <1>3 DEF MergeNested
  <2>2. /\ EntriesSound(names, below.entries) /\ EntriesWritten(names, above.entries) /\ KeyedOnce(above.entries)
        /\ EntriesWritten(names, below.entries)
    BY <1>3 DEF NestedWritten, EntriesSound
  <2>3. /\ \A i \in DOMAIN below.entries : EntryWritten(names, below.entries[i])
        /\ \A j \in DOMAIN above.entries : EntryWritten(names, above.entries[j])
    BY <2>2, Listed DEF EntriesWritten
  <2>4. \A p \in Couples(below.entries, above.entries) :
          merged[p] = MergeFields(below.entries[p[1]], above.entries[p[2]])
    OBVIOUS
  <2> HIDE DEF merged
  <2>5. \A p \in Couples(below.entries, above.entries) :
          /\ EntryWritten(names, merged[p]) /\ merged[p].remove = above.entries[p[2]].remove
          /\ Keys(merged[p]) \subseteq Keys(below.entries[p[1]]) \cup Keys(above.entries[p[2]])
    <3> TAKE p \in Couples(below.entries, above.entries)
    <3>1. EntryWritten(names, below.entries[p[1]]) /\ EntryWritten(names, above.entries[p[2]])
      BY <2>3 DEF Couples
    <3>2. QED
      <4> DEFINE e == MergeFields(below.entries[p[1]], above.entries[p[2]])
      <4>1. EntryWritten(names, e)
        BY <3>1, MergedWritten
      <4>2. e.remove = above.entries[p[2]].remove
            /\ Keys(e) \subseteq Keys(below.entries[p[1]]) \cup Keys(above.entries[p[2]])
        BY <3>1, FieldsMerged
      <4> HIDE DEF e
      <4>3. merged[p] = e
        BY <2>4 DEF e
      <4>4. QED
        BY <4>1, <4>2, <4>3
  <2>6. EntriesSound(names, U)
    BY <2>2, <2>5, UnionSound
  <2> HIDE DEF U, nested
  <2>7. nested \in [policy : {nested.policy}, entries : {nested.entries}] /\ nested.entries = U
    BY <2>1
  <2>8. NestedWritten(names, nested) /\ EntriesSound(names, nested.entries)
    BY <2>6, <2>7 DEF NestedWritten, EntriesSound
  <2>9. QED
    BY <2>8 DEF nested
<1>4. QED
  BY <1>1, <1>2, <1>3

(* An entry of an admitted layer. *)
EntryAdmitted(names, e) ==
  /\ EntryWritten(names, e)
  /\ e.nested # Unset => NestedWritten(names, e.nested) /\ KeyedOnce(e.nested.entries)

LEMMA EntryMerged ==
  ASSUME NEW names, NEW below, EntrySound(names, below), NEW above, EntryAdmitted(names, above)
  PROVE  LET e == MergeEntry(below, above)
         IN  /\ EntryWritten(names, e) /\ e.remove = above.remove
             /\ e.name = above.name /\ e.renames = Over(below.renames, above.renames)
             /\ e.fields = Overlaid(below.fields, above.fields)
             /\ Keys(e) \subseteq Keys(below) \cup Keys(above)
             /\ ~UnmatchedNested(below, above) /\ ~above.remove => EntrySound(names, e)
<1> DEFINE m == MergeFields(below, above)
           n == MergeNested(below.nested, above.nested)
           e == MergeEntry(below, above)
<1>1. EntryWritten(names, below) /\ EntryWritten(names, above)
  BY DEF EntrySound, EntryAdmitted
<1>2. /\ EntryWritten(names, m) /\ m.name = above.name /\ m.renames = Over(below.renames, above.renames)
      /\ m.fields = Overlaid(below.fields, above.fields) /\ m.remove = above.remove
      /\ Keys(m) \subseteq Keys(below) \cup Keys(above)
  <2>1. EntryWritten(names, m)
    BY <1>1, MergedWritten
  <2>2. QED
    BY <1>1, <2>1, FieldsMerged
<1>3. e = [m EXCEPT !.nested = n]
  BY DEF MergeEntry
<1> HIDE DEF e, m, n
<1>4. /\ m \in [name : names, renames : names \cup {Unset}, fields : {m.fields}, nested : {m.nested}, remove : BOOLEAN]
      /\ DOMAIN m.fields = Fields
  BY <1>2 DEF EntryWritten
<1>5. /\ e \in [name : names, renames : names \cup {Unset}, fields : {m.fields}, nested : {n}, remove : BOOLEAN]
      /\ e.name = m.name /\ e.renames = m.renames /\ e.fields = m.fields /\ e.remove = m.remove /\ e.nested = n
  BY <1>3, <1>4
<1>6. EntryWritten(names, e) /\ Keys(e) = Keys(m)
  BY <1>4, <1>5 DEF EntryWritten, Keys
<1>7. ASSUME ~UnmatchedNested(below, above), ~above.remove PROVE EntrySound(names, e)
  <2>1. below.nested = Unset /\ above.nested # Unset =>
          \A i \in DOMAIN above.nested.entries : ~above.nested.entries[i].remove
    BY <1>7 DEF UnmatchedNested, NestedRemoval
  <2>2. n # Unset => NestedWritten(names, n) /\ EntriesSound(names, n.entries)
    BY <2>1, NestedMerged DEF EntrySound, EntryAdmitted, n
  <2>3. QED
    BY <2>2, <1>2, <1>5, <1>6, <1>7 DEF EntrySound
<1>8. QED
  BY <1>2, <1>5, <1>6, <1>7 DEF e

(* What a layer that is admitted and not refused brings to a list. *)
ListWritten(names, list) ==
  /\ EntriesWritten(names, list.entries)
  /\ \A e \in ToSet(list.entries) : e.nested # Unset => NestedWritten(names, e.nested)

LEMMA ListAdmitted ==
  ASSUME NEW names, NEW list, ListWritten(names, list), NEW layering, Entries(list.entries, layering)
  PROVE  /\ KeyedOnce(list.entries)
         /\ \A j \in DOMAIN list.entries : EntryAdmitted(names, list.entries[j])
<1> DEFINE es == list.entries
<1>1. es \in Seq(ToSet(es)) /\ \A e \in ToSet(es) : EntryWritten(names, e)
  BY DEF ListWritten, EntriesWritten
<1>2. /\ Len(es) \in Nat /\ DOMAIN es = 1..Len(es)
      /\ \A j \in DOMAIN es : es[j] \in ToSet(es)
  BY <1>1, Listed
<1>3. KeyedOnce(es)
  BY <1>2, KeyedOnceIs DEF Entries
<1>4. ASSUME NEW j \in DOMAIN es, es[j].nested # Unset
      PROVE  NestedWritten(names, es[j].nested) /\ KeyedOnce(es[j].nested.entries)
  <2>1. NestedWritten(names, es[j].nested)
    BY <1>2, <1>4 DEF ListWritten
  <2>2. ~KeyedTwice(es[j].nested.entries)
    BY <1>4 DEF Entries
  <2>3. es[j].nested.entries \in Seq(ToSet(es[j].nested.entries))
    BY <2>1 DEF NestedWritten, EntriesWritten
  <2>4. QED
    BY <2>1, <2>2, <2>3, Listed, KeyedOnceIs
<1>5. QED
  BY <1>1, <1>2, <1>3, <1>4 DEF EntryAdmitted

(* An entry a union places has no removal left to act. *)
LEMMA NothingLeft ==
  ASSUME NEW lower, NEW higher, NEW layering, ~RefusesRemoval(lower, higher, layering),
         NEW j \in DOMAIN higher
  PROVE  LET slot == Slot(lower, higher[j])
         IN  /\ higher[j].remove => slot # 0
             /\ slot # 0 /\ layering = "deep" /\ Paired(lower, higher, lower[slot], higher[j])
                  => ~UnmatchedNested(lower[slot], higher[j])
             /\ ~(slot # 0 /\ layering = "deep" /\ Paired(lower, higher, lower[slot], higher[j]))
                  => ~NestedRemoval(higher[j])
BY DEF RefusesRemoval

LEMMA PlacedSound ==
  ASSUME NEW names, NEW e, EntryAdmitted(names, e), ~e.remove, ~NestedRemoval(e)
  PROVE  EntrySound(names, e)
<1>1. ASSUME e.nested # Unset PROVE NestedWritten(names, e.nested) /\ EntriesSound(names, e.nested.entries)
  <2>1. NestedWritten(names, e.nested) /\ KeyedOnce(e.nested.entries)
    BY <1>1 DEF EntryAdmitted
  <2>2. \A i \in DOMAIN e.nested.entries : ~e.nested.entries[i].remove
    BY <1>1 DEF NestedRemoval
  <2>3. e.nested.entries \in Seq(ToSet(e.nested.entries)) /\ EntriesWritten(names, e.nested.entries)
    BY <2>1 DEF NestedWritten, EntriesWritten
  <2>4. \A x \in ToSet(e.nested.entries) : ~x.remove
    BY <2>2, <2>3, Listed
  <2>5. QED
    BY <2>1, <2>3, <2>4 DEF EntriesSound
<1>2. QED
  BY <1>1 DEF EntrySound, EntryAdmitted

(* A list written whole is sound: nothing in it may be a removal. *)
LEMMA WholeListSound ==
  ASSUME NEW names, NEW list, ListWritten(names, list), NEW layering, Entries(list.entries, layering),
         ~RefusesRemoval(<<>>, list.entries, layering)
  PROVE  /\ EntriesSound(names, list.entries)
         /\ \A e \in ToSet(list.entries) : EntrySound(names, e)
<1> DEFINE es == list.entries
<1>1. es \in Seq(ToSet(es)) /\ EntriesWritten(names, es)
  BY DEF ListWritten, EntriesWritten
<1>2. KeyedOnce(es) /\ \A j \in DOMAIN es : EntryAdmitted(names, es[j])
  BY ListAdmitted
<1>3. \A j \in DOMAIN es : Slot(<<>>, es[j]) = 0
  <2>1. DOMAIN <<>> = {}
    OBVIOUS
  <2>2. QED
    BY <2>1 DEF Slot
<1>4. \A j \in DOMAIN es : ~es[j].remove /\ ~NestedRemoval(es[j])
  BY <1>3, NothingLeft
<1> HIDE DEF es
<1>5. \A e \in ToSet(es) : \E j \in DOMAIN es : e = es[j]
  BY <1>1, Listed
<1>6. \A e \in ToSet(es) : EntrySound(names, e) /\ ~e.remove
  BY <1>2, <1>4, <1>5, PlacedSound
<1>7. QED
  BY <1>1, <1>2, <1>6 DEF EntriesSound, es

(* One step of the fold keeps a list sound. *)
LEMMA ListMerged ==
  ASSUME NEW names, NEW lower, ListSound(names, lower), NEW higher, ListWritten(names, higher),
         NEW layering, Entries(higher.entries, layering),
         ~RefusesRemoval(IF layering = "replace" THEN <<>> ELSE lower.entries, higher.entries, layering)
  PROVE  ListSound(names, MergeList(lower, higher, layering))
<1> DEFINE ls == lower.entries
           hs == higher.entries
           merged == IF layering = "deep" THEN InDepth(ls, hs) ELSE AsWritten(ls, hs)
           U == UnionKeyed(ls, hs, merged)
           list == MergeList(lower, higher, layering)
<1>1. list = [policy |-> Over(lower.policy, higher.policy),
              entries |-> IF layering = "replace" THEN hs ELSE U]
  BY DEF MergeList
<1>2. /\ list \in [policy : {list.policy}, entries : {list.entries}]
      /\ list.entries = IF layering = "replace" THEN hs ELSE U
  <2> HIDE DEF list, hs, U
  <2>1. QED
    BY <1>1
<1>3. CASE layering = "replace"
  <2>1. EntriesSound(names, hs) /\ \A e \in ToSet(hs) : EntrySound(names, e)
    BY <1>3, WholeListSound
  <2>2. list.entries = hs
    BY <1>2, <1>3
  <2>3. QED
    BY <1>2, <2>1, <2>2 DEF ListSound
<1>4. CASE layering # "replace"
  <2>1. ~RefusesRemoval(ls, hs, layering)
    BY <1>4
  <2>2. /\ EntriesSound(names, ls) /\ EntriesWritten(names, ls) /\ EntriesWritten(names, hs)
        /\ \A e \in ToSet(ls) : EntrySound(names, e)
    BY DEF ListSound, ListWritten, EntriesSound
  <2>3. KeyedOnce(hs) /\ \A j \in DOMAIN hs : EntryAdmitted(names, hs[j])
    BY ListAdmitted
  <2>4. /\ ls \in Seq(ToSet(ls)) /\ Len(ls) \in Nat /\ DOMAIN ls = 1..Len(ls)
        /\ \A i \in DOMAIN ls : ls[i] \in ToSet(ls)
    BY <2>2, Listed DEF EntriesWritten
  <2>5. hs \in Seq(ToSet(hs)) /\ Len(hs) \in Nat /\ DOMAIN hs = 1..Len(hs)
    BY <2>2, Listed DEF EntriesWritten
  <2>6. \A i \in DOMAIN ls : EntrySound(names, ls[i]) /\ EntryWritten(names, ls[i])
    BY <2>2, <2>4 DEF EntrySound
  <2> HIDE DEF ls, hs
  <2>7. \A p \in Couples(ls, hs) :
          merged[p] = IF layering = "deep" THEN MergeEntry(ls[p[1]], hs[p[2]]) ELSE hs[p[2]]
    BY DEF InDepth, AsWritten
  <2> HIDE DEF merged
  <2>8. \A p \in Couples(ls, hs) : p[1] \in DOMAIN ls /\ p[2] \in DOMAIN hs
    BY DEF Couples
  <2>9. \A p \in Couples(ls, hs) :
          /\ EntryWritten(names, merged[p]) /\ merged[p].remove = hs[p[2]].remove
          /\ Keys(merged[p]) \subseteq Keys(ls[p[1]]) \cup Keys(hs[p[2]])
    <3> TAKE p \in Couples(ls, hs)
    <3>1. EntrySound(names, ls[p[1]]) /\ EntryAdmitted(names, hs[p[2]])
      BY <2>3, <2>6, <2>8
    <3>2. CASE layering = "deep"
      BY <3>1, <3>2, <2>7, EntryMerged
    <3>3. CASE layering # "deep"
      BY <3>1, <3>3, <2>7 DEF EntryAdmitted
    <3>4. QED
      BY <3>2, <3>3
  <2>10. EntriesSound(names, U)
    BY <2>2, <2>3, <2>9, UnionSound
  <2>11. ToSet(U) = {PlaceOver(ls, hs, merged, p) : p \in Placements(ls, hs)}
    BY <2>4, <2>5, UnionListed
  <2>12. ASSUME NEW p \in Placements(ls, hs) PROVE EntrySound(names, PlaceOver(ls, hs, merged, p))
    <3> DEFINE item == PlaceOver(ls, hs, merged, p)
    <3>1. \/ Stays(ls, hs, p) /\ item = ls[p[1]]
          \/ Pairs(ls, hs, p) /\ item = merged[p]
          \/ Joins(ls, hs, p) /\ item = hs[p[2]]
      BY <2>4, <2>5, Placing
    <3>2. p \in Nat \X Nat
      <4>1. Placements(ls, hs) \in SUBSET (Nat \X Nat)
        BY <2>4, <2>5, Placing
      <4>2. QED
        BY <4>1
    <3> SUFFICES EntrySound(names, item)
      OBVIOUS
    <3> HIDE DEF item
    <3>3. CASE Stays(ls, hs, p) /\ item = ls[p[1]]
      BY <3>3, <2>6 DEF Stays
    <3>4. CASE Pairs(ls, hs, p) /\ item = merged[p]
      <4>1. /\ p[1] \in DOMAIN ls /\ p[2] \in DOMAIN hs /\ ~hs[p[2]].remove
            /\ Slot(ls, hs[p[2]]) = p[1] /\ Paired(ls, hs, ls[p[1]], hs[p[2]]) /\ p[1] # 0
        BY <3>4, <2>4 DEF Pairs
      <4>2. p \in Couples(ls, hs)
        <5>1. p = <<p[1], p[2]>>
          BY <3>2
        <5>2. QED
          BY <4>1, <5>1 DEF Couples
      <4>3. EntrySound(names, ls[p[1]]) /\ EntryAdmitted(names, hs[p[2]])
        BY <4>1, <2>3, <2>6
      <4>4. CASE layering = "deep"
        <5>1. ~UnmatchedNested(ls[p[1]], hs[p[2]])
          BY <4>1, <4>4, <2>1, NothingLeft
        <5>2. EntrySound(names, MergeEntry(ls[p[1]], hs[p[2]]))
          BY <4>1, <4>3, <5>1, EntryMerged
        <5>3. QED
          BY <5>2, <4>2, <4>4, <3>4, <2>7
      <4>5. CASE layering # "deep"
        <5>1. ~NestedRemoval(hs[p[2]])
          BY <4>1, <4>5, <2>1, NothingLeft
        <5>2. EntrySound(names, hs[p[2]])
          BY <4>1, <4>3, <5>1, PlacedSound
        <5>3. QED
          BY <5>2, <4>2, <4>5, <3>4, <2>7
      <4>6. QED
        BY <4>4, <4>5
    <3>5. CASE Joins(ls, hs, p) /\ item = hs[p[2]]
      <4>1. p[2] \in DOMAIN hs /\ ~hs[p[2]].remove
        BY <3>5 DEF Joins
      <4>2. ~NestedRemoval(hs[p[2]])
        BY <3>5, <4>1, <2>1, NothingLeft DEF Joins
      <4>3. QED
        BY <4>1, <4>2, <3>5, <2>3, PlacedSound
    <3>6. QED
      BY <3>1, <3>3, <3>4, <3>5
  <2> HIDE DEF U
  <2>13. \A e \in ToSet(U) : EntrySound(names, e)
    BY <2>11, <2>12
  <2>14. list.entries = U
    BY <1>2, <1>4
  <2>15. QED
    BY <1>2, <2>10, <2>13, <2>14 DEF ListSound
<1>5. QED
  BY <1>3, <1>4

(* The highest of the first n settings, if one of them is set. *)
Highest(settings, n, v) ==
  \/ v = Unset /\ \A i \in 1..n : settings[i] = Unset
  \/ \E i \in 1..n : v = settings[i] /\ v # Unset /\ \A j \in i + 1..n : settings[j] = Unset

LEMMA HighestNext ==
  ASSUME NEW settings, NEW n \in Nat, NEW v, Highest(settings, n, v)
  PROVE  Highest(settings, n + 1, Over(v, settings[n + 1]))
<1>1. \A i \in 1..n + 1 : i \in 1..n \/ i = n + 1
  OBVIOUS
<1>2. CASE settings[n + 1] = Unset
  <2>1. Over(v, settings[n + 1]) = v
    BY <1>2 DEF Over
  <2>2. CASE v = Unset /\ \A i \in 1..n : settings[i] = Unset
    BY <1>1, <1>2, <2>1, <2>2 DEF Highest
  <2>3. CASE \E i \in 1..n : v = settings[i] /\ v # Unset /\ \A j \in i + 1..n : settings[j] = Unset
    <3>1. PICK i \in 1..n : v = settings[i] /\ v # Unset /\ \A j \in i + 1..n : settings[j] = Unset
      BY <2>3
    <3>2. \A j \in i + 1..n + 1 : j \in i + 1..n \/ j = n + 1
      OBVIOUS
    <3>3. i \in 1..n + 1
      OBVIOUS
    <3>4. QED
      BY <3>1, <3>2, <3>3, <1>2, <2>1 DEF Highest
  <2>4. QED
    BY <2>2, <2>3 DEF Highest
<1>3. CASE settings[n + 1] # Unset
  <2>1. Over(v, settings[n + 1]) = settings[n + 1]
    BY <1>3 DEF Over
  <2>2. n + 1 \in 1..n + 1 /\ (n + 1) + 1..n + 1 = {}
    OBVIOUS
  <2>3. QED
    BY <1>3, <2>1, <2>2 DEF Highest
<1>4. QED
  BY <1>2, <1>3

LEMMA HighestIs ==
  ASSUME NEW settings, NEW n \in Nat, DOMAIN settings = 1..n, NEW v, Highest(settings, n, v)
  PROVE  HighestSetting(settings) = v
<1> DEFINE S == {i \in DOMAIN settings : settings[i] # Unset}
<1>1. HighestSetting(settings) = IF S = {} THEN Unset ELSE settings[Max(S)]
  BY DEF HighestSetting
<1>2. CASE v = Unset /\ \A i \in 1..n : settings[i] = Unset
  BY <1>1, <1>2
<1>3. CASE \E i \in 1..n : v = settings[i] /\ v # Unset /\ \A j \in i + 1..n : settings[j] = Unset
  <2>1. PICK i \in 1..n : v = settings[i] /\ v # Unset /\ \A j \in i + 1..n : settings[j] = Unset
    BY <1>3
  <2>2. i \in S /\ S \in SUBSET Nat /\ S # {} /\ i \in Nat
    BY <2>1
  <2>3. \A j \in S : j <= i
    <3> TAKE j \in S
    <3>1. j \in 1..n /\ j \notin i + 1..n
      BY <2>1
    <3>2. QED
      BY <3>1
  <2> HIDE DEF S
  <2>4. Max(S) \in S /\ \A y \in S : y <= Max(S)
    BY <2>2, <2>3, LargestNumber
  <2>5. Max(S) = i
    <3>1. Max(S) \in Nat /\ Max(S) <= i /\ i <= Max(S)
      BY <2>2, <2>3, <2>4
    <3>2. QED
      BY <2>2, <3>1
  <2>6. QED
    BY <1>1, <2>1, <2>2, <2>5
<1>4. QED
  BY <1>2, <1>3 DEF Highest

(* What changes neither the keys nor the markers of a list leaves it sound. *)
LEMMA MappedSound ==
  ASSUME NEW names, NEW entries, EntriesSound(names, entries), NEW mapped,
         mapped = [i \in DOMAIN entries |-> mapped[i]],
         \A i \in DOMAIN entries :
           EntryWritten(names, mapped[i]) /\ ~mapped[i].remove /\ Keys(mapped[i]) = Keys(entries[i])
  PROVE  /\ EntriesSound(names, mapped)
         /\ \A e \in ToSet(mapped) : \E i \in DOMAIN entries : e = mapped[i]
<1>1. entries \in Seq(ToSet(entries)) /\ KeyedOnce(entries)
  BY DEF EntriesSound, EntriesWritten
<1>2. Len(entries) \in Nat /\ DOMAIN entries = 1..Len(entries) /\ DOMAIN mapped = DOMAIN entries
  BY <1>1, Listed
<1>3. \A e \in ToSet(mapped) : \E i \in DOMAIN entries : e = mapped[i]
  BY <1>2 DEF ToSet
<1>4. mapped \in Seq(ToSet(mapped))
  <2>1. \A i \in 1..Len(entries) : mapped[i] \in ToSet(mapped)
    BY <1>2 DEF ToSet
  <2>2. mapped = [i \in 1..Len(entries) |-> mapped[i]]
    BY <1>2
  <2>3. QED
    BY <1>2, <2>1, <2>2
<1>5. KeyedOnce(mapped)
  BY <1>1, <1>2 DEF KeyedOnce, Meet
<1>6. QED
  BY <1>3, <1>4, <1>5 DEF EntriesSound, EntriesWritten

(* An ordered list holds what it held, each entry once. *)
LEMMA OrderedHolds ==
  ASSUME NEW entries, entries \in Seq(ToSet(entries)), NEW rank, \A i \in DOMAIN entries : rank[i] \in Nat
  PROVE  LET list == OrderedBy(entries, rank)
         IN  /\ list \in Seq(ToSet(list)) /\ ToSet(list) = ToSet(entries)
             /\ KeyedOnce(entries) => KeyedOnce(list)
<1> DEFINE S == {<<rank[i], i>> : i \in DOMAIN entries}
           order == InOrder(S)
           list == OrderedBy(entries, rank)
           n == Len(entries)
<1>1. n \in Nat /\ DOMAIN entries = 1..n
  BY Listed
<1>2. S \in SUBSET (Nat \X Nat)
  BY <1>1
<1>3. IsFiniteSet(S)
  <2> DEFINE f == [i \in 1..n |-> <<rank[i], i>>]
  <2>1. f \in Surjection(1..n, S)
    <3>1. \A s \in S : \E i \in 1..n : f[i] = s
      BY <1>1
    <3>2. f \in [1..n -> S]
      BY <1>1
    <3>3. QED
      BY <3>1, <3>2 DEF Surjection
  <2>2. IsFiniteSet(1..n)
    BY <1>1, FS_Interval
  <2> HIDE DEF f, S
  <2>3. QED
    BY <2>1, <2>2, FS_Surjection
<1>4. \A p \in S : p[2] \in DOMAIN entries /\ p = <<rank[p[2]], p[2]>>
  OBVIOUS
<1>5. \A i \in DOMAIN entries : <<rank[i], i>> \in S
  OBVIOUS
<1>6. list = [k \in DOMAIN order |-> entries[order[k][2]]]
  BY DEF OrderedBy
<1> HIDE DEF S, list
<1>7. /\ Cardinality(S) \in Nat /\ DOMAIN order = 1..Cardinality(S)
      /\ \A k \in DOMAIN order : order[k] \in S
      /\ \A k, l \in DOMAIN order : order[k] = order[l] => k = l
      /\ \A p \in S : \E k \in DOMAIN order : order[k] = p
  BY <1>2, <1>3, InOrderLists
<1> HIDE DEF order
<1>8. \A k \in DOMAIN order : list[k] = entries[order[k][2]] /\ order[k][2] \in DOMAIN entries
  BY <1>4, <1>6, <1>7
<1>9. ToSet(list) = ToSet(entries)
  <2>1. \A i \in DOMAIN entries : \E k \in DOMAIN list : list[k] = entries[i]
    <3> TAKE i \in DOMAIN entries
    <3>1. PICK k \in DOMAIN order : order[k] = <<rank[i], i>>
      BY <1>5, <1>7
    <3>2. order[k][2] = i
      BY <3>1
    <3>3. QED
      BY <3>2, <1>6, <1>8
  <2>2. \A k \in DOMAIN list : \E i \in DOMAIN entries : list[k] = entries[i]
    BY <1>6, <1>8
  <2>3. QED
    BY <2>1, <2>2 DEF ToSet
<1>10. list \in Seq(ToSet(list))
  <2>1. \A k \in DOMAIN list : list[k] \in ToSet(list)
    BY DEF ToSet
  <2>2. DOMAIN list = 1..Cardinality(S) /\ list = [k \in 1..Cardinality(S) |-> list[k]]
    BY <1>6, <1>7
  <2>3. QED
    BY <2>1, <2>2, <1>7
<1>11. KeyedOnce(entries) => KeyedOnce(list)
  <2>1. \A k, l \in DOMAIN order : k # l => order[k][2] # order[l][2]
    BY <1>4, <1>7
  <2>2. DOMAIN list = DOMAIN order
    BY <1>6
  <2>3. QED
    BY <2>1, <2>2, <1>8 DEF KeyedOnce
<1>12. QED
  BY <1>9, <1>10, <1>11 DEF list

(* Resolving the policies of a list keeps it sound, and leaves no nested one
   without a policy.                                                          *)
Decided(e) == e.nested # Unset => e.nested.policy # Unset

LEMMA NestedResolved ==
  ASSUME NEW names, NEW e, EntrySound(names, e), NEW fallback
  PROVE  LET r == ResolveNested(e, fallback)
         IN  EntrySound(names, r) /\ Decided(r) /\ r.name = e.name /\ r.renames = e.renames
             /\ r.fields = e.fields
<1> DEFINE r == ResolveNested(e, fallback)
<1>1. CASE e.nested = Unset
  BY <1>1 DEF ResolveNested, Decided
<1>2. CASE e.nested # Unset
  <2> DEFINE p == Over(Over(NestedDefault, fallback), e.nested.policy)
             w == ResolvedWrapper(e.nested, fallback, NestedDefault)
  <2>1. NestedWritten(names, e.nested) /\ EntriesSound(names, e.nested.entries) /\ EntryWritten(names, e) /\ ~e.remove
    BY <1>2 DEF EntrySound
  <2>2. e.nested \in [policy : {e.nested.policy}, entries : {e.nested.entries}]
    BY <2>1 DEF NestedWritten
  <2>3. w = [e.nested EXCEPT !.policy = p]
    BY DEF ResolvedWrapper
  <2>4. p # Unset
    BY LayersAssumption DEF Over
  <2> HIDE DEF w, p
  <2>5. w \in [policy : {p}, entries : {e.nested.entries}] /\ w.policy = p /\ w.entries = e.nested.entries
    BY <2>2, <2>3
  <2>6. r = [e EXCEPT !.nested = w]
    BY <1>2 DEF ResolveNested, w
  <2>7. /\ e \in [name : names, renames : names \cup {Unset}, fields : {e.fields}, nested : {e.nested}, remove : BOOLEAN]
        /\ DOMAIN e.fields = Fields
    BY <2>1 DEF EntryWritten
  <2> HIDE DEF r
  <2>8. /\ r \in [name : names, renames : names \cup {Unset}, fields : {e.fields}, nested : {w}, remove : BOOLEAN]
        /\ r.name = e.name /\ r.renames = e.renames /\ r.fields = e.fields /\ r.nested = w /\ r.remove = e.remove
    BY <2>6, <2>7
  <2>9. EntryWritten(names, r)
    BY <2>7, <2>8 DEF EntryWritten
  <2>10. NestedWritten(names, w) /\ EntriesSound(names, w.entries)
    BY <2>1, <2>5 DEF NestedWritten
  <2>11. EntrySound(names, r)
    BY <2>1, <2>8, <2>9, <2>10 DEF EntrySound
  <2>12. Decided(r)
    BY <2>4, <2>5, <2>8 DEF Decided
  <2>13. QED
    BY <2>8, <2>11, <2>12 DEF r
<1>3. QED
  BY <1>1, <1>2

(* The order of a written document: what it names keeps its place in no list but
   this one, and every list stays sound.                                      *)
LEMMA NestedOrdered ==
  ASSUME NEW names \in SUBSET Nat, NEW e, EntrySound(names, e), Decided(e)
  PROVE  LET r == CanonicalEntry(e)
         IN  EntrySound(names, r) /\ Decided(r) /\ r.name = e.name /\ r.renames = e.renames
             /\ r.fields = e.fields
<1> DEFINE r == CanonicalEntry(e)
<1>1. CASE e.nested = Unset
  BY <1>1 DEF CanonicalEntry
<1>2. CASE e.nested # Unset
  <2> DEFINE es == e.nested.entries
             o == ByName(es)
             w == [e.nested EXCEPT !.entries = o]
  <2>1. NestedWritten(names, e.nested) /\ EntriesSound(names, es) /\ EntryWritten(names, e) /\ ~e.remove
    BY <1>2 DEF EntrySound
  <2>2. e.nested \in [policy : {e.nested.policy}, entries : {es}]
    BY <2>1 DEF NestedWritten
  <2>3. es \in Seq(ToSet(es)) /\ KeyedOnce(es) /\ \A x \in ToSet(es) : EntryWritten(names, x) /\ ~x.remove
    BY <2>1 DEF EntriesSound, EntriesWritten
  <2>4. \A i \in DOMAIN es : es[i].name \in Nat
    <3>1. \A i \in DOMAIN es : es[i] \in ToSet(es)
      BY <2>3, Listed
    <3>2. \A x \in ToSet(es) : x.name \in names
      BY <2>3 DEF EntryWritten
    <3>3. QED
      BY <3>1, <3>2
  <2>5. o \in Seq(ToSet(o)) /\ ToSet(o) = ToSet(es) /\ KeyedOnce(o)
    <3> DEFINE rank == [i \in DOMAIN es |-> es[i].name]
    <3>1. \A i \in DOMAIN es : rank[i] \in Nat
      BY <2>4
    <3>2. o = OrderedBy(es, rank)
      BY DEF ByName
    <3> HIDE DEF rank, o, es
    <3>3. QED
      BY <3>1, <3>2, <2>3, OrderedHolds
  <2>6. EntriesSound(names, o)
    BY <2>3, <2>5 DEF EntriesSound, EntriesWritten
  <2>7. r = [e EXCEPT !.nested = w]
    BY <1>2 DEF CanonicalEntry
  <2>8. /\ e \in [name : names, renames : names \cup {Unset}, fields : {e.fields}, nested : {e.nested}, remove : BOOLEAN]
        /\ DOMAIN e.fields = Fields
    BY <2>1 DEF EntryWritten
  <2> HIDE DEF r, o
  <2>9. w \in [policy : {e.nested.policy}, entries : {o}] /\ w.policy = e.nested.policy /\ w.entries = o
    BY <2>2
  <2> HIDE DEF w, es
  <2>10. /\ r \in [name : names, renames : names \cup {Unset}, fields : {e.fields}, nested : {w}, remove : BOOLEAN]
         /\ r.name = e.name /\ r.renames = e.renames /\ r.fields = e.fields /\ r.nested = w /\ r.remove = e.remove
    BY <2>7, <2>8
  <2>11. EntryWritten(names, r)
    BY <2>8, <2>10 DEF EntryWritten
  <2>12. NestedWritten(names, w) /\ EntriesSound(names, w.entries)
    BY <2>6, <2>9 DEF NestedWritten, EntriesSound
  <2>13. EntrySound(names, r)
    BY <2>1, <2>10, <2>11, <2>12 DEF EntrySound
  <2>14. Decided(r)
    BY <1>2, <2>9, <2>10 DEF Decided
  <2>15. QED
    BY <2>10, <2>13, <2>14 DEF r
<1>3. QED
  BY <1>1, <1>2

(* The document the planner judges, and the one that is written. *)
LEMMA ListResolved ==
  ASSUME NEW names, NEW document, NEW s \in DOMAIN document.lists, ListSound(names, document.lists[s]),
         document \in [lists : {document.lists}, mapping : {document.mapping}], NEW fallback,
         NEW r, r = ResolvePolicies(document, fallback)
  PROVE  LET list == document.lists[s]
         IN  /\ r \in [lists : {r.lists}, mapping : {document.mapping}]
             /\ DOMAIN r.lists = DOMAIN document.lists
             /\ ListSound(names, r.lists[s])
             /\ \A e \in ToSet(r.lists[s].entries) : Decided(e)
             /\ s \in Knobbed => r.lists[s].policy = Over(Over(DefaultPolicy[s], fallback), list.policy)
             /\ DOMAIN r.lists[s].entries = DOMAIN list.entries
             /\ \A i \in DOMAIN list.entries :
                  /\ r.lists[s].entries[i].name = list.entries[i].name
                  /\ r.lists[s].entries[i].fields = list.entries[i].fields
<1> DEFINE list == document.lists[s]
           es == list.entries
           rs == [i \in DOMAIN es |-> ResolveNested(es[i], fallback)]
           resolved == [list EXCEPT !.entries = rs]
           lists == [t \in DOMAIN document.lists |->
                       LET was == document.lists[t]
                           now == [was EXCEPT !.entries = [i \in DOMAIN @ |-> ResolveNested(@[i], fallback)]]
                       IN  IF t \in Knobbed THEN ResolvedWrapper(now, fallback, DefaultPolicy[t]) ELSE now]
           p == Over(Over(DefaultPolicy[s], fallback), resolved.policy)
<1>1. /\ list \in [policy : {list.policy}, entries : {es}] /\ EntriesSound(names, es)
      /\ \A e \in ToSet(es) : EntrySound(names, e)
  BY DEF ListSound
<1>2. r = [document EXCEPT !.lists = lists]
  BY DEF ResolvePolicies
<1>3. r \in [lists : {r.lists}, mapping : {document.mapping}] /\ r.lists = lists
  <2> HIDE DEF lists
  <2>1. QED
    BY <1>2
<1>4. DOMAIN r.lists = DOMAIN document.lists
  BY <1>3
<1>5. r.lists[s] = IF s \in Knobbed THEN [resolved EXCEPT !.policy = p] ELSE resolved
  <2>1. lists[s] = IF s \in Knobbed THEN ResolvedWrapper(resolved, fallback, DefaultPolicy[s]) ELSE resolved
    OBVIOUS
  <2>2. QED
    BY <2>1, <1>3 DEF ResolvedWrapper
<1> HIDE DEF lists
<1>6. \A i \in DOMAIN es : es[i] \in ToSet(es)
  BY <1>1, Listed DEF EntriesSound, EntriesWritten
<1>7. \A i \in DOMAIN es :
        /\ EntrySound(names, rs[i]) /\ Decided(rs[i]) /\ rs[i].name = es[i].name
        /\ rs[i].renames = es[i].renames /\ rs[i].fields = es[i].fields
  BY <1>1, <1>6, NestedResolved
<1>8. EntriesSound(names, rs) /\ \A e \in ToSet(rs) : \E i \in DOMAIN es : e = rs[i]
  <2>1. rs = [i \in DOMAIN es |-> rs[i]] /\ DOMAIN rs = DOMAIN es
    OBVIOUS
  <2> HIDE DEF rs, es
  <2>2. \A i \in DOMAIN es : EntryWritten(names, rs[i]) /\ ~rs[i].remove /\ Keys(rs[i]) = Keys(es[i])
    BY <1>7 DEF EntrySound, Keys
  <2>3. QED
    BY <2>1, <2>2, <1>1, MappedSound
<1>9. DOMAIN rs = DOMAIN es
  OBVIOUS
<1>10. resolved \in [policy : {list.policy}, entries : {rs}] /\ resolved.policy = list.policy /\ resolved.entries = rs
  <2> HIDE DEF list, rs
  <2>1. QED
    BY <1>1
<1> HIDE DEF resolved
<1>11. /\ r.lists[s] \in [policy : {r.lists[s].policy}, entries : {rs}] /\ r.lists[s].entries = rs
       /\ s \in Knobbed => r.lists[s].policy = Over(Over(DefaultPolicy[s], fallback), list.policy)
  <2> HIDE DEF rs, list
  <2>1. CASE s \in Knobbed
    BY <2>1, <1>5, <1>10
  <2>2. CASE s \notin Knobbed
    BY <2>2, <1>5, <1>10
  <2>3. QED
    BY <2>1, <2>2
<1> HIDE DEF rs, list, es
<1>12. ListSound(names, r.lists[s]) /\ \A e \in ToSet(rs) : Decided(e)
  BY <1>7, <1>8, <1>11 DEF ListSound
<1>13. QED
  BY <1>3, <1>4, <1>7, <1>9, <1>11, <1>12 DEF list, es

(* One list says what another does, in another order. *)
SameSaid(was, now) ==
  /\ \A e \in ToSet(now) : \E i \in DOMAIN was : e.name = was[i].name /\ e.fields = was[i].fields
  /\ \A i \in DOMAIN was : \E e \in ToSet(now) : e.name = was[i].name


LEMMA ListOrdered ==
  ASSUME NEW names \in SUBSET Nat, NEW document, NEW s \in DOMAIN document.lists,
         ListSound(names, document.lists[s]), \A e \in ToSet(document.lists[s].entries) : Decided(e),
         document \in [lists : {document.lists}, mapping : {document.mapping}],
         NEW r, r = CanonicalDocument(document)
  PROVE  LET list == document.lists[s]
         IN  /\ r \in [lists : {r.lists}, mapping : {document.mapping}]
             /\ DOMAIN r.lists = DOMAIN document.lists
             /\ ListSound(names, r.lists[s]) /\ r.lists[s].policy = list.policy
             /\ \A e \in ToSet(r.lists[s].entries) : Decided(e)
             /\ SameSaid(list.entries, r.lists[s].entries)
<1> DEFINE list == document.lists[s]
           es == list.entries
           cs == [i \in DOMAIN es |-> CanonicalEntry(es[i])]
           os == SortEntries(s, cs)
           lists == [t \in DOMAIN document.lists |->
                       [document.lists[t] EXCEPT !.entries =
                          SortEntries(t, [i \in DOMAIN @ |-> CanonicalEntry(@[i])])]]
<1>1. /\ list \in [policy : {list.policy}, entries : {es}] /\ EntriesSound(names, es)
      /\ \A e \in ToSet(es) : EntrySound(names, e) /\ Decided(e)
  BY DEF ListSound
<1>2. r = [document EXCEPT !.lists = lists]
  BY DEF CanonicalDocument
<1>3. r \in [lists : {r.lists}, mapping : {document.mapping}] /\ r.lists = lists
  <2> HIDE DEF lists
  <2>1. QED
    BY <1>2
<1>4. DOMAIN r.lists = DOMAIN document.lists /\ r.lists[s] = [list EXCEPT !.entries = os]
  BY <1>3
<1> HIDE DEF lists
<1>5. \A i \in DOMAIN es : es[i] \in ToSet(es)
  BY <1>1, Listed DEF EntriesSound, EntriesWritten
<1>6. \A i \in DOMAIN es :
        /\ EntrySound(names, cs[i]) /\ Decided(cs[i]) /\ cs[i].name = es[i].name
        /\ cs[i].renames = es[i].renames /\ cs[i].fields = es[i].fields
  BY <1>1, <1>5, NestedOrdered
<1>7. DOMAIN cs = DOMAIN es
  OBVIOUS
<1>8. EntriesSound(names, cs) /\ \A e \in ToSet(cs) : \E i \in DOMAIN es : e = cs[i]
  <2>1. cs = [i \in DOMAIN es |-> cs[i]]
    OBVIOUS
  <2> HIDE DEF cs, es
  <2>2. \A i \in DOMAIN es : EntryWritten(names, cs[i]) /\ ~cs[i].remove /\ Keys(cs[i]) = Keys(es[i])
    BY <1>6 DEF EntrySound, Keys
  <2>3. QED
    BY <2>1, <2>2, <1>1, MappedSound
<1> HIDE DEF cs
<1>9. cs \in Seq(ToSet(cs)) /\ KeyedOnce(cs) /\ \A e \in ToSet(cs) : EntryWritten(names, e) /\ ~e.remove
  BY <1>8 DEF EntriesSound, EntriesWritten
<1>10. \A i \in DOMAIN cs : cs[i].name \in Nat /\ cs[i] \in ToSet(cs)
  <2>1. \A i \in DOMAIN cs : cs[i] \in ToSet(cs)
    BY <1>9, Listed
  <2>2. QED
    BY <2>1, <1>9 DEF EntryWritten
<1>11. os \in Seq(ToSet(os)) /\ ToSet(os) = ToSet(cs) /\ KeyedOnce(os)
  <2> DEFINE plain == [i \in DOMAIN cs |-> cs[i].name]
             pinned == [i \in DOMAIN cs |-> IF IsPinned(cs[i]) THEN 0 ELSE cs[i].name]
  <2>1. \A i \in DOMAIN cs : plain[i] \in Nat /\ pinned[i] \in Nat
    BY <1>10
  <2>2. os = OrderedBy(cs, plain) \/ os = OrderedBy(cs, pinned)
    BY DEF SortEntries, ByName
  <2> HIDE DEF plain, pinned, os
  <2>3. QED
    BY <2>1, <2>2, <1>9, OrderedHolds
<1> HIDE DEF os
<1>12. EntriesSound(names, os) /\ \A e \in ToSet(os) : EntrySound(names, e) /\ Decided(e)
  BY <1>6, <1>8, <1>9, <1>11 DEF EntriesSound, EntriesWritten
<1>13. r.lists[s] \in [policy : {list.policy}, entries : {os}] /\ r.lists[s].entries = os /\ r.lists[s].policy = list.policy
  <2> HIDE DEF list
  <2>1. QED
    BY <1>1, <1>4
<1>14. ListSound(names, r.lists[s])
  BY <1>12, <1>13 DEF ListSound
<1>15. \A e \in ToSet(os) : \E i \in DOMAIN es : e.name = es[i].name /\ e.fields = es[i].fields
  BY <1>6, <1>8, <1>11
<1>16. \A i \in DOMAIN es : \E e \in ToSet(os) : e.name = es[i].name
  BY <1>6, <1>7, <1>10, <1>11
<1>17. QED
  BY <1>3, <1>4, <1>12, <1>13, <1>14, <1>15, <1>16 DEF SameSaid

(* What one layer folded in leaves: every list sound, and of the layer's own lists
   each merged over the one below.                                            *)
ListsSound(names, lists) == \A s \in DOMAIN lists : ListSound(names, lists[s])
ListsWritten(names, lists) == \A s \in DOMAIN lists : ListWritten(names, lists[s])
FoldsOn(names, document, layer, layering, next) ==
  /\ next \in [lists : {next.lists}, mapping : {MergeMapping(document.mapping, layer.mapping)}]
  /\ DOMAIN next.lists = DOMAIN document.lists \cup DOMAIN layer.lists
  /\ ListsSound(names, next.lists)
  /\ \A s \in DOMAIN layer.lists :
       next.lists[s] = MergeList(Below(document.lists, s), layer.lists[s],
                                 Layering(layer, layer.lists[s], layering))
  /\ \A s \in DOMAIN document.lists : s \notin DOMAIN layer.lists => next.lists[s] = document.lists[s]

(* The list a layer is folded over is sound, the empty one too. *)
LEMMA BelowSound ==
  ASSUME NEW names, NEW lists, ListsSound(names, lists), NEW s
  PROVE  ListSound(names, Below(lists, s))
<1>1. NoList = [policy |-> Unset, entries |-> <<>>]
  BY DEF NoList
<1>2. ToSet(<<>>) = {} /\ <<>> \in Seq({}) /\ DOMAIN <<>> = {}
  BY DEF ToSet
<1>3. EntriesSound(names, <<>>)
  BY <1>2 DEF EntriesSound, EntriesWritten, KeyedOnce
<1>4. NoList \in [policy : {NoList.policy}, entries : {NoList.entries}] /\ NoList.entries = <<>>
  BY <1>1
<1>5. ListSound(names, NoList)
  BY <1>2, <1>3, <1>4 DEF ListSound
<1>6. QED
  BY <1>5 DEF Below, ListsSound

(* One layer folded in: every list stays sound, and a list's own policy is the
   highest set.                                                               *)
LEMMA LayerMerged ==
  ASSUME NEW names, NEW document, ListsSound(names, document.lists),
         NEW layer, ListsWritten(names, layer.lists),
         NEW layering, Admitted(layer, layering), ~StepRefused(document, layer, layering)
  PROVE  FoldsOn(names, document, layer, layering, MergeStep(document, layer, layering))
<1> SUFFICES ASSUME NEW next, next = MergeStep(document, layer, layering)
             PROVE  FoldsOn(names, document, layer, layering, next)
  OBVIOUS
<1> USE DEF ListsSound, ListsWritten
<1> DEFINE ll(s) == Layering(layer, layer.lists[s], layering)
           lists == [s \in DOMAIN document.lists \cup DOMAIN layer.lists |->
                       IF s \notin DOMAIN layer.lists THEN document.lists[s]
                       ELSE MergeList(Below(document.lists, s), layer.lists[s], ll(s))]
<1>1. next = [lists |-> lists, mapping |-> MergeMapping(document.mapping, layer.mapping)]
  BY DEF MergeStep
<1>2. /\ next \in [lists : {next.lists}, mapping : {MergeMapping(document.mapping, layer.mapping)}]
      /\ next.lists = lists
  <2> HIDE DEF lists
  <2>1. QED
    BY <1>1
<1>4. ASSUME NEW s \in DOMAIN layer.lists
      PROVE  ListSound(names, MergeList(Below(document.lists, s), layer.lists[s], ll(s)))
  <2> DEFINE low == Below(document.lists, s)
             high == layer.lists[s]
  <2>1. ListSound(names, low)
    BY BelowSound
  <2>2. ListWritten(names, high) /\ Entries(high.entries, ll(s))
    BY DEF Admitted
  <2>3. ~RefusesRemoval(IF ll(s) = "replace" THEN <<>> ELSE low.entries, high.entries, ll(s))
    BY DEF StepRefused
  <2> HIDE DEF low, high, ll
  <2>4. ListSound(names, MergeList(low, high, ll(s)))
    BY <2>1, <2>2, <2>3, ListMerged
  <2>5. QED
    BY <2>4 DEF low, high
<1>5. \A s \in DOMAIN lists : ListSound(names, lists[s])
  <2> HIDE DEF ll
  <2>1. QED
    BY <1>4
<1>6. \A s \in DOMAIN layer.lists :
        lists[s] = MergeList(Below(document.lists, s), layer.lists[s], ll(s))
  OBVIOUS
<1>7. \A s \in DOMAIN document.lists : s \notin DOMAIN layer.lists => lists[s] = document.lists[s]
  OBVIOUS
<1>8. DOMAIN lists = DOMAIN document.lists \cup DOMAIN layer.lists
  OBVIOUS
<1> HIDE DEF lists
<1>9. QED
  BY <1>2, <1>5, <1>6, <1>7, <1>8 DEF FoldsOn

-----------------------------------------------------------------------------
(* What the fold has made of the layers so far, and what the document says. *)

FoldBegins == phase = "start" => at = 1 /\ doc = EmptyFold /\ filePolicy = Unset
FoldedSoFar ==
  phase = "merging" =>
    /\ doc \in [lists : {doc.lists}, mapping : {doc.mapping}]
    /\ at \in 1..Len(case.layers) + 1
    /\ \A i \in 1..at - 1 : DOMAIN case.layers[i].lists \subseteq DOMAIN doc.lists
    /\ \A s \in DOMAIN doc.lists :
         /\ ListSound(case.names, doc.lists[s])
         /\ Highest(OwnPolicies(s), at - 1, doc.lists[s].policy)
    /\ Highest(FilePolicies, at - 1, filePolicy)
RenderInv == FoldBegins /\ FoldedSoFar /\ RenderedIsAccepted

(* A list nested in an entry of a layer is one of entries. *)
LEMMA NestedIs ==
  ASSUME NEW names, NEW nested \in NestedLists(names)
  PROVE  NestedWritten(names, nested)
<1> DEFINE es == nested.entries
<1>1. es \in Seq(NestedEntries(names)) /\ nested \in [policy : {nested.policy}, entries : {es}]
  BY DEF NestedLists
<1>2. es \in Seq(ToSet(es)) /\ \A e \in ToSet(es) : e \in NestedEntries(names)
  <2> HIDE DEF es
  <2>1. \A i \in 1..Len(es) : es[i] \in ToSet(es) /\ es[i] \in NestedEntries(names)
    BY <1>1 DEF ToSet
  <2>2. QED
    BY <1>1, <2>1 DEF ToSet
<1>3. \A e \in NestedEntries(names) : EntryWritten(names, e)
  BY DEF NestedEntries, EntryWritten
<1> HIDE DEF es
<1>4. QED
  BY <1>1, <1>2, <1>3 DEF NestedWritten, EntriesWritten, es

(* What is known of the layers of a run. *)
LEMMA LayersKnown ==
  ASSUME case \in Cases
  PROVE  /\ case.names \subseteq Nat \ {0} /\ Len(case.layers) \in Nat
         /\ DOMAIN case.layers = 1..Len(case.layers)
         /\ \A i \in DOMAIN case.layers :
              /\ case.layers[i].mapping \in Mappings \cup {Unset, Null}
              /\ \A s \in DOMAIN case.layers[i].lists :
                   ListWritten(case.names, case.layers[i].lists[s])
<1>1. LayersWritten(case)
  BY CasesAssumption
<1>2. case.layers \in Seq(ToSet(case.layers)) /\ case.names \subseteq Nat \ {0}
  BY <1>1 DEF LayersWritten
<1>3. /\ Len(case.layers) \in Nat /\ DOMAIN case.layers = 1..Len(case.layers)
      /\ \A i \in DOMAIN case.layers : case.layers[i] \in ToSet(case.layers)
  BY <1>2, Listed
<1>4. QED
  <2>1. ASSUME NEW i \in DOMAIN case.layers, NEW s \in DOMAIN case.layers[i].lists
        PROVE  ListWritten(case.names, case.layers[i].lists[s])
    <3> DEFINE es == case.layers[i].lists[s].entries
    <3>1. EntriesWritten(case.names, es) /\ \A e \in ToSet(es) : e.nested \in NestedLists(case.names) \cup {Unset}
      BY <1>1, <1>3 DEF LayersWritten
    <3>2. QED
      BY <3>1, NestedIs DEF ListWritten
  <2>2. \A i \in DOMAIN case.layers : case.layers[i].mapping \in Mappings \cup {Unset, Null}
    BY <1>1, <1>3 DEF LayersWritten
  <2>3. QED
    BY <1>2, <1>3, <2>1, <2>2

(* Nothing of the fold moves, and no document is judged. *)
LEMMA FoldRests ==
  ASSUME RenderInv, UNCHANGED <<case, at, doc, filePolicy>>,
         phase' \notin {"start", "merging"} \/ phase' = phase,
         ~(phase' = "open" /\ Rendering) \/ phase' = phase,
         results' # <<"malformed">>
  PROVE  RenderInv'
<1>1. \A s : OwnPolicies(s)' = OwnPolicies(s)
  BY DEF OwnPolicies
<1>2. FilePolicies' = FilePolicies
  BY DEF FilePolicies
<1>3. \A s : PolicyDue(s)' = PolicyDue(s)
  BY <1>1, <1>2 DEF PolicyDue
<1>4. FoldBegins' /\ FoldedSoFar'
  BY <1>1, <1>2 DEF RenderInv, FoldBegins, FoldedSoFar, EmptyFold
<1>5. RenderedIsAccepted'
  BY <1>3 DEF RenderInv, RenderedIsAccepted, Rendering
<1>6. QED
  BY <1>4, <1>5 DEF RenderInv

LEMMA RenderBegins == Init => RenderInv
<1> SUFFICES ASSUME Init PROVE RenderInv
  OBVIOUS
<1>1. phase = "start" /\ at = 1 /\ doc = EmptyFold /\ filePolicy = Unset /\ results = <<>>
  BY DEF Init
<1>2. results # <<"malformed">>
  BY <1>1
<1>3. QED
  BY <1>1, <1>2 DEF RenderInv, FoldBegins, FoldedSoFar, RenderedIsAccepted

LEMMA FoldStarts ==
  ASSUME StateOK, RenderInv, Start
  PROVE  RenderInv'
<1>1. /\ phase = "start" /\ at = 1 /\ doc = EmptyFold /\ filePolicy = Unset
      /\ case' = case /\ at' = 1 /\ doc' = EmptyFold /\ filePolicy' = Unset
  BY DEF RenderInv, FoldBegins, Start, fold
<1>2. phase' \in {"over", "merging", "locating"}
  BY <1>1 DEF Start
<1>3. results' # <<"malformed">>
  BY DEF Start, RenderInv, RenderedIsAccepted
<1>4. doc' = [lists |-> <<>>, mapping |-> Unset]
  BY <1>1 DEF EmptyFold
<1>5. doc' \in [lists : {doc'.lists}, mapping : {doc'.mapping}] /\ DOMAIN doc'.lists = {}
  <2>1. doc'.lists = <<>>
    BY <1>4
  <2>2. DOMAIN <<>> = {}
    OBVIOUS
  <2>3. doc' \in [lists : {doc'.lists}, mapping : {doc'.mapping}]
    BY <1>4
  <2>4. QED
    BY <2>1, <2>2, <2>3
<1>6. at' \in 1..Len(case.layers) + 1 /\ 1..at' - 1 = {}
  BY <1>1, LayersKnown DEF StateOK
<1>7. Highest(FilePolicies, at - 1, Unset)'
  BY <1>6 DEF Highest
<1>8. FoldedSoFar'
  BY <1>1, <1>5, <1>6, <1>7 DEF FoldedSoFar
<1>9. QED
  BY <1>2, <1>3, <1>8 DEF RenderInv, FoldBegins, RenderedIsAccepted

LEMMA FoldGoesOn ==
  ASSUME StateOK, RenderInv, MergeLayer
  PROVE  RenderInv'
<1>1. phase = "merging" /\ FoldedSoFar /\ case' = case /\ at <= Len(case.layers)
  BY DEF MergeLayer, RenderInv
<1>2. /\ Len(case.layers) \in Nat /\ DOMAIN case.layers = 1..Len(case.layers)
      /\ at \in 1..Len(case.layers) + 1
  BY <1>1, LayersKnown DEF StateOK, FoldedSoFar
<1>3. at \in DOMAIN case.layers
  BY <1>1, <1>2
<1>4. CASE phase' = "over" /\ results' = <<"refused">> /\ UNCHANGED <<fold, at>>
  <2>1. results' # <<"malformed">>
    BY <1>4
  <2>2. QED
    BY <1>1, <1>4, <2>1, FoldRests DEF fold
<1>5. CASE /\ Admitted(case.layers[at], case.layering) /\ ~StepRefused(doc, case.layers[at], case.layering)
           /\ doc' = MergeStep(doc, case.layers[at], case.layering)
           /\ filePolicy' = Over(filePolicy, case.layers[at].undeclared)
           /\ at' = at + 1 /\ UNCHANGED <<phase, results>>
  <2> DEFINE layer == case.layers[at]
             ll(s) == Layering(layer, layer.lists[s], case.layering)
  <2> HIDE DEF layer
  <2>1. \A s \in DOMAIN layer.lists : ListWritten(case.names, layer.lists[s])
    BY <1>3, LayersKnown DEF StateOK, layer
  <2>2. /\ doc \in [lists : {doc.lists}, mapping : {doc.mapping}]
        /\ \A i \in 1..at - 1 : DOMAIN case.layers[i].lists \subseteq DOMAIN doc.lists
        /\ \A s \in DOMAIN doc.lists :
             ListSound(case.names, doc.lists[s]) /\ Highest(OwnPolicies(s), at - 1, doc.lists[s].policy)
        /\ Highest(FilePolicies, at - 1, filePolicy)
    BY <1>1 DEF FoldedSoFar
  <2>3. PICK next : next = MergeStep(doc, layer, case.layering)
    OBVIOUS
  <2>4. doc' = next
    BY <1>5, <2>3 DEF layer
  <2>5. /\ next \in [lists : {next.lists}, mapping : {MergeMapping(doc.mapping, layer.mapping)}]
        /\ DOMAIN next.lists = DOMAIN doc.lists \cup DOMAIN layer.lists
        /\ \A s \in DOMAIN next.lists : ListSound(case.names, next.lists[s])
        /\ \A s \in DOMAIN layer.lists :
             next.lists[s] = MergeList(Below(doc.lists, s), layer.lists[s], ll(s))
        /\ \A s \in DOMAIN doc.lists : s \notin DOMAIN layer.lists => next.lists[s] = doc.lists[s]
    <3>1. Admitted(layer, case.layering) /\ ~StepRefused(doc, layer, case.layering)
      BY <1>5 DEF layer
    <3>2. ListsSound(case.names, doc.lists) /\ ListsWritten(case.names, layer.lists)
      BY <2>1, <2>2 DEF ListsSound, ListsWritten
    <3>3. FoldsOn(case.names, doc, layer, case.layering, next)
      BY <2>3, <3>1, <3>2, LayerMerged
    <3>4. QED
      BY <3>3 DEF FoldsOn, ListsSound
  <2> HIDE DEF ll
  <2>6. at - 1 \in Nat /\ (at - 1) + 1 = at /\ (at + 1) - 1 = at
    BY <1>2
  <2>7. ASSUME NEW s \in DOMAIN next.lists
        PROVE  Highest(OwnPolicies(s), at, next.lists[s].policy)
    <3>1. OwnPolicies(s)[at] = IF s \in DOMAIN layer.lists THEN layer.lists[s].policy ELSE Unset
      BY <1>3 DEF OwnPolicies, layer
    <3>2. Highest(OwnPolicies(s), at - 1, Below(doc.lists, s).policy)
      <4>1. CASE s \in DOMAIN doc.lists
        BY <4>1, <2>2 DEF Below
      <4>2. CASE s \notin DOMAIN doc.lists
        <5>1. \A i \in 1..at - 1 : i \in DOMAIN case.layers /\ s \notin DOMAIN case.layers[i].lists
          BY <4>2, <2>2, <1>2
        <5>2. \A i \in 1..at - 1 : OwnPolicies(s)[i] = Unset
          BY <5>1 DEF OwnPolicies
        <5>3. Below(doc.lists, s).policy = Unset
          BY <4>2 DEF Below, NoList
        <5>4. QED
          BY <5>2, <5>3 DEF Highest
      <4>3. QED
        BY <4>1, <4>2
    <3>3. Highest(OwnPolicies(s), at, Over(Below(doc.lists, s).policy, OwnPolicies(s)[at]))
      BY <3>2, <2>6, HighestNext
    <3>4. next.lists[s].policy = Over(Below(doc.lists, s).policy, OwnPolicies(s)[at])
      <4>1. CASE s \in DOMAIN layer.lists
        <5>1. next.lists[s].policy = Over(Below(doc.lists, s).policy, layer.lists[s].policy)
          <6>1. next.lists[s] = MergeList(Below(doc.lists, s), layer.lists[s], ll(s))
            BY <4>1, <2>5
          <6>2. QED
            BY <6>1 DEF MergeList
        <5>2. QED
          BY <5>1, <4>1, <3>1
      <4>2. CASE s \notin DOMAIN layer.lists
        <5>1. s \in DOMAIN doc.lists /\ next.lists[s] = doc.lists[s]
          BY <4>2, <2>5
        <5>2. QED
          BY <5>1, <4>2, <3>1 DEF Below, Over
      <4>3. QED
        BY <4>1, <4>2
    <3>5. QED
      BY <3>3, <3>4
  <2>8. Highest(FilePolicies, at, Over(filePolicy, layer.undeclared))
    <3>1. FilePolicies[at] = layer.undeclared
      BY <1>3 DEF FilePolicies, layer
    <3>2. Highest(FilePolicies, at, Over(filePolicy, FilePolicies[at]))
      BY <2>2, <2>6, HighestNext
    <3>3. QED
      BY <3>1, <3>2
  <2>9. \A i \in 1..at : DOMAIN case.layers[i].lists \subseteq DOMAIN next.lists
    <3>1. \A i \in 1..at : i = at \/ i \in 1..at - 1
      BY <1>2
    <3>2. QED
      BY <3>1, <2>2, <2>5 DEF layer
  <2>10. at' - 1 = at /\ at' \in 1..Len(case.layers) + 1
    BY <1>1, <1>2, <1>5
  <2>11. next \in [lists : {next.lists}, mapping : {next.mapping}]
    BY <2>5
  <2>12. filePolicy' = Over(filePolicy, layer.undeclared)
    BY <1>5 DEF layer
  <2>13. FilePolicies' = FilePolicies /\ \A s : OwnPolicies(s)' = OwnPolicies(s)
    BY <1>1 DEF FilePolicies, OwnPolicies
  <2>14. FoldedSoFar'
    BY <1>1, <2>4, <2>5, <2>7, <2>8, <2>9, <2>10, <2>11, <2>12, <2>13 DEF FoldedSoFar
  <2>15. phase' = "merging" /\ results' = results
    BY <1>1, <1>5
  <2>16. QED
    BY <2>14, <2>15 DEF RenderInv, FoldBegins, RenderedIsAccepted
<1>6. QED
  BY <1>4, <1>5 DEF MergeLayer

LEMMA FoldJudged ==
  ASSUME StateOK, RenderInv, Judge
  PROVE  RenderInv'
<1>1. phase = "merging" /\ FoldedSoFar /\ case' = case /\ at > Len(case.layers) /\ filePolicy' = filePolicy
  BY DEF Judge, RenderInv, fold
<1>2. /\ Len(case.layers) \in Nat /\ DOMAIN case.layers = 1..Len(case.layers)
      /\ at - 1 = Len(case.layers) /\ case.names \in SUBSET Nat
  BY <1>1, LayersKnown DEF StateOK, FoldedSoFar
<1> DEFINE fallback == Over(case.undeclared, filePolicy)
<1>3. PICK resolved : resolved = ResolvePolicies(doc, fallback)
  OBVIOUS
<1>4. PICK written : written = CanonicalDocument(resolved)
  OBVIOUS
<1>5. doc' = written /\ (Accepted(resolved) => phase' = "open" /\ results' = results)
  BY <1>3, <1>4 DEF Judge
<1>6. /\ doc \in [lists : {doc.lists}, mapping : {doc.mapping}]
      /\ \A s \in DOMAIN doc.lists :
           ListSound(case.names, doc.lists[s]) /\ Highest(OwnPolicies(s), at - 1, doc.lists[s].policy)
      /\ Highest(FilePolicies, at - 1, filePolicy)
  BY <1>1 DEF FoldedSoFar
<1> HIDE DEF fallback
<1>7. \A s \in DOMAIN doc.lists :
        /\ resolved \in [lists : {resolved.lists}, mapping : {doc.mapping}]
        /\ DOMAIN resolved.lists = DOMAIN doc.lists
        /\ ListSound(case.names, resolved.lists[s])
        /\ \A e \in ToSet(resolved.lists[s].entries) : Decided(e)
        /\ s \in Knobbed => resolved.lists[s].policy = Over(Over(DefaultPolicy[s], fallback), doc.lists[s].policy)
  BY <1>3, <1>6, ListResolved
<1>8. resolved \in [lists : {resolved.lists}, mapping : {resolved.mapping}] /\ DOMAIN resolved.lists = DOMAIN doc.lists
  <2> DEFINE lists == [s \in DOMAIN doc.lists |->
                 LET list == doc.lists[s]
                     now == [list EXCEPT !.entries = [i \in DOMAIN @ |-> ResolveNested(@[i], fallback)]]
                 IN  IF s \in Knobbed THEN ResolvedWrapper(now, fallback, DefaultPolicy[s]) ELSE now]
  <2>1. resolved = [doc EXCEPT !.lists = lists]
    BY <1>3 DEF ResolvePolicies
  <2>2. DOMAIN lists = DOMAIN doc.lists
    OBVIOUS
  <2> HIDE DEF lists
  <2>3. QED
    BY <1>6, <2>1, <2>2
<1>9. Accepted(resolved)
  BY <1>7, <1>8, SoundIsAccepted DEF Accepted
<1>10. \A s \in DOMAIN resolved.lists :
         /\ ListSound(case.names, written.lists[s]) /\ written.lists[s].policy = resolved.lists[s].policy
         /\ \A e \in ToSet(written.lists[s].entries) : Decided(e)
  <2> TAKE s \in DOMAIN resolved.lists
  <2>1. ListSound(case.names, resolved.lists[s]) /\ \A e \in ToSet(resolved.lists[s].entries) : Decided(e)
    BY <1>7, <1>8
  <2>2. case.names \in SUBSET Nat /\ written = CanonicalDocument(resolved)
    BY <1>2, <1>4
  <2>3. resolved \in [lists : {resolved.lists}, mapping : {resolved.mapping}]
    BY <1>8
  <2>4. ListSound(case.names, written.lists[s]) /\ written.lists[s].policy = resolved.lists[s].policy
    BY <2>1, <2>2, <2>3, ListOrdered
  <2>5. \A e \in ToSet(written.lists[s].entries) : Decided(e)
    BY <2>1, <2>2, <2>3, ListOrdered
  <2>6. QED
    BY <2>4, <2>5
<1>11. DOMAIN written.lists = DOMAIN resolved.lists
  <2> DEFINE lists == [s \in DOMAIN resolved.lists |->
                 [resolved.lists[s] EXCEPT !.entries =
                    SortEntries(s, [i \in DOMAIN @ |-> CanonicalEntry(@[i])])]]
  <2>1. written = [resolved EXCEPT !.lists = lists]
    BY <1>4 DEF CanonicalDocument
  <2>2. DOMAIN lists = DOMAIN resolved.lists
    OBVIOUS
  <2> HIDE DEF lists
  <2>3. QED
    BY <1>8, <2>1, <2>2
<1>12. Accepted(written)
  BY <1>10, <1>11, SoundIsAccepted DEF Accepted
<1>13. ASSUME NEW s \in DOMAIN written.lists, s \in Knobbed
       PROVE  written.lists[s].policy = PolicyDue(s)
  <2>1. HighestSetting(FilePolicies) = filePolicy
    <3>1. DOMAIN FilePolicies = 1..Len(case.layers)
      BY <1>2 DEF FilePolicies
    <3>2. QED
      BY <3>1, <1>2, <1>6, HighestIs
  <2>2. HighestSetting(OwnPolicies(s)) = doc.lists[s].policy
    <3>1. DOMAIN OwnPolicies(s) = 1..Len(case.layers)
      BY <1>2 DEF OwnPolicies
    <3>2. Highest(OwnPolicies(s), Len(case.layers), doc.lists[s].policy)
      BY <1>2, <1>6, <1>8, <1>11
    <3>3. QED
      BY <3>1, <3>2, <1>2, HighestIs
  <2>3. written.lists[s].policy = Over(Over(DefaultPolicy[s], fallback), doc.lists[s].policy)
    BY <1>7, <1>8, <1>10, <1>11, <1>13
  <2>4. Over(DefaultPolicy[s], fallback) = Over(Over(DefaultPolicy[s], case.undeclared), filePolicy)
    BY DEF fallback, Over
  <2>5. QED
    BY <2>1, <2>2, <2>3, <2>4 DEF PolicyDue
<1>14. \A s : PolicyDue(s)' = PolicyDue(s)
  BY <1>1 DEF PolicyDue, OwnPolicies, FilePolicies
<1>15. phase' = "open" /\ results' # <<"malformed">>
  BY <1>5, <1>9 DEF RenderInv, RenderedIsAccepted
<1>16. \A s \in DOMAIN written.lists :
         /\ s \in Knobbed => written.lists[s].policy = PolicyDue(s)
         /\ \A entry \in ToSet(written.lists[s].entries) :
              entry.nested # Unset => entry.nested.policy # Unset
  BY <1>10, <1>11, <1>13 DEF Decided
<1>17. RenderedIsAccepted'
  BY <1>5, <1>12, <1>14, <1>15, <1>16 DEF RenderedIsAccepted
<1>18. QED
  BY <1>15, <1>17 DEF RenderInv, FoldBegins, FoldedSoFar

(* Elsewhere nothing is folded, and nothing is judged. *)
LEMMA RenderElsewhere ==
  ASSUME phase' \notin {"start", "merging"}, ~(phase' = "open" /\ Rendering'), results' # <<"malformed">>
  PROVE  RenderInv'
BY DEF RenderInv, FoldBegins, FoldedSoFar, RenderedIsAccepted

(* A target or a render that is written, or fails, ends with its own result. *)
LEMMA RenderConcluded ==
  ASSUME results \in Seq(Results), NEW result \in Results, result # "malformed", Concludes(result)
  PROVE  RenderInv'
<1>1. results' = Append(results, result) /\ Last(results') = result
  BY Appended DEF Concludes
<1>2. results' # <<"malformed">>
  <2>1. Last(<<"malformed">>) = "malformed"
    BY DEF Last
  <2>2. QED
    BY <1>1, <2>1
<1>3. phase' \in {"over", "locating"}
  BY DEF Concludes, NextTarget
<1>4. QED
  BY <1>2, <1>3, RenderElsewhere

LEMMA RenderStep == StateOK /\ Progress /\ RenderInv /\ [Next]_vars => RenderInv'
<1> SUFFICES ASSUME StateOK, Progress, RenderInv, [Next]_vars PROVE RenderInv'
  OBVIOUS
<1>0. results \in Seq(Results) /\ results # <<"malformed">> /\ "failed" \in Results
  BY DEF StateOK, RenderInv, RenderedIsAccepted, Results
<1>1. CASE Start
  BY <1>1, FoldStarts
<1>2. CASE MergeLayer
  BY <1>2, FoldGoesOn
<1>3. CASE Judge
  BY <1>3, FoldJudged
<1>4. CASE Locate
  <2>1. CASE phase' \in {"over", "locating", "reading"} /\ results' = results
    BY <1>0, <2>1, RenderElsewhere
  <2>2. CASE phase' = "locating" /\ results' = Append(results, "failed")
    <3>1. Last(results') = "failed" /\ Last(<<"malformed">>) = "malformed"
      BY <1>0, <2>2, Appended DEF Last
    <3>2. results' # <<"malformed">>
      BY <3>1
    <3>3. QED
      BY <2>2, <3>2, RenderElsewhere
  <2>3. QED
    BY <1>4, <2>1, <2>2 DEF Locate
<1>5. CASE SnapshotSection
  <2>1. phase' = "reading" /\ results' = results
    BY <1>5 DEF SnapshotSection
  <2>2. QED
    BY <1>0, <2>1, RenderElsewhere
<1>6. CASE Assemble
  <2>1. phase = "reading" /\ ~Rendering /\ case' = case
    BY <1>6 DEF Assemble, Progress
  <2>2. CASE Concludes("failed")
    BY <1>0, <2>2, RenderConcluded
  <2>3. CASE phase' = "open" /\ results' = results
    <3>1. ~Rendering'
      BY <2>1 DEF Rendering
    <3>2. QED
      BY <1>0, <2>3, <3>1, RenderElsewhere
  <2>4. QED
    BY <1>6, <2>2, <2>3 DEF Assemble
<1>7. CASE OpenStaging
  <2>1. CASE phase' = "writing" /\ results' = results
    BY <1>0, <2>1, RenderElsewhere
  <2>2. CASE Concludes("failed")
    BY <1>0, <2>2, RenderConcluded
  <2>3. QED
    BY <1>7, <2>1, <2>2 DEF OpenStaging, WriteFails
<1>8. CASE WriteStaging
  <2>1. CASE phase' = "renaming" /\ results' = results
    BY <1>0, <2>1, RenderElsewhere
  <2>2. CASE Concludes("failed")
    BY <1>0, <2>2, RenderConcluded
  <2>3. QED
    BY <1>8, <2>1, <2>2 DEF WriteStaging, WriteFails
<1>9. CASE Rename
  <2>1. Written \in Results /\ Written # "malformed"
    BY DEF Written, Results
  <2>2. CASE Concludes(Written)
    BY <1>0, <2>1, <2>2, RenderConcluded
  <2>3. CASE Concludes("failed")
    BY <1>0, <2>3, RenderConcluded
  <2>4. QED
    BY <1>9, <2>2, <2>3 DEF Rename, WriteFails
<1>10. CASE Edit
  <2>1. phase' = "reading" /\ results' = results
    BY <1>10 DEF Edit, files
  <2>2. QED
    BY <1>0, <2>1, RenderElsewhere
<1>11. CASE Crash
  <2>1. phase' = "over" /\ results' = results
    BY <1>11 DEF Crash
  <2>2. QED
    BY <1>0, <2>1, RenderElsewhere
<1>12. CASE Rerun
  <2>1. phase' = "start" /\ at' = 1 /\ doc' = EmptyFold /\ filePolicy' = Unset /\ results' = <<>>
    BY <1>12 DEF Rerun
  <2>2. results' # <<"malformed">>
    BY <2>1
  <2>3. EmptyFold' = EmptyFold
    BY DEF EmptyFold
  <2>4. QED
    BY <2>1, <2>2, <2>3 DEF RenderInv, FoldBegins, FoldedSoFar, RenderedIsAccepted
<1>13. CASE UNCHANGED vars
  BY <1>13, <1>0, FoldRests DEF vars
<1>14. QED
  BY <1>1, <1>2, <1>3, <1>4, <1>5, <1>6, <1>7, <1>8, <1>9, <1>10, <1>11, <1>12, <1>13 DEF Next

(* In every state of every run, the document a render is folding is sound: the keys
   of each list are told apart, no removal is left in it, and its own policy, like
   the file's, is the highest a layer read so far sets.                        *)
THEOREM FoldInvariant == Spec => []RenderInv
<1>1. IInv => StateOK
  BY DEF IInv
<1>2. FileInv => Progress
  BY DEF FileInv
<1>3. QED
  BY Invariant, FilesInvariant, RenderBegins, RenderStep, <1>1, <1>2, PTL DEF Spec

(* A rendered document is one the planner accepts, whatever layers were admitted:
   no two of its entries claim one key, no removal reaches it, and every list has
   the policy due to it: its own highest, else the highest of the files, else the
   run's, else its default.  src/sections/contract/keyed-list.ts:16-20,
   src/engine/layers.ts:340-425, src/engine/undeclared.ts:1-90.               *)
THEOREM RenderedDocumentIsAccepted == Spec => []RenderedIsAccepted
<1>1. RenderInv => RenderedIsAccepted
  BY DEF RenderInv
<1>2. QED
  BY FoldInvariant, <1>1, PTL

-----------------------------------------------------------------------------
(* The highest of the values a set of layers gives. *)

HighestIn(S, value, v) ==
  \/ v = Unset /\ \A i \in S : value[i] = Unset
  \/ \E i \in S : v = value[i] /\ v # Unset /\ \A j \in S : j > i => value[j] = Unset

LEMMA HighestAdded ==
  ASSUME NEW n \in Nat, NEW S \in SUBSET (1..n - 1), NEW value, NEW v, HighestIn(S, value, v)
  PROVE  HighestIn(S \cup {n}, value, Over(v, value[n]))
<1>1. CASE value[n] = Unset
  <2>1. Over(v, value[n]) = v
    BY <1>1 DEF Over
  <2>2. QED
    BY <1>1, <2>1 DEF HighestIn
<1>2. CASE value[n] # Unset
  <2>1. Over(v, value[n]) = value[n]
    BY <1>2 DEF Over
  <2>2. \A j \in S \cup {n} : ~(j > n)
    OBVIOUS
  <2>3. QED
    BY <1>2, <2>1, <2>2 DEF HighestIn
<1>3. QED
  BY <1>1, <1>2

LEMMA HighestAlone ==
  ASSUME NEW n \in Nat, NEW value
  PROVE  HighestIn({n}, value, value[n])
BY DEF HighestIn

LEMMA HighestInIs ==
  ASSUME NEW n \in Nat, NEW S \in SUBSET (1..n), NEW value, NEW v, HighestIn(S, value, v)
  PROVE  LET set == {i \in S : value[i] # Unset}
         IN  v = IF set = {} THEN Unset ELSE value[Max(set)]
<1> DEFINE set == {i \in S : value[i] # Unset}
<1> SUFFICES v = IF set = {} THEN Unset ELSE value[Max(set)]
  OBVIOUS
<1>1. CASE v = Unset /\ \A i \in S : value[i] = Unset
  BY <1>1
<1>2. CASE \E i \in S : v = value[i] /\ v # Unset /\ \A j \in S : j > i => value[j] = Unset
  <2>1. PICK i \in S : v = value[i] /\ v # Unset /\ \A j \in S : j > i => value[j] = Unset
    BY <1>2
  <2>2. i \in set /\ set \in SUBSET Nat /\ set # {} /\ i \in Nat
    <3>1. i \in set
      BY <2>1
    <3>2. S \in SUBSET Nat /\ set \in SUBSET S
      OBVIOUS
    <3>3. QED
      BY <3>1, <3>2
  <2>3. \A j \in set : j <= i
    BY <2>1
  <2> HIDE DEF set
  <2>4. Max(set) \in set /\ \A y \in set : y <= Max(set)
    BY <2>2, <2>3, LargestNumber
  <2>5. Max(set) \in Nat /\ Max(set) <= i /\ i <= Max(set)
    BY <2>2, <2>3, <2>4
  <2>6. Max(set) = i
    BY <2>2, <2>5
  <2>7. QED
    BY <2>1, <2>2, <2>6
<1>3. QED
  BY <1>1, <1>2 DEF HighestIn

-----------------------------------------------------------------------------
(* What a union tells of entries no layer renames: their keys are their names. *)

Plain(entries) == \A i \in DOMAIN entries : entries[i].name # Unset /\ entries[i].renames = Unset

LEMMA PlainMeet ==
  ASSUME NEW a, NEW b, a.name # Unset, a.renames = Unset, b.name # Unset, b.renames = Unset
  PROVE  Meet(a, b) <=> a.name = b.name
<1>1. Keys(a) = {a.name} /\ Keys(b) = {b.name}
  BY DEF Keys
<1>2. QED
  BY <1>1 DEF Meet

LEMMA ClaimsOne ==
  ASSUME NEW entry, NEW among, NEW i \in DOMAIN among, Meet(entry, among[i]),
         \A j \in DOMAIN among : Meet(entry, among[j]) => j = i
  PROVE  Claims(entry, among) = 1
<1>1. {j \in DOMAIN among : Meet(entry, among[j])} = {i}
  OBVIOUS
<1>2. Cardinality({i}) = 1
  BY FS_Singleton
<1>3. QED
  BY <1>1, <1>2 DEF Claims

(* Of a pair that meets in two plain lists, each claims the other alone. *)
LEMMA PlainPaired ==
  ASSUME NEW lower, KeyedOnce(lower), Plain(lower), NEW higher, KeyedOnce(higher), Plain(higher),
         NEW i \in DOMAIN lower, NEW j \in DOMAIN higher, Meet(lower[i], higher[j])
  PROVE  Paired(lower, higher, lower[i], higher[j])
<1>1. \A k \in DOMAIN lower, l \in DOMAIN higher :
        /\ Meet(lower[k], higher[l]) <=> lower[k].name = higher[l].name
        /\ Meet(higher[l], lower[k]) <=> lower[k].name = higher[l].name
  BY PlainMeet DEF Plain
<1>2. \A k, l \in DOMAIN lower : k # l => lower[k].name # lower[l].name
  BY PlainMeet DEF Plain, KeyedOnce
<1>3. \A k, l \in DOMAIN higher : k # l => higher[k].name # higher[l].name
  BY PlainMeet DEF Plain, KeyedOnce
<1>4. Claims(lower[i], higher) = 1
  <2>1. \A l \in DOMAIN higher : Meet(lower[i], higher[l]) => l = j
    BY <1>1, <1>3
  <2>2. QED
    BY <2>1, ClaimsOne
<1>5. Claims(higher[j], lower) = 1
  <2>1. Meet(higher[j], lower[i]) /\ \A k \in DOMAIN lower : Meet(higher[j], lower[k]) => k = i
    BY <1>1, <1>2
  <2>2. QED
    BY <2>1, ClaimsOne
<1>6. QED
  BY <1>4, <1>5 DEF Paired

(* An entry of a union: a lower one no higher one names, the merge of a pair of one
   name, or a higher one whose name is new.                                   *)
PlainPlaced(lower, higher, merged, e) ==
  \/ \E i \in DOMAIN lower :
       e = lower[i] /\ \A j \in DOMAIN higher : higher[j].name # lower[i].name
  \/ \E i \in DOMAIN lower, j \in DOMAIN higher :
       ~higher[j].remove /\ lower[i].name = higher[j].name /\ e = merged[<<i, j>>]
  \/ \E j \in DOMAIN higher :
       /\ ~higher[j].remove /\ e = higher[j]
       /\ \A i \in DOMAIN lower : lower[i].name # higher[j].name

(* Each entry of a union is a lower one no higher one names, the merge of a pair of
   one name, or a higher one whose name is new; and none of these is missing.  *)
LEMMA PlainUnion ==
  ASSUME NEW lower, NEW m \in Nat, DOMAIN lower = 1..m, Len(lower) = m, KeyedOnce(lower), Plain(lower),
         NEW higher, NEW n \in Nat, DOMAIN higher = 1..n, KeyedOnce(higher), Plain(higher), NEW merged
  PROVE  LET U == UnionKeyed(lower, higher, merged)
         IN  /\ \A e \in ToSet(U) : PlainPlaced(lower, higher, merged, e)
             /\ \A i \in DOMAIN lower :
                  (\A j \in DOMAIN higher : higher[j].name # lower[i].name) => lower[i] \in ToSet(U)
             /\ \A j \in DOMAIN higher : ~higher[j].remove =>
                  \/ higher[j] \in ToSet(U)
                  \/ \E i \in DOMAIN lower : merged[<<i, j>>] \in ToSet(U)
<1> DEFINE P == Placements(lower, higher)
           U == UnionKeyed(lower, higher, merged)
           Item(p) == PlaceOver(lower, higher, merged, p)
<1>1. ToSet(U) = {Item(p) : p \in P}
  BY UnionListed
<1>2. /\ P \in SUBSET (Nat \X Nat)
      /\ \A i \in DOMAIN lower :
           (\A j \in DOMAIN higher : ~Meet(lower[i], higher[j])) => <<i, 0>> \in P
      /\ \A j \in DOMAIN higher : ~higher[j].remove => \E p \in P : p[2] = j
  <2>1. P \in SUBSET (Nat \X Nat)
    BY Placing
  <2>2. \A i \in DOMAIN lower :
          (\A j \in DOMAIN higher : ~Meet(lower[i], higher[j])) => <<i, 0>> \in P
    BY Placing
  <2>3. \A j \in DOMAIN higher : ~higher[j].remove => \E p \in P : p[2] = j
    BY Placing
  <2>4. QED
    BY <2>1, <2>2, <2>3
<1>3. \A k \in DOMAIN lower, l \in DOMAIN higher :
        Meet(lower[k], higher[l]) <=> lower[k].name = higher[l].name
  BY PlainMeet DEF Plain
<1>4. ASSUME NEW p \in P
      PROVE  \/ Stays(lower, higher, p) /\ Item(p) = lower[p[1]]
             \/ Pairs(lower, higher, p) /\ Item(p) = merged[p]
             \/ Joins(lower, higher, p) /\ Item(p) = higher[p[2]]
  BY Placing
<1> HIDE DEF P, U, Item
<1>5. ASSUME NEW p \in P
      PROVE  \/ /\ p[2] = 0 /\ p[1] \in DOMAIN lower /\ Item(p) = lower[p[1]]
                /\ \A j \in DOMAIN higher : higher[j].name # lower[p[1]].name
             \/ /\ p[1] \in DOMAIN lower /\ p[2] \in DOMAIN higher /\ ~higher[p[2]].remove
                /\ lower[p[1]].name = higher[p[2]].name /\ Item(p) = merged[<<p[1], p[2]>>]
             \/ /\ p[2] \in DOMAIN higher /\ ~higher[p[2]].remove /\ Item(p) = higher[p[2]]
                /\ \A i \in DOMAIN lower : lower[i].name # higher[p[2]].name
  <2>1. p = <<p[1], p[2]>>
    <3>1. p \in Nat \X Nat
      BY <1>2
    <3>2. QED
      BY <3>1
  <2>2. CASE Stays(lower, higher, p) /\ Item(p) = lower[p[1]]
    BY <2>2, <1>3 DEF Stays
  <2>3. CASE Pairs(lower, higher, p) /\ Item(p) = merged[p]
    BY <2>1, <2>3, <1>3 DEF Pairs
  <2>4. CASE Joins(lower, higher, p) /\ Item(p) = higher[p[2]]
    <3>1. p[2] \in DOMAIN higher /\ ~higher[p[2]].remove
      BY <2>4 DEF Joins
    <3>2. Slot(lower, higher[p[2]]) = 0
      <4>1. SUFFICES ASSUME Slot(lower, higher[p[2]]) # 0 PROVE FALSE
        OBVIOUS
      <4>2. PICK k : k = Slot(lower, higher[p[2]])
        OBVIOUS
      <4>3. k \in DOMAIN lower /\ Meet(lower[k], higher[p[2]])
        BY <4>1, <4>2, SlotClaimed
      <4>4. Paired(lower, higher, lower[k], higher[p[2]])
        BY <3>1, <4>3, PlainPaired
      <4>5. QED
        BY <4>1, <4>2, <4>4, <2>4 DEF Joins
    <3>3. \A i \in DOMAIN lower : ~Meet(lower[i], higher[p[2]])
      BY <3>2, SlotClaimed
    <3>4. QED
      BY <3>1, <3>3, <2>4, <1>3
  <2>5. QED
    BY <1>4, <2>2, <2>3, <2>4
<1>6. \A e \in ToSet(U) : PlainPlaced(lower, higher, merged, e)
  <2> TAKE e \in ToSet(U)
  <2>1. PICK p \in P : e = Item(p)
    BY <1>1
  <2>2. QED
    BY <2>1, <1>5 DEF PlainPlaced
<1>7. ASSUME NEW i \in DOMAIN lower, \A j \in DOMAIN higher : higher[j].name # lower[i].name
      PROVE  lower[i] \in ToSet(U)
  <2>1. <<i, 0>> \in P
    BY <1>2, <1>3, <1>7
  <2>2. <<i, 0>>[1] = i /\ <<i, 0>>[2] = 0 /\ 0 \notin DOMAIN higher
    OBVIOUS
  <2>3. Item(<<i, 0>>) = lower[i]
    BY <1>5, <2>1, <2>2
  <2>4. QED
    BY <1>1, <2>1, <2>3
<1>8. ASSUME NEW j \in DOMAIN higher, ~higher[j].remove
      PROVE  \/ higher[j] \in ToSet(U)
             \/ \E i \in DOMAIN lower : merged[<<i, j>>] \in ToSet(U)
  <2>1. PICK p \in P : p[2] = j
    BY <1>2, <1>8
  <2>2. Item(p) \in ToSet(U) /\ j # 0
    BY <1>1
  <2>3. QED
    BY <1>5, <2>1, <2>2
<1>9. QED
  BY <1>6, <1>7, <1>8 DEF U

(* What one layer's list makes of the list below, entry by entry: those it does not
   name stay, and those it names stand as written, or under deep field by field
   over the one below.                                                        *)
Untouched(lower, higher, e) ==
  e \in ToSet(lower.entries) /\ \A h \in ToSet(higher.entries) : h.name # e.name
Overlay(lower, higher, e) ==
  \E x \in ToSet(lower.entries), h \in ToSet(higher.entries) :
    /\ ~h.remove /\ x.name = h.name /\ e.name = h.name /\ e.renames = Unset
    /\ e.fields = Overlaid(x.fields, h.fields)
Replaces(lower, higher, layering, e) ==
  /\ e \in ToSet(higher.entries) /\ ~e.remove
  /\ layering = "deep" => \A x \in ToSet(lower.entries) : x.name # e.name
ListTold(lower, higher, layering, list) ==
  /\ \A e \in ToSet(list.entries) :
       \/ layering # "replace" /\ Untouched(lower, higher, e)
       \/ layering = "deep" /\ Overlay(lower, higher, e)
       \/ Replaces(lower, higher, layering, e)
  /\ layering # "replace" => \A x \in ToSet(lower.entries) :
       Untouched(lower, higher, x) => x \in ToSet(list.entries)
  /\ \A h \in ToSet(higher.entries) : ~h.remove => \E e \in ToSet(list.entries) : e.name = h.name

PlainList(list) == \A e \in ToSet(list.entries) : e.name # Unset /\ e.renames = Unset

LEMMA PlainIs ==
  ASSUME NEW list, list.entries \in Seq(ToSet(list.entries)), PlainList(list)
  PROVE  Plain(list.entries)
<1> DEFINE es == list.entries
<1>1. es \in Seq(ToSet(es))
  OBVIOUS
<1>2. \A e \in ToSet(es) : e.name # Unset /\ e.renames = Unset
  BY DEF PlainList
<1> SUFFICES Plain(es)
  OBVIOUS
<1> HIDE DEF es
<1>3. \A i \in DOMAIN es : es[i] \in ToSet(es)
  BY <1>1, Listed
<1>4. QED
  BY <1>2, <1>3 DEF Plain

LEMMA ListMergedTold ==
  ASSUME NEW names, NEW lower, ListSound(names, lower), PlainList(lower),
         NEW higher, ListWritten(names, higher), PlainList(higher),
         NEW layering \in Layerings, Entries(higher.entries, layering)
  PROVE  ListTold(lower, higher, layering, MergeList(lower, higher, layering))
<1> DEFINE ls == lower.entries
           hs == higher.entries
           merged == IF layering = "deep" THEN InDepth(ls, hs) ELSE AsWritten(ls, hs)
           U == UnionKeyed(ls, hs, merged)
<1>1. PICK list : list = MergeList(lower, higher, layering)
  OBVIOUS
<1>2. list.entries = IF layering = "replace" THEN hs ELSE U
  <2>1. list = [policy |-> Over(lower.policy, higher.policy),
                entries |-> IF layering = "replace" THEN hs ELSE U]
    BY <1>1 DEF MergeList
  <2> HIDE DEF hs, U
  <2>2. QED
    BY <2>1
<1>3. /\ EntriesSound(names, ls) /\ EntriesWritten(names, ls) /\ EntriesWritten(names, hs)
      /\ \A e \in ToSet(ls) : EntrySound(names, e)
  BY DEF ListSound, ListWritten, EntriesSound
<1>4. KeyedOnce(hs) /\ \A j \in DOMAIN hs : EntryAdmitted(names, hs[j])
  BY ListAdmitted
<1>5. /\ ls \in Seq(ToSet(ls)) /\ Len(ls) \in Nat /\ DOMAIN ls = 1..Len(ls)
      /\ \A i \in DOMAIN ls : ls[i] \in ToSet(ls)
      /\ \A e \in ToSet(ls) : \E i \in DOMAIN ls : e = ls[i]
  BY <1>3, Listed DEF EntriesWritten
<1>6. /\ hs \in Seq(ToSet(hs)) /\ Len(hs) \in Nat /\ DOMAIN hs = 1..Len(hs)
      /\ \A i \in DOMAIN hs : hs[i] \in ToSet(hs)
      /\ \A e \in ToSet(hs) : \E i \in DOMAIN hs : e = hs[i]
  BY <1>3, Listed DEF EntriesWritten
<1>7. Plain(ls) /\ Plain(hs) /\ KeyedOnce(ls)
  BY <1>3, <1>5, <1>6, PlainIs DEF EntriesSound
<1>8. CASE layering = "replace"
  <2>1. \A e \in ToSet(hs) : ~e.remove
    <3>1. \A i \in DOMAIN hs : hs[i].remove => layering # "replace"
      BY DEF Entries
    <3>2. QED
      BY <3>1, <1>6, <1>8
  <2>2. list.entries = hs
    BY <1>2, <1>8
  <2>3. ListTold(lower, higher, layering, list)
    BY <2>1, <2>2, <1>8 DEF ListTold, Replaces
  <2>4. QED
    BY <1>1, <2>3
<1>9. CASE layering # "replace"
  <2>1. list.entries = U
    BY <1>2, <1>9
  <2> HIDE DEF ls, hs
  <2>2. \A i \in DOMAIN ls, j \in DOMAIN hs :
          merged[<<i, j>>] = IF layering = "deep" THEN MergeEntry(ls[i], hs[j]) ELSE hs[j]
    BY DEF InDepth, AsWritten, Couples
  <2> HIDE DEF merged
  <2>3. \A e \in ToSet(U) :
          \/ \E i \in DOMAIN ls :
               e = ls[i] /\ \A j \in DOMAIN hs : hs[j].name # ls[i].name
          \/ \E i \in DOMAIN ls, j \in DOMAIN hs :
               ~hs[j].remove /\ ls[i].name = hs[j].name /\ e = merged[<<i, j>>]
          \/ \E j \in DOMAIN hs :
               /\ ~hs[j].remove /\ e = hs[j]
               /\ \A i \in DOMAIN ls : ls[i].name # hs[j].name
    <3>1. \A e \in ToSet(U) : PlainPlaced(ls, hs, merged, e)
      BY <1>4, <1>5, <1>6, <1>7, PlainUnion
    <3>2. QED
      BY <3>1 DEF PlainPlaced
  <2>4. \A i \in DOMAIN ls : (\A j \in DOMAIN hs : hs[j].name # ls[i].name) => ls[i] \in ToSet(U)
    BY <1>4, <1>5, <1>6, <1>7, PlainUnion
  <2>5. \A j \in DOMAIN hs : ~hs[j].remove =>
          \/ hs[j] \in ToSet(U)
          \/ \E i \in DOMAIN ls : merged[<<i, j>>] \in ToSet(U)
    BY <1>4, <1>5, <1>6, <1>7, PlainUnion
  <2> HIDE DEF U
  <2>6. \A i \in DOMAIN ls, j \in DOMAIN hs :
          LET e == MergeEntry(ls[i], hs[j])
          IN  e.name = hs[j].name /\ e.renames = Unset /\ e.fields = Overlaid(ls[i].fields, hs[j].fields)
    <3> TAKE i \in DOMAIN ls, j \in DOMAIN hs
    <3> DEFINE e == MergeEntry(ls[i], hs[j])
    <3>1. EntrySound(names, ls[i]) /\ EntryAdmitted(names, hs[j])
      BY <1>3, <1>4, <1>5
    <3>2. /\ e.name = hs[j].name /\ e.renames = Over(ls[i].renames, hs[j].renames)
          /\ e.fields = Overlaid(ls[i].fields, hs[j].fields)
      BY <3>1, EntryMerged
    <3>3. ls[i].renames = Unset /\ hs[j].renames = Unset
      BY <1>7 DEF Plain
    <3> HIDE DEF e
    <3>4. QED
      BY <3>2, <3>3 DEF Over, e
  <2>7. ASSUME NEW e \in ToSet(U)
        PROVE  \/ Untouched(lower, higher, e)
               \/ layering = "deep" /\ Overlay(lower, higher, e)
               \/ Replaces(lower, higher, layering, e)
    <3>1. CASE \E i \in DOMAIN ls : e = ls[i] /\ \A j \in DOMAIN hs : hs[j].name # ls[i].name
      BY <3>1, <1>5, <1>6 DEF Untouched, ls, hs
    <3>2. CASE \E i \in DOMAIN ls, j \in DOMAIN hs :
                 ~hs[j].remove /\ ls[i].name = hs[j].name /\ e = merged[<<i, j>>]
      <4>1. PICK i \in DOMAIN ls, j \in DOMAIN hs :
              ~hs[j].remove /\ ls[i].name = hs[j].name /\ e = merged[<<i, j>>]
        BY <3>2
      <4>2. ls[i] \in ToSet(ls) /\ hs[j] \in ToSet(hs)
        BY <1>5, <1>6
      <4>3. CASE layering = "deep"
        <5>1. e = MergeEntry(ls[i], hs[j])
          BY <2>2, <4>1, <4>3
        <5>2. e.name = hs[j].name /\ e.renames = Unset /\ e.fields = Overlaid(ls[i].fields, hs[j].fields)
          BY <2>6, <5>1
        <5>3. QED
          BY <4>1, <4>2, <4>3, <5>2 DEF Overlay, ls, hs
      <4>4. CASE layering # "deep"
        <5>1. e = hs[j]
          BY <2>2, <4>1, <4>4
        <5>2. QED
          BY <4>1, <4>2, <4>4, <5>1 DEF Replaces, hs
      <4>5. QED
        BY <4>3, <4>4
    <3>3. CASE \E j \in DOMAIN hs : /\ ~hs[j].remove /\ e = hs[j]
                                    /\ \A i \in DOMAIN ls : ls[i].name # hs[j].name
      BY <3>3, <1>5, <1>6 DEF Replaces, ls, hs
    <3>4. QED
      BY <2>3, <3>1, <3>2, <3>3
  <2>8. \A x \in ToSet(ls) : Untouched(lower, higher, x) => x \in ToSet(U)
    <3> TAKE x \in ToSet(ls)
    <3> HAVE Untouched(lower, higher, x)
    <3>1. PICK i \in DOMAIN ls : x = ls[i]
      BY <1>5
    <3>2. \A j \in DOMAIN hs : hs[j].name # ls[i].name
      BY <3>1, <1>6 DEF Untouched, hs
    <3>3. QED
      BY <3>1, <3>2, <2>4
  <2>9. \A h \in ToSet(hs) : ~h.remove => \E e \in ToSet(U) : e.name = h.name
    <3> TAKE h \in ToSet(hs)
    <3> HAVE ~h.remove
    <3>1. PICK j \in DOMAIN hs : h = hs[j]
      BY <1>6
    <3>2. \A i \in DOMAIN ls : merged[<<i, j>>].name = h.name
      BY <2>2, <2>6, <3>1
    <3>3. QED
      BY <2>5, <3>1, <3>2
  <2>10. ListTold(lower, higher, layering, list)
    BY <2>1, <2>7, <2>8, <2>9, <1>9 DEF ListTold, ls, hs
  <2>11. QED
    BY <1>1, <2>10
<1>10. QED
  BY <1>8, <1>9

-----------------------------------------------------------------------------
(* What the layers read so far say of a name, and of an entry's field. *)

Declares(i, s, name) == \E e \in EntriesAt(i, s, name) : ~e.remove
DeclaredBy(n, s, name) ==
  {i \in 1..n : Declares(i, s, name) /\ \A j \in i + 1..n : ~StartsOver(j, s, name)}
FieldsAt(s, name, f) == [i \in DOMAIN case.layers |-> FieldAt(i, s, name, f)]

(* A list holds what the first n layers declare of it, as the highest of them say. *)
FieldsWin(s, n, e) ==
  \A f \in Fields : HighestIn(DeclaredBy(n, s, e.name), FieldsAt(s, e.name, f), e.fields[f])
ListWins(s, n, entries) ==
  /\ \A e \in ToSet(entries) :
       e.renames = Unset /\ DeclaredBy(n, s, e.name) # {} /\ FieldsWin(s, n, e)
  /\ \A name \in case.names :
       DeclaredBy(n, s, name) # {} => \E e \in ToSet(entries) : e.name = name

LEMMA DeclaredNext ==
  ASSUME NEW k \in Nat \ {0}, NEW s, NEW name
  PROVE  /\ DeclaredBy(k - 1, s, name) \in SUBSET (1..k - 1)
         /\ DeclaredBy(k, s, name) =
              (IF StartsOver(k, s, name) THEN {} ELSE DeclaredBy(k - 1, s, name))
                \cup (IF Declares(k, s, name) THEN {k} ELSE {})
<1>1. DeclaredBy(k - 1, s, name) \in SUBSET (1..k - 1)
  BY DEF DeclaredBy
<1>2. \A i \in 1..k - 1 :
        i \in DeclaredBy(k, s, name) <=> i \in DeclaredBy(k - 1, s, name) /\ ~StartsOver(k, s, name)
  <2> TAKE i \in 1..k - 1
  <2>1. i \in 1..k /\ \A j : j \in i + 1..k <=> j \in i + 1..k - 1 \/ j = k
    OBVIOUS
  <2>2. QED
    BY <2>1 DEF DeclaredBy
<1>3. k \in DeclaredBy(k, s, name) <=> Declares(k, s, name)
  <2>1. k \in 1..k /\ k + 1..k = {}
    OBVIOUS
  <2>2. QED
    BY <2>1 DEF DeclaredBy
<1>4. DeclaredBy(k, s, name) \subseteq 1..k /\ \A i \in 1..k : i \in 1..k - 1 \/ i = k
  BY DEF DeclaredBy
<1>5. k \notin 1..k - 1
  OBVIOUS
<1> HIDE DEF DeclaredBy
<1>6. QED
  BY <1>1, <1>2, <1>3, <1>4, <1>5

(* A layer that does not carry the list says nothing of it. *)
LEMMA SaysNothing ==
  ASSUME NEW k \in Nat \ {0}, NEW s, NEW name, EntriesAt(k, s, name) = {},
         s \in DOMAIN case.layers[k].lists => LayeringAt(k, s) # "replace"
  PROVE  DeclaredBy(k, s, name) = DeclaredBy(k - 1, s, name)
<1>1. ~Declares(k, s, name)
  BY DEF Declares
<1>2. ~StartsOver(k, s, name)
  <2>1. ~ \E e \in EntriesAt(k, s, name) : e.remove \/ LayeringAt(k, s) = "shallow"
    OBVIOUS
  <2>2. QED
    BY <2>1, Zenon DEF StartsOver
<1>3. DeclaredBy(k, s, name) =
        (IF StartsOver(k, s, name) THEN {} ELSE DeclaredBy(k - 1, s, name))
          \cup (IF Declares(k, s, name) THEN {k} ELSE {})
  BY DeclaredNext
<1>4. DeclaredBy(k, s, name) = DeclaredBy(k - 1, s, name) \cup {}
  BY <1>1, <1>2, <1>3
<1>5. QED
  BY <1>4

LEMMA ListRests ==
  ASSUME NEW k \in Nat \ {0}, NEW s, s \notin DOMAIN case.layers[k].lists,
         NEW entries, ListWins(s, k - 1, entries)
  PROVE  ListWins(s, k, entries)
<1>1. \A name : EntriesAt(k, s, name) = {}
  BY DEF EntriesAt
<1>2. \A name : DeclaredBy(k, s, name) = DeclaredBy(k - 1, s, name)
  BY <1>1, SaysNothing
<1>3. QED
  BY <1>2 DEF ListWins, FieldsWin

LEMMA NothingDeclared ==
  ASSUME NEW n \in Nat, NEW s, \A i \in 1..n : s \notin DOMAIN case.layers[i].lists
  PROVE  ListWins(s, n, <<>>)
<1>1. \A i \in 1..n : \A name : ~Declares(i, s, name)
  BY DEF Declares, EntriesAt
<1>2. \A name : DeclaredBy(n, s, name) = {}
  BY <1>1 DEF DeclaredBy
<1>3. ToSet(<<>>) = {}
  BY DEF ToSet
<1>4. QED
  BY <1>2, <1>3 DEF ListWins

(* Folding in a layer that carries the list. *)
LEMMA ListWinsOn ==
  ASSUME NEW k \in Nat \ {0}, k \in DOMAIN case.layers, Unset \notin case.names,
         NEW s, s \in DOMAIN case.layers[k].lists,
         LayeringAt(k, s) \in Layerings, ListWritten(case.names, case.layers[k].lists[s]),
         Entries(case.layers[k].lists[s].entries, LayeringAt(k, s)),
         \A e \in ToSet(case.layers[k].lists[s].entries) : e.renames = Unset,
         NEW lower, ListSound(case.names, lower), ListWins(s, k - 1, lower.entries),
         NEW list, list = MergeList(lower, case.layers[k].lists[s], LayeringAt(k, s))
  PROVE  ListWins(s, k, list.entries)
<1> DEFINE higher == case.layers[k].lists[s]
           layering == LayeringAt(k, s)
           hs == higher.entries
<1>1. /\ EntriesWritten(case.names, hs) /\ KeyedOnce(hs) /\ hs \in Seq(ToSet(hs))
      /\ \A h \in ToSet(hs) : EntryWritten(case.names, h)
  BY ListAdmitted DEF ListWritten, EntriesWritten
<1>2. \A h \in ToSet(hs) : h.name \in case.names /\ h.name # Unset /\ DOMAIN h.fields = Fields
  BY <1>1 DEF EntryWritten
<1>3. PlainList(higher)
  BY <1>2 DEF PlainList
<1>4. PlainList(lower)
  <2>1. \A x \in ToSet(lower.entries) : EntryWritten(case.names, x) /\ x.renames = Unset
    BY DEF ListSound, EntrySound, ListWins
  <2>2. QED
    BY <2>1 DEF PlainList, EntryWritten
<1>5. ListTold(lower, higher, layering, list)
  BY <1>3, <1>4, ListMergedTold
<1>6. \A h, g \in ToSet(hs) : h.name = g.name => h = g
  <2>1. \A h \in ToSet(hs) : \E i \in DOMAIN hs : h = hs[i]
    BY <1>1, Listed
  <2>2. Plain(hs)
    BY <1>1, <1>3, PlainIs
  <2>3. \A i, j \in DOMAIN hs : hs[i].name = hs[j].name => i = j
    BY <1>1, <2>2, PlainMeet DEF Plain, KeyedOnce
  <2> SUFFICES ASSUME NEW h \in ToSet(hs), NEW g \in ToSet(hs), h.name = g.name
               PROVE  h = g
    OBVIOUS
  <2>4. PICK i \in DOMAIN hs : h = hs[i]
    BY ONLY <2>1, h \in ToSet(hs)
  <2>5. PICK j \in DOMAIN hs : g = hs[j]
    BY ONLY <2>1, g \in ToSet(hs)
  <2>6. hs[i].name = hs[j].name
    BY ONLY <2>4, <2>5, h.name = g.name
  <2>7. i = j
    BY ONLY <2>3, <2>6, i \in DOMAIN hs, j \in DOMAIN hs
  <2>8. QED
    BY ONLY <2>4, <2>5, <2>7
<1>7. /\ \A name : EntriesAt(k, s, name) = {h \in ToSet(hs) : h.name = name}
      /\ \A h \in ToSet(hs) : EntriesAt(k, s, h.name) = {h}
  BY <1>6 DEF EntriesAt
<1>8. \A h \in ToSet(hs), f \in Fields : FieldsAt(s, h.name, f)[k] = h.fields[f]
  <2> TAKE h \in ToSet(hs), f \in Fields
  <2>1. FieldsAt(s, h.name, f)[k] = FieldAt(k, s, h.name, f)
    BY DEF FieldsAt
  <2>2. EntriesAt(k, s, h.name) = {h}
    BY <1>7
  <2>3. QED
    BY <2>1, <2>2 DEF FieldAt
<1>9. layering \in {"replace", "shallow", "deep"}
  BY DEF Layerings
<1>10. \A name : StartsOver(k, s, name) <=>
         layering = "replace" \/ \E e \in EntriesAt(k, s, name) : e.remove \/ layering = "shallow"
  BY DEF StartsOver
<1>11. /\ \A x \in ToSet(lower.entries) :
            x.name \in case.names /\ DeclaredBy(k - 1, s, x.name) # {} /\ FieldsWin(s, k - 1, x)
            /\ x.renames = Unset
       /\ \A name \in case.names :
            DeclaredBy(k - 1, s, name) # {} => \E x \in ToSet(lower.entries) : x.name = name
  BY DEF ListWins, ListSound, EntrySound, EntryWritten
<1> HIDE DEF higher, layering, hs
<1>12. ASSUME NEW e \in ToSet(list.entries)
       PROVE  e.renames = Unset /\ DeclaredBy(k, s, e.name) # {} /\ FieldsWin(s, k, e)
  <2>1. CASE layering # "replace" /\ Untouched(lower, higher, e)
    <3>1. e \in ToSet(lower.entries) /\ EntriesAt(k, s, e.name) = {}
      BY <2>1, <1>7 DEF Untouched, hs
    <3>2. DeclaredBy(k, s, e.name) = DeclaredBy(k - 1, s, e.name)
      BY <2>1, <3>1, SaysNothing DEF layering
    <3>3. QED
      BY <3>1, <3>2, <1>11 DEF FieldsWin
  <2>2. CASE layering = "deep" /\ Overlay(lower, higher, e)
    <3>1. PICK x \in ToSet(lower.entries), h \in ToSet(hs) :
            /\ ~h.remove /\ x.name = h.name /\ e.name = h.name /\ e.renames = Unset
            /\ e.fields = Overlaid(x.fields, h.fields)
      BY <2>2 DEF Overlay, hs
    <3>2. EntriesAt(k, s, e.name) = {h}
      BY <1>7, <3>1
    <3>3. ~StartsOver(k, s, e.name) /\ Declares(k, s, e.name)
      BY <1>10, <2>2, <3>1, <3>2 DEF Declares
    <3>4. DeclaredBy(k, s, e.name) = DeclaredBy(k - 1, s, e.name) \cup {k}
      BY <3>3, DeclaredNext
    <3>5. ASSUME NEW f \in Fields
          PROVE  HighestIn(DeclaredBy(k, s, e.name), FieldsAt(s, e.name, f), e.fields[f])
      <4>1. HighestIn(DeclaredBy(k - 1, s, e.name), FieldsAt(s, e.name, f), x.fields[f])
        BY <1>11, <3>1 DEF FieldsWin
      <4>2. FieldsAt(s, e.name, f)[k] = h.fields[f]
        BY <1>8, <3>1
      <4>3. e.fields[f] = Over(x.fields[f], h.fields[f])
        BY <1>2, <3>1 DEF Overlaid
      <4>4. DeclaredBy(k - 1, s, e.name) \in SUBSET (1..k - 1)
        BY DeclaredNext
      <4>5. HighestIn(DeclaredBy(k - 1, s, e.name) \cup {k}, FieldsAt(s, e.name, f),
                      Over(x.fields[f], FieldsAt(s, e.name, f)[k]))
        BY <4>1, <4>4, HighestAdded
      <4>6. QED
        BY <3>4, <4>2, <4>3, <4>5
    <3>6. QED
      BY <3>1, <3>4, <3>5 DEF FieldsWin
  <2>3. CASE Replaces(lower, higher, layering, e)
    <3>1. e \in ToSet(hs) /\ ~e.remove /\ EntriesAt(k, s, e.name) = {e}
      BY <2>3, <1>7 DEF Replaces, hs
    <3>2. Declares(k, s, e.name) /\ e.name \in case.names /\ e.renames = Unset
      BY <3>1, <1>2 DEF Declares, hs, higher
    <3>3. StartsOver(k, s, e.name) \/ DeclaredBy(k - 1, s, e.name) = {}
      <4>1. CASE layering = "deep"
        BY <4>1, <2>3, <3>2, <1>11 DEF Replaces
      <4>2. CASE layering # "deep"
        BY <4>2, <3>1, <1>9, <1>10
      <4>3. QED
        BY <4>1, <4>2
    <3>4. DeclaredBy(k, s, e.name) = {k}
      BY <3>2, <3>3, DeclaredNext
    <3>5. \A f \in Fields : HighestIn({k}, FieldsAt(s, e.name, f), e.fields[f])
      <4> TAKE f \in Fields
      <4>1. FieldsAt(s, e.name, f)[k] = e.fields[f]
        BY <1>8, <3>1
      <4>2. HighestIn({k}, FieldsAt(s, e.name, f), FieldsAt(s, e.name, f)[k])
        BY HighestAlone
      <4>3. QED
        BY <4>1, <4>2
    <3>6. QED
      BY <3>2, <3>4, <3>5 DEF FieldsWin
  <2>4. QED
    BY <1>5, <2>1, <2>2, <2>3 DEF ListTold
<1>13. ASSUME NEW name \in case.names, DeclaredBy(k, s, name) # {}
       PROVE  \E e \in ToSet(list.entries) : e.name = name
  <2>1. CASE Declares(k, s, name)
    <3>1. PICK h \in ToSet(hs) : h.name = name /\ ~h.remove
      BY <2>1, <1>7 DEF Declares
    <3>2. QED
      BY <3>1, <1>5 DEF ListTold, hs
  <2>2. CASE ~Declares(k, s, name)
    <3>1. ~StartsOver(k, s, name) /\ DeclaredBy(k - 1, s, name) # {}
      BY <2>2, <1>13, DeclaredNext
    <3>2. EntriesAt(k, s, name) = {} /\ layering # "replace"
      BY <2>2, <3>1, <1>10 DEF Declares
    <3>3. PICK x \in ToSet(lower.entries) : x.name = name
      BY <3>1, <1>11
    <3>4. Untouched(lower, higher, x)
      BY <3>2, <3>3, <1>7 DEF Untouched, hs
    <3>5. x \in ToSet(list.entries)
      BY <3>2, <3>4, <1>5 DEF ListTold
    <3>6. QED
      BY <3>3, <3>5
  <2>3. QED
    BY <2>1, <2>2
<1>14. QED
  BY <1>12, <1>13 DEF ListWins

(* The same for the section that is a mapping, key by key. *)
MappedBy(n) ==
  {i \in 1..n : /\ case.layers[i].mapping \notin {Unset, Null}
                /\ \A j \in i + 1..n : case.layers[j].mapping # Null}
ValuesAt(k) == [i \in DOMAIN case.layers |-> case.layers[i].mapping[k]]
MappingWins(n, mapping) ==
  /\ mapping \in Mappings \cup {Unset, Null}
  /\ mapping \in {Unset, Null} => MappedBy(n) = {}
  /\ mapping \in Mappings => \A k \in DOMAIN mapping : HighestIn(MappedBy(n), ValuesAt(k), mapping[k])

LEMMA MappedNext ==
  ASSUME NEW n \in Nat \ {0}
  PROVE  /\ MappedBy(n - 1) \in SUBSET (1..n - 1)
         /\ MappedBy(n) = (IF case.layers[n].mapping = Null THEN {} ELSE MappedBy(n - 1))
                            \cup (IF case.layers[n].mapping \in {Unset, Null} THEN {} ELSE {n})
<1>1. MappedBy(n - 1) \in SUBSET (1..n - 1)
  BY DEF MappedBy
<1>2. \A i \in 1..n - 1 :
        i \in MappedBy(n) <=> i \in MappedBy(n - 1) /\ case.layers[n].mapping # Null
  <2> TAKE i \in 1..n - 1
  <2>1. i \in 1..n /\ \A j : j \in i + 1..n <=> j \in i + 1..n - 1 \/ j = n
    OBVIOUS
  <2>2. QED
    BY <2>1 DEF MappedBy
<1>3. n \in MappedBy(n) <=> case.layers[n].mapping \notin {Unset, Null}
  <2>1. n \in 1..n /\ n + 1..n = {}
    OBVIOUS
  <2>2. QED
    BY <2>1 DEF MappedBy
<1>4. MappedBy(n) \subseteq 1..n /\ (\A i \in 1..n : i \in 1..n - 1 \/ i = n) /\ n \notin 1..n - 1
  BY DEF MappedBy
<1> HIDE DEF MappedBy
<1>5. QED
  BY <1>1, <1>2, <1>3, <1>4

LEMMA MappingWinsOn ==
  ASSUME NEW n \in Nat \ {0}, n \in DOMAIN case.layers,
         case.layers[n].mapping \in Mappings \cup {Unset, Null},
         NEW lower, MappingWins(n - 1, lower)
  PROVE  MappingWins(n, MergeMapping(lower, case.layers[n].mapping))
<1> DEFINE higher == case.layers[n].mapping
           mapping == MergeMapping(lower, higher)
<1>0. /\ Unset \notin Mappings /\ Null \notin Mappings /\ Null # Unset
      /\ \A below, above \in Mappings :
           DOMAIN below = DOMAIN above /\ Overlaid(below, above) \in Mappings
  BY LayersAssumption
<1>1. /\ MappedBy(n - 1) \in SUBSET (1..n - 1)
      /\ MappedBy(n) = (IF higher = Null THEN {} ELSE MappedBy(n - 1))
                         \cup (IF higher \in {Unset, Null} THEN {} ELSE {n})
  BY MappedNext
<1>2. /\ lower \in Mappings \cup {Unset, Null}
      /\ lower \in {Unset, Null} => MappedBy(n - 1) = {}
      /\ lower \in Mappings =>
           \A k \in DOMAIN lower : HighestIn(MappedBy(n - 1), ValuesAt(k), lower[k])
  BY DEF MappingWins
<1>3. \A k : ValuesAt(k)[n] = higher[k]
  BY DEF ValuesAt
<1> HIDE DEF higher
<1>4. CASE higher = Unset
  <2>1. mapping = lower /\ MappedBy(n) = MappedBy(n - 1)
    BY <1>0, <1>1, <1>4 DEF MergeMapping
  <2>2. QED
    BY <2>1, <1>2 DEF MappingWins, higher
<1>5. CASE higher = Null
  <2>1. mapping = Null /\ MappedBy(n) = {}
    BY <1>0, <1>1, <1>5 DEF MergeMapping
  <2>2. MappingWins(n, mapping)
    BY <2>1, <1>0 DEF MappingWins
  <2>3. QED
    BY <2>2 DEF higher
<1>6. CASE higher \in Mappings /\ lower \in {Unset, Null}
  <2>1. mapping = higher
    BY <1>0, <1>6 DEF MergeMapping
  <2>2. MappedBy(n) = {n}
    BY <1>0, <1>1, <1>2, <1>6
  <2>3. \A k \in DOMAIN mapping : HighestIn({n}, ValuesAt(k), mapping[k])
    <3> TAKE k \in DOMAIN mapping
    <3>1. HighestIn({n}, ValuesAt(k), ValuesAt(k)[n])
      BY HighestAlone
    <3>2. QED
      BY <3>1, <2>1, <1>3
  <2> HIDE DEF mapping
  <2>4. MappingWins(n, mapping)
    BY <2>1, <2>2, <2>3, <1>0, <1>6 DEF MappingWins
  <2>5. QED
    BY <2>4 DEF higher, mapping
<1>7. CASE higher \in Mappings /\ lower \in Mappings
  <2>1. mapping = Overlaid(lower, higher) /\ mapping \in Mappings
    BY <1>0, <1>7 DEF MergeMapping
  <2>2. MappedBy(n) = MappedBy(n - 1) \cup {n}
    BY <1>0, <1>1, <1>7
  <2>3. ASSUME NEW k \in DOMAIN mapping
        PROVE  HighestIn(MappedBy(n), ValuesAt(k), mapping[k])
    <3>1. k \in DOMAIN lower /\ k \in DOMAIN higher
      BY <2>1, <1>0, <1>7
    <3>2. mapping[k] = Over(lower[k], higher[k])
      BY <2>1, <3>1 DEF Overlaid
    <3>3. HighestIn(MappedBy(n - 1), ValuesAt(k), lower[k])
      BY <3>1, <1>2, <1>7
    <3>4. HighestIn(MappedBy(n - 1) \cup {n}, ValuesAt(k), Over(lower[k], ValuesAt(k)[n]))
      BY <3>3, <1>1, HighestAdded
    <3>5. QED
      BY <2>2, <3>2, <3>4, <1>3
  <2> HIDE DEF mapping
  <2>4. MappingWins(n, mapping)
    BY <2>1, <2>3, <1>0 DEF MappingWins
  <2>5. QED
    BY <2>4 DEF higher, mapping
<1>8. QED
  BY <1>2, <1>4, <1>5, <1>6, <1>7 DEF higher

(* What resolving the policies and ordering the lists leave as it was. *)
ListSaid(names, was, now) ==
  /\ \A e \in ToSet(now) :
       EntryWritten(names, e) /\ \E x \in ToSet(was) : e.name = x.name /\ e.fields = x.fields
  /\ \A x \in ToSet(was) : \E e \in ToSet(now) : e.name = x.name
SaidAsFolded(names, document, written) ==
  /\ written.mapping = document.mapping /\ DOMAIN written.lists = DOMAIN document.lists
  /\ \A s \in DOMAIN document.lists :
       ListSaid(names, document.lists[s].entries, written.lists[s].entries)

LEMMA JudgedAsFolded ==
  ASSUME NEW names \in SUBSET Nat, NEW document,
         document \in [lists : {document.lists}, mapping : {document.mapping}],
         ListsSound(names, document.lists), NEW fallback,
         NEW written, written = CanonicalDocument(ResolvePolicies(document, fallback))
  PROVE  SaidAsFolded(names, document, written)
<1>1. PICK resolved : resolved = ResolvePolicies(document, fallback)
  OBVIOUS
<1>2. /\ resolved \in [lists : {resolved.lists}, mapping : {resolved.mapping}]
      /\ resolved.mapping = document.mapping /\ DOMAIN resolved.lists = DOMAIN document.lists
  <2> DEFINE lists == [s \in DOMAIN document.lists |->
                 LET list == document.lists[s]
                     now == [list EXCEPT !.entries = [i \in DOMAIN @ |-> ResolveNested(@[i], fallback)]]
                 IN  IF s \in Knobbed THEN ResolvedWrapper(now, fallback, DefaultPolicy[s]) ELSE now]
  <2>1. resolved = [document EXCEPT !.lists = lists]
    BY <1>1 DEF ResolvePolicies
  <2>2. DOMAIN lists = DOMAIN document.lists
    OBVIOUS
  <2> HIDE DEF lists
  <2>3. QED
    BY <2>1, <2>2
<1>3. written.mapping = resolved.mapping /\ DOMAIN written.lists = DOMAIN resolved.lists
  <2> DEFINE lists == [s \in DOMAIN resolved.lists |->
                 [resolved.lists[s] EXCEPT !.entries =
                    SortEntries(s, [i \in DOMAIN @ |-> CanonicalEntry(@[i])])]]
  <2>1. written = [resolved EXCEPT !.lists = lists]
    BY <1>1 DEF CanonicalDocument
  <2>2. DOMAIN lists = DOMAIN resolved.lists
    OBVIOUS
  <2> HIDE DEF lists
  <2>3. QED
    BY <1>2, <2>1, <2>2
<1>4. ASSUME NEW s \in DOMAIN document.lists
      PROVE  ListSaid(names, document.lists[s].entries, written.lists[s].entries)
  <2> DEFINE es == document.lists[s].entries
             rs == resolved.lists[s].entries
             ws == written.lists[s].entries
  <2>1. ListSound(names, document.lists[s])
    BY DEF ListsSound
  <2>2. /\ ListSound(names, resolved.lists[s]) /\ \A e \in ToSet(rs) : Decided(e)
        /\ DOMAIN rs = DOMAIN es
        /\ \A i \in DOMAIN es : rs[i].name = es[i].name /\ rs[i].fields = es[i].fields
    BY <2>1, <1>1, ListResolved
  <2>3. s \in DOMAIN resolved.lists /\ written = CanonicalDocument(resolved)
    BY <1>1, <1>2
  <2>4. /\ ListSound(names, written.lists[s])
        /\ \A e \in ToSet(ws) : \E i \in DOMAIN rs : e.name = rs[i].name /\ e.fields = rs[i].fields
        /\ \A i \in DOMAIN rs : \E e \in ToSet(ws) : e.name = rs[i].name
    <3>1. ListSound(names, resolved.lists[s]) /\ \A e \in ToSet(rs) : Decided(e)
      BY <2>2
    <3>2. resolved \in [lists : {resolved.lists}, mapping : {resolved.mapping}]
      BY <1>2
    <3>3. ListSound(names, written.lists[s])
      BY <2>3, <3>1, <3>2, ListOrdered
    <3>4. SameSaid(rs, ws)
      BY <2>3, <3>1, <3>2, ListOrdered
    <3>5. QED
      BY <3>3, <3>4 DEF SameSaid
  <2>5. /\ \A i \in DOMAIN es : es[i] \in ToSet(es)
        /\ \A x \in ToSet(es) : \E i \in DOMAIN es : x = es[i]
    <3>1. es \in Seq(ToSet(es))
      BY <2>1 DEF ListSound, EntriesSound, EntriesWritten
    <3>2. QED
      BY <3>1, Listed
  <2>6. \A e \in ToSet(ws) : EntryWritten(names, e)
    BY <2>4 DEF ListSound, EntrySound
  <2> SUFFICES ListSaid(names, es, ws)
    OBVIOUS
  <2> HIDE DEF es, rs, ws
  <2>7. QED
    BY <2>2, <2>4, <2>5, <2>6 DEF ListSaid
<1>5. QED
  BY <1>2, <1>3, <1>4 DEF SaidAsFolded

-----------------------------------------------------------------------------
(* The highest declaration wins. *)

SettledSoFar ==
  phase = "merging" =>
    /\ MappingWins(at - 1, doc.mapping)
    /\ \A s \in DOMAIN doc.lists : Unrenamed(s) => ListWins(s, at - 1, doc.lists[s].entries)
WinInv == SettledSoFar /\ HighestDeclarationWins

(* What more is known of the layers of a run. *)
LEMMA LayeringsKnown ==
  ASSUME case \in Cases
  PROVE  /\ Unset \notin case.names
         /\ \A i \in DOMAIN case.layers :
              \A s \in DOMAIN case.layers[i].lists : LayeringAt(i, s) \in Layerings
<1>1. LayersWritten(case)
  BY CasesAssumption
<1>2. case.layers \in Seq(ToSet(case.layers)) /\ case.layering \in Layerings /\ Unset \notin case.names
  BY <1>1 DEF LayersWritten
<1>3. \A i \in DOMAIN case.layers : case.layers[i] \in ToSet(case.layers)
  BY <1>2, Listed
<1>4. \A layer \in ToSet(case.layers) :
        /\ layer.layering \in Layerings \cup {Unset}
        /\ \A s \in DOMAIN layer.lists : layer.lists[s].layering \in Layerings \cup {Unset}
  BY <1>1 DEF LayersWritten
<1> HIDE DEF Layerings
<1>5. ASSUME NEW i \in DOMAIN case.layers, NEW s \in DOMAIN case.layers[i].lists
      PROVE  LayeringAt(i, s) \in Layerings
  BY <1>2, <1>3, <1>4 DEF LayeringAt, Layering, Over
<1>6. QED
  BY <1>2, <1>5

(* What the layers say is told by the inputs alone, which never change. *)
LEMMA DeclarationsRest ==
  ASSUME case' = case
  PROVE  /\ \A s : Unrenamed(s)' <=> Unrenamed(s)
         /\ \A s, name : Declaring(s, name)' = Declaring(s, name)
         /\ \A s, name, f : HighestField(s, name, f)' = HighestField(s, name, f)
         /\ \A k : MappingDue(k)' = MappingDue(k)
<1>1. \A s : Unrenamed(s)' <=> Unrenamed(s)
  BY DEF Unrenamed
<1>2. \A i, s, name : EntriesAt(i, s, name)' = EntriesAt(i, s, name)
  BY DEF EntriesAt
<1>3. \A i, s : LayeringAt(i, s)' = LayeringAt(i, s)
  BY DEF LayeringAt
<1>4. \A i, s, name : StartsOver(i, s, name)' <=> StartsOver(i, s, name)
  BY <1>2, <1>3 DEF StartsOver
<1>5. \A s, name : Declaring(s, name)' = Declaring(s, name)
  BY <1>2, <1>4 DEF Declaring
<1>6. \A i, s, name, f : FieldAt(i, s, name, f)' = FieldAt(i, s, name, f)
  BY <1>2 DEF FieldAt
<1>7. \A s, name, f : HighestField(s, name, f)' = HighestField(s, name, f)
  BY <1>5, <1>6 DEF HighestField
<1>8. \A k : MappingDue(k)' = MappingDue(k)
  BY DEF MappingDue
<1>9. QED
  BY <1>1, <1>5, <1>7, <1>8

LEMMA SettledRests ==
  ASSUME case' = case
  PROVE  /\ \A n, mapping : MappingWins(n, mapping)' <=> MappingWins(n, mapping)
         /\ \A s, n, entries : ListWins(s, n, entries)' <=> ListWins(s, n, entries)
<1>1. \A n : MappedBy(n)' = MappedBy(n)
  BY DEF MappedBy
<1>2. \A k : ValuesAt(k)' = ValuesAt(k)
  BY DEF ValuesAt
<1>3. \A n, mapping : MappingWins(n, mapping)' <=> MappingWins(n, mapping)
  BY <1>1, <1>2 DEF MappingWins
<1>4. \A i, s, name : EntriesAt(i, s, name)' = EntriesAt(i, s, name)
  BY DEF EntriesAt
<1>5. \A i, s : LayeringAt(i, s)' = LayeringAt(i, s)
  BY DEF LayeringAt
<1>6. \A i, s, name : StartsOver(i, s, name)' <=> StartsOver(i, s, name)
  BY <1>4, <1>5 DEF StartsOver
<1>7. \A i, s, name : Declares(i, s, name)' <=> Declares(i, s, name)
  BY <1>4 DEF Declares
<1>8. \A n, s, name : DeclaredBy(n, s, name)' = DeclaredBy(n, s, name)
  BY <1>6, <1>7 DEF DeclaredBy
<1>9. \A i, s, name, f : FieldAt(i, s, name, f)' = FieldAt(i, s, name, f)
  BY <1>4 DEF FieldAt
<1>10. \A s, name, f : FieldsAt(s, name, f)' = FieldsAt(s, name, f)
  BY <1>9 DEF FieldsAt
<1>11. \A s, n, e : FieldsWin(s, n, e)' <=> FieldsWin(s, n, e)
  BY <1>8, <1>10 DEF FieldsWin
<1>12. \A s, n, entries : ListWins(s, n, entries)' <=> ListWins(s, n, entries)
  BY <1>8, <1>11 DEF ListWins
<1>13. QED
  BY <1>3, <1>12

LEMMA WinRests ==
  ASSUME WinInv, UNCHANGED <<case, phase, at, doc>>
  PROVE  WinInv'
<1>1. SettledSoFar'
  BY DeclarationsRest, SettledRests DEF WinInv, SettledSoFar
<1>2. HighestDeclarationWins'
  BY DeclarationsRest DEF WinInv, HighestDeclarationWins, Rendering
<1>3. QED
  BY <1>1, <1>2 DEF WinInv

LEMMA WinElsewhere ==
  ASSUME phase' # "merging", ~(phase' = "open" /\ Rendering')
  PROVE  WinInv'
BY DEF WinInv, SettledSoFar, HighestDeclarationWins

LEMMA WinStarts ==
  ASSUME StateOK, RenderInv, Start
  PROVE  WinInv'
<1>1. /\ phase = "start" /\ at = 1 /\ doc = EmptyFold
      /\ case' = case /\ at' = 1 /\ doc' = EmptyFold
  BY DEF RenderInv, FoldBegins, Start, fold
<1>2. phase' \in {"over", "merging", "locating"}
  BY <1>1 DEF Start
<1>3. doc'.lists = <<>> /\ doc'.mapping = Unset
  BY <1>1 DEF EmptyFold
<1>4. DOMAIN doc'.lists = {}
  BY <1>3
<1>5. MappingWins(0, Unset)
  <2>1. MappedBy(0) = {}
    BY DEF MappedBy
  <2>2. Unset \notin Mappings
    BY LayersAssumption
  <2>3. QED
    BY <2>1, <2>2 DEF MappingWins
<1>6. at' - 1 = 0
  BY <1>1
<1>7. SettledSoFar'
  BY <1>1, <1>3, <1>4, <1>5, <1>6, SettledRests DEF SettledSoFar
<1>8. QED
  BY <1>2, <1>7 DEF WinInv, HighestDeclarationWins

(* Where a layer was folded in, everything the fold promises holds of it. *)
LEMMA LayerFolds ==
  ASSUME StateOK, RenderInv, phase = "merging", at \in DOMAIN case.layers,
         Admitted(case.layers[at], case.layering), ~StepRefused(doc, case.layers[at], case.layering)
  PROVE  /\ ListsSound(case.names, doc.lists) /\ ListsWritten(case.names, case.layers[at].lists)
         /\ FoldsOn(case.names, doc, case.layers[at], case.layering,
                    MergeStep(doc, case.layers[at], case.layering))
<1>1. ListsWritten(case.names, case.layers[at].lists)
  BY LayersKnown DEF StateOK, ListsWritten
<1>2. ListsSound(case.names, doc.lists)
  BY DEF RenderInv, FoldedSoFar, ListsSound
<1>3. QED
  BY <1>1, <1>2, LayerMerged

LEMMA WinFolded ==
  ASSUME StateOK, RenderInv, WinInv, MergeLayer
  PROVE  WinInv'
<1>1. phase = "merging" /\ case' = case /\ at <= Len(case.layers) /\ FoldedSoFar /\ SettledSoFar
  BY DEF MergeLayer, RenderInv, WinInv
<1>2. /\ Len(case.layers) \in Nat /\ DOMAIN case.layers = 1..Len(case.layers)
      /\ at \in 1..Len(case.layers) + 1
  BY <1>1, LayersKnown DEF StateOK, FoldedSoFar
<1>3. at \in DOMAIN case.layers /\ at \in Nat \ {0} /\ at - 1 \in Nat
  BY <1>1, <1>2
<1>4. CASE phase' = "over"
  BY <1>4, WinElsewhere
<1>5. CASE /\ Admitted(case.layers[at], case.layering) /\ ~StepRefused(doc, case.layers[at], case.layering)
           /\ doc' = MergeStep(doc, case.layers[at], case.layering)
           /\ at' = at + 1 /\ UNCHANGED phase
  <2>1. PICK k \in Nat \ {0} : k = at
    BY <1>3
  <2>2. PICK layer : layer = case.layers[k]
    OBVIOUS
  <2>3. PICK next : next = MergeStep(doc, layer, case.layering)
    OBVIOUS
  <2>4. doc' = next /\ at' - 1 = k /\ phase' = "merging" /\ k \in DOMAIN case.layers
    BY <1>1, <1>3, <1>5, <2>1, <2>2, <2>3
  <2>5. /\ ListsSound(case.names, doc.lists) /\ ListsWritten(case.names, layer.lists)
        /\ FoldsOn(case.names, doc, layer, case.layering, next)
    BY <1>1, <1>3, <1>5, <2>1, <2>2, <2>3, LayerFolds
  <2>6. /\ next \in [lists : {next.lists}, mapping : {MergeMapping(doc.mapping, layer.mapping)}]
        /\ DOMAIN next.lists = DOMAIN doc.lists \cup DOMAIN layer.lists
        /\ \A s \in DOMAIN layer.lists :
             next.lists[s] = MergeList(Below(doc.lists, s), layer.lists[s],
                                       Layering(layer, layer.lists[s], case.layering))
        /\ \A s \in DOMAIN doc.lists : s \notin DOMAIN layer.lists => next.lists[s] = doc.lists[s]
    BY <2>5 DEF FoldsOn
  <2>7. MappingWins(k, next.mapping)
    <3>1. MappingWins(k - 1, doc.mapping)
      BY <1>1, <2>1 DEF SettledSoFar
    <3>2. case.layers[k].mapping \in Mappings \cup {Unset, Null}
      BY <2>4, LayersKnown DEF StateOK
    <3>3. MappingWins(k, MergeMapping(doc.mapping, case.layers[k].mapping))
      BY <3>1, <3>2, <2>4, MappingWinsOn
    <3>4. next.mapping = MergeMapping(doc.mapping, layer.mapping)
      BY <2>6
    <3>5. QED
      BY <3>3, <3>4, <2>2
  <2>8. ASSUME NEW s \in DOMAIN next.lists, Unrenamed(s)
        PROVE  ListWins(s, k, next.lists[s].entries)
    <3>1. PICK lower : lower = Below(doc.lists, s)
      OBVIOUS
    <3>2. ListSound(case.names, lower)
      BY <2>5, <3>1, BelowSound
    <3>3. ListWins(s, k - 1, lower.entries)
      <4>1. CASE s \in DOMAIN doc.lists
        BY <4>1, <1>1, <2>1, <2>8, <3>1 DEF SettledSoFar, Below
      <4>2. CASE s \notin DOMAIN doc.lists
        <5>1. \A i \in 1..k - 1 : s \notin DOMAIN case.layers[i].lists
          BY <4>2, <1>1, <2>1 DEF FoldedSoFar
        <5>2. ListWins(s, k - 1, <<>>)
          BY <5>1, <2>1, NothingDeclared
        <5>3. lower.entries = <<>>
          BY <4>2, <3>1 DEF Below, NoList
        <5>4. QED
          BY <5>2, <5>3
      <4>3. QED
        BY <4>1, <4>2
    <3>4. CASE s \notin DOMAIN layer.lists
      <4>1. next.lists[s] = lower
        BY <3>4, <2>6, <3>1 DEF Below
      <4>2. ListWins(s, k, lower.entries)
        BY <3>3, <3>4, <2>2, ListRests
      <4>3. QED
        BY <4>1, <4>2
    <3>5. CASE s \in DOMAIN layer.lists
      <4>1. LayeringAt(k, s) = Layering(layer, layer.lists[s], case.layering)
        BY <2>2 DEF LayeringAt
      <4>2. Unset \notin case.names /\ LayeringAt(k, s) \in Layerings
        BY <3>5, <2>2, <2>4, LayeringsKnown DEF StateOK
      <4>3. ListWritten(case.names, case.layers[k].lists[s])
        BY <3>5, <2>2, <2>5 DEF ListsWritten
      <4>4. Entries(case.layers[k].lists[s].entries, LayeringAt(k, s))
        <5>1. Admitted(layer, case.layering)
          BY <1>5, <2>1, <2>2
        <5>2. QED
          BY <5>1, <3>5, <4>1, <2>2 DEF Admitted
      <4>5. \A e \in ToSet(case.layers[k].lists[s].entries) : e.renames = Unset
        BY <2>8, <2>2, <2>4, <3>5 DEF Unrenamed
      <4>6. next.lists[s] = MergeList(lower, case.layers[k].lists[s], LayeringAt(k, s))
        BY <3>5, <2>2, <2>6, <3>1, <4>1
      <4>7. s \in DOMAIN case.layers[k].lists
        BY <3>5, <2>2
      <4>8. QED
        BY <2>4, <3>2, <3>3, <4>2, <4>3, <4>4, <4>5, <4>6, <4>7, ListWinsOn
    <3>6. QED
      BY <3>4, <3>5
  <2>9. SettledSoFar'
    BY <1>1, <2>4, <2>7, <2>8, DeclarationsRest, SettledRests DEF SettledSoFar
  <2>10. QED
    BY <2>4, <2>9 DEF WinInv, HighestDeclarationWins
<1>6. QED
  BY <1>4, <1>5 DEF MergeLayer

LEMMA WinJudged ==
  ASSUME StateOK, RenderInv, WinInv, Judge
  PROVE  WinInv'
<1>1. phase = "merging" /\ case' = case /\ at > Len(case.layers) /\ FoldedSoFar /\ SettledSoFar
  BY DEF Judge, RenderInv, WinInv
<1>2. PICK n \in Nat : n = Len(case.layers) /\ DOMAIN case.layers = 1..n /\ at - 1 = n
  BY <1>1, LayersKnown DEF StateOK, FoldedSoFar
<1>3. case.names \in SUBSET Nat
  BY LayersKnown DEF StateOK
<1>4. PICK fallback : fallback = Over(case.undeclared, filePolicy)
  OBVIOUS
<1>5. PICK written : written = CanonicalDocument(ResolvePolicies(doc, fallback))
  OBVIOUS
<1>6. doc' = written /\ phase' \in {"open", "over"}
  BY <1>4, <1>5 DEF Judge
<1>7. /\ doc \in [lists : {doc.lists}, mapping : {doc.mapping}]
      /\ ListsSound(case.names, doc.lists)
  BY <1>1 DEF FoldedSoFar, ListsSound
<1>8. SaidAsFolded(case.names, doc, written)
  BY <1>3, <1>5, <1>7, JudgedAsFolded
<1>9. /\ MappingWins(n, doc.mapping)
      /\ \A s \in DOMAIN doc.lists : Unrenamed(s) => ListWins(s, n, doc.lists[s].entries)
  BY <1>1, <1>2 DEF SettledSoFar
<1>10. ASSUME doc.mapping \notin {Unset, Null}, NEW k \in DOMAIN doc.mapping
       PROVE  doc.mapping[k] = MappingDue(k)
  <2>1. HighestIn(MappedBy(n), ValuesAt(k), doc.mapping[k])
    BY <1>9, <1>10 DEF MappingWins
  <2>2. MappedBy(n) \in SUBSET (1..n)
    BY DEF MappedBy
  <2> DEFINE set == {i \in MappedBy(n) : ValuesAt(k)[i] # Unset}
             mappings == [i \in DOMAIN case.layers |-> case.layers[i].mapping]
             due == {i \in DOMAIN mappings :
                       /\ mappings[i] \notin {Unset, Null} /\ mappings[i][k] # Unset
                       /\ \A j \in i + 1..Len(mappings) : mappings[j] # Null}
  <2>3. doc.mapping[k] = IF set = {} THEN Unset ELSE ValuesAt(k)[Max(set)]
    BY <2>1, <2>2, HighestInIs
  <2>4. Len(mappings) = n /\ DOMAIN mappings = 1..n
    BY <1>2, LenProperties
  <2>5. due = set
    <3>1. \A i \in 1..n : mappings[i] = case.layers[i].mapping /\ ValuesAt(k)[i] = case.layers[i].mapping[k]
      BY <1>2 DEF ValuesAt
    <3> HIDE DEF mappings
    <3>2. \A i \in 1..n : \A j \in i + 1..n : j \in 1..n
      BY <1>2
    <3>3. \A i \in 1..n : i \in due <=> i \in set
      BY <3>1, <3>2, <2>4 DEF MappedBy
    <3>4. due \subseteq 1..n /\ set \subseteq 1..n
      BY <2>2, <2>4
    <3> HIDE DEF due, set
    <3>5. QED
      BY <3>3, <3>4
  <2>6. MappingDue(k) = IF due = {} THEN Unset ELSE mappings[Max(due)][k]
    BY DEF MappingDue
  <2>7. set # {} => Max(set) \in 1..n
    <3>1. set \in SUBSET Nat /\ \A x \in set : x <= n /\ x \in 1..n
      BY <2>2
    <3> HIDE DEF set
    <3>2. QED
      BY <3>1, LargestNumber
  <2>8. \A i \in 1..n : ValuesAt(k)[i] = mappings[i][k]
    BY <1>2 DEF ValuesAt
  <2> HIDE DEF set, due, mappings
  <2>9. QED
    BY <2>3, <2>5, <2>6, <2>7, <2>8
<1>11. ASSUME NEW s, NEW name
       PROVE  /\ DeclaredBy(n, s, name) = Declaring(s, name)
              /\ DeclaredBy(n, s, name) \in SUBSET (1..n)
  BY <1>2 DEF DeclaredBy, Declaring, Declares
<1>12. ASSUME NEW s, NEW name, NEW f, NEW v, HighestIn(DeclaredBy(n, s, name), FieldsAt(s, name, f), v)
       PROVE  v = HighestField(s, name, f)
  <2> DEFINE set == {i \in DeclaredBy(n, s, name) : FieldsAt(s, name, f)[i] # Unset}
             due == {i \in Declaring(s, name) : FieldAt(i, s, name, f) # Unset}
  <2>1. v = IF set = {} THEN Unset ELSE FieldsAt(s, name, f)[Max(set)]
    BY <1>11, <1>12, HighestInIs
  <2>2. \A i \in 1..n : FieldsAt(s, name, f)[i] = FieldAt(i, s, name, f)
    BY <1>2 DEF FieldsAt
  <2>3. set = due /\ set \in SUBSET (1..n)
    BY <1>11, <2>2
  <2>4. HighestField(s, name, f) = IF due = {} THEN Unset ELSE FieldAt(Max(due), s, name, f)
    BY DEF HighestField
  <2>5. set # {} => Max(set) \in 1..n
    <3>1. set \in SUBSET Nat /\ \A x \in set : x <= n /\ x \in 1..n
      BY <2>3
    <3> HIDE DEF set
    <3>2. QED
      BY <3>1, LargestNumber
  <2> HIDE DEF set, due
  <2>6. QED
    BY <2>1, <2>2, <2>3, <2>4, <2>5
<1>13. ASSUME NEW s \in DOMAIN written.lists, Unrenamed(s)
       PROVE  LET entries == ToSet(written.lists[s].entries)
              IN  /\ {e.name : e \in entries} = {m \in case.names : Declaring(s, m) # {}}
                  /\ \A e \in entries :
                       \A f \in DOMAIN e.fields : e.fields[f] = HighestField(s, e.name, f)
  <2> DEFINE ws == ToSet(written.lists[s].entries)
             es == ToSet(doc.lists[s].entries)
  <2>0. s \in DOMAIN doc.lists /\ ListSaid(case.names, doc.lists[s].entries, written.lists[s].entries)
    BY <1>8 DEF SaidAsFolded
  <2>1. ListWins(s, n, doc.lists[s].entries)
    BY <2>0, <1>9, <1>13
  <2>2. /\ \A e \in es : DeclaredBy(n, s, e.name) # {} /\ FieldsWin(s, n, e)
        /\ \A name \in case.names : DeclaredBy(n, s, name) # {} => \E e \in es : e.name = name
    BY <2>1 DEF ListWins
  <2>3. /\ \A e \in ws :
             /\ EntryWritten(case.names, e)
             /\ \E x \in es : e.name = x.name /\ e.fields = x.fields
        /\ \A x \in es : \E e \in ws : e.name = x.name
    BY <2>0 DEF ListSaid
  <2>4. \A e \in ws : e.name \in case.names /\ DOMAIN e.fields = Fields
    BY <2>3 DEF EntryWritten
  <2> HIDE DEF ws, es
  <2>5. ASSUME NEW e \in ws
        PROVE  Declaring(s, e.name) # {} /\ \A f \in DOMAIN e.fields : e.fields[f] = HighestField(s, e.name, f)
    <3>1. PICK x \in es : e.name = x.name /\ e.fields = x.fields
      BY <2>3
    <3>2. Declaring(s, e.name) # {}
      BY <3>1, <2>2, <1>11
    <3>3. \A f \in Fields : HighestIn(DeclaredBy(n, s, e.name), FieldsAt(s, e.name, f), e.fields[f])
      BY <3>1, <2>2 DEF FieldsWin
    <3>4. QED
      BY <3>2, <3>3, <2>4, <1>12
  <2>6. \A m \in case.names : Declaring(s, m) # {} => \E e \in ws : e.name = m
    BY <2>2, <2>3, <1>11
  <2>7. {e.name : e \in ws} = {m \in case.names : Declaring(s, m) # {}}
    BY <2>4, <2>5, <2>6
  <2>8. QED
    BY <2>5, <2>7 DEF ws
<1>14. HighestDeclarationWins'
  <2>1. doc'.mapping = doc.mapping
    BY <1>6, <1>8 DEF SaidAsFolded
  <2>2. doc'.mapping \notin {Unset, Null} => \A k \in DOMAIN doc'.mapping : doc'.mapping[k] = MappingDue(k)'
    BY <1>1, <1>10, <2>1, DeclarationsRest
  <2>3. ASSUME NEW s \in DOMAIN doc'.lists, Unrenamed(s)'
        PROVE  LET entries == ToSet(doc'.lists[s].entries)
               IN  /\ {e.name : e \in entries} = {m \in case'.names : Declaring(s, m)' # {}}
                   /\ \A e \in entries :
                        \A f \in DOMAIN e.fields : e.fields[f] = HighestField(s, e.name, f)'
    <3>1. PICK ws : ws = ToSet(doc'.lists[s].entries)
      OBVIOUS
    <3>2. s \in DOMAIN written.lists /\ Unrenamed(s) /\ ws = ToSet(written.lists[s].entries)
      BY <1>1, <1>6, <2>3, <3>1, DeclarationsRest
    <3>3. /\ {e.name : e \in ws} = {m \in case.names : Declaring(s, m) # {}}
          /\ \A e \in ws : \A f \in DOMAIN e.fields : e.fields[f] = HighestField(s, e.name, f)
      BY <3>2, <1>13
    <3>4. case'.names = case.names /\ \A m : Declaring(s, m)' = Declaring(s, m)
      BY <1>1, DeclarationsRest
    <3>5. {e.name : e \in ws} = {m \in case'.names : Declaring(s, m)' # {}}
      BY <3>3, <3>4
    <3>6. \A e \in ws : \A f \in DOMAIN e.fields : e.fields[f] = HighestField(s, e.name, f)'
      BY <1>1, <3>3, DeclarationsRest
    <3>7. QED
      BY <3>1, <3>5, <3>6
  <2>4. QED
    BY <2>2, <2>3 DEF HighestDeclarationWins
<1>15. QED
  BY <1>6, <1>14 DEF WinInv, SettledSoFar

LEMMA WinBegins == Init => WinInv
<1> SUFFICES ASSUME Init PROVE WinInv
  OBVIOUS
<1>1. phase = "start"
  BY DEF Init
<1>2. QED
  BY <1>1 DEF WinInv, SettledSoFar, HighestDeclarationWins

LEMMA WinStep == StateOK /\ Progress /\ RenderInv /\ WinInv /\ [Next]_vars => WinInv'
<1> SUFFICES ASSUME StateOK, Progress, RenderInv, WinInv, [Next]_vars PROVE WinInv'
  OBVIOUS
<1>1. CASE Start
  BY <1>1, WinStarts
<1>2. CASE MergeLayer
  BY <1>2, WinFolded
<1>3. CASE Judge
  BY <1>3, WinJudged
<1>4. CASE Locate
  <2>1. phase' \in {"over", "locating", "reading"}
    BY <1>4 DEF Locate
  <2>2. QED
    BY <2>1, WinElsewhere
<1>5. CASE SnapshotSection
  <2>1. phase' = "reading"
    BY <1>5 DEF SnapshotSection
  <2>2. QED
    BY <2>1, WinElsewhere
<1>6. CASE Assemble
  <2>1. phase = "reading" /\ ~Rendering /\ case' = case
    BY <1>6 DEF Assemble, Progress
  <2>2. ~Rendering' /\ phase' \in {"over", "locating", "open"}
    BY <2>1, <1>6 DEF Rendering, Assemble, Concludes, NextTarget
  <2>3. QED
    BY <2>2, WinElsewhere
<1>7. CASE OpenStaging
  <2>1. phase' \in {"writing", "over", "locating"}
    BY <1>7 DEF OpenStaging, WriteFails, Concludes, NextTarget
  <2>2. QED
    BY <2>1, WinElsewhere
<1>8. CASE WriteStaging
  <2>1. phase' \in {"renaming", "over", "locating"}
    BY <1>8 DEF WriteStaging, WriteFails, Concludes, NextTarget
  <2>2. QED
    BY <2>1, WinElsewhere
<1>9. CASE Rename
  <2>1. phase' \in {"over", "locating"}
    BY <1>9 DEF Rename, WriteFails, Concludes, NextTarget
  <2>2. QED
    BY <2>1, WinElsewhere
<1>10. CASE Edit
  <2>1. phase' = "reading"
    BY <1>10 DEF Edit
  <2>2. QED
    BY <2>1, WinElsewhere
<1>11. CASE Crash
  <2>1. phase' = "over"
    BY <1>11 DEF Crash
  <2>2. QED
    BY <2>1, WinElsewhere
<1>12. CASE Rerun
  <2>1. phase' = "start"
    BY <1>12 DEF Rerun
  <2>2. QED
    BY <2>1, WinElsewhere
<1>13. CASE UNCHANGED vars
  BY <1>13, WinRests DEF vars
<1>14. QED
  BY <1>1, <1>2, <1>3, <1>4, <1>5, <1>6, <1>7, <1>8, <1>9, <1>10, <1>11, <1>12, <1>13 DEF Next

(* In every state of every run, the document a render is folding holds, of each list
   whose entries no layer renames, what the layers read so far declare of it since
   the last one to remove it or to replace the list, as the highest of them says,
   and of the mapping what the highest of them says since the last null.       *)
THEOREM WinInvariant == Spec => []WinInv
<1>1. IInv => StateOK
  BY DEF IInv
<1>2. FileInv => Progress
  BY DEF FileInv
<1>3. QED
  BY Invariant, FilesInvariant, FoldInvariant, WinBegins, WinStep, <1>1, <1>2, PTL DEF Spec

(* The highest declaration wins in a rendered document, however many layers there
   are and whatever each of them layers: no entry is lost or left over, and no field
   or key of a lower layer stands where a higher one set it, null included.
   src/engine/layers.ts:230-260, 379-425.                                     *)
THEOREM HighestDeclarationHolds == Spec => []HighestDeclarationWins
<1>1. WinInv => HighestDeclarationWins
  BY DEF WinInv
<1>2. QED
  BY WinInvariant, <1>1, PTL

(* What an ordered list is made of: each entry once, by rank, and by place where
   two ranks are one.                                                         *)
PlacedBy(entries, rank, list, place) ==
  /\ DOMAIN place = DOMAIN list
  /\ \A k \in DOMAIN list : place[k] \in DOMAIN entries /\ list[k] = entries[place[k]]
  /\ \A i \in DOMAIN entries : \E k \in DOMAIN list : place[k] = i
  /\ \A k, l \in DOMAIN list : k < l =>
       \/ rank[place[k]] < rank[place[l]]
       \/ rank[place[k]] = rank[place[l]] /\ place[k] < place[l]

LEMMA OrderedPlaced ==
  ASSUME NEW entries, NEW n \in Nat, DOMAIN entries = 1..n,
         NEW rank, \A i \in DOMAIN entries : rank[i] \in Nat
  PROVE  /\ \E m \in Nat : DOMAIN OrderedBy(entries, rank) = 1..m
         /\ \E place : PlacedBy(entries, rank, OrderedBy(entries, rank), place)
<1> DEFINE S == {<<rank[i], i>> : i \in DOMAIN entries}
           order == InOrder(S)
           list == OrderedBy(entries, rank)
           place == [k \in DOMAIN order |-> order[k][2]]
<1>1. S \in SUBSET (Nat \X Nat)
  OBVIOUS
<1>2. IsFiniteSet(S)
  <2> DEFINE f == [i \in 1..n |-> <<rank[i], i>>]
  <2>1. f \in Surjection(1..n, S)
    <3>1. \A s \in S : \E i \in 1..n : f[i] = s
      OBVIOUS
    <3>2. f \in [1..n -> S]
      OBVIOUS
    <3>3. QED
      BY <3>1, <3>2 DEF Surjection
  <2>2. IsFiniteSet(1..n)
    BY FS_Interval
  <2> HIDE DEF f, S
  <2>3. QED
    BY <2>1, <2>2, FS_Surjection
<1>3. \A p \in S : p[2] \in DOMAIN entries /\ p[1] = rank[p[2]]
  OBVIOUS
<1>4. \A i \in DOMAIN entries : \E p \in S : p[2] = i
  <2> TAKE i \in DOMAIN entries
  <2>1. <<rank[i], i>> \in S /\ <<rank[i], i>>[2] = i
    OBVIOUS
  <2> HIDE DEF S
  <2>2. QED
    BY <2>1
<1>5. list = [k \in DOMAIN order |-> entries[order[k][2]]]
  BY DEF OrderedBy
<1> HIDE DEF S, list
<1>6. /\ Cardinality(S) \in Nat /\ DOMAIN order = 1..Cardinality(S)
      /\ \A k \in DOMAIN order : order[k] \in S
      /\ \A p \in S : \E k \in DOMAIN order : order[k] = p
      /\ \A k, l \in DOMAIN order : k < l => Before(order[k], order[l])
  BY <1>1, <1>2, InOrderLists
<1> HIDE DEF order
<1>7. DOMAIN list = DOMAIN order /\ DOMAIN place = DOMAIN order
  BY <1>5
<1>8. \A k \in DOMAIN list : place[k] \in DOMAIN entries /\ list[k] = entries[place[k]]
  BY <1>3, <1>5, <1>6
<1>9. \A i \in DOMAIN entries : \E k \in DOMAIN list : place[k] = i
  BY <1>4, <1>6, <1>7
<1>10. ASSUME NEW k \in DOMAIN list, NEW l \in DOMAIN list, k < l
       PROVE  \/ rank[place[k]] < rank[place[l]]
              \/ rank[place[k]] = rank[place[l]] /\ place[k] < place[l]
  <2>1. Before(order[k], order[l]) /\ order[k] \in S /\ order[l] \in S
    BY <1>6, <1>7, <1>10
  <2>2. order[k][1] = rank[place[k]] /\ order[l][1] = rank[place[l]]
    BY <2>1, <1>3, <1>7
  <2>3. order[k][2] = place[k] /\ order[l][2] = place[l]
    BY <1>7
  <2>4. QED
    BY <2>1, <2>2, <2>3 DEF Before
<1> HIDE DEF place
<1>11. PlacedBy(entries, rank, list, place)
  BY <1>7, <1>8, <1>9, <1>10 DEF PlacedBy
<1>12. QED
  BY <1>6, <1>7, <1>11 DEF list

(* Two lists of one set, each item of it once, are one list if what is ahead in
   the one is ahead in the other.                                             *)
NoneTurned(U, V) ==
  \A k, l \in DOMAIN U : \A i, j \in DOMAIN V : k < l /\ U[k] = V[i] /\ U[l] = V[j] => i < j

LEMMA OrderedSame ==
  ASSUME NEW U, U \in Seq(ToSet(U)), IsInjective(U),
         NEW V, V \in Seq(ToSet(V)), IsInjective(V),
         ToSet(U) = ToSet(V), NoneTurned(U, V)
  PROVE  U = V
<1> DEFINE m == Len(U)
           n == Len(V)
           Placed == {k \in Nat \ {0} : k <= m \/ k <= n}
           Differ == {k \in Placed : ~(k <= m /\ k <= n /\ U[k] = V[k])}
<1>1. m \in Nat /\ DOMAIN U = 1..m /\ n \in Nat /\ DOMAIN V = 1..n
  OBVIOUS
<1>2. /\ \A k \in 1..m : \E i \in 1..n : U[k] = V[i]
      /\ \A i \in 1..n : \E k \in 1..m : V[i] = U[k]
  <2>1. /\ \A k \in 1..m : U[k] \in ToSet(U)
        /\ \A x \in ToSet(U) : \E k \in 1..m : x = U[k]
    BY <1>1, Listed
  <2>2. /\ \A i \in 1..n : V[i] \in ToSet(V)
        /\ \A x \in ToSet(V) : \E i \in 1..n : x = V[i]
    BY <1>1, Listed
  <2>3. QED
    BY <2>1, <2>2
<1>3. /\ \A k, l \in 1..m : U[k] = U[l] => k = l
      /\ \A i, j \in 1..n : V[i] = V[j] => i = j
  BY <1>1 DEF IsInjective
<1>4. \A k, l \in 1..m : \A i, j \in 1..n : k < l /\ U[k] = V[i] /\ U[l] = V[j] => i < j
  BY <1>1 DEF NoneTurned
<1>5. U = [k \in 1..m |-> U[k]] /\ V = [k \in 1..n |-> V[k]]
  BY <1>1
<1> HIDE DEF m, n
<1>6. ASSUME Differ # {} PROVE FALSE
  <2>1. PICK k \in Differ : \A y \in Differ : k <= y
    BY <1>6, SmallestNumber
  <2>2. k \in Nat \ {0} /\ (k <= m \/ k <= n) /\ ~(k <= m /\ k <= n /\ U[k] = V[k])
    OBVIOUS
  <2>3. \A y \in Nat \ {0} : y < k /\ (y <= m \/ y <= n) => y <= m /\ y <= n /\ U[y] = V[y]
    BY <2>1
  <2> HIDE DEF Differ
  <2>4. CASE ~(k <= n)
    <3>1. k \in 1..m
      BY <2>2, <2>4, <1>1
    <3>2. PICK i \in 1..n : U[k] = V[i]
      BY <3>1, <1>2
    <3>3. i < k /\ i \in 1..m /\ U[i] = V[i]
      BY <3>1, <3>2, <2>3, <2>4, <1>1
    <3>4. QED
      BY <3>1, <3>2, <3>3, <1>3
  <2>5. CASE ~(k <= m)
    <3>1. k \in 1..n
      BY <2>2, <2>5, <1>1
    <3>2. PICK l \in 1..m : V[k] = U[l]
      BY <3>1, <1>2
    <3>3. l < k /\ l \in 1..n /\ U[l] = V[l]
      BY <3>1, <3>2, <2>3, <2>5, <1>1
    <3>4. QED
      BY <3>1, <3>2, <3>3, <1>3
  <2>6. CASE k <= m /\ k <= n
    <3>1. k \in 1..m /\ k \in 1..n /\ U[k] # V[k]
      BY <2>2, <2>6, <1>1
    <3>2. PICK i \in 1..n : U[k] = V[i]
      BY <3>1, <1>2
    <3>3. PICK l \in 1..m : V[k] = U[l]
      BY <3>1, <1>2
    <3>4. k < i
      <4>1. i # k
        BY <3>1, <3>2
      <4>2. i < k => U[i] = V[i] /\ i \in 1..m
        BY <2>3, <2>6, <1>1
      <4>3. ~(i < k)
        BY <4>2, <3>1, <3>2, <1>3
      <4>4. QED
        BY <4>1, <4>3, <3>1
    <3>5. k < l
      <4>1. l # k
        BY <3>1, <3>3
      <4>2. l < k => U[l] = V[l] /\ l \in 1..n
        BY <2>3, <2>6, <1>1
      <4>3. ~(l < k)
        BY <4>2, <3>1, <3>3, <1>3
      <4>4. QED
        BY <4>1, <4>3, <3>1
    <3>6. i < k
      BY <3>1, <3>2, <3>3, <3>5, <1>4
    <3>7. QED
      BY <3>1, <3>4, <3>6
  <2>7. QED
    BY <2>4, <2>5, <2>6
<1>7. \A k \in Nat \ {0} : k <= m \/ k <= n => k <= m /\ k <= n /\ U[k] = V[k]
  BY <1>6
<1>8. m = n
  BY <1>7, <1>1
<1>9. \A k \in 1..m : U[k] = V[k]
  BY <1>7, <1>1
<1>10. QED
  BY <1>5, <1>8, <1>9

-----------------------------------------------------------------------------
(* What a fold makes of lists whose entries stand in another order. *)

(* A pair that meets, and nothing else either of the two. *)
OneToOne(lower, higher, i, j) ==
  /\ Meet(lower[i], higher[j])
  /\ \A k \in DOMAIN higher : Meet(lower[i], higher[k]) => k = j
  /\ \A k \in DOMAIN lower : Meet(lower[k], higher[j]) => k = i

LEMMA OneToOnePaired ==
  ASSUME NEW lower, NEW m \in Nat, DOMAIN lower = 1..m, NEW higher,
         NEW i \in DOMAIN lower, NEW j \in DOMAIN higher, OneToOne(lower, higher, i, j)
  PROVE  Slot(lower, higher[j]) = i /\ Paired(lower, higher, lower[i], higher[j])
<1>1. Slot(lower, higher[j]) = i
  <2>1. Slot(lower, higher[j]) # 0
    BY SlotClaimed DEF OneToOne
  <2>2. Slot(lower, higher[j]) \in 1..m /\ Meet(lower[Slot(lower, higher[j])], higher[j])
    BY <2>1, SlotClaimed
  <2>3. QED
    BY <2>2 DEF OneToOne
<1>2. Claims(lower[i], higher) = 1
  BY ClaimsOne DEF OneToOne
<1>3. Claims(higher[j], lower) = 1
  <2>1. \A k \in DOMAIN lower : Meet(higher[j], lower[k]) <=> Meet(lower[k], higher[j])
    BY DEF Meet
  <2>2. QED
    BY <2>1, ClaimsOne DEF OneToOne
<1>4. QED
  BY <1>1, <1>2, <1>3 DEF Paired

LEMMA PairedOneToOne ==
  ASSUME NEW lower, NEW m \in Nat, DOMAIN lower = 1..m, NEW higher, NEW n \in Nat, DOMAIN higher = 1..n,
         NEW j \in DOMAIN higher, Slot(lower, higher[j]) # 0,
         Paired(lower, higher, lower[Slot(lower, higher[j])], higher[j])
  PROVE  Slot(lower, higher[j]) \in DOMAIN lower /\ OneToOne(lower, higher, Slot(lower, higher[j]), j)
<1> DEFINE i == Slot(lower, higher[j])
<1>1. i \in DOMAIN lower /\ Meet(lower[i], higher[j])
  BY SlotClaimed
<1>2. Claims(lower[i], higher) = 1 /\ Claims(higher[j], lower) = 1
  BY DEF Paired
<1> HIDE DEF i
<1>3. \A k \in DOMAIN lower : Meet(lower[k], higher[j]) => k = i
  BY <1>1, <1>2, ClaimsCounted
<1>4. \A k \in DOMAIN higher : Meet(higher[k], lower[i]) <=> Meet(lower[i], higher[k])
  BY DEF Meet
<1>5. \A k \in DOMAIN higher : Meet(lower[i], higher[k]) => k = j
  BY <1>1, <1>2, <1>4, ClaimsCounted
<1>6. QED
  BY <1>1, <1>3, <1>5 DEF OneToOne, i

(* What a union holds: the lower entries no higher one claims, the merges of the
   pairs, and the higher entries that are not of a pair; no removal.          *)
Made(lower, higher, merged, e) ==
  \/ \E i \in DOMAIN lower : e = lower[i] /\ \A j \in DOMAIN higher : ~Meet(lower[i], higher[j])
  \/ \E i \in DOMAIN lower, j \in DOMAIN higher :
       ~higher[j].remove /\ OneToOne(lower, higher, i, j) /\ e = merged[<<i, j>>]
  \/ \E j \in DOMAIN higher :
       ~higher[j].remove /\ e = higher[j] /\ \A i \in DOMAIN lower : ~OneToOne(lower, higher, i, j)

LEMMA UnionMade ==
  ASSUME NEW lower, NEW m \in Nat, DOMAIN lower = 1..m, Len(lower) = m,
         NEW higher, NEW n \in Nat, DOMAIN higher = 1..n, NEW merged, NEW e
  PROVE  e \in ToSet(UnionKeyed(lower, higher, merged)) <=> Made(lower, higher, merged, e)
<1> DEFINE P == Placements(lower, higher)
           U == UnionKeyed(lower, higher, merged)
           Item(p) == PlaceOver(lower, higher, merged, p)
<1>1. /\ P \in SUBSET (Nat \X Nat)
      /\ \A p \in P : \/ Stays(lower, higher, p) /\ Item(p) = lower[p[1]]
                      \/ Pairs(lower, higher, p) /\ Item(p) = merged[p]
                      \/ Joins(lower, higher, p) /\ Item(p) = higher[p[2]]
  BY Placing
<1>2. \A i \in DOMAIN lower : (\A j \in DOMAIN higher : ~Meet(lower[i], higher[j])) => <<i, 0>> \in P
  BY Placing
<1>3. \A j \in DOMAIN higher : ~higher[j].remove => \E p \in P : p[2] = j
  BY Placing
<1>4. ToSet(U) = {Item(p) : p \in P}
  BY UnionListed
<1> HIDE DEF P, U, Item
<1>5. ASSUME NEW p \in P
      PROVE  /\ Stays(lower, higher, p) =>
                  p[2] = 0 /\ p[1] \in DOMAIN lower /\ \A j \in DOMAIN higher : ~Meet(lower[p[1]], higher[j])
             /\ Pairs(lower, higher, p) =>
                  /\ p[1] \in DOMAIN lower /\ p[2] \in DOMAIN higher /\ ~higher[p[2]].remove
                  /\ OneToOne(lower, higher, p[1], p[2]) /\ p = <<p[1], p[2]>>
             /\ Joins(lower, higher, p) =>
                  /\ p[2] \in DOMAIN higher /\ ~higher[p[2]].remove
                  /\ \A i \in DOMAIN lower : ~OneToOne(lower, higher, i, p[2])
  <2>1. p \in Nat \X Nat
    BY <1>1
  <2>2. p = <<p[1], p[2]>>
    BY <2>1
  <2>3. Pairs(lower, higher, p) => OneToOne(lower, higher, p[1], p[2])
    BY DEF Pairs, OneToOne
  <2>4. ASSUME Joins(lower, higher, p), NEW i \in DOMAIN lower, OneToOne(lower, higher, i, p[2])
        PROVE  FALSE
    <3>1. p[2] \in DOMAIN higher
      BY <2>4 DEF Joins
    <3>2. Slot(lower, higher[p[2]]) = i /\ Paired(lower, higher, lower[i], higher[p[2]]) /\ i # 0
      BY <2>4, <3>1, OneToOnePaired
    <3>3. QED
      BY <2>4, <3>2 DEF Joins
  <2>5. QED
    BY <2>2, <2>3, <2>4 DEF Stays, Pairs, Joins
<1>6. ASSUME e \in ToSet(U) PROVE Made(lower, higher, merged, e)
  <2>1. PICK p \in P : e = Item(p)
    BY <1>4, <1>6
  <2>2. CASE Stays(lower, higher, p) /\ Item(p) = lower[p[1]]
    BY <2>1, <2>2, <1>5 DEF Made
  <2>3. CASE Pairs(lower, higher, p) /\ Item(p) = merged[p]
    <3>1. /\ p[1] \in DOMAIN lower /\ p[2] \in DOMAIN higher /\ ~higher[p[2]].remove
          /\ OneToOne(lower, higher, p[1], p[2]) /\ e = merged[<<p[1], p[2]>>]
      BY <2>1, <2>3, <1>5
    <3>2. QED
      BY <3>1 DEF Made
  <2>4. CASE Joins(lower, higher, p) /\ Item(p) = higher[p[2]]
    BY <2>1, <2>4, <1>5 DEF Made
  <2>5. QED
    BY <2>2, <2>3, <2>4, <1>1
<1>7. ASSUME NEW i \in DOMAIN lower, \A j \in DOMAIN higher : ~Meet(lower[i], higher[j])
      PROVE  lower[i] \in ToSet(U)
  <2>1. <<i, 0>> \in P /\ <<i, 0>>[1] = i /\ <<i, 0>>[2] = 0
    BY <1>2, <1>7
  <2>2. PICK p \in P : p = <<i, 0>> /\ p[1] = i /\ p[2] = 0
    BY <2>1
  <2>3. 0 \notin DOMAIN higher
    OBVIOUS
  <2>4. Item(p) = lower[i]
    BY <2>2, <2>3, <1>1, <1>5
  <2>5. QED
    BY <2>4, <1>4
<1>8. ASSUME NEW j \in DOMAIN higher, ~higher[j].remove
      PROVE  /\ \A i \in DOMAIN lower : OneToOne(lower, higher, i, j) => merged[<<i, j>>] \in ToSet(U)
             /\ (\A i \in DOMAIN lower : ~OneToOne(lower, higher, i, j)) => higher[j] \in ToSet(U)
  <2>1. PICK p \in P : p[2] = j
    BY <1>3, <1>8
  <2>2. ~Stays(lower, higher, p)
    BY <2>1, <1>5
  <2>3. CASE Pairs(lower, higher, p) /\ Item(p) = merged[p]
    <3>1. /\ p[1] \in DOMAIN lower /\ OneToOne(lower, higher, p[1], j) /\ p = <<p[1], j>>
      BY <2>1, <2>3, <1>5
    <3>2. merged[<<p[1], j>>] \in ToSet(U)
      BY <2>3, <3>1, <1>4
    <3>3. \A i \in DOMAIN lower : OneToOne(lower, higher, i, j) => i = p[1]
      BY <3>1 DEF OneToOne
    <3>4. QED
      BY <3>1, <3>2, <3>3
  <2>4. CASE Joins(lower, higher, p) /\ Item(p) = higher[p[2]]
    <3>1. (\A i \in DOMAIN lower : ~OneToOne(lower, higher, i, j)) /\ Item(p) = higher[j]
      BY <2>1, <2>4, <1>5
    <3>2. QED
      BY <3>1, <1>4
  <2>5. QED
    BY <2>2, <2>3, <2>4, <1>1
<1>9. ASSUME Made(lower, higher, merged, e) PROVE e \in ToSet(U)
  BY <1>7, <1>8, <1>9 DEF Made
<1>10. QED
  BY <1>6, <1>9 DEF U

(* Two entries say the same: what they say themselves is one, and so is the set of
   the entries their nested lists hold.                                       *)
NestedAlike(m, n) ==
  IF m = Unset THEN n = Unset
  ELSE n # Unset /\ m.policy = n.policy /\ ToSet(m.entries) = ToSet(n.entries)
Alike(e, f) ==
  /\ e.name = f.name /\ e.renames = f.renames /\ e.fields = f.fields /\ e.remove = f.remove
  /\ NestedAlike(e.nested, f.nested)

(* Of the entries of a nested list, that they are the same. *)
Same(exact, e, f) == IF exact THEN e = f ELSE Alike(e, f)

LEMMA SameKeys ==
  ASSUME NEW exact \in BOOLEAN, NEW e, NEW f, Same(exact, e, f)
  PROVE  /\ Keys(e) = Keys(f) /\ e.name = f.name /\ e.remove = f.remove
         /\ Alike(e, f) /\ Same(exact, f, e)
<1>1. CASE exact
  BY <1>1 DEF Same, Alike, NestedAlike
<1>2. CASE ~exact
  <2>1. Alike(e, f)
    BY <1>2 DEF Same
  <2>2. Alike(f, e)
    BY <2>1 DEF Alike, NestedAlike
  <2>3. QED
    BY <1>2, <2>1, <2>2 DEF Same, Alike, Keys
<1>3. QED
  BY <1>1, <1>2

LEMMA SameThrough ==
  ASSUME NEW exact \in BOOLEAN, NEW e, NEW f, NEW g, Same(exact, e, f), Same(exact, f, g)
  PROVE  Same(exact, e, g)
BY DEF Same, Alike, NestedAlike

(* Two lists of one content: each entry of either has one of the other. *)
KeyedList(list) ==
  /\ list \in Seq(ToSet(list)) /\ KeyedOnce(list)
  /\ \A i \in DOMAIN list : list[i].name # Unset
Within(exact, a, b) == \A i \in DOMAIN a : \E j \in DOMAIN b : Same(exact, a[i], b[j])
Twins(exact, a, b) == KeyedList(a) /\ KeyedList(b) /\ Within(exact, a, b) /\ Within(exact, b, a)

LEMMA TwinsTurned ==
  ASSUME NEW exact \in BOOLEAN, NEW a, NEW b, Twins(exact, a, b)
  PROVE  Twins(exact, b, a)
BY DEF Twins

(* The one of an entry is the only one that meets what it meets. *)
LEMMA TwinMeets ==
  ASSUME NEW exact \in BOOLEAN, NEW a, NEW b, Twins(exact, a, b),
         NEW i \in DOMAIN a, NEW k \in DOMAIN b, Same(exact, a[i], b[k]), NEW x
  PROVE  /\ Meet(a[i], x) <=> Meet(b[k], x)
         /\ \A j \in DOMAIN a : Same(exact, a[j], b[k]) => j = i
<1>1. Meet(a[i], x) <=> Meet(b[k], x)
  BY SameKeys DEF Meet
<1>2. ASSUME NEW j \in DOMAIN a, Same(exact, a[j], b[k])
      PROVE  j = i
  <2>1. Keys(a[j]) = Keys(a[i]) /\ a[i].name # Unset
    BY <1>2, SameKeys DEF Twins, KeyedList
  <2>2. Meet(a[j], a[i])
    BY <2>1 DEF Meet, Keys
  <2>3. QED
    BY <2>2 DEF Twins, KeyedList, KeyedOnce
<1>3. QED
  BY <1>1, <1>2

(* So the pairs of two lists are the pairs of their twins. *)
LEMMA TwinsPair ==
  ASSUME NEW exact \in BOOLEAN,
         NEW lower, NEW under, Twins(exact, lower, under),
         NEW higher, NEW over, Twins(exact, higher, over),
         NEW i \in DOMAIN lower, NEW k \in DOMAIN under, Same(exact, lower[i], under[k]),
         NEW j \in DOMAIN higher, NEW l \in DOMAIN over, Same(exact, higher[j], over[l])
  PROVE  OneToOne(lower, higher, i, j) => OneToOne(under, over, k, l)
<1> SUFFICES ASSUME OneToOne(lower, higher, i, j) PROVE OneToOne(under, over, k, l)
  OBVIOUS
<1>1. Keys(lower[i]) = Keys(under[k]) /\ Keys(higher[j]) = Keys(over[l])
  BY SameKeys
<1>2. Meet(under[k], over[l])
  BY <1>1 DEF OneToOne, Meet
<1>3. ASSUME NEW p \in DOMAIN over, Meet(under[k], over[p])
      PROVE  p = l
  <2>1. PICK q \in DOMAIN higher : Same(exact, over[p], higher[q])
    BY DEF Twins, Within
  <2>2. Keys(over[p]) = Keys(higher[q])
    BY <2>1, SameKeys
  <2>3. Meet(lower[i], higher[q])
    BY <1>1, <1>3, <2>2 DEF Meet
  <2>4. q = j
    BY <2>3 DEF OneToOne
  <2>5. Same(exact, over[l], higher[j])
    BY SameKeys
  <2>6. QED
    BY <2>1, <2>4, <2>5, TwinsTurned, TwinMeets
<1>4. ASSUME NEW p \in DOMAIN under, Meet(under[p], over[l])
      PROVE  p = k
  <2>1. PICK q \in DOMAIN lower : Same(exact, under[p], lower[q])
    BY DEF Twins, Within
  <2>2. Keys(under[p]) = Keys(lower[q])
    BY <2>1, SameKeys
  <2>3. Meet(lower[q], higher[j])
    BY <1>1, <1>4, <2>2 DEF Meet
  <2>4. q = i
    BY <2>3 DEF OneToOne
  <2>5. Same(exact, under[k], lower[i])
    BY SameKeys
  <2>6. QED
    BY <2>1, <2>4, <2>5, TwinsTurned, TwinMeets
<1>5. QED
  BY <1>2, <1>3, <1>4 DEF OneToOne

(* The merges of two lists and of their twins. *)
MergedAlike(exact, lower, under, higher, over, merged, blended) ==
  \A i \in DOMAIN lower, k \in DOMAIN under, j \in DOMAIN higher, l \in DOMAIN over :
    Same(exact, lower[i], under[k]) /\ Same(exact, higher[j], over[l]) =>
      Same(exact, merged[<<i, j>>], blended[<<k, l>>])

(* A union of two lists holds nothing that the union of their twins does not. *)
LEMMA TwinsMade ==
  ASSUME NEW exact \in BOOLEAN,
         NEW lower, NEW under, Twins(exact, lower, under),
         NEW higher, NEW over, Twins(exact, higher, over),
         NEW merged, NEW blended, MergedAlike(exact, lower, under, higher, over, merged, blended),
         NEW e, Made(lower, higher, merged, e)
  PROVE  \E f : Made(under, over, blended, f) /\ Same(exact, e, f)
<1>1. /\ \A i \in DOMAIN lower : \E k \in DOMAIN under : Same(exact, lower[i], under[k])
      /\ \A k \in DOMAIN under : \E i \in DOMAIN lower : Same(exact, under[k], lower[i])
      /\ \A j \in DOMAIN higher : \E l \in DOMAIN over : Same(exact, higher[j], over[l])
      /\ \A l \in DOMAIN over : \E j \in DOMAIN higher : Same(exact, over[l], higher[j])
  BY DEF Twins, Within
<1>2. CASE \E i \in DOMAIN lower : e = lower[i] /\ \A j \in DOMAIN higher : ~Meet(lower[i], higher[j])
  <2>1. PICK i \in DOMAIN lower : e = lower[i] /\ \A j \in DOMAIN higher : ~Meet(lower[i], higher[j])
    BY <1>2
  <2>2. PICK k \in DOMAIN under : Same(exact, lower[i], under[k])
    BY <1>1
  <2>3. ASSUME NEW l \in DOMAIN over, Meet(under[k], over[l]) PROVE FALSE
    <3>1. PICK j \in DOMAIN higher : Same(exact, over[l], higher[j])
      BY <1>1
    <3>2. Keys(over[l]) = Keys(higher[j]) /\ Keys(lower[i]) = Keys(under[k])
      BY <2>2, <3>1, SameKeys
    <3>3. QED
      BY <2>1, <2>3, <3>2 DEF Meet
  <2>4. QED
    BY <2>1, <2>2, <2>3 DEF Made
<1>3. CASE \E i \in DOMAIN lower, j \in DOMAIN higher :
             ~higher[j].remove /\ OneToOne(lower, higher, i, j) /\ e = merged[<<i, j>>]
  <2>1. PICK i \in DOMAIN lower, j \in DOMAIN higher :
               ~higher[j].remove /\ OneToOne(lower, higher, i, j) /\ e = merged[<<i, j>>]
    BY <1>3
  <2>2. PICK k \in DOMAIN under : Same(exact, lower[i], under[k])
    BY <1>1
  <2>3. PICK l \in DOMAIN over : Same(exact, higher[j], over[l])
    BY <1>1
  <2>4. OneToOne(under, over, k, l)
    BY <2>1, <2>2, <2>3, TwinsPair
  <2>5. ~over[l].remove
    BY <2>1, <2>3, SameKeys
  <2>6. Same(exact, e, blended[<<k, l>>])
    BY <2>1, <2>2, <2>3 DEF MergedAlike
  <2>7. QED
    BY <2>4, <2>5, <2>6 DEF Made
<1>4. CASE \E j \in DOMAIN higher :
             ~higher[j].remove /\ e = higher[j] /\ \A i \in DOMAIN lower : ~OneToOne(lower, higher, i, j)
  <2>1. PICK j \in DOMAIN higher :
               ~higher[j].remove /\ e = higher[j] /\ \A i \in DOMAIN lower : ~OneToOne(lower, higher, i, j)
    BY <1>4
  <2>2. PICK l \in DOMAIN over : Same(exact, higher[j], over[l])
    BY <1>1
  <2>3. ASSUME NEW k \in DOMAIN under, OneToOne(under, over, k, l) PROVE FALSE
    <3>1. PICK i \in DOMAIN lower : Same(exact, under[k], lower[i])
      BY <1>1
    <3>2. Same(exact, over[l], higher[j])
      BY <2>2, SameKeys
    <3>3. Twins(exact, under, lower) /\ Twins(exact, over, higher)
      BY TwinsTurned
    <3>4. OneToOne(lower, higher, i, j)
      BY <2>3, <3>1, <3>2, <3>3, TwinsPair
    <3>5. QED
      BY <2>1, <3>4
  <2>4. ~over[l].remove
    BY <2>1, <2>2, SameKeys
  <2>5. QED
    BY <2>1, <2>2, <2>3, <2>4 DEF Made
<1>5. QED
  BY <1>2, <1>3, <1>4 DEF Made

LEMMA UnionWithin ==
  ASSUME NEW exact \in BOOLEAN,
         NEW lower, NEW under, Twins(exact, lower, under),
         NEW higher, NEW over, Twins(exact, higher, over),
         NEW merged, NEW blended, MergedAlike(exact, lower, under, higher, over, merged, blended),
         NEW e \in ToSet(UnionKeyed(lower, higher, merged))
  PROVE  \E f \in ToSet(UnionKeyed(under, over, blended)) : Same(exact, e, f)
<1>1. /\ lower \in Seq(ToSet(lower)) /\ under \in Seq(ToSet(under))
      /\ higher \in Seq(ToSet(higher)) /\ over \in Seq(ToSet(over))
  BY DEF Twins, KeyedList
<1>2. /\ Len(lower) \in Nat /\ DOMAIN lower = 1..Len(lower) /\ Len(higher) \in Nat /\ DOMAIN higher = 1..Len(higher)
      /\ Len(under) \in Nat /\ DOMAIN under = 1..Len(under) /\ Len(over) \in Nat /\ DOMAIN over = 1..Len(over)
  BY <1>1, Listed
<1>3. Made(lower, higher, merged, e)
  BY <1>2, UnionMade
<1>4. PICK f : Made(under, over, blended, f) /\ Same(exact, e, f)
  BY <1>3, TwinsMade
<1>5. f \in ToSet(UnionKeyed(under, over, blended))
  BY <1>2, <1>4, UnionMade
<1>6. QED
  BY <1>4, <1>5

(* A nested list folded over another is one again, and never the want of one. *)
LEMMA FieldsFormed ==
  ASSUME NEW names, NEW below \in NestedEntries(names), NEW above \in NestedEntries(names)
  PROVE  MergeFields(below, above) \in NestedEntries(names)
<1> DEFINE r == Over(below.renames, above.renames)
           v == Overlaid(below.fields, above.fields)
           Set == Values \cup {Unset}
<1>1. /\ above \in [name : names, renames : names \cup {Unset}, fields : [Fields -> Set],
                    nested : {Unset}, remove : BOOLEAN]
      /\ below.renames \in names \cup {Unset} /\ below.fields \in [Fields -> Set]
  BY DEF NestedEntries
<1>2. r \in names \cup {Unset}
  BY <1>1 DEF Over
<1>3. v \in [Fields -> Set]
  <2> HIDE DEF Set
  <2>1. above.fields \in [Fields -> Set]
    BY <1>1
  <2>2. v = [k \in Fields |-> Over(below.fields[k], above.fields[k])]
    BY <2>1 DEF Overlaid
  <2>3. \A k \in Fields : Over(below.fields[k], above.fields[k]) \in Set
    BY <1>1, <2>1 DEF Over
  <2>4. QED
    BY <2>2, <2>3
<1>4. MergeFields(below, above) = [above EXCEPT !.renames = r, !.fields = v]
  BY DEF MergeFields
<1> HIDE DEF r, v, Set
<1>5. MergeFields(below, above) \in [name : names, renames : names \cup {Unset}, fields : [Fields -> Set],
                                     nested : {Unset}, remove : BOOLEAN]
  BY <1>1, <1>2, <1>3, <1>4
<1>6. QED
  BY <1>5 DEF NestedEntries, Set

FieldMerges(lower, higher) == [p \in Couples(lower, higher) |-> MergeFields(lower[p[1]], higher[p[2]])]

LEMMA NestedUnionFormed ==
  ASSUME NEW names, NEW lower \in Seq(NestedEntries(names)), NEW higher \in Seq(NestedEntries(names))
  PROVE  UnionKeyed(lower, higher, FieldMerges(lower, higher)) \in Seq(NestedEntries(names))
<1> DEFINE merged == FieldMerges(lower, higher)
           U == UnionKeyed(lower, higher, merged)
<1>1. /\ Len(lower) \in Nat /\ DOMAIN lower = 1..Len(lower) /\ Len(higher) \in Nat /\ DOMAIN higher = 1..Len(higher)
      /\ \A i \in DOMAIN lower : lower[i] \in NestedEntries(names)
      /\ \A j \in DOMAIN higher : higher[j] \in NestedEntries(names)
  OBVIOUS
<1>2. \A i \in DOMAIN lower, j \in DOMAIN higher : merged[<<i, j>>] \in NestedEntries(names)
  <2> TAKE i \in DOMAIN lower, j \in DOMAIN higher
  <2>1. <<i, j>> \in Couples(lower, higher) /\ <<i, j>>[1] = i /\ <<i, j>>[2] = j
    BY DEF Couples
  <2>2. merged[<<i, j>>] = MergeFields(lower[i], higher[j])
    BY <2>1 DEF FieldMerges
  <2>3. QED
    BY <2>2, <1>1, FieldsFormed
<1> HIDE DEF merged, U
<1>3. U \in Seq(ToSet(U))
  BY <1>1, UnionListed DEF U
<1>4. ASSUME NEW e \in ToSet(U) PROVE e \in NestedEntries(names)
  <2>1. Made(lower, higher, merged, e)
    BY <1>1, UnionMade DEF U
  <2>2. QED
    BY <2>1, <1>1, <1>2 DEF Made
<1>5. QED
  BY <1>3, <1>4 DEF U, merged

LEMMA NestedFormed ==
  ASSUME NEW names,
         NEW below \in NestedLists(names) \cup {Unset}, NEW above \in NestedLists(names) \cup {Unset}
  PROVE  /\ MergeNested(below, above) \in NestedLists(names) \cup {Unset}
         /\ below # Unset /\ above # Unset => MergeNested(below, above) \in NestedLists(names)
<1>1. CASE below = Unset \/ above = Unset
  BY <1>1 DEF MergeNested, Over
<1>2. CASE below # Unset /\ above # Unset
  <2>1. /\ below.policy \in Policies \cup {Unset} /\ above.policy \in Policies \cup {Unset}
        /\ below.entries \in Seq(NestedEntries(names)) /\ above.entries \in Seq(NestedEntries(names))
    BY <1>2 DEF NestedLists
  <2>2. MergeNested(below, above) =
          [policy |-> Over(below.policy, above.policy),
           entries |-> UnionKeyed(below.entries, above.entries, FieldMerges(below.entries, above.entries))]
    BY <1>2 DEF MergeNested, FieldMerges
  <2>3. UnionKeyed(below.entries, above.entries, FieldMerges(below.entries, above.entries)) \in Seq(NestedEntries(names))
    BY <2>1, NestedUnionFormed
  <2>4. Over(below.policy, above.policy) \in Policies \cup {Unset}
    BY <2>1 DEF Over
  <2>5. QED
    BY <2>2, <2>3, <2>4 DEF NestedLists
<1>3. QED
  BY <1>1, <1>2

(* Lists of one set are twins. *)
LEMMA TwinsOfOneSet ==
  ASSUME NEW a, KeyedList(a), NEW b, KeyedList(b), ToSet(a) = ToSet(b)
  PROVE  Twins(TRUE, a, b)
<1>1. /\ \A i \in DOMAIN a : a[i] \in ToSet(a)
      /\ \A e \in ToSet(a) : \E i \in DOMAIN a : e = a[i]
      /\ \A i \in DOMAIN b : b[i] \in ToSet(b)
      /\ \A e \in ToSet(b) : \E i \in DOMAIN b : e = b[i]
  BY Listed DEF KeyedList
<1>2. QED
  BY <1>1 DEF Twins, Within, Same

LEMMA NestedKeyed ==
  ASSUME NEW names, Unset \notin names, NEW list \in NestedLists(names), KeyedOnce(list.entries)
  PROVE  KeyedList(list.entries)
<1>1. list.entries \in Seq(NestedEntries(names))
  BY DEF NestedLists
<1>2. \A i \in DOMAIN list.entries : list.entries[i].name \in names
  <2>1. \A i \in DOMAIN list.entries : list.entries[i] \in NestedEntries(names)
    BY <1>1
  <2>2. \A e \in NestedEntries(names) : e.name \in names
    BY DEF NestedEntries
  <2>3. QED
    BY <2>1, <2>2
<1>3. list.entries \in Seq(ToSet(list.entries))
  <2> DEFINE es == list.entries
  <2>1. \A i \in 1..Len(es) : es[i] \in ToSet(es)
    BY <1>1 DEF ToSet
  <2> HIDE DEF es
  <2>2. QED
    BY <1>1, <2>1 DEF es
<1>4. QED
  BY <1>2, <1>3 DEF KeyedList

(* What a list nested in the one and a list nested in the other make together is
   told by what the two hold.                                                 *)
LEMMA NestedMergedAlike ==
  ASSUME NEW names, Unset \notin names, Unset \notin NestedLists(names),
         NEW below \in NestedLists(names) \cup {Unset}, below # Unset => KeyedOnce(below.entries),
         NEW above \in NestedLists(names) \cup {Unset}, above # Unset => KeyedOnce(above.entries),
         NEW under \in NestedLists(names) \cup {Unset}, under # Unset => KeyedOnce(under.entries),
         NEW over \in NestedLists(names) \cup {Unset}, over # Unset => KeyedOnce(over.entries),
         NestedAlike(below, under), NestedAlike(above, over)
  PROVE  NestedAlike(MergeNested(below, above), MergeNested(under, over))
<1>1. (below = Unset <=> under = Unset) /\ (above = Unset <=> over = Unset)
  BY DEF NestedAlike
<1>2. CASE below = Unset
  <2>1. MergeNested(below, above) = above /\ MergeNested(under, over) = over
    BY <1>1, <1>2 DEF MergeNested, Over
  <2>2. QED
    BY <2>1
<1>3. CASE above = Unset
  <2>1. MergeNested(below, above) = below /\ MergeNested(under, over) = under
    BY <1>1, <1>3 DEF MergeNested, Over
  <2>2. QED
    BY <2>1
<1>4. CASE below # Unset /\ above # Unset
  <2> DEFINE one == MergeNested(below, above)
             two == MergeNested(under, over)
             U == UnionKeyed(below.entries, above.entries, FieldMerges(below.entries, above.entries))
             V == UnionKeyed(under.entries, over.entries, FieldMerges(under.entries, over.entries))
  <2>1. one \in NestedLists(names) /\ two \in NestedLists(names)
    BY <1>1, <1>4, NestedFormed
  <2>2. one # Unset /\ two # Unset
    BY <2>1
  <2>3. /\ below.policy = under.policy /\ ToSet(below.entries) = ToSet(under.entries)
        /\ above.policy = over.policy /\ ToSet(above.entries) = ToSet(over.entries)
    BY <1>4 DEF NestedAlike
  <2>4. /\ KeyedList(below.entries) /\ KeyedList(under.entries)
        /\ KeyedList(above.entries) /\ KeyedList(over.entries)
    BY <1>1, <1>4, NestedKeyed
  <2>5. Twins(TRUE, below.entries, under.entries) /\ Twins(TRUE, above.entries, over.entries)
    BY <2>3, <2>4, TwinsOfOneSet
  <2>6. one.policy = two.policy /\ one.entries = U /\ two.entries = V
    BY <1>1, <1>4, <2>3 DEF MergeNested, FieldMerges
  <2> HIDE DEF one, two
  <2>7. ASSUME NEW lower, NEW lower2, NEW higher, NEW higher2
        PROVE  MergedAlike(TRUE, lower, lower2, higher, higher2, FieldMerges(lower, higher), FieldMerges(lower2, higher2))
    <3>1. ASSUME NEW i \in DOMAIN lower, NEW j \in DOMAIN higher
          PROVE  FieldMerges(lower, higher)[<<i, j>>] = MergeFields(lower[i], higher[j])
      <4>1. <<i, j>> \in Couples(lower, higher) /\ <<i, j>>[1] = i /\ <<i, j>>[2] = j
        BY DEF Couples
      <4>2. QED
        BY <4>1 DEF FieldMerges
    <3>2. ASSUME NEW i \in DOMAIN lower2, NEW j \in DOMAIN higher2
          PROVE  FieldMerges(lower2, higher2)[<<i, j>>] = MergeFields(lower2[i], higher2[j])
      <4>1. <<i, j>> \in Couples(lower2, higher2) /\ <<i, j>>[1] = i /\ <<i, j>>[2] = j
        BY DEF Couples
      <4>2. QED
        BY <4>1 DEF FieldMerges
    <3>3. QED
      BY <3>1, <3>2 DEF MergedAlike, Same
  <2>8. ToSet(U) = ToSet(V)
    <3>1. \A e \in ToSet(U) : \E f \in ToSet(V) : Same(TRUE, e, f)
      BY <2>5, <2>7, UnionWithin
    <3>2. Twins(TRUE, under.entries, below.entries) /\ Twins(TRUE, over.entries, above.entries)
      BY <2>5, TwinsTurned
    <3>3. \A e \in ToSet(V) : \E f \in ToSet(U) : Same(TRUE, e, f)
      BY <2>7, <3>2, UnionWithin
    <3> HIDE DEF U, V
    <3>4. QED
      BY <3>1, <3>3 DEF Same
  <2>9. QED
    BY <2>2, <2>6, <2>8 DEF NestedAlike, one, two
<1>5. QED
  BY <1>2, <1>3, <1>4

(* What the layers bring to the fold, and what the fold keeps of it: entries as
   written, each key once, and so the lists nested in them.                   *)
NestedBrought(names, nested) ==
  /\ nested \in NestedLists(names) \cup {Unset}
  /\ nested # Unset => KeyedOnce(nested.entries)
EntryBrought(names, e) == EntryWritten(names, e) /\ NestedBrought(names, e.nested)
Brought(names, es) ==
  /\ es \in Seq(ToSet(es)) /\ KeyedOnce(es)
  /\ \A e \in ToSet(es) : EntryBrought(names, e)

LEMMA NestedOver ==
  ASSUME NEW names, NEW below, NestedBrought(names, below), NEW above, NestedBrought(names, above)
  PROVE  NestedBrought(names, MergeNested(below, above))
<1>1. MergeNested(below, above) \in NestedLists(names) \cup {Unset}
  BY NestedFormed DEF NestedBrought
<1>2. CASE below = Unset \/ above = Unset
  <2>1. MergeNested(below, above) \in {below, above}
    BY <1>2 DEF MergeNested, Over
  <2>2. QED
    BY <2>1
<1>3. CASE below # Unset /\ above # Unset
  <2> DEFINE low == below.entries
             high == above.entries
             merged == FieldMerges(low, high)
  <2>1. low \in Seq(NestedEntries(names)) /\ high \in Seq(NestedEntries(names)) /\ KeyedOnce(low) /\ KeyedOnce(high)
    BY <1>3 DEF NestedBrought, NestedLists
  <2>2. MergeNested(below, above).entries = UnionKeyed(low, high, merged)
    BY <1>3 DEF MergeNested, FieldMerges
  <2>3. \A p \in Couples(low, high) : merged[p] = MergeFields(low[p[1]], high[p[2]]) /\ p[1] \in DOMAIN low /\ p[2] \in DOMAIN high
    BY DEF FieldMerges, Couples
  <2> HIDE DEF low, high, merged
  <2>4. \A j \in DOMAIN high : EntryWritten(names, high[j])
    <3>1. \A j \in DOMAIN high : high[j] \in NestedEntries(names)
      BY <2>1
    <3>2. \A e \in NestedEntries(names) : EntryWritten(names, e)
      BY DEF NestedEntries, EntryWritten
    <3>3. QED
      BY <3>1, <3>2
  <2>5. \A p \in Couples(low, high) : Keys(merged[p]) \subseteq Keys(low[p[1]]) \cup Keys(high[p[2]])
    <3> TAKE p \in Couples(low, high)
    <3>1. EntryWritten(names, high[p[2]])
      BY <2>3, <2>4
    <3>2. Keys(MergeFields(low[p[1]], high[p[2]])) \subseteq Keys(low[p[1]]) \cup Keys(high[p[2]])
      BY <3>1, FieldsMerged
    <3>3. QED
      BY <3>2, <2>3
  <2>6. /\ Len(low) \in Nat /\ DOMAIN low = 1..Len(low) /\ Len(high) \in Nat /\ DOMAIN high = 1..Len(high)
    BY <2>1
  <2>7. KeyedOnce(UnionKeyed(low, high, merged))
    BY <2>1, <2>5, <2>6, UnionKeyedOnce
  <2>8. QED
    BY <1>1, <2>2, <2>7 DEF NestedBrought
<1>4. QED
  BY <1>2, <1>3

LEMMA EntryOver ==
  ASSUME NEW names, NEW below, EntryBrought(names, below), NEW above, EntryBrought(names, above)
  PROVE  LET e == MergeEntry(below, above)
         IN  /\ EntryBrought(names, e) /\ e.remove = above.remove /\ e.name = above.name
             /\ e.renames = Over(below.renames, above.renames)
             /\ e.fields = Overlaid(below.fields, above.fields)
             /\ e.nested = MergeNested(below.nested, above.nested)
             /\ Keys(e) \subseteq Keys(below) \cup Keys(above)
<1> DEFINE m == MergeFields(below, above)
           n == MergeNested(below.nested, above.nested)
           e == MergeEntry(below, above)
<1>1. EntryWritten(names, below) /\ EntryWritten(names, above)
  BY DEF EntryBrought
<1>2. /\ EntryWritten(names, m) /\ m.name = above.name /\ m.renames = Over(below.renames, above.renames)
      /\ m.fields = Overlaid(below.fields, above.fields) /\ m.remove = above.remove
      /\ Keys(m) \subseteq Keys(below) \cup Keys(above)
  <2>1. EntryWritten(names, m)
    BY <1>1, MergedWritten
  <2>2. QED
    BY <1>1, <2>1, FieldsMerged
<1>3. e = [m EXCEPT !.nested = n]
  BY DEF MergeEntry
<1>4. NestedBrought(names, n)
  BY NestedOver DEF EntryBrought
<1> HIDE DEF e, m, n
<1>5. /\ m \in [name : names, renames : names \cup {Unset}, fields : {m.fields}, nested : {m.nested}, remove : BOOLEAN]
      /\ DOMAIN m.fields = Fields
  BY <1>2 DEF EntryWritten
<1>6. /\ e \in [name : names, renames : names \cup {Unset}, fields : {m.fields}, nested : {n}, remove : BOOLEAN]
      /\ e.name = m.name /\ e.renames = m.renames /\ e.fields = m.fields /\ e.remove = m.remove /\ e.nested = n
  BY <1>3, <1>5
<1>7. EntryWritten(names, e) /\ Keys(e) = Keys(m)
  BY <1>5, <1>6 DEF EntryWritten, Keys
<1>8. EntryBrought(names, e)
  BY <1>4, <1>6, <1>7 DEF EntryBrought
<1>9. QED
  BY <1>2, <1>6, <1>7, <1>8 DEF e, n

(* Entries that say the same, merged over entries that say the same. *)
LEMMA OverAlike ==
  ASSUME NEW names, Unset \notin names, Unset \notin NestedLists(names),
         NEW below, EntryBrought(names, below), NEW above, EntryBrought(names, above),
         NEW under, EntryBrought(names, under), NEW over, EntryBrought(names, over),
         Alike(below, under), Alike(above, over)
  PROVE  Alike(MergeEntry(below, above), MergeEntry(under, over))
<1>1. NestedAlike(MergeNested(below.nested, above.nested), MergeNested(under.nested, over.nested))
  <2>1. /\ NestedBrought(names, below.nested) /\ NestedBrought(names, above.nested)
        /\ NestedBrought(names, under.nested) /\ NestedBrought(names, over.nested)
        /\ NestedAlike(below.nested, under.nested) /\ NestedAlike(above.nested, over.nested)
    BY DEF EntryBrought, Alike
  <2>2. QED
    BY <2>1, NestedMergedAlike DEF NestedBrought
<1> DEFINE e == MergeEntry(below, above)
           f == MergeEntry(under, over)
<1>2. /\ e.remove = above.remove /\ e.name = above.name
      /\ e.renames = Over(below.renames, above.renames)
      /\ e.fields = Overlaid(below.fields, above.fields)
      /\ e.nested = MergeNested(below.nested, above.nested)
  BY EntryOver
<1>3. /\ f.remove = over.remove /\ f.name = over.name
      /\ f.renames = Over(under.renames, over.renames)
      /\ f.fields = Overlaid(under.fields, over.fields)
      /\ f.nested = MergeNested(under.nested, over.nested)
  BY EntryOver
<1>4. /\ below.renames = under.renames /\ below.fields = under.fields
      /\ above.name = over.name /\ above.renames = over.renames /\ above.fields = over.fields
      /\ above.remove = over.remove
  BY DEF Alike
<1> HIDE DEF e, f
<1>5. QED
  BY <1>1, <1>2, <1>3, <1>4 DEF Alike, e, f

(* The two ways of merging a pair. *)
PairMerges(layering, lower, higher) ==
  IF layering = "deep" THEN InDepth(lower, higher) ELSE AsWritten(lower, higher)

LEMMA PairMerged ==
  ASSUME NEW layering, NEW lower, NEW higher, NEW i \in DOMAIN lower, NEW j \in DOMAIN higher
  PROVE  PairMerges(layering, lower, higher)[<<i, j>>] =
           IF layering = "deep" THEN MergeEntry(lower[i], higher[j]) ELSE higher[j]
<1>1. <<i, j>> \in Couples(lower, higher) /\ <<i, j>>[1] = i /\ <<i, j>>[2] = j
  BY DEF Couples
<1>2. InDepth(lower, higher)[<<i, j>>] = MergeEntry(lower[i], higher[j])
  BY <1>1 DEF InDepth
<1>3. AsWritten(lower, higher)[<<i, j>>] = higher[j]
  BY <1>1 DEF AsWritten
<1>4. QED
  BY <1>2, <1>3 DEF PairMerges

LEMMA BroughtIs ==
  ASSUME NEW names, Unset \notin names, NEW es, Brought(names, es)
  PROVE  /\ KeyedList(es) /\ Len(es) \in Nat /\ DOMAIN es = 1..Len(es)
         /\ \A i \in DOMAIN es : EntryBrought(names, es[i]) /\ es[i].name \in names
<1>1. es \in Seq(ToSet(es)) /\ KeyedOnce(es) /\ \A e \in ToSet(es) : EntryBrought(names, e)
  BY DEF Brought
<1>2. /\ Len(es) \in Nat /\ DOMAIN es = 1..Len(es) /\ \A i \in DOMAIN es : es[i] \in ToSet(es)
  BY <1>1, Listed
<1>3. \A i \in DOMAIN es : EntryBrought(names, es[i])
  BY <1>1, <1>2
<1>4. \A i \in DOMAIN es : es[i].name \in names
  BY <1>3 DEF EntryBrought, EntryWritten
<1>5. QED
  BY <1>1, <1>2, <1>3, <1>4 DEF KeyedList

(* A union keeps what is brought. *)
LEMMA UnionBrought ==
  ASSUME NEW names, Unset \notin names,
         NEW lower, Brought(names, lower), NEW higher, Brought(names, higher), NEW layering
  PROVE  Brought(names, UnionKeyed(lower, higher, PairMerges(layering, lower, higher)))
<1> DEFINE merged == PairMerges(layering, lower, higher)
           U == UnionKeyed(lower, higher, merged)
<1>1. /\ Len(lower) \in Nat /\ DOMAIN lower = 1..Len(lower) /\ Len(higher) \in Nat /\ DOMAIN higher = 1..Len(higher)
      /\ \A i \in DOMAIN lower : EntryBrought(names, lower[i])
      /\ \A j \in DOMAIN higher : EntryBrought(names, higher[j])
      /\ KeyedOnce(lower) /\ KeyedOnce(higher)
  BY BroughtIs DEF Brought
<1>2. ASSUME NEW i \in DOMAIN lower, NEW j \in DOMAIN higher
      PROVE  /\ EntryBrought(names, merged[<<i, j>>])
             /\ Keys(merged[<<i, j>>]) \subseteq Keys(lower[i]) \cup Keys(higher[j])
  <2>1. merged[<<i, j>>] = IF layering = "deep" THEN MergeEntry(lower[i], higher[j]) ELSE higher[j]
    BY PairMerged
  <2>2. EntryBrought(names, lower[i]) /\ EntryBrought(names, higher[j])
    BY <1>1
  <2> HIDE DEF merged
  <2>3. /\ EntryBrought(names, MergeEntry(lower[i], higher[j]))
        /\ Keys(MergeEntry(lower[i], higher[j])) \subseteq Keys(lower[i]) \cup Keys(higher[j])
    BY <2>2, EntryOver
  <2>4. QED
    BY <2>1, <2>2, <2>3
<1> HIDE DEF merged, U
<1>3. \A p \in Couples(lower, higher) : Keys(merged[p]) \subseteq Keys(lower[p[1]]) \cup Keys(higher[p[2]])
  <2> TAKE p \in Couples(lower, higher)
  <2>1. p[1] \in DOMAIN lower /\ p[2] \in DOMAIN higher /\ p = <<p[1], p[2]>>
    BY DEF Couples
  <2>2. QED
    BY <2>1, <1>2
<1>4. KeyedOnce(U)
  BY <1>1, <1>3, UnionKeyedOnce DEF U
<1>5. U \in Seq(ToSet(U))
  BY <1>1, UnionListed DEF U
<1>6. ASSUME NEW e \in ToSet(U) PROVE EntryBrought(names, e)
  <2>1. Made(lower, higher, merged, e)
    BY <1>1, UnionMade DEF U
  <2>2. QED
    BY <2>1, <1>1, <1>2 DEF Made
<1>7. QED
  BY <1>4, <1>5, <1>6 DEF Brought, U, merged

(* And a union of lists of one content is a list of one content. *)
Matched(names, a, b) ==
  Brought(names, a) /\ Brought(names, b) /\ Within(FALSE, a, b) /\ Within(FALSE, b, a)

LEMMA UnionMatched ==
  ASSUME NEW names, Unset \notin names, Unset \notin NestedLists(names),
         NEW lower, NEW under, Matched(names, lower, under),
         NEW higher, NEW over, Matched(names, higher, over), NEW layering
  PROVE  Matched(names, UnionKeyed(lower, higher, PairMerges(layering, lower, higher)),
                        UnionKeyed(under, over, PairMerges(layering, under, over)))
<1> DEFINE merged == PairMerges(layering, lower, higher)
           blended == PairMerges(layering, under, over)
           U == UnionKeyed(lower, higher, merged)
           V == UnionKeyed(under, over, blended)
<1>1. /\ Brought(names, lower) /\ Brought(names, under) /\ Brought(names, higher) /\ Brought(names, over)
  BY DEF Matched
<1>2. Brought(names, U) /\ Brought(names, V)
  BY <1>1, UnionBrought
<1>3. Twins(FALSE, lower, under) /\ Twins(FALSE, higher, over)
  BY <1>1, BroughtIs DEF Twins, Matched
<1>4. Twins(FALSE, under, lower) /\ Twins(FALSE, over, higher)
  BY <1>3, TwinsTurned
<1>5. ASSUME NEW a, NEW b, NEW c, NEW d, Brought(names, a), Brought(names, b), Brought(names, c), Brought(names, d)
      PROVE  MergedAlike(FALSE, a, b, c, d, PairMerges(layering, a, c), PairMerges(layering, b, d))
  <2>1. ASSUME NEW i \in DOMAIN a, NEW k \in DOMAIN b, NEW j \in DOMAIN c, NEW l \in DOMAIN d,
               Alike(a[i], b[k]), Alike(c[j], d[l])
        PROVE  Alike(PairMerges(layering, a, c)[<<i, j>>], PairMerges(layering, b, d)[<<k, l>>])
    <3>1. PairMerges(layering, a, c)[<<i, j>>] = IF layering = "deep" THEN MergeEntry(a[i], c[j]) ELSE c[j]
      BY PairMerged
    <3>2. PairMerges(layering, b, d)[<<k, l>>] = IF layering = "deep" THEN MergeEntry(b[k], d[l]) ELSE d[l]
      BY PairMerged
    <3>3. /\ EntryBrought(names, a[i]) /\ EntryBrought(names, b[k])
          /\ EntryBrought(names, c[j]) /\ EntryBrought(names, d[l])
      BY <1>5, BroughtIs
    <3>4. Alike(MergeEntry(a[i], c[j]), MergeEntry(b[k], d[l]))
      BY <2>1, <3>3, OverAlike
    <3>5. QED
      BY <2>1, <3>1, <3>2, <3>4
  <2>2. QED
    BY <2>1 DEF MergedAlike, Same
<1>6. MergedAlike(FALSE, lower, under, higher, over, merged, blended)
  BY <1>1, <1>5
<1>7. MergedAlike(FALSE, under, lower, over, higher, blended, merged)
  BY <1>1, <1>5
<1> HIDE DEF merged, blended
<1>8. \A e \in ToSet(U) : \E f \in ToSet(V) : Same(FALSE, e, f)
  BY <1>3, <1>6, UnionWithin
<1>9. \A e \in ToSet(V) : \E f \in ToSet(U) : Same(FALSE, e, f)
  BY <1>4, <1>7, UnionWithin
<1> HIDE DEF U, V
<1>10. ASSUME NEW a, a \in Seq(ToSet(a)), NEW b, b \in Seq(ToSet(b)),
              \A e \in ToSet(a) : \E f \in ToSet(b) : Same(FALSE, e, f)
       PROVE  Within(FALSE, a, b)
  <2>1. \A i \in DOMAIN a : a[i] \in ToSet(a)
    BY <1>10, Listed
  <2>2. \A f \in ToSet(b) : \E j \in DOMAIN b : f = b[j]
    BY <1>10, Listed
  <2>3. QED
    BY <1>10, <2>1, <2>2 DEF Within
<1>11. Within(FALSE, U, V) /\ Within(FALSE, V, U)
  BY <1>2, <1>8, <1>9, <1>10 DEF Brought
<1>12. QED
  BY <1>2, <1>11 DEF Matched, U, V, merged, blended

-----------------------------------------------------------------------------
(* The entries that keep their order: those of some names stand in one list as
   they stand in another.                                                     *)
InLine(N, a, b) ==
  \A i, j \in DOMAIN a : \A k, l \in DOMAIN b :
    i < j /\ a[i].name \in N /\ a[j].name \in N /\ b[k].name = a[i].name /\ b[l].name = a[j].name => k < l
SameNames(a, b) == \A i \in DOMAIN a : \E k \in DOMAIN b : b[k].name = a[i].name
Distinct(a) == \A i, j \in DOMAIN a : a[i].name = a[j].name => i = j

(* Where a union of plain entries places a name: on the lower entry it names, or
   behind them all.                                                           *)
Stands(lower, higher, name, p) ==
  \/ p[1] \in DOMAIN lower /\ lower[p[1]].name = name
  \/ /\ p[1] = Len(lower) + 1 /\ p[2] \in DOMAIN higher /\ higher[p[2]].name = name
     /\ \A i \in DOMAIN lower : lower[i].name # name
Ahead(lower, higher, x, y) ==
  \/ \E i, j \in DOMAIN lower : i < j /\ lower[i].name = x /\ lower[j].name = y
  \/ (\E i \in DOMAIN lower : lower[i].name = x) /\ \A i \in DOMAIN lower : lower[i].name # y
  \/ /\ \A i \in DOMAIN lower : lower[i].name \notin {x, y}
     /\ \E i, j \in DOMAIN higher : i < j /\ higher[i].name = x /\ higher[j].name = y

LEMMA UnionOrdered ==
  ASSUME NEW lower, NEW m \in Nat, DOMAIN lower = 1..m, Len(lower) = m,
         NEW higher, NEW n \in Nat, DOMAIN higher = 1..n, NEW merged,
         NEW U, U = UnionKeyed(lower, higher, merged), NEW k \in DOMAIN U, NEW l \in DOMAIN U, k < l
  PROVE  \E p, q \in Placements(lower, higher) :
           /\ Before(p, q) /\ p \in Nat \X Nat /\ q \in Nat \X Nat
           /\ U[k] = PlaceOver(lower, higher, merged, p) /\ U[l] = PlaceOver(lower, higher, merged, q)
<1> DEFINE P == Placements(lower, higher)
           order == InOrder(P)
<1>1. P \in SUBSET (Nat \X Nat)
  BY Placing
<1>2. IsFiniteSet(P)
  BY Placing
<1>3. U = [c \in DOMAIN order |-> PlaceOver(lower, higher, merged, order[c])]
  BY DEF UnionKeyed
<1> HIDE DEF P
<1>4. /\ \A c \in DOMAIN order : order[c] \in P
      /\ \A c, d \in DOMAIN order : c < d => Before(order[c], order[d])
  BY <1>1, <1>2, InOrderLists
<1> HIDE DEF order
<1>5. order[k] \in P /\ order[l] \in P /\ Before(order[k], order[l])
  BY <1>3, <1>4
<1>6. U[k] = PlaceOver(lower, higher, merged, order[k]) /\ U[l] = PlaceOver(lower, higher, merged, order[l])
  BY <1>3
<1>7. QED
  BY <1>1, <1>5, <1>6 DEF P

LEMMA PlainStands ==
  ASSUME NEW lower, NEW m \in Nat, DOMAIN lower = 1..m, Len(lower) = m, KeyedOnce(lower), Plain(lower),
         NEW higher, NEW n \in Nat, DOMAIN higher = 1..n, KeyedOnce(higher), Plain(higher), NEW merged,
         \A i \in DOMAIN lower, j \in DOMAIN higher : merged[<<i, j>>].name = higher[j].name,
         NEW p \in Placements(lower, higher)
  PROVE  Stands(lower, higher, PlaceOver(lower, higher, merged, p).name, p)
<1> DEFINE item == PlaceOver(lower, higher, merged, p)
<1>1. \/ Stays(lower, higher, p) /\ item = lower[p[1]]
      \/ Pairs(lower, higher, p) /\ item = merged[p]
      \/ Joins(lower, higher, p) /\ item = higher[p[2]]
  BY Placing
<1>2. p \in Nat \X Nat
  BY Placing
<1>3. p = <<p[1], p[2]>>
  BY <1>2
<1> HIDE DEF item
<1>4. CASE Stays(lower, higher, p) /\ item = lower[p[1]]
  BY <1>4 DEF Stays, Stands, item
<1>5. CASE Pairs(lower, higher, p) /\ item = merged[p]
  <2>1. p[1] \in DOMAIN lower /\ p[2] \in DOMAIN higher /\ Meet(lower[p[1]], higher[p[2]])
    BY <1>5 DEF Pairs
  <2>2. item.name = higher[p[2]].name
    BY <1>3, <1>5, <2>1
  <2>3. lower[p[1]].name = higher[p[2]].name
    BY <2>1, PlainMeet DEF Plain
  <2>4. QED
    BY <2>1, <2>2, <2>3 DEF Stands, item
<1>6. CASE Joins(lower, higher, p) /\ item = higher[p[2]]
  <2> DEFINE j == p[2]
             slot == Slot(lower, higher[j])
  <2>1. j \in DOMAIN higher /\ (slot = 0 \/ ~Paired(lower, higher, lower[slot], higher[j]))
    BY <1>6 DEF Joins
  <2>2. slot # 0 => slot \in DOMAIN lower /\ Meet(lower[slot], higher[j])
    BY SlotClaimed
  <2>3. slot = 0
    <3> HIDE DEF slot, j
    <3>1. QED
      BY <2>1, <2>2, PlainPaired
  <2>4. \A i \in DOMAIN lower : ~Meet(lower[i], higher[j])
    BY <2>3, SlotClaimed
  <2>5. \A i \in DOMAIN lower : lower[i].name # higher[j].name
    <3> HIDE DEF slot, j
    <3>1. QED
      BY <2>1, <2>4, PlainMeet DEF Plain
  <2>6. p[1] = Len(lower) + 1
    <3>1. p[2] # 0
      BY <2>1
    <3>2. \E i \in DOMAIN higher : p = <<IF Slot(lower, higher[i]) = 0 THEN Len(lower) + 1 ELSE Slot(lower, higher[i]), i>>
      <4>1. p \notin {<<i, 0>> : i \in {i \in DOMAIN lower : Claims(lower[i], higher) = 0}}
        BY <3>1
      <4>2. QED
        BY <4>1 DEF Placements
    <3>3. QED
      BY <3>2, <2>3
  <2>7. QED
    BY <1>6, <2>1, <2>5, <2>6 DEF Stands, item
<1>7. QED
  BY <1>1, <1>4, <1>5, <1>6

LEMMA AheadIs ==
  ASSUME NEW lower, NEW m \in Nat, DOMAIN lower = 1..m, Len(lower) = m, NEW higher, NEW n \in Nat, DOMAIN higher = 1..n,
         NEW p \in Nat \X Nat, NEW q \in Nat \X Nat, Before(p, q), NEW x, NEW y, x # y,
         Stands(lower, higher, x, p), Stands(lower, higher, y, q)
  PROVE  Ahead(lower, higher, x, y)
<1>1. /\ p[1] \in Nat /\ p[2] \in Nat /\ q[1] \in Nat /\ q[2] \in Nat
      /\ p[1] < q[1] \/ (p[1] = q[1] /\ p[2] < q[2])
  BY DEF Before
<1>2. CASE p[1] \in DOMAIN lower /\ lower[p[1]].name = x /\ q[1] \in DOMAIN lower /\ lower[q[1]].name = y
  <2>1. p[1] < q[1]
    BY <1>1, <1>2
  <2>2. QED
    BY <1>2, <2>1 DEF Ahead
<1>3. CASE /\ p[1] \in DOMAIN lower /\ lower[p[1]].name = x
           /\ \A i \in DOMAIN lower : lower[i].name # y
  BY <1>3 DEF Ahead
<1>4. CASE p[1] = Len(lower) + 1 /\ q[1] \in DOMAIN lower
  BY <1>1, <1>4
<1>5. CASE /\ p[1] = Len(lower) + 1 /\ p[2] \in DOMAIN higher /\ higher[p[2]].name = x
           /\ \A i \in DOMAIN lower : lower[i].name # x
           /\ q[1] = Len(lower) + 1 /\ q[2] \in DOMAIN higher /\ higher[q[2]].name = y
           /\ \A i \in DOMAIN lower : lower[i].name # y
  <2>1. p[2] < q[2]
    BY <1>1, <1>5
  <2>2. QED
    BY <1>5, <2>1 DEF Ahead
<1>6. QED
  BY <1>2, <1>3, <1>4, <1>5 DEF Stands

LEMMA AheadSame ==
  ASSUME NEW N, NEW x \in N, NEW y \in N,
         NEW lower, NEW under, InLine(N, lower, under), SameNames(lower, under), SameNames(under, lower),
         NEW higher, NEW over, InLine(N, higher, over), SameNames(higher, over),
         Ahead(lower, higher, x, y)
  PROVE  Ahead(under, over, x, y)
<1>1. CASE \E i, j \in DOMAIN lower : i < j /\ lower[i].name = x /\ lower[j].name = y
  <2>1. PICK i \in DOMAIN lower, j \in DOMAIN lower : i < j /\ lower[i].name = x /\ lower[j].name = y
    BY <1>1
  <2>2. PICK k \in DOMAIN under : under[k].name = x
    BY <2>1 DEF SameNames
  <2>3. PICK l \in DOMAIN under : under[l].name = y
    BY <2>1 DEF SameNames
  <2>4. k < l
    BY <2>1, <2>2, <2>3 DEF InLine
  <2>5. QED
    BY <2>2, <2>3, <2>4 DEF Ahead
<1>2. CASE (\E i \in DOMAIN lower : lower[i].name = x) /\ \A i \in DOMAIN lower : lower[i].name # y
  <2>1. \E k \in DOMAIN under : under[k].name = x
    BY <1>2 DEF SameNames
  <2>2. \A k \in DOMAIN under : under[k].name # y
    BY <1>2 DEF SameNames
  <2>3. QED
    BY <2>1, <2>2 DEF Ahead
<1>3. CASE /\ \A i \in DOMAIN lower : lower[i].name \notin {x, y}
           /\ \E i, j \in DOMAIN higher : i < j /\ higher[i].name = x /\ higher[j].name = y
  <2>1. PICK i \in DOMAIN higher, j \in DOMAIN higher : i < j /\ higher[i].name = x /\ higher[j].name = y
    BY <1>3
  <2>2. PICK k \in DOMAIN over : over[k].name = x
    BY <2>1 DEF SameNames
  <2>3. PICK l \in DOMAIN over : over[l].name = y
    BY <2>1 DEF SameNames
  <2>4. k < l
    BY <2>1, <2>2, <2>3 DEF InLine
  <2>5. \A c \in DOMAIN under : under[c].name \notin {x, y}
    BY <1>3 DEF SameNames
  <2>6. QED
    BY <2>2, <2>3, <2>4, <2>5 DEF Ahead
<1>4. QED
  BY <1>1, <1>2, <1>3 DEF Ahead

LEMMA AheadOnce ==
  ASSUME NEW lower, NEW m \in Nat, DOMAIN lower = 1..m, Distinct(lower),
         NEW higher, NEW n \in Nat, DOMAIN higher = 1..n, Distinct(higher),
         NEW x, NEW y, Ahead(lower, higher, x, y), Ahead(lower, higher, y, x)
  PROVE  FALSE
<1>1. \A i, j, k, l \in DOMAIN lower :
        lower[i].name = x /\ lower[j].name = y /\ lower[k].name = y /\ lower[l].name = x => i = l /\ j = k
  BY DEF Distinct
<1>2. \A i, j, k, l \in DOMAIN higher :
        higher[i].name = x /\ higher[j].name = y /\ higher[k].name = y /\ higher[l].name = x => i = l /\ j = k
  BY DEF Distinct
<1>3. QED
  BY <1>1, <1>2 DEF Ahead

LEMMA PlainDistinct ==
  ASSUME NEW list, KeyedOnce(list), Plain(list)
  PROVE  Distinct(list)
BY PlainMeet DEF KeyedOnce, Plain, Distinct

(* A union keeps in line what its lists have in line. *)
LEMMA UnionInLine ==
  ASSUME NEW names, Unset \notin names, NEW N, NEW layering,
         NEW lower, NEW under, Brought(names, lower), Brought(names, under), Plain(lower), Plain(under),
         SameNames(lower, under), SameNames(under, lower), InLine(N, lower, under),
         NEW higher, NEW over, Brought(names, higher), Brought(names, over), Plain(higher), Plain(over),
         SameNames(higher, over), SameNames(over, higher), InLine(N, higher, over)
  PROVE  InLine(N, UnionKeyed(lower, higher, PairMerges(layering, lower, higher)),
                   UnionKeyed(under, over, PairMerges(layering, under, over)))
<1> DEFINE Union(a, b) == UnionKeyed(a, b, PairMerges(layering, a, b))
<1>1. ASSUME NEW a, NEW b, Brought(names, a), Brought(names, b), Plain(a), Plain(b),
             NEW k \in DOMAIN Union(a, b), NEW l \in DOMAIN Union(a, b), k < l,
             Union(a, b)[k].name # Union(a, b)[l].name
      PROVE  Ahead(a, b, Union(a, b)[k].name, Union(a, b)[l].name)
  <2> DEFINE merged == PairMerges(layering, a, b)
             U == Union(a, b)
  <2>1. /\ Len(a) \in Nat /\ DOMAIN a = 1..Len(a) /\ Len(b) \in Nat /\ DOMAIN b = 1..Len(b)
        /\ KeyedOnce(a) /\ KeyedOnce(b)
        /\ \A i \in DOMAIN a : EntryBrought(names, a[i])
        /\ \A i \in DOMAIN b : EntryBrought(names, b[i])
    BY <1>1, BroughtIs DEF Brought
  <2>2. \A i \in DOMAIN a, j \in DOMAIN b : merged[<<i, j>>].name = b[j].name
    <3> TAKE i \in DOMAIN a, j \in DOMAIN b
    <3>1. merged[<<i, j>>] = IF layering = "deep" THEN MergeEntry(a[i], b[j]) ELSE b[j]
      BY PairMerged
    <3>2. EntryBrought(names, a[i]) /\ EntryBrought(names, b[j])
      BY <2>1
    <3>3. MergeEntry(a[i], b[j]).name = b[j].name
      BY <3>2, EntryOver
    <3>4. QED
      BY <3>1, <3>3
  <2> HIDE DEF merged
  <2>3. PICK p \in Placements(a, b), q \in Placements(a, b) :
          /\ Before(p, q) /\ p \in Nat \X Nat /\ q \in Nat \X Nat
          /\ U[k] = PlaceOver(a, b, merged, p) /\ U[l] = PlaceOver(a, b, merged, q)
    <3> DEFINE W == UnionKeyed(a, b, merged)
    <3>1. U = W /\ k \in DOMAIN W /\ l \in DOMAIN W
      BY DEF merged
    <3> HIDE DEF W, U
    <3>2. \E p, q \in Placements(a, b) :
          /\ Before(p, q) /\ p \in Nat \X Nat /\ q \in Nat \X Nat
          /\ W[k] = PlaceOver(a, b, merged, p) /\ W[l] = PlaceOver(a, b, merged, q)
      BY <1>1, <2>1, <3>1, UnionOrdered DEF W
    <3>3. QED
      BY <3>1, <3>2
  <2>4. Stands(a, b, U[k].name, p) /\ Stands(a, b, U[l].name, q)
    <3> HIDE DEF U
    <3>1. QED
      BY <1>1, <2>1, <2>2, <2>3, PlainStands
  <2>5. U[k].name # U[l].name
    BY <1>1
  <2> HIDE DEF U
  <2>6. Ahead(a, b, U[k].name, U[l].name)
    BY <2>1, <2>3, <2>4, <2>5, AheadIs
  <2>7. QED
    BY <2>6 DEF U
<1>2. /\ Brought(names, Union(lower, higher)) /\ Brought(names, Union(under, over))
  BY UnionBrought
<1>3. /\ Len(under) \in Nat /\ DOMAIN under = 1..Len(under) /\ Len(over) \in Nat /\ DOMAIN over = 1..Len(over)
      /\ KeyedOnce(under) /\ KeyedOnce(over) /\ Distinct(under) /\ Distinct(over)
  BY BroughtIs, PlainDistinct DEF Brought
<1> DEFINE U == Union(lower, higher)
           V == Union(under, over)
<1>4. SUFFICES ASSUME NEW i \in DOMAIN U, NEW j \in DOMAIN U, NEW k \in DOMAIN V, NEW l \in DOMAIN V,
                      i < j, U[i].name \in N, U[j].name \in N, V[k].name = U[i].name, V[l].name = U[j].name
               PROVE  k < l
  BY DEF InLine
<1>5. U[i].name # U[j].name
  <2>0. ASSUME NEW list, Brought(names, list)
        PROVE  /\ KeyedOnce(list) /\ \A c \in DOMAIN list : list[c].name \in names
               /\ DOMAIN list \in SUBSET Nat
    BY <2>0, BroughtIs DEF Brought
  <2>1. KeyedOnce(U) /\ (\A c \in DOMAIN U : U[c].name \in names) /\ DOMAIN U \in SUBSET Nat
    BY <1>2, <2>0
  <2>2. ~Meet(U[i], U[j])
    BY <2>1, <1>4 DEF KeyedOnce
  <2> HIDE DEF U
  <2>3. QED
    BY <2>1, <2>2, <1>4 DEF Meet, Keys
<1>6. Ahead(lower, higher, U[i].name, U[j].name)
  BY <1>1, <1>4, <1>5
<1>7. Ahead(under, over, U[i].name, U[j].name)
  <2> HIDE DEF U
  <2>1. QED
    BY <1>4, <1>6, AheadSame
<1>8. ~(l < k)
  <2>1. ASSUME l < k PROVE FALSE
    <3>1. V[l].name # V[k].name
      BY <1>4, <1>5
    <3>2. Ahead(under, over, V[l].name, V[k].name)
      BY <2>1, <3>1, <1>1
    <3>3. Ahead(under, over, U[j].name, U[i].name)
      BY <3>2, <1>4
    <3> HIDE DEF U, V
    <3>4. QED
      BY <3>3, <1>3, <1>7, AheadOnce
  <2>2. QED
    BY <2>1
<1>9. k # l
  BY <1>4, <1>5
<1>10. k \in Nat /\ l \in Nat
  <2>1. DOMAIN V \in SUBSET Nat
    <3> HIDE DEF Union
    <3>1. QED
      BY <1>2, BroughtIs
  <2>2. QED
    BY <2>1
<1>11. QED
  BY <1>8, <1>9, <1>10

(* What one list and its twin have in common through the fold: the policy, the
   content, and the order of the entries that some layer pins.                *)
PinnedIn(N, es) == \A i \in DOMAIN es : IsPinned(es[i]) => es[i].name \in N
RankKept(N, a, b) == Plain(a) /\ Plain(b) /\ InLine(N, a, b) /\ PinnedIn(N, a) /\ PinnedIn(N, b)
ListKept(names, N, s, a, b) ==
  /\ a.policy = b.policy /\ Matched(names, a.entries, b.entries)
  /\ s = Ranked => RankKept(N, a.entries, b.entries)

LEMMA MatchedNames ==
  ASSUME NEW names, NEW a, NEW b, Matched(names, a, b)
  PROVE  SameNames(a, b) /\ SameNames(b, a)
BY DEF Matched, Within, Same, Alike, SameNames

LEMMA UnionPinned ==
  ASSUME NEW names, Unset \notin names, NEW N, NEW layering,
         NEW lower, Brought(names, lower), Plain(lower), PinnedIn(N, lower),
         NEW higher, Brought(names, higher), Plain(higher), PinnedIn(N, higher),
         NEW U, U = UnionKeyed(lower, higher, PairMerges(layering, lower, higher))
  PROVE  Plain(U) /\ PinnedIn(N, U)
<1> DEFINE merged == PairMerges(layering, lower, higher)
<1>1. /\ Len(lower) \in Nat /\ DOMAIN lower = 1..Len(lower) /\ Len(higher) \in Nat /\ DOMAIN higher = 1..Len(higher)
      /\ \A i \in DOMAIN lower : EntryBrought(names, lower[i]) /\ lower[i].name \in names
      /\ \A j \in DOMAIN higher : EntryBrought(names, higher[j]) /\ higher[j].name \in names
  BY BroughtIs
<1>2. ASSUME NEW i \in DOMAIN lower, NEW j \in DOMAIN higher, Meet(lower[i], higher[j])
      PROVE  LET e == merged[<<i, j>>]
             IN  e.name # Unset /\ e.renames = Unset /\ (IsPinned(e) => e.name \in N)
  <2> DEFINE e == MergeEntry(lower[i], higher[j])
  <2>1. merged[<<i, j>>] = IF layering = "deep" THEN e ELSE higher[j]
    BY PairMerged
  <2>2. EntryBrought(names, lower[i]) /\ EntryBrought(names, higher[j])
    BY <1>1
  <2> HIDE DEF merged
  <2>3. /\ e.name = higher[j].name /\ e.renames = Over(lower[i].renames, higher[j].renames)
        /\ e.fields = Overlaid(lower[i].fields, higher[j].fields)
    BY <2>2, EntryOver
  <2> HIDE DEF e
  <2>4. lower[i].renames = Unset /\ higher[j].renames = Unset /\ lower[i].name = higher[j].name
        /\ higher[j].name # Unset
    BY <1>2, PlainMeet DEF Plain
  <2>5. e.renames = Unset
    BY <2>3, <2>4 DEF Over
  <2>6. "pinned" \in DOMAIN higher[j].fields
    BY <2>2, LayersAssumption DEF EntryBrought, EntryWritten
  <2>7. e.fields["pinned"] = Over(lower[i].fields["pinned"], higher[j].fields["pinned"])
    BY <2>3, <2>6 DEF Overlaid
  <2>8. IsPinned(e) => IsPinned(lower[i]) \/ IsPinned(higher[j])
    BY <2>7 DEF Over, IsPinned
  <2>9. IsPinned(e) => e.name \in N
    BY <2>3, <2>4, <2>8 DEF PinnedIn
  <2>10. QED
    BY <2>1, <2>3, <2>4, <2>5, <2>9 DEF PinnedIn
<1> HIDE DEF merged
<1>3. ASSUME NEW e \in ToSet(U)
      PROVE  e.name # Unset /\ e.renames = Unset /\ (IsPinned(e) => e.name \in N)
  <2>1. Made(lower, higher, merged, e)
    BY <1>1, UnionMade DEF merged
  <2>2. \A i \in DOMAIN lower, j \in DOMAIN higher : OneToOne(lower, higher, i, j) => Meet(lower[i], higher[j])
    BY DEF OneToOne
  <2>3. QED
    BY <2>1, <2>2, <1>2 DEF Made, Plain, PinnedIn
<1>4. \A i \in DOMAIN U : U[i] \in ToSet(U)
  <2>1. Brought(names, U)
    BY UnionBrought
  <2>2. QED
    BY <2>1, Listed DEF Brought
<1>5. QED
  BY <1>3, <1>4 DEF Plain, PinnedIn

LEMMA ListKeptOn ==
  ASSUME NEW names, Unset \notin names, Unset \notin NestedLists(names), NEW N, NEW s,
         NEW lower, NEW under, ListKept(names, N, s, lower, under),
         NEW higher, NEW over, ListKept(names, N, s, higher, over), NEW layering
  PROVE  ListKept(names, N, s, MergeList(lower, higher, layering), MergeList(under, over, layering))
<1> DEFINE U == UnionKeyed(lower.entries, higher.entries, PairMerges(layering, lower.entries, higher.entries))
           V == UnionKeyed(under.entries, over.entries, PairMerges(layering, under.entries, over.entries))
           one == MergeList(lower, higher, layering)
           two == MergeList(under, over, layering)
<1>1. /\ one.policy = Over(lower.policy, higher.policy)
      /\ one.entries = IF layering = "replace" THEN higher.entries ELSE U
  BY DEF MergeList, PairMerges
<1>2. /\ two.policy = Over(under.policy, over.policy)
      /\ two.entries = IF layering = "replace" THEN over.entries ELSE V
  BY DEF MergeList, PairMerges
<1>3. lower.policy = under.policy /\ higher.policy = over.policy
      /\ Matched(names, lower.entries, under.entries) /\ Matched(names, higher.entries, over.entries)
  BY DEF ListKept
<1>4. Matched(names, U, V)
  BY <1>3, UnionMatched
<1>5. ASSUME s = Ranked PROVE RankKept(N, U, V)
  <2>1. /\ Plain(lower.entries) /\ Plain(under.entries) /\ InLine(N, lower.entries, under.entries)
        /\ PinnedIn(N, lower.entries) /\ PinnedIn(N, under.entries)
        /\ Plain(higher.entries) /\ Plain(over.entries) /\ InLine(N, higher.entries, over.entries)
        /\ PinnedIn(N, higher.entries) /\ PinnedIn(N, over.entries)
    BY <1>5 DEF ListKept, RankKept
  <2>2. /\ Brought(names, lower.entries) /\ Brought(names, under.entries)
        /\ Brought(names, higher.entries) /\ Brought(names, over.entries)
    BY <1>3 DEF Matched
  <2>3. Plain(U) /\ PinnedIn(N, U)
    BY <2>1, <2>2, UnionPinned
  <2>4. Plain(V) /\ PinnedIn(N, V)
    BY <2>1, <2>2, UnionPinned
  <2>5. /\ SameNames(lower.entries, under.entries) /\ SameNames(under.entries, lower.entries)
        /\ SameNames(higher.entries, over.entries) /\ SameNames(over.entries, higher.entries)
    BY <1>3, MatchedNames
  <2>6. InLine(N, U, V)
    BY <2>1, <2>2, <2>5, UnionInLine
  <2> HIDE DEF U, V
  <2>7. QED
    BY <2>3, <2>4, <2>6 DEF RankKept
<1> HIDE DEF U, V, one, two
<1>6. ASSUME layering = "replace" PROVE ListKept(names, N, s, one, two)
  <2>1. one.entries = higher.entries /\ two.entries = over.entries /\ one.policy = two.policy
    BY <1>1, <1>2, <1>3, <1>6
  <2>2. s = Ranked => RankKept(N, higher.entries, over.entries)
    BY DEF ListKept
  <2>3. QED
    BY <2>1, <2>2, <1>3 DEF ListKept
<1>7. ASSUME layering # "replace" PROVE ListKept(names, N, s, one, two)
  <2>1. one.entries = U /\ two.entries = V /\ one.policy = two.policy
    BY <1>1, <1>2, <1>3, <1>7
  <2>2. QED
    BY <2>1, <1>4, <1>5 DEF ListKept
<1>8. QED
  BY <1>6, <1>7 DEF one, two

(* A layer and its twin, a document and its twin. *)
LayerKept(names, N, layer, turned) ==
  /\ DOMAIN turned.lists = DOMAIN layer.lists /\ turned.mapping = layer.mapping
  /\ \A s \in DOMAIN layer.lists :
       /\ ListKept(names, N, s, layer.lists[s], turned.lists[s])
       /\ \A layering : Layering(turned, turned.lists[s], layering) = Layering(layer, layer.lists[s], layering)
ListRecord(list) == list \in [policy : {list.policy}, entries : {list.entries}]
DocumentKept(names, N, document, turned) ==
  /\ document \in [lists : {document.lists}, mapping : {turned.mapping}]
  /\ turned \in [lists : {turned.lists}, mapping : {turned.mapping}]
  /\ document.lists = [s \in DOMAIN turned.lists |-> document.lists[s]]
  /\ turned.lists = [s \in DOMAIN turned.lists |-> turned.lists[s]]
  /\ \A s \in DOMAIN turned.lists :
       /\ ListRecord(document.lists[s]) /\ ListRecord(turned.lists[s])
       /\ ListKept(names, N, s, document.lists[s], turned.lists[s])

LEMMA NothingKept ==
  ASSUME NEW names, NEW N, NEW s
  PROVE  ListKept(names, N, s, NoList, NoList)
<1>1. /\ NoList.policy = Unset /\ NoList.entries = <<>> /\ DOMAIN NoList.entries = {}
      /\ NoList.entries \in Seq(ToSet(NoList.entries)) /\ ToSet(NoList.entries) = {}
  BY DEF NoList, ToSet
<1>2. QED
  BY <1>1 DEF ListKept, Matched, Brought, KeyedOnce, Within, RankKept, Plain, InLine, PinnedIn

LEMMA EmptyKept ==
  ASSUME NEW names, NEW N
  PROVE  DocumentKept(names, N, EmptyFold, EmptyFold)
<1>1. /\ EmptyFold \in [lists : {<<>>}, mapping : {Unset}]
      /\ EmptyFold.lists = <<>> /\ EmptyFold.mapping = Unset
  BY DEF EmptyFold
<1>2. DOMAIN EmptyFold.lists = {} /\ <<>> = [s \in {} |-> EmptyFold.lists[s]]
  BY <1>1
<1>3. QED
  BY <1>1, <1>2 DEF DocumentKept

LEMMA StepKept ==
  ASSUME NEW names, Unset \notin names, Unset \notin NestedLists(names), NEW N,
         NEW document, NEW other, DocumentKept(names, N, document, other),
         NEW layer, NEW turned, LayerKept(names, N, layer, turned), NEW layering
  PROVE  DocumentKept(names, N, MergeStep(document, layer, layering), MergeStep(other, turned, layering))
<1> DEFINE D == DOMAIN document.lists \cup DOMAIN layer.lists
           lists == [s \in D |->
                       IF s \notin DOMAIN layer.lists THEN document.lists[s]
                       ELSE MergeList(Below(document.lists, s), layer.lists[s], Layering(layer, layer.lists[s], layering))]
           others == [s \in D |->
                        IF s \notin DOMAIN layer.lists THEN other.lists[s]
                        ELSE MergeList(Below(other.lists, s), turned.lists[s], Layering(layer, layer.lists[s], layering))]
           mapping == MergeMapping(document.mapping, layer.mapping)
           one == MergeStep(document, layer, layering)
           two == MergeStep(other, turned, layering)
<1>1. DOMAIN document.lists = DOMAIN other.lists /\ document.mapping = other.mapping
  BY DEF DocumentKept
<1>2. DOMAIN turned.lists = DOMAIN layer.lists /\ turned.mapping = layer.mapping
      /\ \A s \in DOMAIN layer.lists :
           Layering(turned, turned.lists[s], layering) = Layering(layer, layer.lists[s], layering)
  BY DEF LayerKept
<1>3. one = [lists |-> lists, mapping |-> mapping]
  BY DEF MergeStep
<1>4. two = [lists |-> others, mapping |-> mapping]
  BY <1>1, <1>2 DEF MergeStep
<1>5. ASSUME NEW s \in D
      PROVE  /\ ListRecord(lists[s]) /\ ListRecord(others[s])
             /\ ListKept(names, N, s, lists[s], others[s])
  <2>1. CASE s \notin DOMAIN layer.lists
    <3>1. lists[s] = document.lists[s] /\ others[s] = other.lists[s] /\ s \in DOMAIN other.lists
      BY <1>1, <2>1
    <3> HIDE DEF lists, others
    <3>2. QED
      BY <3>1 DEF DocumentKept
  <2>2. CASE s \in DOMAIN layer.lists
    <3> DEFINE ll == Layering(layer, layer.lists[s], layering)
               low == Below(document.lists, s)
               low2 == Below(other.lists, s)
    <3>1. lists[s] = MergeList(low, layer.lists[s], ll) /\ others[s] = MergeList(low2, turned.lists[s], ll)
      BY <2>2
    <3>2. ListKept(names, N, s, low, low2)
      <4>1. CASE s \in DOMAIN document.lists
        BY <4>1, <1>1 DEF Below, DocumentKept
      <4>2. CASE s \notin DOMAIN document.lists
        BY <4>2, <1>1, NothingKept DEF Below
      <4>3. QED
        BY <4>1, <4>2
    <3>3. ListKept(names, N, s, layer.lists[s], turned.lists[s])
      BY <2>2 DEF LayerKept
    <3> HIDE DEF low, low2, ll, lists, others
    <3>4. ListKept(names, N, s, MergeList(low, layer.lists[s], ll), MergeList(low2, turned.lists[s], ll))
      BY <3>2, <3>3, ListKeptOn
    <3>5. ListRecord(MergeList(low, layer.lists[s], ll)) /\ ListRecord(MergeList(low2, turned.lists[s], ll))
      BY DEF MergeList, ListRecord
    <3>6. QED
      BY <3>1, <3>4, <3>5
  <2>3. QED
    BY <2>1, <2>2
<1>6. DOMAIN lists = D /\ DOMAIN others = D /\ lists = [s \in D |-> lists[s]] /\ others = [s \in D |-> others[s]]
  OBVIOUS
<1> HIDE DEF lists, others, mapping, one, two, D
<1>7. /\ one \in [lists : {lists}, mapping : {mapping}] /\ one.lists = lists
      /\ two \in [lists : {others}, mapping : {mapping}] /\ two.lists = others /\ two.mapping = mapping
  BY <1>3, <1>4
<1>8. QED
  BY <1>5, <1>6, <1>7 DEF DocumentKept, one, two

-----------------------------------------------------------------------------
(* The layers with their lists turned. *)
PinnedNames == {name \in case.names : EverPinned(Ranked, name)}

LEMMA TurnedOver ==
  ASSUME NEW S, NEW list \in Seq(S)
  PROVE  /\ Reverse(list) \in Seq(S) /\ ToSet(Reverse(list)) = ToSet(list)
         /\ KeyedOnce(list) => KeyedOnce(Reverse(list))
<1> DEFINE n == Len(list)
           back == Reverse(list)
<1>1. n \in Nat /\ DOMAIN list = 1..n /\ \A i \in 1..n : list[i] \in S
  OBVIOUS
<1>2. back = [i \in 1..n |-> list[(n - i) + 1]]
  BY DEF Reverse
<1> HIDE DEF n, back
<1>3. \A i \in 1..n : (n - i) + 1 \in 1..n /\ (n - ((n - i) + 1)) + 1 = i
  BY <1>1
<1>4. back \in Seq(S)
  <2>1. back \in [1..n -> S]
    BY <1>1, <1>2, <1>3
  <2>2. QED
    BY <1>1, <2>1
<1>5. DOMAIN back = 1..n
  BY <1>2
<1>6. ToSet(back) = ToSet(list)
  <2>1. \A i \in DOMAIN back : \E k \in DOMAIN list : back[i] = list[k]
    BY <1>1, <1>2, <1>3
  <2>2. \A k \in DOMAIN list : \E i \in DOMAIN back : back[i] = list[k]
    <3> TAKE k \in DOMAIN list
    <3>1. (n - k) + 1 \in 1..n /\ (n - ((n - k) + 1)) + 1 = k
      BY <1>1, <1>3
    <3>2. QED
      BY <3>1, <1>2
  <2>3. QED
    BY <2>1, <2>2 DEF ToSet
<1>7. ASSUME KeyedOnce(list) PROVE KeyedOnce(back)
  <2>1. \A i, k \in 1..n : i # k => (n - i) + 1 # (n - k) + 1
    BY <1>1
  <2>2. QED
    BY <1>1, <1>2, <1>3, <1>7, <2>1 DEF KeyedOnce
<1>8. QED
  BY <1>4, <1>6, <1>7 DEF back

LEMMA TurnedEntry ==
  ASSUME NEW names, Unset \notin NestedLists(names), NEW e, EntryBrought(names, e)
  PROVE  LET f == NestedReversed(e)
         IN  EntryBrought(names, f) /\ Alike(e, f) /\ Alike(f, e)
<1>1. CASE e.nested = Unset
  <2>1. NestedReversed(e) = e
    BY <1>1 DEF NestedReversed
  <2>2. Alike(e, e)
    BY <1>1 DEF Alike, NestedAlike
  <2>3. QED
    BY <2>1, <2>2
<1>2. CASE e.nested # Unset
  <2> DEFINE n == e.nested
             back == Reverse(n.entries)
             m == [n EXCEPT !.entries = back]
             f == NestedReversed(e)
  <2>1. n \in NestedLists(names) /\ KeyedOnce(n.entries) /\ EntryWritten(names, e)
    BY <1>2 DEF EntryBrought, NestedBrought
  <2>2. n \in [policy : Policies \cup {Unset}, entries : Seq(NestedEntries(names))]
    BY <2>1 DEF NestedLists
  <2>3. /\ back \in Seq(NestedEntries(names)) /\ ToSet(back) = ToSet(n.entries) /\ KeyedOnce(back)
    BY <2>1, <2>2, TurnedOver
  <2>4. f = [e EXCEPT !.nested.entries = back]
    BY <1>2 DEF NestedReversed
  <2>5. e \in [name : names, renames : names \cup {Unset}, fields : {e.fields}, nested : {n}, remove : BOOLEAN]
        /\ DOMAIN e.fields = Fields
    BY <2>1 DEF EntryWritten
  <2>6. f = [e EXCEPT !.nested = m]
    BY <2>4
  <2> HIDE DEF f, back
  <2>7. m \in NestedLists(names) /\ m.policy = n.policy /\ m.entries = back
    BY <2>2, <2>3 DEF NestedLists
  <2> HIDE DEF n, m
  <2>8. /\ f \in [name : names, renames : names \cup {Unset}, fields : {e.fields}, nested : {m}, remove : BOOLEAN]
        /\ f.name = e.name /\ f.renames = e.renames /\ f.fields = e.fields /\ f.remove = e.remove /\ f.nested = m
    BY <2>5, <2>6
  <2>9. EntryWritten(names, f)
    BY <2>5, <2>8 DEF EntryWritten
  <2>10. EntryBrought(names, f)
    BY <2>3, <2>7, <2>8, <2>9 DEF EntryBrought, NestedBrought
  <2>11. m # Unset /\ n # Unset
    BY <2>1, <2>7
  <2>12. NestedAlike(n, m) /\ NestedAlike(m, n)
    BY <2>3, <2>7, <2>11 DEF NestedAlike
  <2>13. Alike(e, f) /\ Alike(f, e)
    BY <2>8, <2>12 DEF Alike, n
  <2>14. QED
    BY <2>10, <2>13 DEF f
<1>3. QED
  BY <1>1, <1>2

LEMMA TurnedList ==
  ASSUME NEW names, Unset \notin names, Unset \notin NestedLists(names),
         NEW s, NEW es, Brought(names, es)
  PROVE  /\ Matched(names, es, Reordered(s, es))
         /\ Plain(es) => Plain(Reordered(s, es))
         /\ \A N : PinnedIn(N, es) => PinnedIn(N, Reordered(s, es))
         /\ InLine({name \in names : EverPinned(s, name)}, es, Reordered(s, es))
<1> DEFINE n == Len(es)
           turned == [i \in DOMAIN es |-> NestedReversed(es[i])]
           rank == [i \in DOMAIN es |-> IF EverPinned(s, es[i].name) THEN n + i ELSE n - i]
           R == OrderedBy(turned, rank)
           N0 == {name \in names : EverPinned(s, name)}
<1>1. /\ n \in Nat /\ DOMAIN es = 1..n /\ \A i \in DOMAIN es : EntryBrought(names, es[i]) /\ es[i].name \in names
      /\ KeyedOnce(es)
  BY BroughtIs DEF Brought
<1>2. Reordered(s, es) = R
  BY DEF Reordered
<1>3. DOMAIN turned = 1..n /\ DOMAIN rank = 1..n
  BY <1>1
<1>4. \A i \in DOMAIN es : EntryBrought(names, turned[i]) /\ Alike(es[i], turned[i]) /\ Alike(turned[i], es[i])
  <2> TAKE i \in DOMAIN es
  <2>1. turned[i] = NestedReversed(es[i])
    OBVIOUS
  <2> HIDE DEF turned
  <2>2. QED
    BY <1>1, <2>1, TurnedEntry
<1>5. turned = [i \in 1..n |-> turned[i]]
  BY <1>1
<1>6. \A i \in 1..n : rank[i] \in Nat
  BY <1>1
<1>7. \A i \in 1..n : rank[i] = IF EverPinned(s, es[i].name) THEN n + i ELSE n - i
  BY <1>1
<1> HIDE DEF turned, rank
<1>8. turned \in Seq(ToSet(turned))
  <2>1. \A i \in 1..n : turned[i] \in ToSet(turned)
    BY <1>3 DEF ToSet
  <2>2. turned \in [1..n -> ToSet(turned)]
    BY <1>5, <2>1
  <2>3. QED
    BY <1>1, <2>2
<1>9. \A i \in 1..n :
        /\ turned[i].name = es[i].name /\ turned[i].renames = es[i].renames /\ turned[i].fields = es[i].fields
        /\ Keys(turned[i]) = Keys(es[i])
  BY <1>1, <1>4 DEF Alike, Keys
<1>10. KeyedOnce(turned)
  BY <1>1, <1>3, <1>9 DEF KeyedOnce, Meet
<1>11. R \in Seq(ToSet(R)) /\ ToSet(R) = ToSet(turned) /\ KeyedOnce(R)
  BY <1>3, <1>6, <1>8, <1>10, OrderedHolds
<1>12. PICK place : PlacedBy(turned, rank, R, place)
  BY <1>1, <1>3, <1>6, OrderedPlaced
<1>13. \E m \in Nat : DOMAIN R = 1..m
  BY <1>1, <1>3, <1>6, OrderedPlaced
<1> HIDE DEF n, R, N0
<1>14. /\ \A k \in DOMAIN R : place[k] \in 1..n /\ R[k] = turned[place[k]]
       /\ \A i \in 1..n : \E k \in DOMAIN R : place[k] = i
       /\ \A k, l \in DOMAIN R : k < l =>
            \/ rank[place[k]] < rank[place[l]]
            \/ rank[place[k]] = rank[place[l]] /\ place[k] < place[l]
  BY <1>3, <1>12 DEF PlacedBy
<1>15. Brought(names, R)
  <2>1. \A e \in ToSet(R) : EntryBrought(names, e)
    <3>1. \A e \in ToSet(turned) : \E i \in 1..n : e = turned[i]
      BY <1>3 DEF ToSet
    <3>2. QED
      BY <1>1, <1>4, <1>11, <3>1
  <2>2. QED
    BY <1>11, <2>1 DEF Brought
<1>16. Within(FALSE, es, R)
  BY <1>1, <1>4, <1>14 DEF Within, Same
<1>17. Within(FALSE, R, es)
  BY <1>1, <1>4, <1>14 DEF Within, Same
<1>18. Plain(es) => Plain(R)
  BY <1>1, <1>9, <1>14 DEF Plain
<1>19. \A N : PinnedIn(N, es) => PinnedIn(N, R)
  BY <1>1, <1>9, <1>14 DEF PinnedIn, IsPinned
<1>20. ASSUME NEW i \in DOMAIN es, NEW j \in DOMAIN es, NEW k \in DOMAIN R, NEW l \in DOMAIN R,
              i < j, es[i].name \in N0, es[j].name \in N0, R[k].name = es[i].name, R[l].name = es[j].name
       PROVE  k < l
  <2>1. \A c, d \in DOMAIN es : es[c].name = es[d].name => c = d
    <3> TAKE c \in DOMAIN es, d \in DOMAIN es
    <3>1. es[c].name # Unset
      BY <1>1
    <3>2. es[c].name = es[d].name => Meet(es[c], es[d])
      BY <3>1 DEF Meet, Keys
    <3>3. QED
      BY <3>2, <1>1 DEF KeyedOnce
  <2>2. place[k] = i /\ place[l] = j
    BY <2>1, <1>1, <1>9, <1>14, <1>20
  <2>3. rank[i] = n + i /\ rank[j] = n + j
    BY <1>1, <1>7, <1>20 DEF N0
  <2>4. k \in Nat /\ l \in Nat
    BY <1>13
  <2>5. i \in Nat /\ j \in Nat
    BY <1>1
  <2>6. ~(l < k)
    BY <2>2, <2>3, <2>5, <1>1, <1>14, <1>20
  <2>7. k # l
    BY <2>2, <2>5, <1>20
  <2>8. QED
    BY <2>4, <2>6, <2>7
<1>21. InLine(N0, es, R)
  BY <1>20 DEF InLine
<1>22. Brought(names, es) /\ Matched(names, es, R)
  BY <1>15, <1>16, <1>17 DEF Matched
<1>23. QED
  BY <1>2, <1>18, <1>19, <1>21, <1>22 DEF N0

(* What is known of a layer that was admitted. *)
LEMMA LayerBrought ==
  ASSUME case \in Cases, NEW i \in DOMAIN case.layers,
         NEW layer, layer = case.layers[i], Admitted(layer, case.layering)
  PROVE  /\ layer \in [layering : {layer.layering}, undeclared : Policies \cup {Unset},
                       lists : {layer.lists}, mapping : {layer.mapping}]
         /\ \A s \in DOMAIN layer.lists :
              /\ layer.lists[s] \in [layering : {layer.lists[s].layering}, policy : {layer.lists[s].policy},
                                     entries : {layer.lists[s].entries}]
              /\ Brought(case.names, layer.lists[s].entries)
              /\ s = Ranked => Plain(layer.lists[s].entries) /\ PinnedIn(PinnedNames, layer.lists[s].entries)
<1>1. LayersWritten(case)
  BY CasesAssumption
<1>2. layer \in ToSet(case.layers)
  <2>1. case.layers \in Seq(ToSet(case.layers))
    BY <1>1 DEF LayersWritten
  <2>2. QED
    BY <2>1, Listed
<1>3. layer \in [layering : Layerings \cup {Unset}, undeclared : Policies \cup {Unset},
                 lists : {layer.lists}, mapping : Mappings \cup {Unset, Null}]
  BY <1>1, <1>2 DEF LayersWritten
<1>4. Unset \notin case.names
  BY <1>1 DEF LayersWritten
<1>5. ASSUME NEW s \in DOMAIN layer.lists
      PROVE  /\ layer.lists[s] \in [layering : {layer.lists[s].layering}, policy : {layer.lists[s].policy},
                                    entries : {layer.lists[s].entries}]
             /\ Brought(case.names, layer.lists[s].entries)
             /\ s = Ranked => Plain(layer.lists[s].entries) /\ PinnedIn(PinnedNames, layer.lists[s].entries)
  <2> DEFINE list == layer.lists[s]
             es == list.entries
  <2>1. list \in [layering : Layerings \cup {Unset}, policy : Policies \cup {Unset}, entries : {es}]
    BY <1>1, <1>2 DEF LayersWritten
  <2>2. /\ EntriesWritten(case.names, es)
        /\ \A e \in ToSet(es) : e.nested \in NestedLists(case.names) \cup {Unset}
        /\ \A e \in ToSet(es) : s = Ranked => e.renames = Unset
    BY <1>1, <1>2 DEF LayersWritten
  <2>3. ListWritten(case.names, list)
    BY LayersKnown
  <2>4. Entries(es, Layering(layer, list, case.layering))
    BY DEF Admitted
  <2> HIDE DEF list
  <2>5. KeyedOnce(es) /\ \A j \in DOMAIN es : EntryAdmitted(case.names, es[j])
    BY <2>3, <2>4, ListAdmitted
  <2>6. es \in Seq(ToSet(es))
    BY <2>2 DEF EntriesWritten
  <2> HIDE DEF es
  <2>7. /\ \A j \in DOMAIN es : es[j] \in ToSet(es)
        /\ \A e \in ToSet(es) : \E j \in DOMAIN es : e = es[j]
    BY <2>6, Listed
  <2>8. Brought(case.names, es)
    BY <2>2, <2>5, <2>6, <2>7 DEF Brought, EntryBrought, NestedBrought, EntryAdmitted
  <2>9. \A j \in DOMAIN es : es[j].name \in case.names
    BY <2>5 DEF EntryAdmitted, EntryWritten
  <2>10. ASSUME s = Ranked PROVE Plain(es) /\ PinnedIn(PinnedNames, es)
    <3>1. Plain(es)
      BY <1>4, <2>2, <2>7, <2>9, <2>10 DEF Plain
    <3>2. ASSUME NEW j \in DOMAIN es, IsPinned(es[j]) PROVE EverPinned(Ranked, es[j].name)
      <4>1. s \in DOMAIN case.layers[i].lists /\ es[j] \in ToSet(case.layers[i].lists[s].entries)
        BY <2>7 DEF es, list
      <4>2. QED
        BY <4>1, <2>10, <3>2 DEF EverPinned
    <3>3. QED
      BY <2>9, <3>1, <3>2 DEF PinnedIn, PinnedNames
  <2>11. QED
    BY <2>1, <2>8, <2>10 DEF es, list
<1>6. QED
  BY <1>3, <1>5

LEMMA LayerTurned ==
  ASSUME case \in Cases, NEW i \in DOMAIN case.layers,
         NEW layer, layer = case.layers[i], Admitted(layer, case.layering)
  PROVE  LayerKept(case.names, PinnedNames, layer, ReorderedLayer(layer))
<1>1. Unset \notin case.names /\ Unset \notin NestedLists(case.names)
  BY CasesAssumption DEF LayersWritten
<1> DEFINE turned == ReorderedLayer(layer)
           lists == [s \in DOMAIN layer.lists |->
                       [layer.lists[s] EXCEPT !.entries = Reordered(s, layer.lists[s].entries)]]
<1>2. turned = [layer EXCEPT !.lists = lists]
  BY DEF ReorderedLayer
<1> HIDE DEF lists, turned
<1>3. layer \in [layering : {layer.layering}, undeclared : Policies \cup {Unset},
                 lists : {layer.lists}, mapping : {layer.mapping}]
  BY LayerBrought
<1>4. turned.lists = lists /\ turned.mapping = layer.mapping /\ turned.layering = layer.layering
  BY <1>2, <1>3
<1>5. DOMAIN lists = DOMAIN layer.lists
  BY DEF lists
<1>6. ASSUME NEW s \in DOMAIN layer.lists
      PROVE  /\ ListKept(case.names, PinnedNames, s, layer.lists[s], lists[s])
             /\ lists[s].layering = layer.lists[s].layering
  <2> DEFINE list == layer.lists[s]
             es == list.entries
             R == Reordered(s, es)
  <2>1. lists[s] = [list EXCEPT !.entries = R]
    BY DEF lists
  <2>2. list \in [layering : {list.layering}, policy : {list.policy}, entries : {es}]
    BY LayerBrought
  <2>3. Brought(case.names, es)
    BY LayerBrought
  <2>4. s = Ranked => Plain(es) /\ PinnedIn(PinnedNames, es)
    BY LayerBrought
  <2> HIDE DEF list
  <2>5. lists[s].layering = list.layering /\ lists[s].policy = list.policy /\ lists[s].entries = R
    BY <2>1, <2>2
  <2> HIDE DEF es
  <2>6. Matched(case.names, es, R)
    BY <1>1, <2>3, TurnedList
  <2>7. ASSUME s = Ranked PROVE RankKept(PinnedNames, es, R)
    <3>1. Plain(es) => Plain(R)
      BY <1>1, <2>3, TurnedList
    <3>2. \A N : PinnedIn(N, es) => PinnedIn(N, R)
      BY <1>1, <2>3, TurnedList
    <3>3. InLine({name \in case.names : EverPinned(s, name)}, es, R)
      BY <1>1, <2>3, TurnedList
    <3> HIDE DEF R
    <3>4. InLine(PinnedNames, es, R)
      BY <2>7, <3>3 DEF PinnedNames
    <3>5. QED
      BY <2>4, <2>7, <3>1, <3>2, <3>4 DEF RankKept
  <2> HIDE DEF R
  <2>8. ListKept(case.names, PinnedNames, s, list, lists[s])
    BY <2>5, <2>6, <2>7 DEF ListKept, es
  <2>9. QED
    BY <2>5, <2>8 DEF list
<1>7. ASSUME NEW s \in DOMAIN layer.lists
      PROVE  \A layering : Layering(turned, turned.lists[s], layering) = Layering(layer, layer.lists[s], layering)
  BY <1>4, <1>6 DEF Layering
<1>8. QED
  BY <1>4, <1>5, <1>6, <1>7 DEF LayerKept, turned

(* The fold of the turned layers, layer by layer. *)
Turned == [i \in DOMAIN case.layers |-> ReorderedLayer(case.layers[i])]

LEMMA FoldsDefined ==
  ASSUME NEW layers, NEW n0 \in Nat, Len(layers) = n0
  PROVE  /\ Folds(layers)[0] = EmptyFold
         /\ \A k \in 1..n0 : Folds(layers)[k] = MergeStep(Folds(layers)[k - 1], layers[k], case.layering)
<1> DEFINE FoldNext(f, k) == IF k = 0 THEN EmptyFold ELSE MergeStep(f[k - 1], layers[k], case.layering)
<1> DEFINE Good(n) == \E f : f = [k \in 0..n |-> FoldNext(f, k)]
<1> DEFINE S == {n \in Nat : Good(n)}
<1>1. 0 \in S
  <2>1. [k \in 0..0 |-> EmptyFold]
          = [k \in 0..0 |-> FoldNext([i \in 0..0 |-> EmptyFold], k)]
    OBVIOUS
  <2>2. QED
    BY <2>1
<1>2. ASSUME NEW n \in S PROVE n + 1 \in S
  <2>1. PICK f : f = [k \in 0..n |-> FoldNext(f, k)]
    BY <1>2
  <2> DEFINE g == [k \in 0..n + 1 |-> IF k = n + 1 THEN MergeStep(f[n], layers[n + 1], case.layering) ELSE f[k]]
  <2>2. ASSUME NEW k \in 0..n + 1 PROVE g[k] = FoldNext(g, k)
    <3>1. CASE k = n + 1
      <4>1. g[k] = MergeStep(f[n], layers[n + 1], case.layering) /\ k - 1 = n /\ k # 0 /\ n \in 0..n + 1 /\ n # n + 1
        BY <3>1
      <4>2. g[n] = f[n]
        BY <4>1
      <4>3. QED
        BY <4>1, <4>2
    <3>2. CASE k # n + 1 /\ k # 0
      <4>1. k \in 0..n /\ k - 1 \in 0..n + 1 /\ k - 1 # n + 1
        BY <3>2
      <4>2. g[k] = f[k] /\ g[k - 1] = f[k - 1]
        BY <3>2, <4>1
      <4>3. f[k] = FoldNext(f, k)
        BY <2>1, <4>1
      <4>4. QED
        BY <3>2, <4>2, <4>3
    <3>3. CASE k # n + 1 /\ k = 0
      <4>1. k \in 0..n
        BY <3>3
      <4>2. g[k] = f[k] /\ f[k] = FoldNext(f, k)
        BY <2>1, <3>3, <4>1
      <4>3. QED
        BY <3>3, <4>2
    <3>4. QED
      BY <3>1, <3>2, <3>3
  <2>3. g = [k \in 0..n + 1 |-> FoldNext(g, k)]
    BY <2>2
  <2> HIDE DEF g
  <2>4. QED
    BY <2>3
<1>3. \A n \in Nat : n \in S
  <2>1. S \in SUBSET Nat
    OBVIOUS
  <2> HIDE DEF S
  <2>2. QED
    BY <1>1, <1>2, <2>1, EveryNumber
<1>4. Good(n0)
  BY <1>3
<1> DEFINE w == CHOOSE f : f = [k \in 0..n0 |-> FoldNext(f, k)]
<1>5. w = [k \in 0..n0 |-> FoldNext(w, k)]
  BY <1>4
<1>6. Folds(layers) = w
  BY DEF Folds
<1> HIDE DEF w
<1>7. \A k \in 0..n0 : w[k] = FoldNext(w, k)
  BY <1>5
<1>8. QED
  BY <1>6, <1>7

LEMMA TurnedFolds ==
  ASSUME case \in Cases
  PROVE  /\ Folds(Turned)[0] = EmptyFold /\ FoldOf(Turned) = Folds(Turned)[Len(case.layers)]
         /\ \A k \in 1..Len(case.layers) :
              Folds(Turned)[k] = MergeStep(Folds(Turned)[k - 1], ReorderedLayer(case.layers[k]), case.layering)
<1>1. Len(case.layers) \in Nat /\ DOMAIN case.layers = 1..Len(case.layers)
  BY LayersKnown
<1> DEFINE n == Len(case.layers)
<1>2. /\ Turned = [k \in 1..n |-> Turned[k]]
      /\ \A k \in 1..n : Turned[k] = ReorderedLayer(case.layers[k])
  BY <1>1 DEF Turned
<1>3. Len(Turned) = n
  <2> DEFINE S == {Turned[k] : k \in 1..n}
  <2>1. Turned \in [1..n -> S]
    BY <1>2
  <2>2. QED
    BY <1>1, <2>1
<1> HIDE DEF n
<1>4. n \in Nat
  BY <1>1 DEF n
<1>5. /\ Folds(Turned)[0] = EmptyFold
      /\ \A k \in 1..n : Folds(Turned)[k] = MergeStep(Folds(Turned)[k - 1], Turned[k], case.layering)
  BY <1>3, <1>4, FoldsDefined
<1>6. FoldOf(Turned) = Folds(Turned)[n]
  BY <1>3 DEF FoldOf
<1>7. QED
  BY <1>2, <1>5, <1>6 DEF n

-----------------------------------------------------------------------------
(* Two lists of one set are ordered into one list, if their ties stand alike. *)
TiesStand(a, b, weight) ==
  \A i, j \in DOMAIN a : \A k, l \in DOMAIN b :
    i < j /\ b[k] = a[i] /\ b[l] = a[j] /\ weight[a[i]] = weight[a[j]] => k < l
Weighed(a, rank, weight) == \A i \in DOMAIN a : rank[i] = weight[a[i]]

LEMMA OrderedOnce ==
  ASSUME NEW a, a \in Seq(ToSet(a)), IsInjective(a), NEW rank, \A i \in DOMAIN a : rank[i] \in Nat,
         NEW U, U = OrderedBy(a, rank)
  PROVE  /\ U \in Seq(ToSet(U)) /\ IsInjective(U) /\ ToSet(U) = ToSet(a)
         /\ \E place : PlacedBy(a, rank, U, place)
         /\ DOMAIN U \in SUBSET Nat
<1>1. /\ U \in Seq(ToSet(U)) /\ ToSet(U) = ToSet(a)
  BY OrderedHolds
<1>2. Len(a) \in Nat /\ DOMAIN a = 1..Len(a)
  BY Listed
<1>3. PICK place : PlacedBy(a, rank, U, place)
  BY <1>2, OrderedPlaced
<1>4. DOMAIN U \in SUBSET Nat
  BY <1>1, Listed
<1>5. ASSUME NEW k \in DOMAIN U, NEW l \in DOMAIN U, U[k] = U[l] PROVE k = l
  <2>1. place[k] \in DOMAIN a /\ place[l] \in DOMAIN a /\ U[k] = a[place[k]] /\ U[l] = a[place[l]]
    BY <1>3 DEF PlacedBy
  <2>2. place[k] = place[l]
    BY <1>5, <2>1 DEF IsInjective
  <2>3. rank[place[k]] \in Nat /\ place[k] \in Nat
    BY <1>2, <2>1
  <2>4. ~(k < l)
    BY <1>3, <2>2, <2>3 DEF PlacedBy
  <2>5. ~(l < k)
    BY <1>3, <2>2, <2>3 DEF PlacedBy
  <2>6. k \in Nat /\ l \in Nat
    BY <1>4
  <2>7. QED
    BY <2>4, <2>5, <2>6
<1>6. IsInjective(U)
  BY <1>5 DEF IsInjective
<1>7. QED
  BY <1>1, <1>3, <1>4, <1>6

LEMMA SortedSame ==
  ASSUME NEW a, a \in Seq(ToSet(a)), IsInjective(a), NEW b, b \in Seq(ToSet(b)), IsInjective(b),
         ToSet(a) = ToSet(b), NEW weight, \A e \in ToSet(a) : weight[e] \in Nat,
         NEW one, Weighed(a, one, weight), NEW two, Weighed(b, two, weight), TiesStand(a, b, weight)
  PROVE  OrderedBy(a, one) = OrderedBy(b, two)
<1> DEFINE U == OrderedBy(a, one)
           V == OrderedBy(b, two)
<1>1. /\ Len(a) \in Nat /\ DOMAIN a = 1..Len(a) /\ \A i \in DOMAIN a : a[i] \in ToSet(a)
      /\ Len(b) \in Nat /\ DOMAIN b = 1..Len(b) /\ \A i \in DOMAIN b : b[i] \in ToSet(b)
  BY Listed
<1>2. (\A i \in DOMAIN a : one[i] \in Nat) /\ (\A i \in DOMAIN b : two[i] \in Nat)
  BY <1>1 DEF Weighed
<1>3. /\ U \in Seq(ToSet(U)) /\ IsInjective(U) /\ ToSet(U) = ToSet(a) /\ DOMAIN U \in SUBSET Nat
  BY <1>2, OrderedOnce
<1>4. /\ V \in Seq(ToSet(V)) /\ IsInjective(V) /\ ToSet(V) = ToSet(b) /\ DOMAIN V \in SUBSET Nat
  BY <1>2, OrderedOnce
<1>5. PICK u : PlacedBy(a, one, U, u)
  BY <1>2, OrderedOnce
<1>6. PICK v : PlacedBy(b, two, V, v)
  BY <1>2, OrderedOnce
<1> HIDE DEF U, V
<1>7. ASSUME NEW k \in DOMAIN U, NEW l \in DOMAIN U, NEW i \in DOMAIN V, NEW j \in DOMAIN V,
             k < l, U[k] = V[i], U[l] = V[j]
      PROVE  i < j
  <2>1. /\ u[k] \in DOMAIN a /\ u[l] \in DOMAIN a /\ U[k] = a[u[k]] /\ U[l] = a[u[l]]
        /\ one[u[k]] < one[u[l]] \/ (one[u[k]] = one[u[l]] /\ u[k] < u[l])
    BY <1>5, <1>7 DEF PlacedBy
  <2>2. /\ v[i] \in DOMAIN b /\ v[j] \in DOMAIN b /\ V[i] = b[v[i]] /\ V[j] = b[v[j]]
        /\ j < i => two[v[j]] < two[v[i]] \/ (two[v[j]] = two[v[i]] /\ v[j] < v[i])
    BY <1>6 DEF PlacedBy
  <2>3. one[u[k]] = weight[U[k]] /\ one[u[l]] = weight[U[l]]
    BY <2>1 DEF Weighed
  <2>4. two[v[i]] = weight[U[k]] /\ two[v[j]] = weight[U[l]]
    BY <1>7, <2>2 DEF Weighed
  <2>5. weight[U[k]] \in Nat /\ weight[U[l]] \in Nat /\ u[k] \in Nat /\ u[l] \in Nat /\ v[i] \in Nat /\ v[j] \in Nat
    BY <1>1, <2>1, <2>2
  <2>6. weight[U[k]] = weight[U[l]] /\ u[k] < u[l] => v[i] < v[j]
    BY <1>7, <2>1, <2>2 DEF TiesStand
  <2>7. ~(j < i)
    BY <2>1, <2>2, <2>3, <2>4, <2>5, <2>6
  <2>8. i # j
    <3>1. k \in Nat /\ l \in Nat /\ k # l
      BY <1>3, <1>7
    <3>2. QED
      BY <3>1, <1>3, <1>7 DEF IsInjective
  <2>9. i \in Nat /\ j \in Nat
    BY <1>4
  <2>10. QED
    BY <2>7, <2>8, <2>9
<1>8. NoneTurned(U, V)
  BY <1>7 DEF NoneTurned
<1>9. U = V
  BY <1>3, <1>4, <1>8, OrderedSame
<1>10. QED
  BY <1>9 DEF U, V

LEMMA KeyedInjective ==
  ASSUME NEW names, Unset \notin names, NEW list, KeyedOnce(list), \A i \in DOMAIN list : list[i].name \in names
  PROVE  IsInjective(list) /\ Distinct(list)
<1>1. ASSUME NEW i \in DOMAIN list, NEW j \in DOMAIN list, list[i].name = list[j].name PROVE i = j
  <2>1. list[i].name # Unset
    OBVIOUS
  <2>2. Meet(list[i], list[j])
    BY <1>1, <2>1 DEF Meet, Keys
  <2>3. QED
    BY <2>2 DEF KeyedOnce
<1>2. QED
  BY <1>1 DEF Distinct, IsInjective

LEMMA ByNameSame ==
  ASSUME NEW names \in SUBSET Nat, Unset \notin names,
         NEW a, a \in Seq(ToSet(a)), KeyedOnce(a), \A i \in DOMAIN a : a[i].name \in names,
         NEW b, b \in Seq(ToSet(b)), KeyedOnce(b), \A i \in DOMAIN b : b[i].name \in names,
         ToSet(a) = ToSet(b)
  PROVE  ByName(a) = ByName(b)
<1> DEFINE weight == [e \in ToSet(a) |-> e.name]
           one == [i \in DOMAIN a |-> a[i].name]
           two == [i \in DOMAIN b |-> b[i].name]
<1>1. /\ Len(a) \in Nat /\ DOMAIN a = 1..Len(a)
      /\ \A i \in DOMAIN a : a[i] \in ToSet(a)
      /\ \A e \in ToSet(a) : \E i \in DOMAIN a : e = a[i]
      /\ \A i \in DOMAIN b : b[i] \in ToSet(a)
  BY Listed
<1>2. IsInjective(a) /\ Distinct(a) /\ IsInjective(b)
  BY KeyedInjective
<1>3. \A e \in ToSet(a) : weight[e] = e.name /\ e.name \in names
  BY <1>1
<1>4. Weighed(a, one, weight) /\ Weighed(b, two, weight)
  BY <1>1 DEF Weighed
<1> HIDE DEF weight
<1>5. TiesStand(a, b, weight)
  <2>1. \A i, j \in DOMAIN a : weight[a[i]] = weight[a[j]] => i = j
    BY <1>1, <1>2, <1>3 DEF Distinct
  <2>2. \A i, j \in DOMAIN a : i < j => i # j
    BY <1>1
  <2>3. QED
    BY <2>1, <2>2 DEF TiesStand
<1>6. ByName(a) = OrderedBy(a, one) /\ ByName(b) = OrderedBy(b, two)
  BY DEF ByName
<1> HIDE DEF one, two
<1>7. \A e \in ToSet(a) : weight[e] \in Nat
  BY <1>3
<1>8. OrderedBy(a, one) = OrderedBy(b, two)
  BY <1>2, <1>4, <1>5, <1>7, SortedSame
<1>9. QED
  BY <1>6, <1>8

(* The entry, the list and the document that are written of what was folded. *)
WrittenEntry(e, fallback) == CanonicalEntry(ResolveNested(e, fallback))
WrittenEntries(es, fallback) == [i \in DOMAIN es |-> WrittenEntry(es[i], fallback)]
WrittenList(s, list, fallback) ==
  [policy |-> IF s \in Knobbed THEN Over(Over(DefaultPolicy[s], fallback), list.policy) ELSE list.policy,
   entries |-> SortEntries(s, WrittenEntries(list.entries, fallback))]

LEMMA WrittenDocument ==
  ASSUME NEW document, document \in [lists : {document.lists}, mapping : {document.mapping}],
         \A s \in DOMAIN document.lists : ListRecord(document.lists[s]), NEW fallback
  PROVE  CanonicalDocument(ResolvePolicies(document, fallback)) =
           [lists |-> [s \in DOMAIN document.lists |-> WrittenList(s, document.lists[s], fallback)],
            mapping |-> document.mapping]
<1> DEFINE r == ResolvePolicies(document, fallback)
           c == CanonicalDocument(r)
           lists == [t \in DOMAIN document.lists |->
                       LET was == document.lists[t]
                           now == [was EXCEPT !.entries = [i \in DOMAIN @ |-> ResolveNested(@[i], fallback)]]
                       IN  IF t \in Knobbed THEN ResolvedWrapper(now, fallback, DefaultPolicy[t]) ELSE now]
<1>1. r = [document EXCEPT !.lists = lists]
  BY DEF ResolvePolicies
<1>2. ASSUME NEW s \in DOMAIN document.lists
      PROVE  lists[s] = [policy |-> WrittenList(s, document.lists[s], fallback).policy,
                         entries |-> [i \in DOMAIN document.lists[s].entries |->
                                        ResolveNested(document.lists[s].entries[i], fallback)]]
  <2> DEFINE list == document.lists[s]
             rs == [i \in DOMAIN list.entries |-> ResolveNested(list.entries[i], fallback)]
             resolved == [list EXCEPT !.entries = rs]
             p == Over(Over(DefaultPolicy[s], fallback), resolved.policy)
  <2>1. lists[s] = IF s \in Knobbed THEN ResolvedWrapper(resolved, fallback, DefaultPolicy[s]) ELSE resolved
    OBVIOUS
  <2>2. lists[s] = IF s \in Knobbed THEN [resolved EXCEPT !.policy = p] ELSE resolved
    BY <2>1 DEF ResolvedWrapper
  <2>3. list \in [policy : {list.policy}, entries : {list.entries}]
    BY DEF ListRecord
  <2>4. WrittenList(s, list, fallback).policy =
          IF s \in Knobbed THEN Over(Over(DefaultPolicy[s], fallback), list.policy) ELSE list.policy
    BY DEF WrittenList
  <2> HIDE DEF lists, list, rs
  <2>5. resolved = [policy |-> list.policy, entries |-> rs]
    BY <2>3
  <2>6. resolved.policy = list.policy
    BY <2>5
  <2> HIDE DEF resolved
  <2>7. CASE s \in Knobbed
    <3>1. lists[s] = [policy |-> p, entries |-> rs]
      BY <2>2, <2>5, <2>7
    <3>2. QED
      BY <2>4, <2>6, <2>7, <3>1 DEF list, rs
  <2>8. CASE s \notin Knobbed
    BY <2>2, <2>4, <2>5, <2>8 DEF list, rs
  <2>9. QED
    BY <2>7, <2>8
<1>3. DOMAIN lists = DOMAIN document.lists
  OBVIOUS
<1> HIDE DEF lists, r, c
<1>4. r = [lists |-> lists, mapping |-> document.mapping]
  BY <1>1
<1> DEFINE written == [s \in DOMAIN r.lists |->
                         [r.lists[s] EXCEPT !.entries =
                            SortEntries(s, [i \in DOMAIN @ |-> CanonicalEntry(@[i])])]]
<1>5. c = [r EXCEPT !.lists = written]
  BY DEF CanonicalDocument, c
<1>6. ASSUME NEW s \in DOMAIN document.lists
      PROVE  written[s] = WrittenList(s, document.lists[s], fallback)
  <2> DEFINE es == document.lists[s].entries
             p == WrittenList(s, document.lists[s], fallback).policy
             rs == [i \in DOMAIN es |-> ResolveNested(es[i], fallback)]
             ws == [i \in DOMAIN rs |-> CanonicalEntry(rs[i])]
  <2>1. r.lists[s] = [policy |-> p, entries |-> rs] /\ s \in DOMAIN r.lists
    BY <1>2, <1>3, <1>4
  <2>2. ws = WrittenEntries(es, fallback)
    BY DEF WrittenEntries, WrittenEntry
  <2>3. WrittenList(s, document.lists[s], fallback) =
          [policy |-> p, entries |-> SortEntries(s, WrittenEntries(es, fallback))]
    BY DEF WrittenList
  <2>4. written[s] = [r.lists[s] EXCEPT !.entries = SortEntries(s, [i \in DOMAIN @ |-> CanonicalEntry(@[i])])]
    BY <2>1
  <2> HIDE DEF written, p, rs
  <2>5. written[s] = [r.lists[s] EXCEPT !.entries = SortEntries(s, ws)]
    BY <2>1, <2>4
  <2> HIDE DEF ws
  <2>6. written[s] = [policy |-> p, entries |-> SortEntries(s, ws)]
    BY <2>1, <2>5
  <2>7. QED
    BY <2>2, <2>3, <2>6
<1>7. DOMAIN written = DOMAIN document.lists /\ written = [s \in DOMAIN written |-> written[s]]
  BY <1>3, <1>4
<1> HIDE DEF written
<1>8. written = [s \in DOMAIN document.lists |-> WrittenList(s, document.lists[s], fallback)]
  BY <1>6, <1>7
<1>9. c = [lists |-> written, mapping |-> document.mapping]
  BY <1>4, <1>5
<1>10. QED
  BY <1>8, <1>9 DEF c, r

(* Of two entries that say the same, one entry is written. *)
LEMMA AlikeIsOne ==
  ASSUME NEW names \in SUBSET Nat, Unset \notin names, Unset \notin NestedLists(names),
         NEW fallback \in Policies \cup {Unset},
         NEW e, EntryBrought(names, e), NEW f, EntryBrought(names, f), Alike(e, f)
  PROVE  /\ WrittenEntry(e, fallback) = WrittenEntry(f, fallback)
         /\ WrittenEntry(e, fallback).name = e.name /\ WrittenEntry(e, fallback).renames = e.renames
         /\ WrittenEntry(e, fallback).fields = e.fields
<1>1. ASSUME NEW g, EntryBrought(names, g)
      PROVE  /\ g.nested = Unset => WrittenEntry(g, fallback) = g
             /\ g.nested # Unset =>
                  WrittenEntry(g, fallback) =
                    [name |-> g.name, renames |-> g.renames, fields |-> g.fields,
                     nested |-> [policy |-> Over(Over(NestedDefault, fallback), g.nested.policy),
                                 entries |-> ByName(g.nested.entries)],
                     remove |-> g.remove]
             /\ g = [name |-> g.name, renames |-> g.renames, fields |-> g.fields, nested |-> g.nested,
                     remove |-> g.remove]
  <2>1. g \in [name : names, renames : names \cup {Unset}, fields : {g.fields}, nested : {g.nested}, remove : BOOLEAN]
    BY <1>1 DEF EntryBrought, EntryWritten
  <2>2. CASE g.nested = Unset
    <3>1. WrittenEntry(g, fallback) = g
      BY <2>2 DEF WrittenEntry, ResolveNested, CanonicalEntry
    <3>2. QED
      BY <2>1, <2>2, <3>1
  <2>3. CASE g.nested # Unset
    <3> DEFINE n == g.nested
               p == Over(Over(NestedDefault, fallback), n.policy)
               w == [n EXCEPT !.policy = p]
               r == ResolveNested(g, fallback)
               o == ByName(n.entries)
               x == [w EXCEPT !.entries = ByName(@)]
    <3>1. n \in NestedLists(names)
      BY <1>1, <2>3 DEF EntryBrought, NestedBrought
    <3>2. n \in [policy : Policies \cup {Unset}, entries : Seq(NestedEntries(names))]
      BY <3>1 DEF NestedLists
    <3>3. p \in Policies
      <4>1. NestedDefault \in Policies
        BY LayersAssumption
      <4>2. QED
        BY <3>2, <4>1 DEF Over
    <3>4. r = [g EXCEPT !.nested = w]
      BY <2>3 DEF ResolveNested, ResolvedWrapper
    <3> HIDE DEF n, p, r
    <3>5. w = [policy |-> p, entries |-> n.entries] /\ w \in NestedLists(names)
      BY <3>2, <3>3 DEF NestedLists
    <3>6. w # Unset /\ w.entries = n.entries
      BY <3>5
    <3> HIDE DEF w
    <3>7. r.nested = w
          /\ r = [name |-> g.name, renames |-> g.renames, fields |-> g.fields, nested |-> w, remove |-> g.remove]
      BY <2>1, <3>4
    <3>8. CanonicalEntry(r) = [r EXCEPT !.nested = [w EXCEPT !.entries = ByName(w.entries)]]
      BY <3>6, <3>7 DEF CanonicalEntry
    <3>9. [w EXCEPT !.entries = ByName(w.entries)] = [policy |-> p, entries |-> o]
      BY <3>5, <3>6
    <3> HIDE DEF o
    <3>10. CanonicalEntry(r) =
             [name |-> g.name, renames |-> g.renames, fields |-> g.fields, nested |-> [policy |-> p, entries |-> o],
              remove |-> g.remove]
      BY <3>7, <3>8, <3>9
    <3>11. QED
      BY <2>1, <2>3, <3>10 DEF WrittenEntry, r, o, p, n
  <2>4. QED
    BY <2>2, <2>3
<1>2. /\ e.name = f.name /\ e.renames = f.renames /\ e.fields = f.fields /\ e.remove = f.remove
      /\ NestedAlike(e.nested, f.nested)
  BY DEF Alike
<1>3. CASE e.nested = Unset
  <2>1. f.nested = Unset
    BY <1>2, <1>3 DEF NestedAlike
  <2>2. e = f /\ WrittenEntry(e, fallback) = e
    BY <1>1, <1>2, <1>3, <2>1
  <2>3. QED
    BY <2>2
<1>4. CASE e.nested # Unset
  <2>1. f.nested # Unset /\ e.nested.policy = f.nested.policy /\ ToSet(e.nested.entries) = ToSet(f.nested.entries)
    BY <1>2, <1>4 DEF NestedAlike
  <2>2. ByName(e.nested.entries) = ByName(f.nested.entries)
    <3>1. /\ e.nested \in NestedLists(names) /\ KeyedOnce(e.nested.entries)
          /\ f.nested \in NestedLists(names) /\ KeyedOnce(f.nested.entries)
      BY <1>4, <2>1 DEF EntryBrought, NestedBrought
    <3>2. ASSUME NEW n \in NestedLists(names)
          PROVE  n.entries \in Seq(ToSet(n.entries)) /\ \A i \in DOMAIN n.entries : n.entries[i].name \in names
      <4>1. n.entries \in Seq(NestedEntries(names))
        BY DEF NestedLists
      <4>2. n.entries \in Seq(ToSet(n.entries))
        <5> DEFINE es == n.entries
        <5>1. \A i \in 1..Len(es) : es[i] \in ToSet(es)
          BY <4>1 DEF ToSet
        <5> HIDE DEF es
        <5>2. QED
          BY <4>1, <5>1 DEF es
      <4>3. \A i \in DOMAIN n.entries : n.entries[i] \in NestedEntries(names)
        BY <4>1
      <4>4. \A x \in NestedEntries(names) : x.name \in names
        BY DEF NestedEntries
      <4>5. QED
        BY <4>2, <4>3, <4>4
    <3> DEFINE a == e.nested.entries
               b == f.nested.entries
    <3>3. /\ a \in Seq(ToSet(a)) /\ KeyedOnce(a) /\ b \in Seq(ToSet(b)) /\ KeyedOnce(b)
          /\ \A i \in DOMAIN a : a[i].name \in names
          /\ \A i \in DOMAIN b : b[i].name \in names
          /\ ToSet(a) = ToSet(b)
      BY <2>1, <3>1, <3>2
    <3>4. SUFFICES ByName(a) = ByName(b)
      OBVIOUS
    <3> HIDE DEF a, b
    <3>5. QED
      BY <3>3, ByNameSame
  <2>3. QED
    BY <1>1, <1>2, <1>4, <2>1, <2>2
<1>5. QED
  BY <1>3, <1>4

(* Of a list and its twin, one list is written. *)
LEMMA WrittenKept ==
  ASSUME NEW names \in SUBSET Nat, Unset \notin names, Unset \notin NestedLists(names),
         NEW fallback \in Policies \cup {Unset}, NEW es, Brought(names, es), NEW W, W = WrittenEntries(es, fallback)
  PROVE  /\ W \in Seq(ToSet(W)) /\ KeyedOnce(W) /\ DOMAIN W = DOMAIN es
         /\ \A i \in DOMAIN W : W[i] = WrittenEntry(es[i], fallback) /\ W[i].name = es[i].name /\ W[i].fields = es[i].fields
         /\ \A i \in DOMAIN W : W[i].name \in names
<1>1. /\ Len(es) \in Nat /\ DOMAIN es = 1..Len(es) /\ KeyedOnce(es)
      /\ \A i \in DOMAIN es : EntryBrought(names, es[i]) /\ es[i].name \in names
  BY BroughtIs DEF Brought
<1>2. DOMAIN W = DOMAIN es /\ W = [i \in DOMAIN es |-> W[i]] /\ \A i \in DOMAIN es : W[i] = WrittenEntry(es[i], fallback)
  BY DEF WrittenEntries
<1>3. ASSUME NEW i \in DOMAIN es
      PROVE  W[i].name = es[i].name /\ W[i].renames = es[i].renames /\ W[i].fields = es[i].fields
  <2>1. EntryBrought(names, es[i])
    BY <1>1
  <2>2. Alike(es[i], es[i])
    BY DEF Alike, NestedAlike
  <2>3. /\ WrittenEntry(es[i], fallback).name = es[i].name /\ WrittenEntry(es[i], fallback).renames = es[i].renames
        /\ WrittenEntry(es[i], fallback).fields = es[i].fields
    BY <2>1, <2>2, AlikeIsOne
  <2>4. QED
    BY <1>2, <2>3
<1>4. W \in Seq(ToSet(W))
  <2>1. \A i \in 1..Len(es) : W[i] \in ToSet(W)
    BY <1>1, <1>2 DEF ToSet
  <2>2. W \in [1..Len(es) -> ToSet(W)]
    BY <1>1, <1>2, <2>1
  <2>3. QED
    BY <1>1, <2>2
<1>5. KeyedOnce(W)
  BY <1>1, <1>2, <1>3 DEF KeyedOnce, Meet, Keys
<1>6. QED
  BY <1>1, <1>2, <1>3, <1>4, <1>5

LEMMA WrittenWithin ==
  ASSUME NEW names \in SUBSET Nat, Unset \notin names, Unset \notin NestedLists(names),
         NEW fallback \in Policies \cup {Unset},
         NEW a, Brought(names, a), NEW b, Brought(names, b), Within(FALSE, a, b)
  PROVE  ToSet(WrittenEntries(a, fallback)) \subseteq ToSet(WrittenEntries(b, fallback))
<1> DEFINE A == WrittenEntries(a, fallback)
           B == WrittenEntries(b, fallback)
<1>1. DOMAIN A = DOMAIN a /\ \A i \in DOMAIN a : A[i] = WrittenEntry(a[i], fallback)
  BY DEF WrittenEntries
<1>2. DOMAIN B = DOMAIN b /\ \A i \in DOMAIN b : B[i] = WrittenEntry(b[i], fallback)
  BY DEF WrittenEntries
<1>3. \A i \in DOMAIN a : \E k \in DOMAIN b : Alike(a[i], b[k])
  BY DEF Within, Same
<1>4. (\A i \in DOMAIN a : EntryBrought(names, a[i])) /\ \A k \in DOMAIN b : EntryBrought(names, b[k])
  BY BroughtIs
<1> HIDE DEF A, B
<1>5. \A i \in DOMAIN A : \E k \in DOMAIN B : A[i] = B[k]
  <2> TAKE i \in DOMAIN A
  <2>1. PICK k \in DOMAIN b : Alike(a[i], b[k])
    BY <1>1, <1>3
  <2>2. WrittenEntry(a[i], fallback) = WrittenEntry(b[k], fallback)
    BY <1>1, <1>4, <2>1, AlikeIsOne
  <2>3. QED
    BY <1>1, <1>2, <2>2
<1>6. QED
  BY <1>5 DEF ToSet, A, B

LEMMA RankedSame ==
  ASSUME NEW names \in SUBSET (Nat \ {0}), Unset \notin names, NEW N,
         NEW a, a \in Seq(ToSet(a)), KeyedOnce(a), \A i \in DOMAIN a : a[i].name \in names,
         NEW b, b \in Seq(ToSet(b)), KeyedOnce(b), \A i \in DOMAIN b : b[i].name \in names,
         ToSet(a) = ToSet(b), InLine(N, a, b), PinnedIn(N, a)
  PROVE  SortEntries(Ranked, a) = SortEntries(Ranked, b)
<1> DEFINE weight == [e \in ToSet(a) |-> IF IsPinned(e) THEN 0 ELSE e.name]
           one == [i \in DOMAIN a |-> IF IsPinned(a[i]) THEN 0 ELSE a[i].name]
           two == [i \in DOMAIN b |-> IF IsPinned(b[i]) THEN 0 ELSE b[i].name]
<1>1. /\ Len(a) \in Nat /\ DOMAIN a = 1..Len(a)
      /\ \A i \in DOMAIN a : a[i] \in ToSet(a)
      /\ \A e \in ToSet(a) : \E i \in DOMAIN a : e = a[i]
      /\ \A i \in DOMAIN b : b[i] \in ToSet(a)
  BY Listed
<1>2. IsInjective(a) /\ Distinct(a) /\ IsInjective(b)
  BY KeyedInjective
<1>3. \A e \in ToSet(a) : weight[e] = (IF IsPinned(e) THEN 0 ELSE e.name) /\ e.name \in names
  BY <1>1
<1>4. Weighed(a, one, weight) /\ Weighed(b, two, weight)
  BY <1>1 DEF Weighed
<1> HIDE DEF weight
<1>5. ASSUME NEW i \in DOMAIN a, NEW j \in DOMAIN a, NEW k \in DOMAIN b, NEW l \in DOMAIN b,
             i < j, b[k] = a[i], b[l] = a[j], weight[a[i]] = weight[a[j]]
      PROVE  k < l
  <2>1. a[i].name # a[j].name
    <3>1. i \in Nat /\ j \in Nat
      BY <1>1
    <3>2. i # j
      BY <3>1, <1>5
    <3>3. QED
      BY <3>2, <1>2 DEF Distinct
  <2>2. a[i].name \in Nat \ {0} /\ a[j].name \in Nat \ {0}
    OBVIOUS
  <2>3. IsPinned(a[i]) /\ IsPinned(a[j])
    BY <1>1, <1>3, <1>5, <2>1, <2>2
  <2>4. a[i].name \in N /\ a[j].name \in N
    BY <2>3 DEF PinnedIn
  <2>5. QED
    BY <1>5, <2>4 DEF InLine
<1>6. TiesStand(a, b, weight)
  BY <1>5 DEF TiesStand
<1>7. SortEntries(Ranked, a) = OrderedBy(a, one) /\ SortEntries(Ranked, b) = OrderedBy(b, two)
  BY DEF SortEntries
<1> HIDE DEF one, two
<1>8. \A e \in ToSet(a) : weight[e] \in Nat
  <2> TAKE e \in ToSet(a)
  <2>1. weight[e] = IF IsPinned(e) THEN 0 ELSE e.name
    BY <1>3
  <2>2. e.name \in names
    BY <1>3
  <2>3. e.name \in Nat
    BY <2>2
  <2>4. QED
    BY <2>1, <2>3
<1>9. OrderedBy(a, one) = OrderedBy(b, two)
  BY <1>2, <1>4, <1>6, <1>8, SortedSame
<1>10. QED
  BY <1>7, <1>9

LEMMA ListWrittenOnce ==
  ASSUME NEW names \in SUBSET (Nat \ {0}), Unset \notin names, Unset \notin NestedLists(names),
         NEW fallback \in Policies \cup {Unset}, NEW N, NEW s, NEW a, NEW b, ListKept(names, N, s, a, b)
  PROVE  WrittenList(s, a, fallback) = WrittenList(s, b, fallback)
<1> DEFINE A == WrittenEntries(a.entries, fallback)
           B == WrittenEntries(b.entries, fallback)
<1>1. /\ a.policy = b.policy /\ Brought(names, a.entries) /\ Brought(names, b.entries)
      /\ Within(FALSE, a.entries, b.entries) /\ Within(FALSE, b.entries, a.entries)
  BY DEF ListKept, Matched
<1>2. names \in SUBSET Nat
  OBVIOUS
<1>3. ToSet(A) = ToSet(B)
  <2>1. ToSet(A) \subseteq ToSet(B)
    BY <1>1, <1>2, WrittenWithin
  <2>2. ToSet(B) \subseteq ToSet(A)
    BY <1>1, <1>2, WrittenWithin
  <2>3. QED
    BY <2>1, <2>2
<1>4. /\ A \in Seq(ToSet(A)) /\ KeyedOnce(A) /\ DOMAIN A = DOMAIN a.entries
      /\ \A i \in DOMAIN A : A[i].name = a.entries[i].name /\ A[i].fields = a.entries[i].fields
      /\ \A i \in DOMAIN A : A[i].name \in names
  <2>1. A = WrittenEntries(a.entries, fallback)
    OBVIOUS
  <2> HIDE DEF A
  <2>2. QED
    BY <1>1, <1>2, <2>1, WrittenKept
<1>5. /\ B \in Seq(ToSet(B)) /\ KeyedOnce(B) /\ DOMAIN B = DOMAIN b.entries
      /\ \A i \in DOMAIN B : B[i].name = b.entries[i].name /\ B[i].fields = b.entries[i].fields
      /\ \A i \in DOMAIN B : B[i].name \in names
  <2>1. B = WrittenEntries(b.entries, fallback)
    OBVIOUS
  <2> HIDE DEF B
  <2>2. QED
    BY <1>1, <1>2, <2>1, WrittenKept
<1>6. SUFFICES SortEntries(s, A) = SortEntries(s, B)
  BY <1>1 DEF WrittenList
<1> HIDE DEF A, B
<1>7. CASE s # Ranked
  <2>1. ByName(A) = ByName(B)
    BY <1>2, <1>3, <1>4, <1>5, ByNameSame
  <2>2. QED
    BY <1>7, <2>1 DEF SortEntries
<1>8. CASE s = Ranked
  <2>1. InLine(N, a.entries, b.entries) /\ PinnedIn(N, a.entries)
    BY <1>8 DEF ListKept, RankKept
  <2>2. InLine(N, A, B)
    BY <1>4, <1>5, <2>1 DEF InLine
  <2>3. PinnedIn(N, A)
    BY <1>4, <2>1 DEF PinnedIn, IsPinned
  <2>4. SortEntries(Ranked, A) = SortEntries(Ranked, B)
    BY <1>3, <1>4, <1>5, <2>2, <2>3, RankedSame
  <2>5. QED
    BY <1>8, <2>4
<1>9. QED
  BY <1>7, <1>8

LEMMA KeptIsWrittenOnce ==
  ASSUME NEW names \in SUBSET (Nat \ {0}), Unset \notin names, Unset \notin NestedLists(names),
         NEW fallback \in Policies \cup {Unset}, NEW N, NEW document, NEW other, DocumentKept(names, N, document, other)
  PROVE  CanonicalDocument(ResolvePolicies(document, fallback)) = CanonicalDocument(ResolvePolicies(other, fallback))
<1>1. /\ document \in [lists : {document.lists}, mapping : {document.mapping}]
      /\ other \in [lists : {other.lists}, mapping : {other.mapping}]
      /\ document.mapping = other.mapping /\ DOMAIN document.lists = DOMAIN other.lists
      /\ \A s \in DOMAIN other.lists : ListRecord(document.lists[s]) /\ ListRecord(other.lists[s])
                                         /\ ListKept(names, N, s, document.lists[s], other.lists[s])
  BY DEF DocumentKept
<1>2. CanonicalDocument(ResolvePolicies(document, fallback)) =
        [lists |-> [s \in DOMAIN document.lists |-> WrittenList(s, document.lists[s], fallback)],
         mapping |-> document.mapping]
  BY <1>1, WrittenDocument
<1>3. CanonicalDocument(ResolvePolicies(other, fallback)) =
        [lists |-> [s \in DOMAIN other.lists |-> WrittenList(s, other.lists[s], fallback)],
         mapping |-> other.mapping]
  BY <1>1, WrittenDocument
<1>4. \A s \in DOMAIN other.lists : WrittenList(s, document.lists[s], fallback) = WrittenList(s, other.lists[s], fallback)
  BY <1>1, ListWrittenOnce
<1>5. QED
  BY <1>1, <1>2, <1>3, <1>4

-----------------------------------------------------------------------------
(* The same content is the same bytes. *)

(* A run and its twin, which has every list turned over, fold into documents that
   hold the same; a list that was read holds each of its items once.           *)
ListDone(names, list) == list \in Seq(names) /\ IsInjective(list)
ItemsSound ==
  phase = "reading" =>
    \A s \in ToSet(Sections) : Kind[s] = "list" /\ doc[s] # Unset => ListDone(case.names, doc[s])
TwinSoFar ==
  phase = "merging" =>
    /\ filePolicy \in Policies \cup {Unset}
    /\ DocumentKept(case.names, PinnedNames, doc, Folds(Turned)[at - 1])
SameInv == TwinSoFar /\ ItemsSound /\ SameContentSameBytes

(* What a snapshot writes of the lists it read. *)
ListsInOrder ==
  \A s \in Selected :
    Kind[s] = "list" /\ doc[s] # Unset =>
      \A i, j \in DOMAIN doc[s] : i < j => doc[s][i] < doc[s][j]
TwinWritten == CanonicalDocument(ResolvePolicies(FoldOf(Turned), Over(case.undeclared, filePolicy)))

LEMMA SameIs ==
  SameContentSameBytes <=> (phase = "open" => IF Rendering THEN doc = TwinWritten ELSE ListsInOrder)
BY DEF SameContentSameBytes, TwinWritten, ListsInOrder, Turned

(* The twin is told by the inputs alone, which never change. *)
LEMMA TwinRests ==
  ASSUME case' = case
  PROVE  /\ PinnedNames' = PinnedNames /\ Folds(Turned)' = Folds(Turned)
         /\ FoldOf(Turned)' = FoldOf(Turned) /\ Selected' = Selected /\ (Rendering' <=> Rendering)
<1>1. \A s, name : EverPinned(s, name)' <=> EverPinned(s, name)
  BY DEF EverPinned
<1>2. \A s, es : Reordered(s, es)' = Reordered(s, es)
  BY <1>1 DEF Reordered
<1>3. \A layer : ReorderedLayer(layer)' = ReorderedLayer(layer)
  BY <1>2 DEF ReorderedLayer
<1>4. Turned' = Turned
  BY <1>3 DEF Turned
<1>5. PinnedNames' = PinnedNames
  BY <1>1 DEF PinnedNames
<1>6. \A layers : Folds(layers)' = Folds(layers)
  BY DEF Folds
<1>7. Folds(Turned)' = Folds(Turned)
  BY <1>4, <1>6
<1>8. FoldOf(Turned)' = FoldOf(Turned)
  BY <1>4, <1>7 DEF FoldOf
<1>9. Selected' = Selected /\ (Rendering' <=> Rendering)
  BY DEF Selected, Rendering
<1>10. QED
  BY <1>5, <1>7, <1>8, <1>9

LEMMA SameRests ==
  ASSUME SameInv, UNCHANGED <<case, phase, at, doc, filePolicy>>
  PROVE  SameInv'
<1>1. TwinSoFar'
  BY TwinRests DEF SameInv, TwinSoFar
<1>2. ItemsSound'
  BY DEF SameInv, ItemsSound
<1>3. phase = "open" => IF Rendering THEN doc = TwinWritten ELSE ListsInOrder
  BY SameIs DEF SameInv
<1>4. TwinWritten' = TwinWritten
  BY TwinRests DEF TwinWritten
<1>5. ListsInOrder' <=> ListsInOrder
  BY TwinRests DEF ListsInOrder
<1>6. phase' = "open" => IF Rendering' THEN doc' = TwinWritten' ELSE ListsInOrder'
  BY <1>3, <1>4, <1>5, TwinRests
<1>7. SameContentSameBytes'
  BY <1>6 DEF SameContentSameBytes, TwinWritten, ListsInOrder, Turned
<1>8. QED
  BY <1>1, <1>2, <1>7 DEF SameInv

LEMMA SameElsewhere ==
  ASSUME phase' \notin {"merging", "reading", "open"}
  PROVE  SameInv'
BY DEF SameInv, TwinSoFar, ItemsSound, SameContentSameBytes

LEMMA SameStarts ==
  ASSUME StateOK, RenderInv, Start
  PROVE  SameInv'
<1>1. /\ phase = "start" /\ at = 1 /\ doc = EmptyFold /\ filePolicy = Unset
      /\ case' = case /\ at' = 1 /\ doc' = EmptyFold /\ filePolicy' = Unset
  BY DEF RenderInv, FoldBegins, Start, fold
<1>2. phase' \in {"over", "merging", "locating"}
  BY DEF Start
<1>3. Folds(Turned)[0] = EmptyFold
  BY TurnedFolds DEF StateOK
<1>4. DocumentKept(case.names, PinnedNames, EmptyFold, EmptyFold)
  BY EmptyKept
<1>5. DocumentKept(case'.names, PinnedNames', doc', Folds(Turned)'[at' - 1])
  <2>1. at' - 1 = 0
    BY <1>1
  <2>2. PinnedNames' = PinnedNames /\ Folds(Turned)' = Folds(Turned)
    BY <1>1, TwinRests
  <2>3. QED
    BY <1>1, <1>3, <1>4, <2>1, <2>2
<1>6. TwinSoFar'
  BY <1>1, <1>5 DEF TwinSoFar
<1>7. QED
  BY <1>2, <1>6 DEF SameInv, ItemsSound, SameContentSameBytes

LEMMA SameFolded ==
  ASSUME StateOK, RenderInv, SameInv, MergeLayer
  PROVE  SameInv'
<1>1. phase = "merging" /\ case' = case /\ at <= Len(case.layers) /\ FoldedSoFar /\ TwinSoFar
  BY DEF MergeLayer, RenderInv, SameInv
<1>2. /\ Len(case.layers) \in Nat /\ DOMAIN case.layers = 1..Len(case.layers)
      /\ at \in 1..Len(case.layers) + 1 /\ case \in Cases
  BY <1>1, LayersKnown DEF StateOK, FoldedSoFar
<1>3. CASE phase' = "over"
  BY <1>3, SameElsewhere
<1>4. CASE /\ Admitted(case.layers[at], case.layering)
           /\ doc' = MergeStep(doc, case.layers[at], case.layering)
           /\ filePolicy' = Over(filePolicy, case.layers[at].undeclared)
           /\ at' = at + 1 /\ UNCHANGED phase
  <2>1. PICK k \in 1..Len(case.layers) : k = at
    BY <1>1, <1>2
  <2>2. PICK layer : layer = case.layers[k]
    OBVIOUS
  <2>3. k \in DOMAIN case.layers /\ Admitted(layer, case.layering) /\ at' - 1 = k
    BY <1>2, <1>4, <2>1, <2>2
  <2>4. LayerKept(case.names, PinnedNames, layer, ReorderedLayer(layer))
    BY <1>2, <2>2, <2>3, LayerTurned
  <2>5. layer.undeclared \in Policies \cup {Unset}
    BY <1>2, <2>2, <2>3, LayerBrought
  <2>6. /\ filePolicy \in Policies \cup {Unset}
        /\ DocumentKept(case.names, PinnedNames, doc, Folds(Turned)[k - 1])
    BY <1>1, <2>1 DEF TwinSoFar
  <2>7. Unset \notin case.names /\ Unset \notin NestedLists(case.names)
    BY <1>2, CasesAssumption DEF LayersWritten
  <2>8. DocumentKept(case.names, PinnedNames, MergeStep(doc, layer, case.layering),
                     MergeStep(Folds(Turned)[k - 1], ReorderedLayer(layer), case.layering))
    BY <2>4, <2>6, <2>7, StepKept
  <2>9. Folds(Turned)[k] = MergeStep(Folds(Turned)[k - 1], ReorderedLayer(layer), case.layering)
    BY <1>2, <2>2, TurnedFolds
  <2>10. doc' = MergeStep(doc, layer, case.layering)
    BY <1>4, <2>1, <2>2
  <2>11. DocumentKept(case.names, PinnedNames, doc', Folds(Turned)[k])
    BY <2>8, <2>9, <2>10
  <2>12. filePolicy' \in Policies \cup {Unset}
    BY <1>4, <2>1, <2>2, <2>5, <2>6 DEF Over
  <2>13. PinnedNames' = PinnedNames /\ Folds(Turned)' = Folds(Turned)
    BY <1>1, TwinRests
  <2>14. TwinSoFar'
    BY <1>1, <2>3, <2>11, <2>12, <2>13 DEF TwinSoFar
  <2>15. phase' = "merging"
    BY <1>1, <1>4
  <2>16. QED
    BY <2>14, <2>15 DEF SameInv, ItemsSound, SameContentSameBytes
<1>5. QED
  BY <1>3, <1>4 DEF MergeLayer

LEMMA SameJudged ==
  ASSUME StateOK, Progress, RenderInv, SameInv, Judge
  PROVE  SameInv'
<1>1. /\ phase = "merging" /\ case' = case /\ at > Len(case.layers) /\ FoldedSoFar /\ TwinSoFar
      /\ filePolicy' = filePolicy /\ case \in Cases /\ Rendering
  BY DEF Judge, RenderInv, SameInv, StateOK, Progress
<1>2. /\ Len(case.layers) \in Nat /\ at \in 1..Len(case.layers) + 1
  BY <1>1, LayersKnown DEF FoldedSoFar
<1>3. at - 1 = Len(case.layers)
  BY <1>1, <1>2
<1>4. PICK fallback : fallback = Over(case.undeclared, filePolicy)
  OBVIOUS
<1>5. doc' = CanonicalDocument(ResolvePolicies(doc, fallback)) /\ phase' \in {"open", "over"}
  BY <1>4 DEF Judge
<1>6. /\ Unset \notin case.names /\ Unset \notin NestedLists(case.names)
      /\ case.names \in SUBSET (Nat \ {0}) /\ case.undeclared \in Policies \cup {Unset}
  <2>1. LayersWritten(case)
    BY <1>1, CasesAssumption
  <2>2. QED
    BY <2>1 DEF LayersWritten
<1>7. fallback \in Policies \cup {Unset}
  BY <1>1, <1>4, <1>6 DEF TwinSoFar, Over
<1>8. FoldOf(Turned) = Folds(Turned)[Len(case.layers)]
  BY <1>1, TurnedFolds
<1>9. DocumentKept(case.names, PinnedNames, doc, FoldOf(Turned))
  BY <1>1, <1>3, <1>8 DEF TwinSoFar
<1>10. CanonicalDocument(ResolvePolicies(doc, fallback)) = CanonicalDocument(ResolvePolicies(FoldOf(Turned), fallback))
  BY <1>6, <1>7, <1>9, KeptIsWrittenOnce
<1>11. TwinWritten' = CanonicalDocument(ResolvePolicies(FoldOf(Turned), fallback))
  BY <1>1, <1>4, TwinRests DEF TwinWritten
<1>12. Rendering' /\ doc' = TwinWritten'
  BY <1>1, <1>5, <1>10, <1>11, TwinRests
<1>13. phase' = "open" => IF Rendering' THEN doc' = TwinWritten' ELSE ListsInOrder'
  BY <1>12
<1>14. SameContentSameBytes'
  BY <1>13 DEF SameContentSameBytes, TwinWritten, ListsInOrder, Turned
<1>15. QED
  BY <1>5, <1>14 DEF SameInv, TwinSoFar, ItemsSound

(* A list that is read holds each of its items once. *)
SectionSound(next) == next = doc \/ \E value :
  /\ next = [doc EXCEPT ![Section] = value]
  /\ Kind[Section] = "list" => value = Unset \/ ListDone(case.names, value)

LEMMA ItemsListed ==
  ASSUME StateOK, ReadSoFar, phase = "reading", read.n <= Len(Sections), Kind[Section] = "list",
         NEW answer, ReadList(answer)
  PROVE  SectionSound(doc')
<1>1. read.items \in Seq(case.names) /\ read.page \in Nat \ {0} /\ read.n \in Nat \ {0}
  BY DEF ReadSoFar, ReadSpace
<1>2. Section \in DOMAIN Kind
  BY <1>1, SectionKinds DEF Section
<1>3. live[Section] \in Seq(case.names)
  BY <1>2, HeldOne DEF StateOK
<1>4. PICK page : page = PageOf(live[Section], read.page)
  OBVIOUS
<1>5. page \in Seq(case.names)
  BY <1>1, <1>3, <1>4, PagesJoin
<1>6. PICK items : items = IF Answered(answer) THEN read.items \o page ELSE read.items
  OBVIOUS
<1>7. items \in Seq(case.names)
  <2>1. read.items \o page \in Seq(case.names)
    BY <1>1, <1>5, JoinedPlaces
  <2>2. QED
    BY <1>1, <1>6, <2>1
<1>8. EndList(items) \/ doc' = doc \/ Fails(answer)
  BY <1>4, <1>6 DEF ReadList, Goes
<1>9. ASSUME EndList(items) PROVE SectionSound(doc')
  <2>1. CASE ~IsInjective(items)
    BY <1>9, <2>1 DEF EndList, EndSection, SectionSound
  <2>2. CASE IsInjective(items)
    <3> DEFINE value == IF items = <<>> THEN Unset ELSE items
    <3>1. doc' = [doc EXCEPT ![Section] = value]
      BY <1>9, <2>2 DEF EndList, EndSection
    <3>2. value = Unset \/ ListDone(case.names, value)
      BY <1>7, <2>2 DEF ListDone
    <3> HIDE DEF value
    <3>3. QED
      BY <3>1, <3>2 DEF SectionSound
  <2>3. QED
    BY <2>1, <2>2
<1>10. ASSUME Fails(answer) PROVE SectionSound(doc')
  BY <1>10 DEF Fails, EndSection, SectionSound
<1>11. QED
  BY <1>8, <1>9, <1>10 DEF SectionSound

LEMMA ItemsTaken ==
  ASSUME StateOK, ReadSoFar, phase = "reading", read.n <= Len(Sections),
         Kind[Section] # "writeonly", NEW answer, Take(answer)
  PROVE  SectionSound(doc')
<1>1. CASE Retried(answer, read.tries)
  BY <1>1 DEF Take, Goes, SectionSound
<1>2. CASE ~Retried(answer, read.tries) /\ Kind[Section] = "list"
  <2>1. ReadList(answer)
    BY <1>2 DEF Take
  <2>2. QED
    BY <1>2, <2>1, ItemsListed
<1>3. CASE ~Retried(answer, read.tries) /\ Kind[Section] = "probe"
  <2>1. ReadProbe(answer)
    BY <1>3 DEF Take
  <2>2. QED
    BY <1>3, <2>1 DEF ReadProbe, EndSection, Fails, SectionSound
<1>4. CASE ~Retried(answer, read.tries) /\ Kind[Section] = "shared"
  <2>1. ReadShared(answer)
    BY <1>4 DEF Take
  <2>2. QED
    BY <1>4, <2>1 DEF ReadShared, EndSection, Fails, Goes, SectionSound
<1>5. QED
  <2>1. read.n \in Nat \ {0}
    BY DEF ReadSoFar, ReadSpace
  <2>2. Kind[Section] \in {"list", "probe", "shared", "writeonly"}
    BY <2>1, SectionKinds DEF Section
  <2>3. QED
    BY <1>1, <1>2, <1>3, <1>4, <2>2

LEMMA SameRead ==
  ASSUME StateOK, ReadSoFar, SameInv, SnapshotSection
  PROVE  SameInv'
<1>1. /\ phase = "reading" /\ phase' = "reading" /\ case' = case /\ read.n <= Len(Sections) /\ ItemsSound
      /\ doc = [s \in ToSet(Sections) |-> doc[s]]
  BY DEF SnapshotSection, SameInv, ReadSoFar
<1>2. SectionSound(doc')
  <2>1. CASE doc' = doc
    BY <2>1 DEF SectionSound
  <2>2. CASE Kind[Section] = "writeonly" /\ EndSection(Row("unsupported", {"no read"}), Unset)
    BY <2>2 DEF EndSection, SectionSound
  <2>3. CASE Kind[Section] # "writeonly" /\ \E answer : Take(answer)
    BY <1>1, <2>3, ItemsTaken
  <2>4. QED
    BY <2>1, <2>2, <2>3 DEF SnapshotSection, Goes
<1>3. ItemsSound'
  <2>1. CASE doc' = doc
    BY <1>1, <2>1 DEF ItemsSound
  <2>2. ASSUME NEW value, doc' = [doc EXCEPT ![Section] = value],
               Kind[Section] = "list" => value = Unset \/ ListDone(case.names, value)
        PROVE  ItemsSound'
    <3>1. \A s \in ToSet(Sections) : doc'[s] = IF s = Section THEN value ELSE doc[s]
      BY <1>1, <2>2
    <3>2. \A s \in ToSet(Sections) : Kind[s] = "list" /\ doc'[s] # Unset => ListDone(case.names, doc'[s])
      BY <1>1, <2>2, <3>1 DEF ItemsSound
    <3>3. QED
      BY <1>1, <3>2 DEF ItemsSound
  <2>3. QED
    BY <1>2, <2>1, <2>2 DEF SectionSound
<1>4. QED
  BY <1>1, <1>3 DEF SameInv, TwinSoFar, SameContentSameBytes

LEMMA SameLocated ==
  ASSUME StateOK, SameInv, Locate
  PROVE  SameInv'
<1>1. phase' \in {"over", "locating", "reading"} /\ (phase' = "reading" => doc' = EmptyDocument)
  BY DEF Locate
<1>2. \A s \in ToSet(Sections) : EmptyDocument[s] = Unset
  BY DEF EmptyDocument
<1>3. ItemsSound'
  BY <1>1, <1>2 DEF ItemsSound
<1>4. QED
  BY <1>1, <1>3 DEF SameInv, TwinSoFar, SameContentSameBytes

(* The names of an ordered list rise. *)
LEMMA NamesRise ==
  ASSUME NEW names \in SUBSET Nat, NEW list, ListDone(names, list)
  PROVE  LET U == OrderedBy(list, list)
         IN  \A i, j \in DOMAIN U : i < j => U[i] < U[j]
<1> DEFINE U == OrderedBy(list, list)
<1>1. list \in Seq(names) /\ IsInjective(list)
  BY DEF ListDone
<1>2. /\ Len(list) \in Nat /\ DOMAIN list = 1..Len(list)
      /\ \A i \in DOMAIN list : list[i] \in names /\ list[i] \in Nat
  <2>1. Len(list) \in Nat /\ DOMAIN list = 1..Len(list) /\ \A i \in 1..Len(list) : list[i] \in names
    BY <1>1
  <2>2. \A n \in names : n \in Nat
    OBVIOUS
  <2>3. QED
    BY <2>1, <2>2
<1>3. PICK place : PlacedBy(list, list, U, place)
  BY <1>2, OrderedPlaced
<1>4. PICK m \in Nat : DOMAIN U = 1..m
  BY <1>2, OrderedPlaced
<1> HIDE DEF U
<1>5. ASSUME NEW i \in DOMAIN U, NEW j \in DOMAIN U, i < j PROVE U[i] < U[j]
  <2>1. place[i] \in DOMAIN list /\ place[j] \in DOMAIN list /\ U[i] = list[place[i]] /\ U[j] = list[place[j]]
    BY <1>3 DEF PlacedBy
  <2>2. list[place[i]] < list[place[j]] \/ (list[place[i]] = list[place[j]] /\ place[i] < place[j])
    BY <1>3, <1>5 DEF PlacedBy
  <2>3. place[i] \in Nat /\ place[j] \in Nat
    BY <1>2, <2>1
  <2>4. list[place[i]] = list[place[j]] => place[i] = place[j]
    BY <1>1, <2>1 DEF IsInjective
  <2>5. ~(list[place[i]] = list[place[j]] /\ place[i] < place[j])
    BY <2>3, <2>4
  <2>6. QED
    BY <2>1, <2>2, <2>5
<1>6. QED
  BY <1>5 DEF U

LEMMA SameAssembled ==
  ASSUME StateOK, Progress, ReadSoFar, SameInv, Assemble
  PROVE  SameInv'
<1>1. /\ phase = "reading" /\ ~Rendering /\ case' = case /\ ItemsSound /\ case.names \in SUBSET Nat
      /\ doc = [s \in ToSet(Sections) |-> doc[s]]
  BY LayersKnown DEF Assemble, Progress, SameInv, ReadSoFar, StateOK
<1>2. CASE phase' \in {"over", "locating"}
  BY <1>2, SameElsewhere
<1>3. CASE doc' = Canonical(doc) /\ phase' = "open"
  <2>1. Selected \subseteq ToSet(Sections) /\ DOMAIN doc = ToSet(Sections)
    BY <1>1 DEF Selected
  <2>2. ASSUME NEW s \in Selected, Kind[s] = "list", doc'[s] # Unset
        PROVE  \A i, j \in DOMAIN doc'[s] : i < j => doc'[s][i] < doc'[s][j]
    <3>1. doc'[s] = IF doc[s] # Unset THEN OrderedBy(doc[s], doc[s]) ELSE doc[s]
      BY <1>3, <2>1, <2>2 DEF Canonical
    <3>2. doc[s] # Unset /\ doc'[s] = OrderedBy(doc[s], doc[s])
      BY <2>2, <3>1
    <3>3. ListDone(case.names, doc[s])
      BY <1>1, <2>1, <2>2, <3>2 DEF ItemsSound
    <3>4. QED
      BY <1>1, <3>2, <3>3, NamesRise
  <2>3. ListsInOrder'
    BY <1>1, <2>2, TwinRests DEF ListsInOrder
  <2>4. ~Rendering'
    BY <1>1, TwinRests
  <2>5. SameContentSameBytes'
    BY <2>3, <2>4 DEF SameContentSameBytes, ListsInOrder
  <2>6. QED
    BY <1>3, <2>5 DEF SameInv, TwinSoFar, ItemsSound
<1>4. QED
  <2>1. phase' \in {"over", "locating"} \/ (doc' = Canonical(doc) /\ phase' = "open")
    BY DEF Assemble, Concludes, NextTarget
  <2>2. QED
    BY <1>2, <1>3, <2>1

LEMMA SameBegins == Init => SameInv
<1> SUFFICES ASSUME Init PROVE SameInv
  OBVIOUS
<1>1. phase = "start"
  BY DEF Init
<1>2. QED
  BY <1>1 DEF SameInv, TwinSoFar, ItemsSound, SameContentSameBytes

LEMMA SameStep == StateOK /\ ReadSoFar /\ Progress /\ RenderInv /\ SameInv /\ [Next]_vars => SameInv'
<1> SUFFICES ASSUME StateOK, ReadSoFar, Progress, RenderInv, SameInv, [Next]_vars PROVE SameInv'
  OBVIOUS
<1>1. CASE Start
  BY <1>1, SameStarts
<1>2. CASE MergeLayer
  BY <1>2, SameFolded
<1>3. CASE Judge
  BY <1>3, SameJudged
<1>4. CASE Locate
  BY <1>4, SameLocated
<1>5. CASE SnapshotSection
  BY <1>5, SameRead
<1>6. CASE Assemble
  BY <1>6, SameAssembled
<1>7. CASE OpenStaging
  <2>1. phase' \in {"writing", "over", "locating"}
    BY <1>7 DEF OpenStaging, WriteFails, Concludes, NextTarget
  <2>2. QED
    BY <2>1, SameElsewhere
<1>8. CASE WriteStaging
  <2>1. phase' \in {"renaming", "over", "locating"}
    BY <1>8 DEF WriteStaging, WriteFails, Concludes, NextTarget
  <2>2. QED
    BY <2>1, SameElsewhere
<1>9. CASE Rename
  <2>1. phase' \in {"over", "locating"}
    BY <1>9 DEF Rename, WriteFails, Concludes, NextTarget
  <2>2. QED
    BY <2>1, SameElsewhere
<1>10. CASE Edit
  BY <1>10, SameRests DEF Edit, fold
<1>11. CASE Crash
  <2>1. phase' = "over"
    BY <1>11 DEF Crash
  <2>2. QED
    BY <2>1, SameElsewhere
<1>12. CASE Rerun
  <2>1. phase' = "start"
    BY <1>12 DEF Rerun
  <2>2. QED
    BY <2>1, SameElsewhere
<1>13. CASE UNCHANGED vars
  BY <1>13, SameRests DEF vars, fold
<1>14. QED
  BY <1>1, <1>2, <1>3, <1>4, <1>5, <1>6, <1>7, <1>8, <1>9, <1>10, <1>11, <1>12, <1>13 DEF Next

(* In every state of every run, the document a render is folding and the one it
   would be folding had every list been written the other way round, the pinned
   environments kept in their order, hold the same entries list by list and nested
   list by nested list; and a list being read holds each of its items once.    *)
THEOREM SameInvariant == Spec => []SameInv
<1>1. IInv => StateOK /\ ReadSoFar
  BY DEF IInv
<1>2. FileInv => Progress
  BY DEF FileInv
<1>3. QED
  BY Invariant, FilesInvariant, FoldInvariant, SameBegins, SameStep, <1>1, <1>2, PTL DEF Spec

(* The same content is the same bytes, whatever the layers hold and however many
   there are: turning every keyed list of every layer over, and every list nested
   in its entries, renders the document that was rendered, and a snapshot lists
   what it read by name.  src/engine/canonical.ts:1-20, src/engine/layers.ts:318-328. *)
THEOREM SameContentIsSameBytes == Spec => []SameContentSameBytes
<1>1. SameInv => SameContentSameBytes
  BY DEF SameInv
<1>2. QED
  BY SameInvariant, <1>1, PTL
=============================================================================
