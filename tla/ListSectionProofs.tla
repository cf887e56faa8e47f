------------------------- MODULE ListSectionProofs -------------------------
(***************************************************************************)
(* Proofs about ListSection, for the six sections the factory makes.       *)
(***************************************************************************)
EXTENDS ListSections, Numbers, FunctionTheorems

-----------------------------------------------------------------------------
(* Joined sequences. *)

(* F joins the first n sequences of G: its k-th element is the pos[k]-th of the
   own[k]-th sequence, in their order, and none is missing.                *)
Joins(F, G, n, own, pos) ==
  /\ own \in [DOMAIN F -> 1..n] /\ pos \in [DOMAIN F -> Nat]
  /\ \A k \in DOMAIN F : pos[k] \in DOMAIN G[own[k]] /\ F[k] = G[own[k]][pos[k]]
  /\ \A k, m \in DOMAIN F : k < m => own[k] < own[m] \/ (own[k] = own[m] /\ pos[k] < pos[m])
  /\ \A o \in 1..n : \A p \in DOMAIN G[o] : \E k \in DOMAIN F : own[k] = o /\ pos[k] = p
IsJoin(F, G, n) == \E own, pos : Joins(F, G, n, own, pos)

(* One sequence more. *)
LEMMA JoinOneMore ==
  ASSUME NEW S, NEW G \in Seq(Seq(S)), NEW n \in Nat, n + 1 \in DOMAIN G,
         NEW F \in Seq(S), IsJoin(F, G, n)
  PROVE  F \o G[n + 1] \in Seq(S) /\ IsJoin(F \o G[n + 1], G, n + 1)
<1> DEFINE H == G[n + 1]
<1> DEFINE J == F \o H
<1>1. H \in Seq(S)
  OBVIOUS
<1> HIDE DEF H
<1>2. /\ J \in Seq(S) /\ Len(J) = Len(F) + Len(H) /\ Len(F) \in Nat /\ Len(H) \in Nat
      /\ DOMAIN J = 1..Len(J) /\ DOMAIN F = 1..Len(F) /\ DOMAIN H = 1..Len(H)
      /\ \A k \in DOMAIN F : k \in DOMAIN J /\ J[k] = F[k]
      /\ \A k \in DOMAIN J : k \notin DOMAIN F => k - Len(F) \in DOMAIN H /\ J[k] = H[k - Len(F)]
      /\ \A p \in DOMAIN H : p + Len(F) \in DOMAIN J
  BY <1>1
<1> HIDE DEF J
<1>3. PICK own, pos : Joins(F, G, n, own, pos)
  BY DEF IsJoin
<1> DEFINE o2 == [k \in DOMAIN J |-> IF k \in DOMAIN F THEN own[k] ELSE n + 1]
<1> DEFINE p2 == [k \in DOMAIN J |-> IF k \in DOMAIN F THEN pos[k] ELSE k - Len(F)]
<1>4. /\ own \in [DOMAIN F -> 1..n] /\ pos \in [DOMAIN F -> Nat]
      /\ \A k \in DOMAIN F : own[k] \in 1..n /\ own[k] < n + 1
  BY <1>3 DEF Joins
<1>5. o2 \in [DOMAIN J -> 1..n + 1]
  BY <1>4
<1>6. p2 \in [DOMAIN J -> Nat]
  BY <1>2, <1>4
<1>7. \A k \in DOMAIN F : o2[k] = own[k] /\ p2[k] = pos[k]
  BY <1>2
<1>8. \A k \in DOMAIN J : k \notin DOMAIN F => o2[k] = n + 1 /\ p2[k] = k - Len(F)
  OBVIOUS
<1> HIDE DEF o2, p2
<1>9. \A k \in DOMAIN J : p2[k] \in DOMAIN G[o2[k]] /\ J[k] = G[o2[k]][p2[k]]
  <2> TAKE k \in DOMAIN J
  <2>1. CASE k \in DOMAIN F
    BY <2>1, <1>2, <1>3, <1>7 DEF Joins
  <2>2. CASE k \notin DOMAIN F
    BY <2>2, <1>2, <1>8 DEF H
  <2>3. QED
    BY <2>1, <2>2
<1>10. \A k, m \in DOMAIN J : k < m => o2[k] < o2[m] \/ (o2[k] = o2[m] /\ p2[k] < p2[m])
  <2> TAKE k, m \in DOMAIN J
  <2> HAVE k < m
  <2>1. CASE m \in DOMAIN F
    <3>1. k \in DOMAIN F
      BY <2>1, <1>2
    <3>2. QED
      BY <2>1, <3>1, <1>3, <1>7 DEF Joins
  <2>2. CASE m \notin DOMAIN F /\ k \in DOMAIN F
    BY <2>2, <1>4, <1>7, <1>8
  <2>3. CASE m \notin DOMAIN F /\ k \notin DOMAIN F
    BY <2>3, <1>2, <1>8
  <2>4. QED
    BY <2>1, <2>2, <2>3
<1>11. ASSUME NEW o \in 1..n + 1, NEW p \in DOMAIN G[o]
       PROVE  \E k \in DOMAIN J : o2[k] = o /\ p2[k] = p
  <2>1. CASE o = n + 1
    <3>1. p \in DOMAIN H /\ p \in Nat /\ p > 0
      BY <2>1, <1>2 DEF H
    <3>2. p + Len(F) \in DOMAIN J /\ p + Len(F) \notin DOMAIN F
      BY <3>1, <1>2
    <3>3. (p + Len(F)) - Len(F) = p
      BY <3>1, <1>2
    <3>4. QED
      BY <2>1, <3>2, <3>3, <1>8
  <2>2. CASE o \in 1..n
    <3>1. PICK k \in DOMAIN F : own[k] = o /\ pos[k] = p
      BY <2>2, <1>3 DEF Joins
    <3>2. QED
      BY <3>1, <1>2, <1>7
  <2>3. QED
    BY <2>1, <2>2
<1>12. Joins(J, G, n + 1, o2, p2)
  BY <1>5, <1>6, <1>9, <1>10, <1>11 DEF Joins
<1>13. QED
  BY <1>2, <1>12 DEF IsJoin, J, H

(* The function FlattenSeq is made of is there. *)
LEMMA PrefixesExist ==
  ASSUME NEW G, NEW N \in Nat
  PROVE  \E f : f = [i \in 1..N |-> IF i = 1 THEN G[i] ELSE f[i - 1] \o G[i]]
<1> DEFINE Good(n) == \E f : f = [i \in 1..n |-> IF i = 1 THEN G[i] ELSE f[i - 1] \o G[i]]
<1> DEFINE D == {n \in Nat : Good(n)}
<1>1. 0 \in D
  <2> DEFINE f == [i \in 1..0 |-> G[i]]
  <2>1. f = [i \in 1..0 |-> IF i = 1 THEN G[i] ELSE f[i - 1] \o G[i]]
    OBVIOUS
  <2>2. QED
    BY <2>1
<1>2. ASSUME NEW n \in D PROVE n + 1 \in D
  <2>1. PICK f : f = [i \in 1..n |-> IF i = 1 THEN G[i] ELSE f[i - 1] \o G[i]]
    OBVIOUS
  <2> DEFINE g == [i \in 1..n + 1 |-> IF i \in 1..n THEN f[i] ELSE IF i = 1 THEN G[i] ELSE f[i - 1] \o G[i]]
  <2>2. ASSUME NEW i \in 1..n + 1 PROVE g[i] = IF i = 1 THEN G[i] ELSE g[i - 1] \o G[i]
    <3>1. i # 1 => i - 1 \in 1..n /\ i - 1 \in 1..n + 1 /\ g[i - 1] = f[i - 1]
      OBVIOUS
    <3>2. i \in 1..n => f[i] = IF i = 1 THEN G[i] ELSE f[i - 1] \o G[i]
      BY <2>1
    <3> HIDE <2>1
    <3>3. g[i] = IF i = 1 THEN G[i] ELSE f[i - 1] \o G[i]
      BY <3>2
    <3>4. QED
      BY <3>1, <3>3
  <2>3. g = [i \in 1..n + 1 |-> IF i = 1 THEN G[i] ELSE g[i - 1] \o G[i]]
    <3>1. g = [i \in 1..n + 1 |-> g[i]]
      OBVIOUS
    <3> HIDE DEF g
    <3>2. QED
      BY <2>2, <3>1
  <2>4. Good(n + 1)
    <3> HIDE DEF g
    <3> WITNESS g
    <3>1. QED
      BY <2>3
  <2> HIDE DEF Good
  <2>5. QED
    BY <2>4
<1>3. N \in D
  <2> HIDE DEF D
  <2>1. D \in SUBSET Nat
    BY DEF D
  <2>2. QED
    BY <1>1, <1>2, <2>1, EveryNumber
<1>4. QED
  BY <1>3

(* FlattenSeq joins all of its sequences. *)
LEMMA FlattenedJoins ==
  ASSUME NEW S, NEW G \in Seq(Seq(S))
  PROVE  FlattenSeq(G) \in Seq(S) /\ IsJoin(FlattenSeq(G), G, Len(G))
<1> DEFINE N == Len(G)
<1>0. N \in Nat /\ DOMAIN G = 1..N
  OBVIOUS
<1>1. CASE N = 0
  <2>1. FlattenSeq(G) = G /\ G = <<>>
    BY <1>1 DEF FlattenSeq
  <2>2. Joins(<<>>, G, 0, <<>>, <<>>)
    BY <2>1 DEF Joins
  <2>3. QED
    BY <1>1, <2>1, <2>2 DEF IsJoin
<1>2. CASE N # 0
  <2> DEFINE f == CHOOSE f : f = [i \in 1..N |-> IF i = 1 THEN G[i] ELSE f[i - 1] \o G[i]]
  <2>1. f = [i \in 1..N |-> IF i = 1 THEN G[i] ELSE f[i - 1] \o G[i]]
    BY <1>0, PrefixesExist
  <2>2. FlattenSeq(G) = f[N]
    BY <1>2 DEF FlattenSeq
  <2> HIDE DEF f
  <2> DEFINE D == {n \in Nat : n + 1 \in 1..N => f[n + 1] \in Seq(S) /\ IsJoin(f[n + 1], G, n + 1)}
  <2>3. 0 \in D
    <3>1. G[1] \in Seq(S) /\ f[1] = G[1]
      BY <1>0, <1>2, <2>1
    <3>2. Joins(<<>>, G, 0, <<>>, <<>>)
      BY DEF Joins
    <3>3. <<>> \in Seq(S) /\ IsJoin(<<>>, G, 0) /\ 0 + 1 \in DOMAIN G
      BY <3>2, <1>0, <1>2 DEF IsJoin
    <3>4. <<>> \o G[0 + 1] \in Seq(S) /\ IsJoin(<<>> \o G[0 + 1], G, 0 + 1)
      BY <3>3, JoinOneMore
    <3>5. <<>> \o G[0 + 1] = f[0 + 1]
      BY <3>1
    <3>6. QED
      BY <3>4, <3>5
  <2>4. ASSUME NEW n \in D PROVE n + 1 \in D
    <3>1. SUFFICES ASSUME n + 2 \in 1..N
                   PROVE  f[n + 2] \in Seq(S) /\ IsJoin(f[n + 2], G, n + 2)
      <4>1. n \in Nat /\ (n + 1) + 1 = n + 2
        OBVIOUS
      <4>2. QED
        BY <4>1
    <3>2. n \in Nat /\ n + 1 \in 1..N /\ n + 2 # 1 /\ (n + 2) - 1 = n + 1 /\ (n + 1) + 1 = n + 2
      BY <1>0, <3>1
    <3>3. f[n + 1] \in Seq(S) /\ IsJoin(f[n + 1], G, n + 1)
      BY <3>2
    <3>4. f[n + 2] = f[n + 1] \o G[n + 2]
      BY <2>1, <3>1, <3>2
    <3>5. n + 1 \in Nat /\ (n + 1) + 1 \in DOMAIN G
      BY <1>0, <3>1, <3>2
    <3>6. f[n + 1] \o G[(n + 1) + 1] \in Seq(S) /\ IsJoin(f[n + 1] \o G[(n + 1) + 1], G, (n + 1) + 1)
      BY <3>3, <3>5, JoinOneMore
    <3>7. QED
      BY <3>2, <3>4, <3>6
  <2>5. N - 1 \in D
    <3> HIDE DEF D
    <3>1. D \in SUBSET Nat /\ N - 1 \in Nat
      BY <1>0, <1>2 DEF D
    <3>2. QED
      BY <2>3, <2>4, <3>1, EveryNumber
  <2>6. (N - 1) + 1 = N /\ N \in 1..N
    BY <1>0, <1>2
  <2>7. QED
    BY <2>2, <2>5, <2>6
<1>3. QED
  BY <1>1, <1>2

-----------------------------------------------------------------------------
(* What GitHub lists, what it numbers, and what the six sections declare. *)

(* The list of a finite set of items holds each of them once, by its id. *)
LEMMA Listed ==
  ASSUME NEW S \in SUBSET Item, IsFiniteSet(S), \A x, y \in S : x.id = y.id => x = y
  PROVE  /\ Cardinality(S) \in Nat
         /\ AsListed(S) \in [1..Cardinality(S) -> S]
         /\ \A i, j \in 1..Cardinality(S) : i < j => AsListed(S)[i].id < AsListed(S)[j].id
         /\ \A x \in S : \E i \in 1..Cardinality(S) : AsListed(S)[i] = x
<1> DEFINE n == Cardinality(S)
<1> DEFINE upTo(x) == {y \in S : y.id <= x.id}
<1> DEFINE rank == [x \in S |-> Cardinality(upTo(x))]
<1>0. n \in Nat /\ Cardinality(1..n) = n /\ IsFiniteSet(1..n) /\ \A x \in S : x.id \in Nat
  <2>1. n \in Nat
    BY FS_CardinalityType
  <2>2. IsFiniteSet(1..n) /\ Cardinality(1..n) = IF 1 > n THEN 0 ELSE n - 1 + 1
    BY <2>1, FS_Interval
  <2>3. QED
    BY <2>1, <2>2 DEF Item
<1>1. ASSUME NEW x \in S
      PROVE  IsFiniteSet(upTo(x)) /\ rank[x] = Cardinality(upTo(x)) /\ rank[x] \in 1..n
  <2>1. IsFiniteSet(upTo(x)) /\ Cardinality(upTo(x)) <= n
    BY FS_Subset
  <2>2. Cardinality(upTo(x)) \in Nat
    BY <2>1, FS_CardinalityType
  <2>3. upTo(x) # {}
    BY <1>0
  <2>4. Cardinality(upTo(x)) # 0
    BY <2>1, <2>3, FS_EmptySet
  <2>5. QED
    BY <1>0, <2>1, <2>2, <2>4
<1> HIDE DEF rank
<1>2. ASSUME NEW x \in S, NEW y \in S, x.id < y.id PROVE rank[x] < rank[y]
  <2>1. upTo(x) \subseteq upTo(y) /\ y \in upTo(y) /\ y \notin upTo(x)
    BY <1>0, <1>2
  <2>2. Cardinality(upTo(x)) < Cardinality(upTo(y))
    BY <1>1, <2>1, StrictPartIsSmaller
  <2>3. QED
    BY <1>1, <2>2
<1>3. rank \in [S -> 1..n]
  BY <1>1 DEF rank
<1>4. \A x, y \in S : rank[x] = rank[y] => x = y
  <2> TAKE x, y \in S
  <2> HAVE rank[x] = rank[y]
  <2>1. rank[x] \in Nat /\ rank[y] \in Nat /\ x.id \in Nat /\ y.id \in Nat
    BY <1>0, <1>3
  <2>2. ~(x.id < y.id) /\ ~(y.id < x.id)
    BY <1>2, <2>1
  <2>3. QED
    BY <2>1, <2>2
<1>5. \A i \in 1..n : \E x \in S : rank[x] = i
  <2>1. rank \in Injection(S, 1..n)
    BY <1>3, <1>4, Fun_IsInj
  <2>2. rank \in Surjection(S, 1..n)
    BY <1>0, <2>1, FS_Injection
  <2>3. QED
    BY <2>2, Fun_SurjectionProperties
<1> DEFINE s == [i \in 1..n |-> CHOOSE x \in S : rank[x] = i]
<1>6. \A i \in 1..n : s[i] \in S /\ rank[s[i]] = i
  BY <1>5
<1>7. s \in [1..n -> S] /\ DOMAIN s = 1..n
  BY <1>6
<1> HIDE DEF s
<1>8. \A i, j \in 1..n : i < j => s[i].id < s[j].id
  <2> TAKE i, j \in 1..n
  <2> HAVE i < j
  <2>1. s[i] \in S /\ s[j] \in S /\ rank[s[i]] = i /\ rank[s[j]] = j /\ s[i].id \in Nat /\ s[j].id \in Nat
    BY <1>0, <1>6
  <2>2. s[j].id # s[i].id /\ ~(s[j].id < s[i].id)
    BY <1>2, <2>1
  <2>3. QED
    BY <2>1, <2>2
<1> DEFINE a == AsListed(S)
<1>9. a \in [1..n -> S] /\ \A i, j \in DOMAIN a : i < j => a[i].id < a[j].id
  BY <1>7, <1>8 DEF AsListed
<1>10. DOMAIN a = 1..n /\ \A i \in 1..n : a[i] \in S
  BY <1>9
<1> HIDE DEF a
<1>11. \A i, j \in 1..n : a[i] = a[j] => i = j
  <2> TAKE i, j \in 1..n
  <2> HAVE a[i] = a[j]
  <2>1. a[i].id \in Nat /\ ~(a[i].id < a[j].id) /\ ~(a[j].id < a[i].id) /\ i \in Nat /\ j \in Nat
    BY <1>0, <1>10
  <2>2. QED
    BY <1>9, <1>10, <2>1
<1>12. a \in Injection(1..n, S)
  BY <1>9, <1>11, Fun_IsInj
<1>13. a \in Surjection(1..n, S)
  <2>1. Cardinality(1..n) = Cardinality(S) <=> a \in Surjection(1..n, S)
    BY <1>12, FS_Injection
  <2>2. QED
    BY <1>0, <2>1
<1>14. \A x \in S : \E i \in 1..n : a[i] = x
  BY <1>13 DEF Surjection
<1>15. QED
  BY <1>0, <1>9, <1>10, <1>14 DEF a

(* There is a number a finite set does not hold. *)
LEMMA NumberLeft ==
  ASSUME NEW S, IsFiniteSet(S)
  PROVE  \E n \in 1..(Cardinality(S) + 1) : n \notin S
<1> DEFINE k == Cardinality(S)
<1>1. k \in Nat
  BY FS_CardinalityType
<1>2. SUFFICES ASSUME 1..(k + 1) \subseteq S PROVE FALSE
  OBVIOUS
<1>3. Cardinality(1..(k + 1)) <= k
  BY <1>2, FS_Subset
<1>4. Cardinality(1..(k + 1)) = IF 1 > k + 1 THEN 0 ELSE (k + 1) - 1 + 1
  BY <1>1, FS_Interval
<1>5. QED
  BY <1>1, <1>3, <1>4

(* What the six sections have in common (sections/<key>/index.ts). *)
LEMMA Declared ==
  ASSUME NEW d \in Decls
  PROVE  /\ d \in DeclSpace
         /\ \A p, q \in Names : <<p, q>> \in d.clash => <<q, p>> \in d.clash
         /\ d.byName => d.edit = "patch" /\ d.foreign = {}
         /\ ~d.exclusive => \A p, q \in Names : d.key[p] = d.key[q] => <<p, q>> \in d.clash
         /\ d.exclusive => d.edit = "recreate" /\ d.clash = {}
         /\ d.edit # "patch" => ~d.renames /\ \A p \in Names : d.key[p] = p
<1>1. d \in DeclSpace
  BY DeclsAssumption
<1>2. d.key \in [Names -> Names]
  BY <1>1 DEF DeclSpace
<1>3. \A p, q \in Names : <<p, q>> \in Same(d.key) <=> d.key[p] = d.key[q]
  BY DEF Same
<1> DEFINE Common(c) ==
      /\ \A p, q \in Names : <<p, q>> \in c.clash => <<q, p>> \in c.clash
      /\ c.byName => c.edit = "patch" /\ c.foreign = {}
      /\ ~c.exclusive => Same(c.key) \subseteq c.clash
      /\ c.exclusive => c.edit = "recreate" /\ c.clash = {}
      /\ c.edit # "patch" => ~c.renames /\ \A p \in Names : c.key[p] = p
<1>4. \A fold : \A p, q \in Names : <<p, q>> \in Same(fold) => <<q, p>> \in Same(fold)
  BY DEF Same
<1>5. \A p, q \in Names : <<p, q>> \in EitherBegins => <<q, p>> \in EitherBegins
  <2>1. \A p, q : <<p, q>> \in EitherBegins <=> <<p, q>> \in Begins \/ <<q, p>> \in Begins
    BY NamesAssumption DEF EitherBegins
  <2>2. QED
    BY <2>1
<1>6. \A p \in Names : exactName[p] = p
  BY DEF exactName
<1> HIDE DEF Common
<1>7. Common(Labels) /\ Common(Milestones) /\ Common(Webhooks) /\ Common(Rulesets)
  BY <1>4, <1>6 DEF Common, Labels, Milestones, Webhooks, Rulesets
<1>8. Common(Autolinks)
  <2>1. \A p, q \in Names : <<p, q>> \in Autolinks.clash => <<q, p>> \in Autolinks.clash
    BY <1>4, <1>5 DEF Autolinks
  <2>2. QED
    BY <2>1, <1>6 DEF Common, Autolinks
<1>9. Common(DeployKeys)
  BY <1>6 DEF Common, DeployKeys
<1>10. Common(d)
  BY <1>7, <1>8, <1>9, SectionsAssumption
<1>11. QED
  BY <1>1, <1>3, <1>10 DEF Common

(***************************************************************************)
(* What a plan is, of a declaration d, a document t, the items GitHub      *)
(* holds and the operations left.                                          *)
(***************************************************************************)

Wrote(t, i) == WriteName(t.entries[i])

(* Item l is managed, and it is an entry's, or no entry's. *)
Owns(d, t, i, l) == l.val \notin d.foreign /\ d.key[l.name] \in Claims(d, t.entries[i])
Unowned(d, t, l) == l.val \notin d.foreign /\ \A i \in DOMAIN t.entries : ~Owns(d, t, i, l)

(* The item an operation addresses, and the entry it writes. *)
Hits(d, op, l) == IF d.byName THEN d.key[l.name] = d.key[op.at.name] ELSE l.id = op.at.id
Writes(op) == op.role \in {"update", "updateConfig"}
For(t, op, i) ==
  /\ op.role # "remove"
  /\ op.body.name = Wrote(t, i) /\ op.body.val = t.entries[i].val
  /\ t.entries[i].flag # Unset => op.body.flag = t.entries[i].flag

(* An operation serves the entry it writes and addresses an item of that entry's;
   a removal takes what no entry owns under a delete policy, or is the first half
   of a recreate.                                                          *)
Sound(d, t, op) ==
  /\ op.role # "remove" =>
       /\ \E i \in DOMAIN t.entries : For(t, op, i)
       /\ d.edit # "recreate" => \A i \in DOMAIN t.entries : For(t, op, i) => op.body.flag = t.entries[i].flag
  /\ op.role = "remove" =>
       \/ t.policy = "delete" /\ Unowned(d, t, op.at)
       \/ d.edit = "recreate" /\ \E i \in DOMAIN t.entries : Owns(d, t, i, op.at)
  /\ Writes(op) =>
       /\ d.edit # "recreate"
       /\ \A i \in DOMAIN t.entries : For(t, op, i) => Owns(d, t, i, op.at)
       /\ op.role = "updateConfig" => d.edit = "mapping"
       /\ op.role = "update" /\ d.edit = "mapping" => op.body.flag # Unset

(* No two operations address one item, but the two writes of a mapping, nor create
   one; the removals of what no entry owns come first, and the two halves of a
   recreate stand together.                                                *)
Apart(d, a, b) ==
  \/ a.at.id # b.at.id /\ d.key[a.at.name] # d.key[b.at.name]
  \/ a.role = "updateConfig" /\ b.role = "update"
Arranged(d, t, ops) ==
  /\ \A k, m \in DOMAIN ops : k < m =>
       /\ ops[k].role # "create" /\ ops[m].role # "create" => Apart(d, ops[k], ops[m])
       /\ ops[k].role = "create" /\ ops[m].role = "create" => ops[k].body.name # ops[m].body.name
       /\ ops[m].role = "remove" /\ Unowned(d, t, ops[m].at)
            => ops[k].role = "remove" /\ Unowned(d, t, ops[k].at)
  /\ \A k \in DOMAIN ops : \A i \in DOMAIN t.entries :
       ops[k].role = "remove" /\ Owns(d, t, i, ops[k].at)
         => k + 1 \in DOMAIN ops /\ ops[k + 1].role = "create" /\ For(t, ops[k + 1], i)

(* The plan is not refused: one identity, one item; an entry, one item; and the
   val an entry declares is held under its name alone.                     *)
Orderly(d, t, items) ==
  /\ \A l, m \in items : l.val \notin d.foreign /\ m.val \notin d.foreign /\ d.key[l.name] = d.key[m.name] => l = m
  /\ \A i \in DOMAIN t.entries, l, m \in items : Owns(d, t, i, l) /\ Owns(d, t, i, m) => l = m
  /\ d.exclusive => \A i \in DOMAIN t.entries, l \in items :
       l.val \notin d.foreign /\ l.val = t.entries[i].val => l.name = Wrote(t, i)

(* What the operations left say of the items: whom the addressed item belongs to
   has not changed; a create finds its place taken by nothing but what goes before
   it, or by itself where an answer was lost; every addressed item is there while
   no answer was lost.                                                     *)
GoesBefore(ops, k, l) == \E j \in DOMAIN ops : j < k /\ ops[j] = RemoveOp(l)
Held(d, t, items, ops) ==
  \A k \in DOMAIN ops, l \in items : ops[k].role # "create" /\ Hits(d, ops[k], l) =>
    l.val \notin d.foreign /\ \A i \in DOMAIN t.entries : Owns(d, t, i, l) <=> Owns(d, t, i, ops[k].at)
Room(d, t, items, ops, lost) ==
  \A k \in DOMAIN ops, i \in DOMAIN t.entries, l \in items :
    ops[k].role = "create" /\ For(t, ops[k], i) /\ Owns(d, t, i, l) =>
      GoesBefore(ops, k, l) \/ (lost /\ l.name = Wrote(t, i) /\ l.val = t.entries[i].val)
Present(d, items, ops) ==
  \A k \in DOMAIN ops : ops[k].role # "create" => \E l \in items : Hits(d, ops[k], l)

(* What is not as declared has an operation left. *)
Swept(d, t, items, ops) ==
  t.policy = "delete" => \A l \in items : Unowned(d, t, l) => \E k \in DOMAIN ops : ops[k] = RemoveOp(l)
Settled(d, e, l) ==
  (e.flag # Unset => e.flag = l.flag) /\ (e.flag = Unset /\ d.edit = "replace" => l.flag = Default)
Served(d, t, items, ops) ==
  \A i \in DOMAIN t.entries :
    LET e == t.entries[i]
    IN  \/ \E k \in DOMAIN ops : ops[k].role = "create" /\ For(t, ops[k], i)
        \/ \E l \in items :
             /\ Owns(d, t, i, l)
             /\ \/ l.name = Wrote(t, i) /\ l.val = e.val
                \/ \E k \in DOMAIN ops : /\ Writes(ops[k]) /\ For(t, ops[k], i)
                                         /\ ops[k].role = "updateConfig" <=> d.edit = "mapping"
             /\ Settled(d, e, l) \/ \E k \in DOMAIN ops : ops[k].role = "update" /\ For(t, ops[k], i)

(* The field an entry leaves undeclared: what the first plan found is still there,
   or about to be created anew, where nothing else can be in the way.      *)
Found(t, was) == \A i \in DOMAIN t.entries : was[i] # Unset => t.entries[i].flag = Unset
Preserved(d, t, items, was) ==
  \A i \in DOMAIN t.entries, l \in items : was[i] # Unset /\ Owns(d, t, i, l) => l.flag = was[i]
SentAgain(d, t, items, ops, was) ==
  \A k \in DOMAIN ops, i \in DOMAIN t.entries : was[i] # Unset /\ For(t, ops[k], i) =>
    /\ ops[k].role = "create" =>
         /\ d.edit = "recreate" /\ ops[k].body.flag = was[i]
         /\ \A l \in items : <<Wrote(t, i), l.name>> \in d.clash => GoesBefore(ops, k, l)
    /\ ops[k].role = "update" /\ d.edit = "replace" /\ ~ops[k].refused => was[i] = Default
StillThere(d, t, items, ops, was) ==
  \A i \in DOMAIN t.entries : was[i] # Unset =>
    \/ \E l \in items : Owns(d, t, i, l)
    \/ ops # <<>> /\ Head(ops).role = "create" /\ For(t, Head(ops), i)

(* The inductive invariant. *)
Underway == pc = "exec" \/ row = "applied"
PlanInv ==
  /\ Consistent(decl, live)
  /\ pc = "idle" => plan = <<>>
  /\ row = "applied" => pc = "idle"
  /\ faulted => faults > 0
  /\ \A k \in DOMAIN plan : Sound(decl, doc, plan[k])
  /\ Arranged(decl, doc, plan)
RunInv ==
  Underway /\ ~interfered =>
    /\ Orderly(decl, doc, live)
    /\ Held(decl, doc, live, plan)
    /\ Room(decl, doc, live, plan, faulted)
    /\ ~faulted => Present(decl, live, plan)
    /\ Swept(decl, doc, live, plan)
    /\ Served(decl, doc, live, plan)
FlagInv ==
  /\ Found(doc, seen)
  /\ interfered => \A i \in Entries : seen[i] = Unset
  /\ (decl.edit = "recreate" => faults = 0) =>
       /\ Preserved(decl, doc, live, seen)
       /\ SentAgain(decl, doc, live, plan, seen)
       /\ StillThere(decl, doc, live, plan, seen)
IInv == TypeOK /\ PlanInv /\ RunInv /\ FlagInv

-----------------------------------------------------------------------------
(* The entries of a document that passed validateList(). *)

LEMMA EntriesApart ==
  ASSUME NEW d \in Decls, NEW t \in Documents, Valid(d, t.entries),
         NEW i \in DOMAIN t.entries, NEW j \in DOMAIN t.entries, i # j
  PROVE  /\ Wrote(t, i) # Wrote(t, j) /\ d.key[Wrote(t, i)] # d.key[Wrote(t, j)]
         /\ \A x : ~(Owns(d, t, i, x) /\ Owns(d, t, j, x))
         /\ \A op : ~(For(t, op, i) /\ For(t, op, j))
         /\ <<Wrote(t, i), Wrote(t, j)>> \notin d.clash
         /\ d.exclusive => t.entries[i].val # t.entries[j].val
<1> DEFINE e(k) == t.entries[k]
<1>1. /\ Claims(d, e(i)) \cap Claims(d, e(j)) = {}
      /\ <<Wrote(t, i), Wrote(t, j)>> \notin d.clash
      /\ d.exclusive => e(i).val # e(j).val
  BY DEF Valid, Wrote
<1>2. d.key[Wrote(t, i)] \in Claims(d, e(i)) /\ d.key[Wrote(t, j)] \in Claims(d, e(j))
  BY DEF Claims, Wrote
<1>3. d.key[Wrote(t, i)] # d.key[Wrote(t, j)]
  BY <1>1, <1>2
<1>4. Wrote(t, i) # Wrote(t, j)
  BY <1>3
<1>5. \A x : ~(Owns(d, t, i, x) /\ Owns(d, t, j, x))
  BY <1>1 DEF Owns
<1>6. \A op : ~(For(t, op, i) /\ For(t, op, j))
  BY <1>4 DEF For
<1>7. QED
  BY <1>1, <1>3, <1>4, <1>5, <1>6

LEMMA EntryFacts ==
  ASSUME NEW d \in Decls, NEW t \in Documents, Valid(d, t.entries)
  PROVE  /\ t.entries \in Seq(Entry)
         /\ \A i \in DOMAIN t.entries :
              /\ t.entries[i] \in Entry /\ Wrote(t, i) \in Names
              /\ t.entries[i].val \notin d.foreign
              /\ \A x : x.name = Wrote(t, i) /\ x.val = t.entries[i].val => Owns(d, t, i, x)
              /\ d.edit # "patch" => \A x \in Item : Owns(d, t, i, x) => x.name = Wrote(t, i)
         /\ \A i, j \in DOMAIN t.entries : i # j =>
              /\ Wrote(t, i) # Wrote(t, j) /\ d.key[Wrote(t, i)] # d.key[Wrote(t, j)]
              /\ \A x : ~(Owns(d, t, i, x) /\ Owns(d, t, j, x))
              /\ \A op : ~(For(t, op, i) /\ For(t, op, j))
              /\ <<Wrote(t, i), Wrote(t, j)>> \notin d.clash
              /\ d.exclusive => t.entries[i].val # t.entries[j].val
<1> DEFINE e(i) == t.entries[i]
<1>1. t.entries \in Seq(Entry)
  BY DocumentsAssumption
<1>2. ASSUME NEW i \in DOMAIN t.entries
      PROVE  /\ e(i) \in Entry /\ Wrote(t, i) \in Names
             /\ e(i).val \notin d.foreign /\ (e(i).to # Unset => d.renames)
             /\ d.key[Wrote(t, i)] \in Claims(d, e(i))
  <2>1. e(i) \in Entry
    BY <1>1
  <2>2. Wrote(t, i) \in Names
    BY <2>1 DEF Entry, Wrote, WriteName
  <2>3. e(i).val \notin d.foreign /\ (e(i).to # Unset => d.renames)
    BY DEF Valid, Shaped
  <2>4. d.key[Wrote(t, i)] \in Claims(d, e(i))
    BY DEF Claims, Wrote
  <2>5. QED
    BY <2>1, <2>2, <2>3, <2>4
<1>3. ASSUME NEW i \in DOMAIN t.entries, NEW x, x.name = Wrote(t, i), x.val = e(i).val
      PROVE  Owns(d, t, i, x)
  BY <1>2, <1>3 DEF Owns
<1>4. ASSUME NEW i \in DOMAIN t.entries, d.edit # "patch", NEW x \in Item, Owns(d, t, i, x)
      PROVE  x.name = Wrote(t, i)
  <2>1. ~d.renames /\ \A p \in Names : d.key[p] = p
    BY <1>4, Declared
  <2>2. e(i).to = Unset
    BY <1>2, <2>1
  <2>3. Wrote(t, i) = e(i).name /\ e(i).name \in Names /\ x.name \in Names
    BY <1>2, <2>2 DEF Wrote, WriteName, Entry, Item
  <2>4. d.key[x.name] \in {d.key[e(i).name], d.key[Wrote(t, i)]}
    BY <1>4 DEF Owns, Claims, Wrote
  <2>5. QED
    BY <2>1, <2>3, <2>4
<1>5. ASSUME NEW i \in DOMAIN t.entries, NEW j \in DOMAIN t.entries, i # j
      PROVE  /\ Wrote(t, i) # Wrote(t, j) /\ d.key[Wrote(t, i)] # d.key[Wrote(t, j)]
             /\ \A x : ~(Owns(d, t, i, x) /\ Owns(d, t, j, x))
             /\ \A op : ~(For(t, op, i) /\ For(t, op, j))
             /\ <<Wrote(t, i), Wrote(t, j)>> \notin d.clash
             /\ d.exclusive => e(i).val # e(j).val
  BY <1>5, EntriesApart
<1>6. QED
  BY <1>1, <1>2, <1>3, <1>4, <1>5

(* A plan that is not refused finds the list in order. *)
LEMMA NotRefused ==
  ASSUME TypeOK
  PROVE  ~Refused <=> Orderly(decl, doc, live)
<1> DEFINE e(i) == doc.entries[i]
<1>1. ASSUME NEW i \in Entries
      PROVE  /\ Matches(e(i)) = {l \in live : Owns(decl, doc, i, l)}
             /\ Cardinality(Matches(e(i))) > 1
                  <=> \E l, m \in live : Owns(decl, doc, i, l) /\ Owns(decl, doc, i, m) /\ l # m
  <2>1. Matches(e(i)) = {l \in live : Owns(decl, doc, i, l)}
    BY DEF Matches, Managed, Owns
  <2> DEFINE M == Matches(e(i))
  <2>2. M \subseteq live /\ IsFiniteSet(live)
    BY <2>1 DEF TypeOK
  <2>3. IsFiniteSet(M) /\ Cardinality(M) \in Nat
    BY <2>2, FS_Subset, FS_CardinalityType
  <2>4. (Cardinality(M) = 0 <=> M = {}) /\ (Cardinality(M) = 1 <=> \E x : M = {x})
    BY <2>3, FS_EmptySet, FS_Singleton
  <2>5. \A l, m \in live : l \in M <=> Owns(decl, doc, i, l)
    BY <2>1
  <2> HIDE DEF M
  <2>6. Cardinality(M) > 1 <=> \E l, m \in M : l # m
    BY <2>3, <2>4
  <2>7. QED
    BY <2>1, <2>2, <2>5, <2>6 DEF M
<1>2. Refused <=>
        \/ \E l, m \in live : l.val \notin decl.foreign /\ m.val \notin decl.foreign /\ l # m
                                /\ decl.key[l.name] = decl.key[m.name]
        \/ \E i \in Entries : \/ decl.exclusive /\ \E l \in live :
                                    l.val \notin decl.foreign /\ l.val = e(i).val /\ l.name # Wrote(doc, i)
                              \/ \E l, m \in live : Owns(decl, doc, i, l) /\ Owns(decl, doc, i, m) /\ l # m
  BY <1>1 DEF Refused, Managed, Wrote
<1>3. QED
  BY <1>2 DEF Orderly, Entries

(* The operations of entry i, by what GitHub holds. *)
Shape(d, t, items, i, g) ==
  LET e == t.entries[i]
  IN  \/ (\A l \in items : ~Owns(d, t, i, l)) /\ g = <<CreateOp(Body(e))>>
      \/ \E l \in items : Owns(d, t, i, l) /\
           \/ g = <<>> /\ l.name = Wrote(t, i) /\ l.val = e.val /\ Settled(d, e, l)
           \/ /\ d.edit = "recreate"
              /\ g = <<RemoveOp(l), CreateOp([Body(e) EXCEPT !.flag = IF e.flag = Unset THEN l.flag ELSE e.flag])>>
           \/ /\ d.edit \notin {"recreate", "mapping"}
              /\ \E r \in BOOLEAN : /\ g = <<Op("update", l, Body(e), r)>>
                                    /\ d.edit = "replace" /\ e.flag = Unset /\ ~r => l.flag = Default
           \/ d.edit = "mapping" /\ g = <<Op("updateConfig", l, Body(e), FALSE)>> /\ Settled(d, e, l)
           \/ d.edit = "mapping" /\ e.flag # Unset /\ g = <<Op("update", l, Body(e), FALSE)>> /\ e.val = l.val
           \/ /\ d.edit = "mapping" /\ e.flag # Unset
              /\ g = <<Op("updateConfig", l, Body(e), FALSE), Op("update", l, Body(e), FALSE)>>

LEMMA GroupShape ==
  ASSUME TypeOK, NEW i \in Entries
  PROVE  Shape(decl, doc, live, i, Group(doc.entries[i])) /\ Group(doc.entries[i]) \in Seq(Operation)
<1> DEFINE e == doc.entries[i]
<1>0. /\ decl \in Decls /\ doc \in Documents /\ Valid(decl, doc.entries) /\ live \subseteq Item
      /\ decl.edit \in {"patch", "replace", "mapping", "recreate"} /\ i \in DOMAIN doc.entries
  BY Declared DEF TypeOK, DeclSpace, Entries
<1>1. e \in Entry /\ Body(e) \in Bodies /\ Body(e).flag = e.flag /\ Body(e).name = Wrote(doc, i) /\ Body(e).val = e.val
  <2>1. e \in Entry /\ Wrote(doc, i) \in Names
    BY <1>0, EntryFacts
  <2>2. QED
    BY <2>1 DEF Body, Bodies, Entry, Wrote
<1>s. /\ \A x \in Operation : <<x>> \in Seq(Operation)
      /\ \A x, y \in Operation : <<x, y>> \in Seq(Operation)
      /\ <<>> \in Seq(Operation)
  OBVIOUS
<1>j. /\ \A x \in Operation : <<x>> \o <<>> = <<x>> /\ <<>> \o <<x>> = <<x>>
      /\ \A x, y \in Operation : <<x>> \o <<y>> = <<x, y>>
      /\ <<>> \o <<>> = <<>>
  <2>1. ASSUME NEW x \in Operation, NEW y \in Operation PROVE <<x>> \o <<y>> = <<x, y>>
    <3> DEFINE f == <<x>> \o <<y>>
    <3> DEFINE h == <<x, y>>
    <3>1. /\ f \in Seq(Operation) /\ h \in Seq(Operation) /\ Len(f) = 2 /\ Len(h) = 2
          /\ f[1] = h[1] /\ f[2] = h[2]
      OBVIOUS
    <3> HIDE DEF f, h
    <3>2. f = h
      BY <3>1
    <3>3. QED
      BY <3>2 DEF f, h
  <2>2. \A x \in Operation : <<x>> \o <<>> = <<x>> /\ <<>> \o <<x>> = <<x>>
    OBVIOUS
  <2>3. <<>> \o <<>> = <<>>
    OBVIOUS
  <2>4. QED
    BY <2>1, <2>2, <2>3
<1>2. Matches(e) = {l \in live : Owns(decl, doc, i, l)}
  BY DEF Matches, Managed, Owns
<1>3. CASE Matches(e) = {}
  <2>1. Group(e) = <<CreateOp(Body(e))>>
    BY <1>3 DEF Group
  <2>2. CreateOp(Body(e)) \in Operation
    BY <1>1 DEF CreateOp, Op, Operation
  <2>3. Shape(decl, doc, live, i, Group(e))
    BY <1>2, <1>3, <2>1 DEF Shape
  <2>4. QED
    BY <1>s, <2>1, <2>2, <2>3
<1>4. CASE Matches(e) # {}
  <2>1. PICK l \in Matches(e) : Group(e) = UpdateOps(e, l)
    BY <1>4 DEF Group
  <2>2. l \in live /\ Owns(decl, doc, i, l) /\ l \in Item
    BY <1>0, <1>2
  <2>3. decl.edit # "patch" => l.name = Wrote(doc, i)
    BY <1>0, <2>2, EntryFacts
  <2>4. Settled(decl, e, l) <=> ~FlagDiffers(e, l) /\ ~Omits(e, l)
    BY DEF Settled, FlagDiffers, Omits
  <2>5. \A r \in BOOLEAN : Op("update", l, Body(e), r) \in Operation /\ Op("updateConfig", l, Body(e), r) \in Operation
    BY <1>1, <2>2 DEF Op, Operation
  <2>6. CASE decl.edit = "recreate"
    <3> DEFINE b == [Body(e) EXCEPT !.flag = IF e.flag = Unset THEN l.flag ELSE e.flag]
    <3>1. b \in Bodies
      BY <1>1, <2>2 DEF Bodies, Item
    <3>2. RemoveOp(l) \in Operation /\ CreateOp(b) \in Operation
      BY <2>2, <3>1 DEF RemoveOp, CreateOp, Op, Operation
    <3>3. CASE Differs(e, l)
      <4>1. Group(e) = <<RemoveOp(l), CreateOp(b)>>
        BY <2>1, <2>6, <3>3 DEF UpdateOps, Recreate
      <4>2. QED
        BY <2>2, <2>6, <3>2, <4>1 DEF Shape
    <3>4. CASE ~Differs(e, l)
      <4>1. Group(e) = <<>>
        BY <2>1, <2>6, <3>4 DEF UpdateOps
      <4>2. l.name = Wrote(doc, i) /\ l.val = e.val /\ Settled(decl, e, l)
        BY <2>4, <2>6, <3>4 DEF Differs, Wrote, Omits
      <4>3. QED
        BY <2>2, <4>1, <4>2 DEF Shape
    <3>5. QED
      BY <3>3, <3>4
  <2>7. CASE decl.edit = "mapping"
    <3>1. UpdateOps(e, l) = MappingOps(e, l)
      BY <2>7 DEF UpdateOps
    <3>2. l.name = Wrote(doc, i)
      BY <2>3, <2>7
    <3>3. ~Omits(e, l) /\ (FlagDiffers(e, l) => e.flag # Unset)
      BY <2>7 DEF Omits, FlagDiffers
    <3> DEFINE u == Op("updateConfig", l, Body(e), FALSE)
    <3> DEFINE v == Op("update", l, Body(e), FALSE)
    <3>4. u \in Operation /\ v \in Operation
      BY <2>5
    <3>5. CASE e.val = l.val /\ ~FlagDiffers(e, l)
      <4>1. Group(e) = <<>>
        BY <1>j, <2>1, <3>1, <3>5 DEF MappingOps
      <4>2. QED
        BY <2>2, <2>4, <3>2, <3>3, <3>5, <4>1 DEF Shape
    <3>6. CASE e.val # l.val /\ ~FlagDiffers(e, l)
      <4>1. Group(e) = <<u>>
        BY <1>j, <2>1, <3>1, <3>4, <3>6 DEF MappingOps
      <4>2. Shape(decl, doc, live, i, Group(e))
        BY <2>2, <2>4, <2>7, <3>3, <3>6, <4>1 DEF Shape
      <4>3. QED
        BY <1>s, <3>4, <4>1, <4>2
    <3>7. CASE e.val = l.val /\ FlagDiffers(e, l)
      <4>1. Group(e) = <<v>>
        BY <1>j, <2>1, <3>1, <3>4, <3>7 DEF MappingOps
      <4>2. Shape(decl, doc, live, i, Group(e))
        BY <2>2, <2>7, <3>3, <3>7, <4>1 DEF Shape
      <4>3. QED
        BY <1>s, <3>4, <4>1, <4>2
    <3>8. CASE e.val # l.val /\ FlagDiffers(e, l)
      <4>1. Group(e) = <<u, v>>
        BY <1>j, <2>1, <3>1, <3>4, <3>8 DEF MappingOps
      <4>2. Shape(decl, doc, live, i, Group(e))
        BY <2>2, <2>7, <3>3, <3>8, <4>1 DEF Shape
      <4>3. QED
        BY <1>s, <3>4, <4>1, <4>2
    <3>9. QED
      BY <3>5, <3>6, <3>7, <3>8
  <2>8. CASE decl.edit \notin {"recreate", "mapping"}
    <3> DEFINE v == Op("update", l, Body(e), Omits(e, l))
    <3>1. Omits(e, l) \in BOOLEAN
      BY DEF Omits
    <3>2. v \in Operation
      BY <2>5, <3>1
    <3>3. CASE Differs(e, l) \/ Omits(e, l)
      <4>1. Group(e) = <<v>>
        BY <2>1, <2>8, <3>3 DEF UpdateOps
      <4>2. decl.edit = "replace" /\ e.flag = Unset /\ ~Omits(e, l) => l.flag = Default
        BY DEF Omits
      <4>3. PICK r \in BOOLEAN : r <=> Omits(e, l)
        BY <3>1
      <4>4. v = Op("update", l, Body(e), r)
        BY <3>1, <4>3
      <4>5. Group(e) = <<Op("update", l, Body(e), r)>> /\ (decl.edit = "replace" /\ e.flag = Unset /\ ~r => l.flag = Default)
        BY <4>1, <4>2, <4>3, <4>4
      <4>6. Shape(decl, doc, live, i, Group(e))
        BY <2>2, <2>8, <4>5 DEF Shape
      <4>7. QED
        BY <1>s, <3>2, <4>1, <4>6
    <3>4. CASE ~(Differs(e, l) \/ Omits(e, l))
      <4>1. Group(e) = <<>>
        BY <2>1, <2>8, <3>4 DEF UpdateOps
      <4>2. l.name = Wrote(doc, i) /\ l.val = e.val /\ Settled(decl, e, l)
        BY <2>4, <3>4 DEF Differs, Wrote
      <4>3. QED
        BY <2>2, <4>1, <4>2 DEF Shape
    <3>5. QED
      BY <3>3, <3>4
  <2>9. QED
    BY <2>6, <2>7, <2>8
<1>5. QED
  BY <1>3, <1>4

-----------------------------------------------------------------------------
(* The plan, laid out. *)

(* The first n operations remove the items of `swept`, gone[k] the k-th; the k-th of
   the others is the pos[k]-th of group own[k], in their order, and none is missing. *)
Laid(ops, groups, swept, n, gone, own, pos) ==
  /\ n \in Nat
  /\ \A k \in 1..n : k \in DOMAIN ops /\ gone[k] \in swept /\ ops[k] = RemoveOp(gone[k])
  /\ \A k, m \in 1..n : k < m => gone[k] # gone[m]
  /\ \A l \in swept : \E k \in 1..n : gone[k] = l
  /\ \A k \in DOMAIN ops : k > n =>
       own[k] \in DOMAIN groups /\ pos[k] \in DOMAIN groups[own[k]] /\ ops[k] = groups[own[k]][pos[k]]
  /\ \A k, m \in DOMAIN ops : n < k /\ k < m => own[k] < own[m] \/ (own[k] = own[m] /\ pos[k] < pos[m])
  /\ \A i \in DOMAIN groups : \A p \in DOMAIN groups[i] :
       \E k \in DOMAIN ops : k > n /\ own[k] = i /\ pos[k] = p
IsLaid(ops, groups, swept) == \E n, gone, own, pos : Laid(ops, groups, swept, n, gone, own, pos)

GroupsOf == [i \in Entries |-> Group(doc.entries[i])]
SweptItems == {l \in live : Unowned(decl, doc, l) /\ doc.policy = "delete"}

(* Ids tell apart what GitHub holds. *)
LEMMA IdsDiffer ==
  ASSUME NEW d, NEW items, Consistent(d, items)
  PROVE  \A x, y \in items : x.id = y.id => x = y
BY DEF Consistent

LEMMA PlanIsLaid ==
  ASSUME TypeOK, Consistent(decl, live)
  PROVE  Plan \in Seq(Operation) /\ IsLaid(Plan, GroupsOf, SweptItems)
<1> DEFINE R == Removals
<1> DEFINE F == FlattenSeq(GroupsOf)
<1> DEFINE N == Len(doc.entries)
<1>0. /\ decl \in Decls /\ doc \in Documents /\ Valid(decl, doc.entries)
      /\ live \in SUBSET Item /\ IsFiniteSet(live)
      /\ doc.entries \in Seq(Entry) /\ N \in Nat /\ Entries = 1..N
  <2>1. decl \in Decls /\ doc \in Documents /\ Valid(decl, doc.entries) /\ live \in SUBSET Item /\ IsFiniteSet(live)
    BY DEF TypeOK
  <2>2. doc.entries \in Seq(Entry)
    BY <2>1, DocumentsAssumption
  <2>3. QED
    BY <2>1, <2>2 DEF Entries
<1>1. GroupsOf \in Seq(Seq(Operation)) /\ Len(GroupsOf) = N /\ DOMAIN GroupsOf = 1..N
  <2>1. \A i \in 1..N : Group(doc.entries[i]) \in Seq(Operation)
    BY <1>0, GroupShape
  <2>2. GroupsOf = [i \in 1..N |-> Group(doc.entries[i])]
    BY <1>0 DEF GroupsOf
  <2> DEFINE g(i) == Group(doc.entries[i])
  <2> HIDE DEF g
  <2>3. [i \in 1..N |-> g(i)] \in Seq(Seq(Operation)) /\ Len([i \in 1..N |-> g(i)]) = N /\ DOMAIN [i \in 1..N |-> g(i)] = 1..N
    BY <1>0, <2>1 DEF g
  <2>4. QED
    BY <2>2, <2>3 DEF g
<1>2. F \in Seq(Operation) /\ IsJoin(F, GroupsOf, N)
  BY <1>1, FlattenedJoins
<1>3. PICK o, p : Joins(F, GroupsOf, N, o, p)
  BY <1>2 DEF IsJoin
<1>4. Undeclared = {l \in live : Unowned(decl, doc, l)}
  <2>1. \A x : x \in Claimed <=> \E i \in DOMAIN doc.entries : x \in Claims(decl, doc.entries[i])
    BY DEF Claimed, Entries
  <2>2. QED
    BY <2>1 DEF Undeclared, Managed, Unowned, Owns
<1>5. \E gone : /\ R \in Seq(Operation)
                /\ \A k \in 1..Len(R) : gone[k] \in SweptItems /\ R[k] = RemoveOp(gone[k])
                /\ \A k, m \in 1..Len(R) : k < m => gone[k] # gone[m]
                /\ \A l \in SweptItems : \E k \in 1..Len(R) : gone[k] = l
  <2>1. CASE doc.policy = "delete"
    <3> DEFINE U == Undeclared
    <3> DEFINE c == Cardinality(U)
    <3> DEFINE gone == AsListed(U)
    <3>1. U \in SUBSET Item /\ IsFiniteSet(U) /\ \A x, y \in U : x.id = y.id => x = y
      <4>1. U \subseteq live
        BY <1>4
      <4>2. QED
        BY <1>0, <4>1, IdsDiffer, FS_Subset
    <3>2. U = SweptItems
      BY <1>4, <2>1 DEF SweptItems
    <3> HIDE DEF U
    <3>3. /\ c \in Nat /\ gone \in [1..c -> U]
          /\ \A i, j \in 1..c : i < j => gone[i].id < gone[j].id
          /\ \A x \in U : \E i \in 1..c : gone[i] = x
      BY <3>1, Listed
    <3> HIDE DEF gone, c
    <3>4. R = [i \in 1..c |-> RemoveOp(gone[i])]
      BY <2>1, <3>3 DEF Removals, gone, U
    <3>5. \A i \in 1..c : gone[i] \in U /\ gone[i].id \in Nat /\ RemoveOp(gone[i]) \in Operation
      BY <3>1, <3>3 DEF Item, RemoveOp, Op, Operation
    <3>6. R \in Seq(Operation) /\ Len(R) = c
      BY <3>3, <3>4, <3>5
    <3>7. \A k \in 1..Len(R) : gone[k] \in SweptItems /\ R[k] = RemoveOp(gone[k])
      BY <3>2, <3>4, <3>5, <3>6
    <3>8. \A k, m \in 1..Len(R) : k < m => gone[k] # gone[m]
      <4> TAKE k, m \in 1..Len(R)
      <4> HAVE k < m
      <4>1. gone[k].id < gone[m].id /\ gone[k].id \in Nat
        BY <3>3, <3>5, <3>6
      <4>2. QED
        BY <4>1
    <3>9. QED
      BY <3>2, <3>3, <3>6, <3>7, <3>8
  <2>2. CASE doc.policy # "delete"
    <3>1. R = <<>> /\ SweptItems = {}
      BY <2>2 DEF Removals, SweptItems
    <3>2. QED
      BY <3>1
  <2>3. QED
    BY <2>1, <2>2
<1>6. PICK gone : /\ R \in Seq(Operation)
                  /\ \A k \in 1..Len(R) : gone[k] \in SweptItems /\ R[k] = RemoveOp(gone[k])
                  /\ \A k, m \in 1..Len(R) : k < m => gone[k] # gone[m]
                  /\ \A l \in SweptItems : \E k \in 1..Len(R) : gone[k] = l
  BY <1>5
<1> DEFINE n == Len(R)
<1> DEFINE P == R \o F
<1>7. Plan = P
  BY DEF Plan, Groups, GroupsOf
<1> HIDE DEF R, F
<1>8. /\ P \in Seq(Operation) /\ n \in Nat /\ Len(F) \in Nat /\ Len(P) = n + Len(F)
      /\ DOMAIN P = 1..Len(P) /\ DOMAIN F = 1..Len(F) /\ DOMAIN R = 1..n
      /\ \A k \in 1..n : k \in DOMAIN P /\ P[k] = R[k]
      /\ \A k \in DOMAIN P : k > n => k - n \in DOMAIN F /\ P[k] = F[k - n]
      /\ \A k \in DOMAIN F : k + n \in DOMAIN P /\ k + n > n /\ (k + n) - n = k
  BY <1>2, <1>6
<1> HIDE DEF P, n
<1> DEFINE own == [k \in DOMAIN P |-> o[k - n]]
<1> DEFINE pos == [k \in DOMAIN P |-> p[k - n]]
<1>9. \A k \in DOMAIN P : own[k] = o[k - n] /\ pos[k] = p[k - n]
  OBVIOUS
<1> HIDE DEF own, pos
<1>10. \A k \in DOMAIN P : k > n =>
         own[k] \in DOMAIN GroupsOf /\ pos[k] \in DOMAIN GroupsOf[own[k]] /\ P[k] = GroupsOf[own[k]][pos[k]]
  BY <1>1, <1>3, <1>8, <1>9 DEF Joins
<1>11. \A k, m \in DOMAIN P : n < k /\ k < m => own[k] < own[m] \/ (own[k] = own[m] /\ pos[k] < pos[m])
  <2> TAKE k, m \in DOMAIN P
  <2> HAVE n < k /\ k < m
  <2>1. k - n \in DOMAIN F /\ m - n \in DOMAIN F /\ k - n < m - n
    BY <1>8
  <2>2. QED
    BY <1>3, <1>9, <2>1 DEF Joins
<1>12. \A i \in DOMAIN GroupsOf : \A q \in DOMAIN GroupsOf[i] : \E k \in DOMAIN P : k > n /\ own[k] = i /\ pos[k] = q
  <2> TAKE i \in DOMAIN GroupsOf
  <2> TAKE q \in DOMAIN GroupsOf[i]
  <2>1. PICK k \in DOMAIN F : o[k] = i /\ p[k] = q
    BY <1>1, <1>3 DEF Joins
  <2>2. k + n \in DOMAIN P /\ k + n > n /\ (k + n) - n = k
    BY <1>8
  <2>3. own[k + n] = i /\ pos[k + n] = q
    BY <1>9, <2>1, <2>2
  <2>4. QED
    BY <2>2, <2>3
<1>13. \A k \in 1..n : k \in DOMAIN P /\ gone[k] \in SweptItems /\ P[k] = RemoveOp(gone[k])
  BY <1>6, <1>8 DEF n
<1>14. Laid(P, GroupsOf, SweptItems, n, gone, own, pos)
  BY <1>6, <1>8, <1>10, <1>11, <1>12, <1>13 DEF Laid, n
<1>15. QED
  BY <1>7, <1>8, <1>14 DEF IsLaid

-----------------------------------------------------------------------------
(* What a plan says of the items it was made of. *)

(* What op says as the p-th operation of entry i's group g. *)
OfEntry(d, t, items, i, g, p, op) ==
  /\ p \in {1, 2}
  /\ op.role \in {"create", "remove", "update", "updateConfig"}
  /\ op.role # "remove" => For(t, op, i) /\ (d.edit # "recreate" => op.body.flag = t.entries[i].flag)
  /\ op.role # "create" => op.at \in items /\ Owns(d, t, i, op.at)
  /\ op.role = "create" =>
       \/ \A l \in items : ~Owns(d, t, i, l)
       \/ /\ p = 2 /\ 1 \in DOMAIN g /\ d.edit = "recreate"
          /\ \E l \in items : /\ Owns(d, t, i, l) /\ g[1] = RemoveOp(l)
                              /\ t.entries[i].flag = Unset => op.body.flag = l.flag
  /\ op.role = "remove" => p = 1 /\ d.edit = "recreate" /\ 2 \in DOMAIN g /\ g[2].role = "create"
  /\ Writes(op) =>
       /\ d.edit # "recreate"
       /\ op.role = "updateConfig" => d.edit = "mapping"
       /\ op.role = "update" /\ d.edit = "mapping" => op.body.flag # Unset
       /\ d.edit = "replace" /\ t.entries[i].flag = Unset /\ ~op.refused => op.at.flag = Default
  /\ p = 2 => 1 \in DOMAIN g /\ \/ g[1].role = "updateConfig" /\ g[2].role = "update"
                                \/ g[1].role = "remove" /\ g[2].role = "create"

(* The operations of one entry. *)
LEMMA GroupOps ==
  ASSUME NEW d \in Decls, NEW t \in Documents, Valid(d, t.entries), NEW items \in SUBSET Item,
         NEW i \in DOMAIN t.entries, NEW g, Shape(d, t, items, i, g), NEW p \in DOMAIN g
  PROVE  OfEntry(d, t, items, i, g, p, g[p])
<1> DEFINE e == t.entries[i]
<1> DEFINE re(l) == [Body(e) EXCEPT !.flag = IF e.flag = Unset THEN l.flag ELSE e.flag]
<1>1. /\ Body(e).name = Wrote(t, i) /\ Body(e).val = e.val /\ Body(e).flag = e.flag
      /\ \A l : /\ re(l).name = Wrote(t, i) /\ re(l).val = e.val
                /\ e.flag # Unset => re(l).flag = e.flag
                /\ e.flag = Unset => re(l).flag = l.flag
  BY DEF Body, Wrote
<1> HIDE DEF re
<1>2. /\ \A b : /\ CreateOp(b).role = "create" /\ CreateOp(b).body = b
      /\ \A l : RemoveOp(l).role = "remove" /\ RemoveOp(l).at = l
      /\ \A role, l, b, r : /\ Op(role, l, b, r).role = role /\ Op(role, l, b, r).at = l
                            /\ Op(role, l, b, r).body = b /\ Op(role, l, b, r).refused = r
  BY DEF CreateOp, RemoveOp, Op
<1>3. CASE (\A l \in items : ~Owns(d, t, i, l)) /\ g = <<CreateOp(Body(e))>>
  <2>1. p = 1 /\ g[p] = CreateOp(Body(e))
    BY <1>3
  <2>2. For(t, g[p], i) /\ g[p].body.flag = e.flag
    BY <1>1, <1>2, <2>1 DEF For
  <2>3. QED
    BY <1>2, <1>3, <2>1, <2>2 DEF OfEntry, Writes
<1>4. ASSUME NEW l \in items, Owns(d, t, i, l), d.edit = "recreate", g = <<RemoveOp(l), CreateOp(re(l))>>
      PROVE  p \in {1, 2} /\ 1 \in DOMAIN g /\ 2 \in DOMAIN g /\ g[1] = RemoveOp(l) /\ g[2] = CreateOp(re(l)) /\ For(t, g[2], i)
  <2>1. p \in {1, 2} /\ 1 \in DOMAIN g /\ 2 \in DOMAIN g /\ g[1] = RemoveOp(l) /\ g[2] = CreateOp(re(l))
    BY <1>4
  <2>2. For(t, g[2], i)
    BY <1>1, <1>2, <2>1 DEF For
  <2>3. QED
    BY <2>1, <2>2
<1>5. CASE \E l \in items : Owns(d, t, i, l) /\ d.edit = "recreate" /\ g = <<RemoveOp(l), CreateOp(re(l))>>
  <2>1. PICK l \in items : Owns(d, t, i, l) /\ d.edit = "recreate" /\ g = <<RemoveOp(l), CreateOp(re(l))>>
    BY <1>5
  <2>2. p \in {1, 2} /\ 1 \in DOMAIN g /\ 2 \in DOMAIN g /\ g[1] = RemoveOp(l) /\ g[2] = CreateOp(re(l)) /\ For(t, g[2], i)
    BY <1>4, <2>1
  <2>3. e.flag = Unset => g[2].body.flag = l.flag
    BY <1>1, <1>2, <2>2
  <2>4. g[1].role = "remove" /\ g[1].at = l /\ g[2].role = "create"
    BY <1>2, <2>2
  <2>5. QED
    BY <2>1, <2>2, <2>3, <2>4 DEF OfEntry, Writes
<1>6. CASE /\ d.edit \notin {"recreate", "mapping"}
           /\ \E l \in items : /\ Owns(d, t, i, l)
                               /\ \E r \in BOOLEAN : /\ g = <<Op("update", l, Body(e), r)>>
                                                     /\ d.edit = "replace" /\ e.flag = Unset /\ ~r => l.flag = Default
  <2>1. PICK l \in items, r \in BOOLEAN :
          Owns(d, t, i, l) /\ g = <<Op("update", l, Body(e), r)>> /\ (d.edit = "replace" /\ e.flag = Unset /\ ~r => l.flag = Default)
    BY <1>6
  <2>2. p = 1 /\ g[p] = Op("update", l, Body(e), r)
    BY <2>1
  <2>3. g[p].role = "update" /\ g[p].at = l /\ g[p].body = Body(e) /\ g[p].refused = r
    BY <1>2, <2>2
  <2>4. For(t, g[p], i)
    BY <1>1, <2>3 DEF For
  <2>5. QED
    BY <1>1, <1>6, <2>1, <2>2, <2>3, <2>4 DEF OfEntry, Writes
<1>7. CASE d.edit = "mapping" /\ \E l \in items : Owns(d, t, i, l) /\ g = <<Op("updateConfig", l, Body(e), FALSE)>>
  <2>1. PICK l \in items : Owns(d, t, i, l) /\ \E u : u = Op("updateConfig", l, Body(e), FALSE) /\ g = <<u>>
    BY <1>7
  <2>a. PICK u : u = Op("updateConfig", l, Body(e), FALSE) /\ g = <<u>>
    BY <2>1
  <2>b. g = <<u>> /\ Owns(d, t, i, l)
    BY <2>1, <2>a
  <2>c. d.edit = "mapping"
    BY <1>7
  <2>2. p = 1 /\ g[p] = u
    BY <2>b
  <2>3. g[p].role = "updateConfig" /\ g[p].at = l /\ g[p].body = Body(e)
    BY <2>a, <2>2 DEF Op
  <2>4. For(t, g[p], i)
    BY <1>1, <2>3 DEF For
  <2>5. QED
    BY <1>1, <2>b, <2>c, <2>2, <2>3, <2>4 DEF OfEntry, Writes
<1>8. CASE d.edit = "mapping" /\ e.flag # Unset /\ \E l \in items : Owns(d, t, i, l) /\ g = <<Op("update", l, Body(e), FALSE)>>
  <2>1. PICK l \in items : Owns(d, t, i, l) /\ \E u : u = Op("update", l, Body(e), FALSE) /\ g = <<u>>
    BY <1>8
  <2>a. PICK u : u = Op("update", l, Body(e), FALSE) /\ g = <<u>>
    BY <2>1
  <2>b. g = <<u>> /\ Owns(d, t, i, l)
    BY <2>1, <2>a
  <2>c. d.edit = "mapping" /\ e.flag # Unset
    BY <1>8
  <2>2. p = 1 /\ g[p] = u
    BY <2>b
  <2>3. g[p].role = "update" /\ g[p].at = l /\ g[p].body = Body(e)
    BY <2>a, <2>2 DEF Op
  <2>4. For(t, g[p], i)
    BY <1>1, <2>3 DEF For
  <2>5. QED
    BY <1>1, <2>b, <2>c, <2>2, <2>3, <2>4 DEF OfEntry, Writes
<1>9. CASE /\ d.edit = "mapping" /\ e.flag # Unset
           /\ \E l \in items : /\ Owns(d, t, i, l)
                               /\ g = <<Op("updateConfig", l, Body(e), FALSE), Op("update", l, Body(e), FALSE)>>
  <2>1. PICK l \in items :
          Owns(d, t, i, l) /\ \E u, v : /\ u = Op("updateConfig", l, Body(e), FALSE)
                                       /\ v = Op("update", l, Body(e), FALSE)
                                       /\ g = <<u, v>>
    BY <1>9
  <2>a. PICK u, v : /\ u = Op("updateConfig", l, Body(e), FALSE) /\ v = Op("update", l, Body(e), FALSE)
                    /\ g = <<u, v>>
    BY <2>1
  <2>b. g = <<u, v>> /\ Owns(d, t, i, l)
    BY <2>1, <2>a
  <2>c. d.edit = "mapping" /\ e.flag # Unset
    BY <1>9
  <2>2. p \in {1, 2} /\ 1 \in DOMAIN g /\ 2 \in DOMAIN g /\ g[1] = u /\ g[2] = v
    BY <2>b
  <2>3. /\ g[1].role = "updateConfig" /\ g[1].at = l /\ g[1].body = Body(e)
        /\ g[2].role = "update" /\ g[2].at = l /\ g[2].body = Body(e)
    BY <2>a, <2>2 DEF Op
  <2>4. For(t, g[1], i) /\ For(t, g[2], i)
    BY <1>1, <2>3 DEF For
  <2>5. QED
    BY <1>1, <2>b, <2>c, <2>2, <2>3, <2>4 DEF OfEntry, Writes
<1>10. g # <<>>
  OBVIOUS
<1>11. QED
  BY <1>3, <1>5, <1>6, <1>7, <1>8, <1>9, <1>10 DEF Shape, re

(* A plan ops of the items a run found. *)
Ready(d, t, items) ==
  /\ d \in Decls /\ t \in Documents /\ Valid(d, t.entries)
  /\ items \in SUBSET Item /\ Consistent(d, items) /\ Orderly(d, t, items)
Planned(d, t, items, groups, ops, n, gone, own, pos) ==
  /\ ops \in Seq(Operation) /\ DOMAIN groups = DOMAIN t.entries
  /\ \A i \in DOMAIN groups : Shape(d, t, items, i, groups[i])
  /\ Laid(ops, groups, {l \in items : Unowned(d, t, l) /\ t.policy = "delete"}, n, gone, own, pos)

(* Each of its operations removes what no entry owns, or is one of an entry's. *)
LEMMA PlanOps ==
  ASSUME NEW d, NEW t, NEW items, Ready(d, t, items),
         NEW groups, NEW ops, NEW n, NEW gone, NEW own, NEW pos,
         Planned(d, t, items, groups, ops, n, gone, own, pos), NEW k \in DOMAIN ops
  PROVE  /\ k \in Nat /\ n \in Nat /\ DOMAIN ops = 1..Len(ops) /\ Len(ops) \in Nat
         /\ k <= n => /\ k \in 1..n /\ ops[k] = RemoveOp(gone[k]) /\ ops[k].role = "remove"
                      /\ ops[k].at = gone[k] /\ gone[k] \in items
                      /\ Unowned(d, t, gone[k]) /\ t.policy = "delete"
         /\ k > n => /\ own[k] \in DOMAIN t.entries /\ own[k] \in Nat /\ pos[k] \in DOMAIN groups[own[k]]
                     /\ ops[k] = groups[own[k]][pos[k]]
                     /\ OfEntry(d, t, items, own[k], groups[own[k]], pos[k], ops[k])
<1>1. k \in Nat /\ n \in Nat /\ DOMAIN ops = 1..Len(ops) /\ Len(ops) \in Nat /\ k > 0
  BY DEF Planned, Laid
<1>2. ASSUME k <= n
      PROVE  /\ k \in 1..n /\ ops[k] = RemoveOp(gone[k]) /\ ops[k].role = "remove"
             /\ ops[k].at = gone[k] /\ gone[k] \in items
             /\ Unowned(d, t, gone[k]) /\ t.policy = "delete"
  <2>1. k \in 1..n
    BY <1>1, <1>2
  <2>2. ops[k] = RemoveOp(gone[k]) /\ gone[k] \in {l \in items : Unowned(d, t, l) /\ t.policy = "delete"}
    BY <2>1 DEF Planned, Laid
  <2>3. ops[k].role = "remove" /\ ops[k].at = gone[k]
    BY <2>2 DEF RemoveOp, Op
  <2>4. QED
    BY <2>1, <2>2, <2>3
<1>3. ASSUME k > n
      PROVE  /\ own[k] \in DOMAIN t.entries /\ own[k] \in Nat /\ pos[k] \in DOMAIN groups[own[k]]
             /\ ops[k] = groups[own[k]][pos[k]]
             /\ OfEntry(d, t, items, own[k], groups[own[k]], pos[k], ops[k])
  <2>1. own[k] \in DOMAIN groups /\ pos[k] \in DOMAIN groups[own[k]] /\ ops[k] = groups[own[k]][pos[k]]
    BY <1>3 DEF Planned, Laid
  <2>2. own[k] \in DOMAIN t.entries /\ Shape(d, t, items, own[k], groups[own[k]])
    BY <2>1 DEF Planned
  <2>3. own[k] \in Nat
    <3>1. t.entries \in Seq(Entry)
      BY DocumentsAssumption DEF Ready
    <3>2. QED
      BY <2>2, <3>1
  <2>4. OfEntry(d, t, items, own[k], groups[own[k]], pos[k], groups[own[k]][pos[k]])
    BY <2>1, <2>2, GroupOps DEF Ready
  <2>5. QED
    BY <2>1, <2>2, <2>3, <2>4
<1>4. QED
  BY <1>1, <1>2, <1>3

LEMMA PlanSound ==
  ASSUME NEW d, NEW t, NEW items, Ready(d, t, items),
         NEW groups, NEW ops, NEW n, NEW gone, NEW own, NEW pos,
         Planned(d, t, items, groups, ops, n, gone, own, pos), NEW k \in DOMAIN ops
  PROVE  /\ Sound(d, t, ops[k])
         /\ ops[k].role # "create" => ops[k].at \in items /\ ops[k].at.val \notin d.foreign
<1>1. k \in Nat /\ n \in Nat
  BY PlanOps
<1>2. CASE k <= n
  <2>1. ops[k].role = "remove" /\ ops[k].at \in items /\ Unowned(d, t, ops[k].at) /\ t.policy = "delete"
    BY <1>2, PlanOps
  <2>2. QED
    BY <2>1 DEF Sound, Unowned, Writes
<1>3. CASE k > n
  <2> DEFINE i == own[k]
  <2>1. i \in DOMAIN t.entries /\ OfEntry(d, t, items, i, groups[i], pos[k], ops[k])
    BY <1>3, PlanOps
  <2> HIDE DEF i
  <2>2. /\ ops[k].role # "remove" => For(t, ops[k], i) /\ (d.edit # "recreate" => ops[k].body.flag = t.entries[i].flag)
        /\ ops[k].role = "remove" => d.edit = "recreate"
        /\ ops[k].role # "create" => ops[k].at \in items /\ Owns(d, t, i, ops[k].at)
        /\ Writes(ops[k]) =>
             /\ d.edit # "recreate"
             /\ ops[k].role = "updateConfig" => d.edit = "mapping"
             /\ ops[k].role = "update" /\ d.edit = "mapping" => ops[k].body.flag # Unset
    BY <2>1 DEF OfEntry
  <2>3. \A j \in DOMAIN t.entries : For(t, ops[k], j) /\ For(t, ops[k], i) => j = i
    BY <2>1, EntryFacts DEF Ready
  <2>4. Writes(ops[k]) => ops[k].role # "remove" /\ ops[k].role # "create"
    BY DEF Writes
  <2>5. ops[k].role # "create" => ops[k].at.val \notin d.foreign
    BY <2>2 DEF Owns
  <2>6. QED
    BY <2>1, <2>2, <2>3, <2>4, <2>5 DEF Sound
<1>4. QED
  BY <1>1, <1>2, <1>3

LEMMA PlanArranged ==
  ASSUME NEW d, NEW t, NEW items, Ready(d, t, items),
         NEW groups, NEW ops, NEW n, NEW gone, NEW own, NEW pos,
         Planned(d, t, items, groups, ops, n, gone, own, pos)
  PROVE  Arranged(d, t, ops)
<1> DEFINE G(k) == groups[own[k]]
<1>0. \A i, j \in DOMAIN t.entries : i # j =>
        Wrote(t, i) # Wrote(t, j) /\ \A x : ~(Owns(d, t, i, x) /\ Owns(d, t, j, x))
  <2>1. d \in Decls /\ t \in Documents /\ Valid(d, t.entries)
    BY DEF Ready
  <2>2. ASSUME NEW i \in DOMAIN t.entries, NEW j \in DOMAIN t.entries, i # j PROVE Wrote(t, i) # Wrote(t, j)
    BY <2>1, <2>2, EntriesApart
  <2>3. \A i, j \in DOMAIN t.entries : i # j => \A x : ~(Owns(d, t, i, x) /\ Owns(d, t, j, x))
    BY <2>1, EntryFacts
  <2>4. QED
    BY <2>2, <2>3
<1>1. \A x, y \in items : x # y /\ x.val \notin d.foreign /\ y.val \notin d.foreign
                            => x.id # y.id /\ d.key[x.name] # d.key[y.name]
  BY IdsDiffer DEF Ready, Orderly
<1>2. ASSUME NEW k \in DOMAIN ops, NEW m \in DOMAIN ops, k < m
      PROVE  /\ ops[k].role # "create" /\ ops[m].role # "create" => Apart(d, ops[k], ops[m])
             /\ ops[k].role = "create" /\ ops[m].role = "create" => ops[k].body.name # ops[m].body.name
             /\ ops[m].role = "remove" /\ Unowned(d, t, ops[m].at)
                  => ops[k].role = "remove" /\ Unowned(d, t, ops[k].at)
  <2>1. k \in Nat /\ m \in Nat /\ n \in Nat
    BY PlanOps
  <2>2. /\ ops[k].role # "create" => ops[k].at \in items /\ ops[k].at.val \notin d.foreign
        /\ ops[m].role # "create" => ops[m].at \in items /\ ops[m].at.val \notin d.foreign
    BY PlanSound
  <2>3. CASE m <= n
    <3>1. k <= n
      BY <1>2, <2>1, <2>3
    <3>2. /\ k \in 1..n /\ ops[k].role = "remove" /\ ops[k].at = gone[k] /\ Unowned(d, t, gone[k])
          /\ m \in 1..n /\ ops[m].role = "remove" /\ ops[m].at = gone[m]
      BY <2>3, <3>1, PlanOps
    <3>3. gone[k] # gone[m]
      BY <1>2, <3>2 DEF Planned, Laid
    <3>4. QED
      BY <1>1, <2>2, <3>2, <3>3 DEF Apart
  <2>4. CASE m > n /\ k <= n
    <3>1. ops[k].role = "remove" /\ ops[k].at = gone[k] /\ Unowned(d, t, gone[k])
      BY <2>4, PlanOps
    <3>2. own[m] \in DOMAIN t.entries /\ (ops[m].role # "create" => Owns(d, t, own[m], ops[m].at))
      BY <2>4, PlanOps DEF OfEntry
    <3>3. ops[m].role # "create" => ~Unowned(d, t, ops[m].at) /\ ops[k].at # ops[m].at
      BY <3>1, <3>2 DEF Unowned
    <3>4. QED
      BY <1>1, <2>2, <3>1, <3>3 DEF Apart
  <2>5. CASE m > n /\ k > n
    <3>1. /\ own[k] \in DOMAIN t.entries /\ own[k] \in Nat /\ OfEntry(d, t, items, own[k], G(k), pos[k], ops[k])
          /\ ops[k] = G(k)[pos[k]]
      BY <2>5, PlanOps
    <3>2. /\ own[m] \in DOMAIN t.entries /\ own[m] \in Nat /\ OfEntry(d, t, items, own[m], G(m), pos[m], ops[m])
          /\ ops[m] = G(m)[pos[m]]
      BY <2>5, PlanOps
    <3>3. own[k] < own[m] \/ (own[k] = own[m] /\ pos[k] < pos[m])
      BY <1>2, <2>5, <2>1 DEF Planned, Laid
    <3>4. ops[m].role # "create" => ~Unowned(d, t, ops[m].at)
      BY <3>2 DEF OfEntry, Unowned
    <3>5. CASE own[k] = own[m]
      <4>1. pos[k] = 1 /\ pos[m] = 2
        BY <3>1, <3>2, <3>3, <3>5 DEF OfEntry
      <4>2. \/ ops[k].role = "updateConfig" /\ ops[m].role = "update"
            \/ ops[k].role = "remove" /\ ops[m].role = "create"
        BY <3>1, <3>2, <3>5, <4>1 DEF OfEntry
      <4>3. QED
        BY <4>2, <3>4 DEF Apart
    <3>6. CASE own[k] # own[m]
      <4>1. ops[k].role # "create" /\ ops[m].role # "create" => Owns(d, t, own[k], ops[k].at) /\ Owns(d, t, own[m], ops[m].at)
        BY <3>1, <3>2 DEF OfEntry
      <4>2. ops[k].role # "create" /\ ops[m].role # "create" => ops[k].at # ops[m].at
        BY <1>0, <3>1, <3>2, <3>6, <4>1
      <4>3. ops[k].role = "create" /\ ops[m].role = "create" => For(t, ops[k], own[k]) /\ For(t, ops[m], own[m])
        BY <3>1, <3>2 DEF OfEntry
      <4>4. Wrote(t, own[k]) # Wrote(t, own[m])
        BY <1>0, <3>1, <3>2, <3>6
      <4>5. ops[k].role = "create" /\ ops[m].role = "create" => ops[k].body.name # ops[m].body.name
        BY <4>3, <4>4 DEF For
      <4>6. QED
        BY <1>1, <2>2, <3>4, <4>2, <4>5 DEF Apart
    <3>7. QED
      BY <3>5, <3>6
  <2>6. QED
    BY <2>1, <2>3, <2>4, <2>5
<1>3. ASSUME NEW k \in DOMAIN ops, NEW i \in DOMAIN t.entries, ops[k].role = "remove", Owns(d, t, i, ops[k].at)
      PROVE  k + 1 \in DOMAIN ops /\ ops[k + 1].role = "create" /\ For(t, ops[k + 1], i)
  <2>1. k \in Nat /\ n \in Nat /\ DOMAIN ops = 1..Len(ops) /\ Len(ops) \in Nat
    BY PlanOps
  <2>2. k > n
    <3>1. k <= n => Unowned(d, t, ops[k].at)
      BY PlanOps
    <3>2. QED
      BY <1>3, <2>1, <3>1 DEF Unowned
  <2>3. /\ own[k] \in DOMAIN t.entries /\ own[k] \in Nat /\ OfEntry(d, t, items, own[k], G(k), pos[k], ops[k])
    BY <2>2, PlanOps
  <2>4. own[k] = i
    <3>1. Owns(d, t, own[k], ops[k].at)
      BY <1>3, <2>3 DEF OfEntry
    <3>2. QED
      BY <1>0, <1>3, <2>3, <3>1
  <2>5. pos[k] = 1 /\ 2 \in DOMAIN groups[i] /\ groups[i][2].role = "create" /\ i \in DOMAIN groups
    BY <1>3, <2>3, <2>4 DEF OfEntry, Planned
  <2>6. PICK m \in DOMAIN ops : m > n /\ own[m] = i /\ pos[m] = 2
    BY <2>5 DEF Planned, Laid
  <2>7. m \in Nat /\ OfEntry(d, t, items, i, groups[i], 2, ops[m]) /\ ops[m] = groups[i][2] /\ i \in Nat
    BY <2>6, PlanOps
  <2>8. ~(m < k) /\ m # k
    <3>1. m < k => i < i \/ (i = i /\ 2 < 1)
      BY <2>1, <2>4, <2>5, <2>6 DEF Planned, Laid
    <3>2. QED
      BY <2>5, <2>6, <2>7, <3>1
  <2>9. k + 1 \in DOMAIN ops /\ k + 1 <= m /\ k + 1 > n
    BY <2>1, <2>2, <2>7, <2>6, <2>8
  <2>10. m = k + 1
    <3>1. SUFFICES ASSUME k + 1 < m PROVE FALSE
      BY <2>1, <2>7, <2>9
    <3>2. own[k + 1] \in Nat /\ pos[k + 1] \in {1, 2}
      BY <2>9, PlanOps DEF OfEntry
    <3>3. i < own[k + 1] \/ (i = own[k + 1] /\ 1 < pos[k + 1])
      <4>1. k < k + 1
        BY <2>1
      <4>2. QED
        BY <2>2, <2>4, <2>5, <2>9, <4>1 DEF Planned, Laid
    <3>4. own[k + 1] < i \/ (own[k + 1] = i /\ pos[k + 1] < 2)
      BY <2>6, <2>9, <3>1 DEF Planned, Laid
    <3>5. QED
      BY <2>7, <3>2, <3>3, <3>4
  <2>11. For(t, ops[m], i) /\ ops[m].role = "create"
    BY <2>5, <2>7 DEF OfEntry
  <2>12. QED
    BY <2>9, <2>10, <2>11
<1>4. QED
  BY <1>2, <1>3 DEF Arranged

(* What serves an entry is of its group; and each operation of a group is planned. *)
LEMMA EntryOps ==
  ASSUME NEW d, NEW t, NEW items, Ready(d, t, items),
         NEW groups, NEW ops, NEW n, NEW gone, NEW own, NEW pos,
         Planned(d, t, items, groups, ops, n, gone, own, pos), NEW i \in DOMAIN t.entries
  PROVE  /\ \A k \in DOMAIN ops : ops[k].role # "remove" /\ For(t, ops[k], i) =>
              k > n /\ own[k] = i /\ OfEntry(d, t, items, i, groups[i], pos[k], ops[k])
         /\ \A p \in DOMAIN groups[i] : \E k \in DOMAIN ops :
              /\ k > n /\ own[k] = i /\ pos[k] = p /\ ops[k] = groups[i][p]
              /\ OfEntry(d, t, items, i, groups[i], p, ops[k])
<1>1. ASSUME NEW k \in DOMAIN ops, ops[k].role # "remove", For(t, ops[k], i)
      PROVE  k > n /\ own[k] = i /\ OfEntry(d, t, items, i, groups[i], pos[k], ops[k])
  <2>1. k \in Nat /\ n \in Nat
    BY PlanOps
  <2>2. k > n
    <3>1. k <= n => ops[k].role = "remove"
      BY PlanOps
    <3>2. QED
      BY <1>1, <2>1, <3>1
  <2>3. own[k] \in DOMAIN t.entries /\ OfEntry(d, t, items, own[k], groups[own[k]], pos[k], ops[k])
    BY <2>2, PlanOps
  <2>4. For(t, ops[k], own[k])
    BY <1>1, <2>3 DEF OfEntry
  <2>5. own[k] = i
    <3>1. d \in Decls /\ t \in Documents /\ Valid(d, t.entries)
      BY DEF Ready
    <3>2. QED
      BY <1>1, <2>3, <2>4, <3>1, EntriesApart
  <2>6. QED
    BY <2>2, <2>3, <2>5
<1>2. ASSUME NEW p \in DOMAIN groups[i]
      PROVE  \E k \in DOMAIN ops : /\ k > n /\ own[k] = i /\ pos[k] = p /\ ops[k] = groups[i][p]
                                   /\ OfEntry(d, t, items, i, groups[i], p, ops[k])
  <2>1. i \in DOMAIN groups
    BY DEF Planned
  <2>2. PICK k \in DOMAIN ops : k > n /\ own[k] = i /\ pos[k] = p
    BY <2>1 DEF Planned, Laid
  <2>3. ops[k] = groups[own[k]][pos[k]] /\ OfEntry(d, t, items, own[k], groups[own[k]], pos[k], ops[k])
    BY <2>2, PlanOps
  <2>4. QED
    BY <2>2, <2>3
<1>3. QED
  BY <1>1, <1>2

(* What an operation addresses when the plan is made is the item it names. *)
LEMMA PlanHolds ==
  ASSUME NEW d, NEW t, NEW items, Ready(d, t, items),
         NEW groups, NEW ops, NEW n, NEW gone, NEW own, NEW pos,
         Planned(d, t, items, groups, ops, n, gone, own, pos)
  PROVE  Held(d, t, items, ops) /\ Present(d, items, ops)
<1>1. ASSUME NEW k \in DOMAIN ops, ops[k].role # "create"
      PROVE  ops[k].at \in items /\ ops[k].at.val \notin d.foreign /\ Hits(d, ops[k], ops[k].at)
  BY <1>1, PlanSound DEF Hits
<1>2. ASSUME NEW k \in DOMAIN ops, ops[k].role # "create", NEW l \in items, Hits(d, ops[k], l)
      PROVE  l = ops[k].at
  <2>1. CASE d.byName
    <3>1. d.foreign = {}
      BY <2>1, Declared DEF Ready
    <3>2. l.val \notin d.foreign /\ d.key[l.name] = d.key[ops[k].at.name]
      BY <1>2, <2>1, <3>1 DEF Hits
    <3>3. QED
      BY <1>1, <1>2, <3>2 DEF Ready, Orderly
  <2>2. CASE ~d.byName
    <3>1. l.id = ops[k].at.id
      BY <1>2, <2>2 DEF Hits
    <3>2. QED
      BY <1>1, <1>2, <3>1, IdsDiffer DEF Ready
  <2>3. QED
    BY <2>1, <2>2
<1>3. Held(d, t, items, ops)
  BY <1>1, <1>2 DEF Held
<1>4. Present(d, items, ops)
  BY <1>1 DEF Present
<1>5. QED
  BY <1>3, <1>4

(* A create finds no item of its entry, or the one removed just before. *)
LEMMA PlanMakesRoom ==
  ASSUME NEW d, NEW t, NEW items, Ready(d, t, items),
         NEW groups, NEW ops, NEW n, NEW gone, NEW own, NEW pos,
         Planned(d, t, items, groups, ops, n, gone, own, pos),
         NEW k \in DOMAIN ops, NEW i \in DOMAIN t.entries, ops[k].role = "create", For(t, ops[k], i)
  PROVE  /\ \A l \in items : Owns(d, t, i, l) =>
              /\ GoesBefore(ops, k, l) /\ d.edit = "recreate"
              /\ t.entries[i].flag = Unset => ops[k].body.flag = l.flag
<1> SUFFICES ASSUME NEW l \in items, Owns(d, t, i, l)
             PROVE  /\ GoesBefore(ops, k, l) /\ d.edit = "recreate"
                    /\ t.entries[i].flag = Unset => ops[k].body.flag = l.flag
  OBVIOUS
<1>1. k > n /\ own[k] = i /\ OfEntry(d, t, items, i, groups[i], pos[k], ops[k])
  BY EntryOps
<1>2. /\ pos[k] = 2 /\ 1 \in DOMAIN groups[i] /\ d.edit = "recreate"
      /\ \E m \in items : /\ Owns(d, t, i, m) /\ groups[i][1] = RemoveOp(m)
                          /\ t.entries[i].flag = Unset => ops[k].body.flag = m.flag
  BY <1>1 DEF OfEntry
<1>3. groups[i][1] = RemoveOp(l) /\ (t.entries[i].flag = Unset => ops[k].body.flag = l.flag)
  BY <1>2 DEF Ready, Orderly
<1>4. PICK j \in DOMAIN ops : j > n /\ own[j] = i /\ pos[j] = 1 /\ ops[j] = groups[i][1]
  BY <1>2, EntryOps
<1>5. k \in Nat /\ j \in Nat /\ i \in Nat
  BY <1>1, PlanOps
<1>6. j < k
  <2>1. k < j => i < i \/ (i = i /\ 2 < 1)
    BY <1>1, <1>2, <1>4 DEF Planned, Laid
  <2>2. k # j
    BY <1>2, <1>4
  <2>3. QED
    BY <1>5, <2>1, <2>2
<1>7. QED
  BY <1>2, <1>3, <1>4, <1>6 DEF GoesBefore

(* An entry is as declared, or its group says what is not. *)
LEMMA GroupServes ==
  ASSUME NEW d \in Decls, NEW t \in Documents, Valid(d, t.entries), NEW items \in SUBSET Item,
         NEW i \in DOMAIN t.entries, NEW g, Shape(d, t, items, i, g)
  PROVE  \/ \E p \in DOMAIN g : g[p].role = "create"
         \/ \E l \in items :
              /\ Owns(d, t, i, l)
              /\ \/ l.name = Wrote(t, i) /\ l.val = t.entries[i].val
                 \/ \E p \in DOMAIN g : Writes(g[p]) /\ (g[p].role = "updateConfig" <=> d.edit = "mapping")
              /\ Settled(d, t.entries[i], l) \/ \E p \in DOMAIN g : g[p].role = "update"
<1> DEFINE e == t.entries[i]
<1> DEFINE con(l) == Op("updateConfig", l, Body(e), FALSE)
<1> DEFINE up(l) == Op("update", l, Body(e), FALSE)
<1>0. \A l : con(l).role = "updateConfig" /\ up(l).role = "update"
  BY DEF Op
<1> HIDE DEF con, up
<1>1. /\ \A b : CreateOp(b).role = "create"
      /\ \A role, l, b, r : Op(role, l, b, r).role = role
  BY DEF CreateOp, Op
<1>2. CASE g = <<CreateOp(Body(e))>>
  <2>1. 1 \in DOMAIN g /\ g[1] = CreateOp(Body(e))
    BY <1>2
  <2>2. QED
    BY <1>1, <2>1
<1>3. CASE \E a, b : g = <<a, CreateOp(b)>>
  <2>1. PICK a, b : g = <<a, CreateOp(b)>>
    BY <1>3
  <2>2. 2 \in DOMAIN g /\ g[2] = CreateOp(b)
    BY <2>1
  <2>3. QED
    BY <1>1, <2>2
<1>4. CASE \E l \in items : Owns(d, t, i, l) /\ l.name = Wrote(t, i) /\ l.val = e.val /\ Settled(d, e, l)
  BY <1>4
<1>5. CASE d.edit # "mapping" /\ \E l \in items : Owns(d, t, i, l) /\ \E r \in BOOLEAN : g = <<Op("update", l, Body(e), r)>>
  <2>1. PICK l \in items : Owns(d, t, i, l) /\ \E r \in BOOLEAN : g = <<Op("update", l, Body(e), r)>>
    BY <1>5
  <2>2. PICK u : g = <<u>> /\ u.role = "update"
    BY <1>1, <2>1
  <2>3. 1 \in DOMAIN g /\ g[1].role = "update" /\ Writes(g[1])
    BY <2>2 DEF Writes
  <2>4. QED
    BY <1>5, <2>1, <2>3
<1>6. CASE d.edit = "mapping" /\ \E l \in items : /\ Owns(d, t, i, l)
                                                  /\ Settled(d, e, l)
                                                  /\ g = <<con(l)>>
  <2>1. PICK l \in items : Owns(d, t, i, l) /\ Settled(d, e, l) /\ \E u : u.role = "updateConfig" /\ g = <<u>>
    BY <1>0, <1>6
  <2>2. PICK u : g = <<u>> /\ u.role = "updateConfig"
    BY <2>1
  <2>3. 1 \in DOMAIN g /\ g[1].role = "updateConfig" /\ Writes(g[1])
    BY <2>2 DEF Writes
  <2>4. QED
    BY <1>6, <2>1, <2>3
<1>7. CASE d.edit = "mapping" /\ \E l \in items : /\ Owns(d, t, i, l) /\ e.val = l.val
                                                  /\ g = <<up(l)>>
  <2>1. PICK l \in items : Owns(d, t, i, l) /\ e.val = l.val /\ \E u : u.role = "update" /\ g = <<u>>
    BY <1>0, <1>7
  <2>2. PICK u : g = <<u>> /\ u.role = "update"
    BY <2>1
  <2>3. 1 \in DOMAIN g /\ g[1].role = "update"
    BY <2>2
  <2>4. l.name = Wrote(t, i)
    BY <1>7, <2>1, EntryFacts
  <2>5. QED
    BY <2>1, <2>3, <2>4
<1>8. CASE d.edit = "mapping" /\ \E l \in items : /\ Owns(d, t, i, l)
                                                  /\ g = <<con(l), up(l)>>
  <2>1. PICK l \in items : Owns(d, t, i, l) /\ \E u, v : u.role = "updateConfig" /\ v.role = "update" /\ g = <<u, v>>
    BY <1>0, <1>8
  <2>2. PICK u, v : u.role = "updateConfig" /\ v.role = "update" /\ g = <<u, v>>
    BY <2>1
  <2>3. 1 \in DOMAIN g /\ 2 \in DOMAIN g /\ g[1].role = "updateConfig" /\ Writes(g[1]) /\ g[2].role = "update"
    BY <2>2 DEF Writes
  <2>4. QED
    BY <1>8, <2>1, <2>3
<1>9. QED
  BY <1>2, <1>3, <1>4, <1>5, <1>6, <1>7, <1>8 DEF Shape, con, up

(* What is not as declared has an operation. *)
LEMMA PlanServes ==
  ASSUME NEW d, NEW t, NEW items, Ready(d, t, items),
         NEW groups, NEW ops, NEW n, NEW gone, NEW own, NEW pos,
         Planned(d, t, items, groups, ops, n, gone, own, pos)
  PROVE  Swept(d, t, items, ops) /\ Served(d, t, items, ops)
<1>1. Swept(d, t, items, ops)
  <2> SUFFICES ASSUME t.policy = "delete", NEW l \in items, Unowned(d, t, l)
               PROVE  \E k \in DOMAIN ops : ops[k] = RemoveOp(l)
    BY DEF Swept
  <2> DEFINE S == {m \in items : Unowned(d, t, m) /\ t.policy = "delete"}
  <2>0. l \in S
    OBVIOUS
  <2> HIDE DEF S
  <2>1. PICK k \in 1..n : gone[k] = l
    BY <2>0 DEF Planned, Laid, S
  <2>2. k \in DOMAIN ops /\ ops[k] = RemoveOp(gone[k])
    BY DEF Planned, Laid
  <2>3. QED
    BY <2>1, <2>2
<1>2. ASSUME NEW i \in DOMAIN t.entries
      PROVE  \/ \E k \in DOMAIN ops : ops[k].role = "create" /\ For(t, ops[k], i)
             \/ \E l \in items :
                  /\ Owns(d, t, i, l)
                  /\ \/ l.name = Wrote(t, i) /\ l.val = t.entries[i].val
                     \/ \E k \in DOMAIN ops : /\ Writes(ops[k]) /\ For(t, ops[k], i)
                                              /\ ops[k].role = "updateConfig" <=> d.edit = "mapping"
                  /\ Settled(d, t.entries[i], l) \/ \E k \in DOMAIN ops : ops[k].role = "update" /\ For(t, ops[k], i)
  <2> DEFINE g == groups[i]
  <2>1. /\ d \in Decls /\ items \in SUBSET Item /\ t \in Documents /\ Valid(d, t.entries)
        /\ Shape(d, t, items, i, g)
    BY DEF Ready, Planned
  <2>2. \A p \in DOMAIN g : g[p].role # "remove" => \E k \in DOMAIN ops : ops[k] = g[p] /\ For(t, ops[k], i)
    <3>1. \A p \in DOMAIN g : \E k \in DOMAIN ops : ops[k] = g[p] /\ OfEntry(d, t, items, i, g, p, ops[k])
      BY EntryOps
    <3>2. QED
      BY <3>1 DEF OfEntry
  <2> HIDE DEF g
  <2>3. CASE \E p \in DOMAIN g : g[p].role = "create"
    BY <2>2, <2>3
  <2>4. CASE \E l \in items :
              /\ Owns(d, t, i, l)
              /\ \/ l.name = Wrote(t, i) /\ l.val = t.entries[i].val
                 \/ \E p \in DOMAIN g : Writes(g[p]) /\ (g[p].role = "updateConfig" <=> d.edit = "mapping")
              /\ Settled(d, t.entries[i], l) \/ \E p \in DOMAIN g : g[p].role = "update"
    <3>1. (\E p \in DOMAIN g : Writes(g[p]) /\ (g[p].role = "updateConfig" <=> d.edit = "mapping"))
            => \E k \in DOMAIN ops : /\ Writes(ops[k]) /\ For(t, ops[k], i)
                                     /\ ops[k].role = "updateConfig" <=> d.edit = "mapping"
      <4>1. \A op : Writes(op) => op.role # "remove"
        BY DEF Writes
      <4>2. QED
        BY <2>2, <4>1
    <3>2. (\E p \in DOMAIN g : g[p].role = "update") => \E k \in DOMAIN ops : ops[k].role = "update" /\ For(t, ops[k], i)
      BY <2>2
    <3>3. QED
      BY <2>4, <3>1, <3>2
  <2>5. QED
    BY <2>1, <2>3, <2>4, GroupServes
<1>3. Served(d, t, items, ops)
  BY <1>2 DEF Served
<1>4. QED
  BY <1>1, <1>3

(* The field an entry leaves undeclared is sent as the items found hold it. *)
LEMMA PlanSendsAgain ==
  ASSUME NEW d, NEW t, NEW items, Ready(d, t, items),
         NEW groups, NEW ops, NEW n, NEW gone, NEW own, NEW pos,
         Planned(d, t, items, groups, ops, n, gone, own, pos),
         NEW was, Found(t, was), Preserved(d, t, items, was),
         \A i \in DOMAIN t.entries : was[i] # Unset => \E l \in items : Owns(d, t, i, l)
  PROVE  SentAgain(d, t, items, ops, was)
<1> SUFFICES ASSUME NEW k \in DOMAIN ops, NEW i \in DOMAIN t.entries, was[i] # Unset, For(t, ops[k], i)
             PROVE  /\ ops[k].role = "create" =>
                         /\ d.edit = "recreate" /\ ops[k].body.flag = was[i]
                         /\ \A l \in items : <<Wrote(t, i), l.name>> \in d.clash => GoesBefore(ops, k, l)
                    /\ ops[k].role = "update" /\ d.edit = "replace" /\ ~ops[k].refused => was[i] = Default
  BY DEF SentAgain
<1>0. /\ d \in Decls /\ t \in Documents /\ Valid(d, t.entries) /\ items \in SUBSET Item /\ Consistent(d, items)
      /\ t.entries[i].flag = Unset
  BY DEF Ready, Found
<1>1. PICK l \in items : Owns(d, t, i, l)
  OBVIOUS
<1>2. l.flag = was[i]
  BY <1>1 DEF Preserved
<1>3. ASSUME ops[k].role = "create"
      PROVE  /\ d.edit = "recreate" /\ ops[k].body.flag = was[i]
             /\ \A m \in items : <<Wrote(t, i), m.name>> \in d.clash => GoesBefore(ops, k, m)
  <2>1. GoesBefore(ops, k, l) /\ d.edit = "recreate" /\ ops[k].body.flag = l.flag
    BY <1>0, <1>1, <1>3, PlanMakesRoom
  <2>2. l.name = Wrote(t, i)
    BY <1>0, <1>1, <2>1, EntryFacts
  <2>3. \A m \in items : <<l.name, m.name>> \in d.clash => m = l
    BY <1>0 DEF Consistent
  <2>4. QED
    BY <1>2, <2>1, <2>2, <2>3
<1>4. ASSUME ops[k].role = "update", d.edit = "replace", ~ops[k].refused
      PROVE  was[i] = Default
  <2>1. OfEntry(d, t, items, i, groups[i], pos[k], ops[k])
    BY <1>4, EntryOps
  <2>2. ops[k].at \in items /\ Owns(d, t, i, ops[k].at) /\ ops[k].at.flag = Default
    BY <1>0, <1>4, <2>1 DEF OfEntry, Writes
  <2>3. QED
    BY <2>2 DEF Preserved
<1>5. QED
  BY <1>3, <1>4

-----------------------------------------------------------------------------
(* What GitHub holds once a request landed. *)

(* The item a write leaves: what the request set of it, the rest as it was. *)
Became(d, op, l, y) ==
  /\ y.id = l.id
  /\ d.edit = "mapping" => y.name = l.name
  /\ d.edit # "mapping" => y.name = op.body.name
  /\ op.role = "updateConfig" => y.val = op.body.val /\ y.flag = l.flag
  /\ op.role = "update" /\ d.edit = "mapping" => y.val = l.val /\ y.flag = op.body.flag
  /\ op.role = "update" /\ d.edit # "mapping" =>
       /\ y.val = op.body.val
       /\ op.body.flag # Unset => y.flag = op.body.flag
       /\ op.body.flag = Unset => y.flag = IF d.edit = "replace" THEN Default ELSE l.flag

Beside(d, x, items) == \A m \in items : <<x.name, m.name>> \notin d.clash /\ (d.exclusive => m.val # x.val)

(* Items become next as GitHub takes op. *)
Creates(d, items, ops, op, x, next) ==
  /\ next = items \cup {x} /\ x \in Item /\ Beside(d, x, items)
  /\ x.name = op.body.name /\ x.val = op.body.val /\ x.flag = OrDefault(op.body.flag)
  /\ \A l \in items : l.id # x.id
  /\ \A k \in DOMAIN ops : ops[k].at.id # x.id
Removes(d, items, op, l, next) ==
  /\ l \in items /\ Hits(d, op, l) /\ (\A m \in items : Hits(d, op, m) => m = l)
  /\ next = items \ {l}
Rewrites(d, items, op, l, y, next) ==
  /\ l \in items /\ Hits(d, op, l) /\ (\A m \in items : Hits(d, op, m) => m = l)
  /\ next = (items \ {l}) \cup {y} /\ y \in Item
  /\ Became(d, op, l, y) /\ Beside(d, y, items \ {l})
Landing(d, items, ops, op, next) ==
  /\ op.role = "create" => \E x : Creates(d, items, ops, op, x, next)
  /\ op.role = "remove" => \E l : Removes(d, items, op, l, next)
  /\ Writes(op) => \E l, y : Rewrites(d, items, op, l, y, next)

(* A request addresses one item at most. *)
LEMMA OneAddressed ==
  ASSUME NEW d \in Decls, NEW items \in SUBSET Item, Consistent(d, items), NEW op,
         NEW l \in items, NEW m \in items, Hits(d, op, l), Hits(d, op, m)
  PROVE  l = m
<1>1. CASE d.byName
  <2>1. ~d.exclusive
    BY <1>1, Declared
  <2>2. d.key[l.name] = d.key[m.name] /\ l.name \in Names /\ m.name \in Names
    BY <1>1 DEF Hits, Item
  <2>3. <<l.name, m.name>> \in d.clash
    BY <2>1, <2>2, Declared
  <2>4. QED
    BY <2>3 DEF Consistent
<1>2. CASE ~d.byName
  BY <1>2, IdsDiffer DEF Hits
<1>3. QED
  BY <1>1, <1>2

(* An id no item holds and no operation addresses. *)
LEMMA FreshIdIsFresh ==
  ASSUME TypeOK
  PROVE  /\ FreshId \in Nat
         /\ \A l \in live : l.id # FreshId
         /\ \A k \in DOMAIN plan : plan[k].at.id # FreshId
<1> DEFINE A == {l.id : l \in live}
<1> DEFINE B == {plan[k].at.id : k \in DOMAIN plan}
<1>1. IsFiniteSet(A)
  <2> DEFINE f == [l \in live |-> l.id]
  <2>1. IsFiniteSet(live)
    BY DEF TypeOK
  <2>2. f \in Surjection(live, A)
    BY DEF Surjection
  <2>3. QED
    BY <2>1, <2>2, FS_Surjection
<1>2. IsFiniteSet(B)
  <2>1. plan \in Seq(Operation)
    BY DEF TypeOK
  <2>2. DOMAIN plan = 1..Len(plan) /\ Len(plan) \in Nat
    BY <2>1
  <2>3. IsFiniteSet(DOMAIN plan)
    BY <2>2, FS_Interval
  <2> DEFINE f == [k \in DOMAIN plan |-> plan[k].at.id]
  <2>4. f \in Surjection(DOMAIN plan, B)
    BY DEF Surjection
  <2>5. QED
    BY <2>3, <2>4, FS_Surjection
<1> DEFINE U == A \cup B
<1>3. IsFiniteSet(U)
  BY <1>1, <1>2, FS_Union
<1>4. (\A l \in live : l.id \in U) /\ (\A k \in DOMAIN plan : plan[k].at.id \in U)
  OBVIOUS
<1>5. FreshId = CHOOSE m \in 1..(Cardinality(U) + 1) : m \notin U
  BY DEF FreshId
<1> HIDE DEF U
<1>6. Cardinality(U) \in Nat
  BY <1>3, FS_CardinalityType
<1>7. FreshId \in 1..(Cardinality(U) + 1) /\ FreshId \notin U
  BY <1>3, <1>5, NumberLeft
<1>8. QED
  BY <1>4, <1>6, <1>7

(* The operation in flight. *)
LEMMA InFlightOp ==
  ASSUME TypeOK, plan # <<>>
  PROVE  /\ Head(plan) = plan[1] /\ Head(plan) \in Operation /\ 1 \in DOMAIN plan
         /\ Tail(plan) \in Seq(Operation)
         /\ \A k \in DOMAIN Tail(plan) : k \in Nat /\ k > 0 /\ k + 1 \in DOMAIN plan /\ Tail(plan)[k] = plan[k + 1]
         /\ \A k \in DOMAIN plan : k \in Nat /\ k > 0
         /\ \A k \in DOMAIN plan : k # 1 => k - 1 \in DOMAIN Tail(plan) /\ Tail(plan)[k - 1] = plan[k]
<1>1. plan \in Seq(Operation)
  BY DEF TypeOK
<1>2. QED
  BY <1>1

(* What GitHub takes changes the items as the operation says. *)
LEMMA HowItLands ==
  ASSUME TypeOK, Consistent(decl, live), NEW op \in Operation, Accepts(op),
         Writes(op) => decl.edit # "recreate", op.role = "updateConfig" => decl.edit = "mapping",
         op.role = "update" /\ decl.edit = "mapping" => op.body.flag # Unset
  PROVE  Landing(decl, live, plan, op, After(op)) /\ After(op) \subseteq Item /\ IsFiniteSet(After(op))
<1>0. /\ decl \in Decls /\ live \in SUBSET Item /\ IsFiniteSet(live)
      /\ Default \in Flags /\ Unset \notin Flags
  BY ValuesAssumption DEF TypeOK
<1>1. \A l \in live : l \in Addressed(op) <=> Hits(decl, op, l)
  BY DEF Addressed, Hits
<1>2. Addressed(op) \subseteq live
  BY DEF Addressed
<1>3. \A l, m \in Addressed(op) : l = m
  BY <1>0, <1>1, <1>2, OneAddressed
<1>4. ASSUME op.role = "create"
      PROVE  /\ \E x : Creates(decl, live, plan, op, x, After(op))
             /\ After(op) \subseteq Item /\ IsFiniteSet(After(op))
  <2> DEFINE x == [id |-> FreshId, name |-> op.body.name, val |-> op.body.val, flag |-> OrDefault(op.body.flag)]
  <2>1. op.body \in Bodies
    BY <1>4 DEF Operation
  <2>2. x.flag \in Flags
    BY <1>0, <2>1 DEF OrDefault, Bodies
  <2>3. x \in Item
    BY <2>1, <2>2, FreshIdIsFresh DEF Item, Bodies
  <2>4. After(op) = live \cup {x}
    BY <1>4 DEF After
  <2>5. Beside(decl, x, live)
    BY <1>4 DEF Accepts, Free, Beside
  <2>6. (\A l \in live : l.id # x.id) /\ (\A k \in DOMAIN plan : plan[k].at.id # x.id)
    BY FreshIdIsFresh
  <2>7. x.name = op.body.name /\ x.val = op.body.val /\ x.flag = OrDefault(op.body.flag)
    OBVIOUS
  <2> HIDE DEF x
  <2>8. IsFiniteSet(live \cup {x})
    BY <1>0, FS_AddElement
  <2>9. Creates(decl, live, plan, op, x, After(op))
    BY <2>3, <2>4, <2>5, <2>6, <2>7 DEF Creates
  <2>10. QED
    BY <1>0, <2>3, <2>4, <2>8, <2>9
<1>5. ASSUME op.role = "remove"
      PROVE  /\ \E l : Removes(decl, live, op, l, After(op))
             /\ After(op) \subseteq Item /\ IsFiniteSet(After(op))
  <2>1. PICK l : l \in Addressed(op)
    BY <1>5 DEF Accepts
  <2>2. After(op) = live \ {l}
    BY <1>2, <1>3, <1>5, <2>1 DEF After
  <2>3. Removes(decl, live, op, l, After(op))
    BY <1>1, <1>2, <1>3, <2>1, <2>2 DEF Removes
  <2>4. IsFiniteSet(live \ {l})
    BY <1>0, FS_RemoveElement
  <2>5. QED
    BY <1>0, <2>2, <2>3, <2>4
<1>6. ASSUME Writes(op)
      PROVE  /\ \E l, y : Rewrites(decl, live, op, l, y, After(op))
             /\ After(op) \subseteq Item /\ IsFiniteSet(After(op))
  <2>0. op.role \in {"update", "updateConfig"} /\ op.role # "create" /\ op.role # "remove"
    BY <1>6 DEF Writes
  <2>1. op.body \in Bodies
    BY <2>0 DEF Operation
  <2>2. PICK l \in Addressed(op) : Free(op.body.name, op.body.val, {l})
    BY <2>0 DEF Accepts
  <2>3. l \in live /\ l \in Item /\ Hits(decl, op, l) /\ \A m \in live : Hits(decl, op, m) => m = l
    BY <1>0, <1>1, <1>2, <1>3, <2>2
  <2> DEFINE y == Updated(l, op)
  <2>4. After(op) = (live \ {l}) \cup {y}
    <3>1. (CHOOSE m \in Addressed(op) : TRUE) = l
      BY <1>3, <2>2
    <3>2. QED
      BY <2>0, <3>1 DEF After
  <2>5. y \in Item /\ Became(decl, op, l, y)
    <3>0. decl.edit \in {"patch", "replace", "mapping", "recreate"}
      BY <1>0, Declared DEF DeclSpace
    <3>1. CASE op.role = "updateConfig"
      <4>1. y = [l EXCEPT !.val = op.body.val]
        BY <3>1, <2>0 DEF Updated
      <4>2. decl.edit = "mapping"
        BY <3>1
      <4>3. QED
        BY <2>1, <2>3, <3>1, <4>1, <4>2 DEF Item, Bodies, Became
    <3>2. CASE op.role = "update" /\ decl.edit = "replace"
      <4>1. y = [l EXCEPT !.name = op.body.name, !.val = op.body.val, !.flag = OrDefault(op.body.flag)]
        BY <3>2 DEF Updated
      <4>2. QED
        BY <1>0, <2>1, <2>3, <3>2, <4>1 DEF Item, Bodies, Became, OrDefault
    <3>3. CASE op.role = "update" /\ decl.edit = "mapping"
      <4>1. y = [l EXCEPT !.flag = op.body.flag]
        BY <3>3 DEF Updated
      <4>2. QED
        BY <2>1, <2>3, <3>3, <4>1 DEF Item, Bodies, Became
    <3>4. CASE op.role = "update" /\ decl.edit = "patch"
      <4>1. y = [l EXCEPT !.name = op.body.name, !.val = op.body.val,
                          !.flag = IF op.body.flag = Unset THEN l.flag ELSE op.body.flag]
        BY <2>3, <3>4 DEF Updated, Item
      <4>2. QED
        BY <2>1, <2>3, <3>4, <4>1 DEF Item, Bodies, Became
    <3>5. QED
      BY <1>6, <2>0, <3>0, <3>1, <3>2, <3>3, <3>4
  <2>6. Beside(decl, y, live \ {l})
    <3>1. \A m \in live \ {l} : <<op.body.name, m.name>> \notin decl.clash
      BY <2>2 DEF Free
    <3>2. \A m \in live \ {l} : <<l.name, m.name>> \notin decl.clash
      BY <2>3 DEF Consistent
    <3>3. y.name \in {op.body.name, l.name}
      BY <2>5 DEF Became
    <3>4. ~decl.exclusive
      BY <1>0, <1>6, Declared
    <3>5. QED
      BY <3>1, <3>2, <3>3, <3>4 DEF Beside
  <2> HIDE DEF y
  <2>7. IsFiniteSet((live \ {l}) \cup {y})
    BY <1>0, FS_RemoveElement, FS_AddElement
  <2>8. Rewrites(decl, live, op, l, y, After(op))
    BY <2>3, <2>4, <2>5, <2>6 DEF Rewrites
  <2>9. QED
    BY <1>0, <2>4, <2>5, <2>7, <2>8
<1>7. op.role \in {"create", "remove", "update", "updateConfig"}
  BY DEF Operation
<1>8. QED
  BY <1>4, <1>5, <1>6, <1>7 DEF Landing, Writes

(* A run under way: the operations ops, the first one landing, rest those after it. *)
Follows(rest, ops) ==
  /\ 1 \in DOMAIN ops
  /\ \A k \in DOMAIN ops : k \in Nat /\ k > 0 /\ (k # 1 => k - 1 \in DOMAIN rest /\ rest[k - 1] = ops[k])
  /\ \A k \in DOMAIN rest : k \in Nat /\ k > 0 /\ k + 1 \in DOMAIN ops /\ rest[k] = ops[k + 1]
Running(d, t, items, ops, rest, lost) ==
  /\ d \in Decls /\ t \in Documents /\ Valid(d, t.entries)
  /\ items \in SUBSET Item /\ Consistent(d, items)
  /\ Follows(rest, ops)
  /\ \A k \in DOMAIN ops : ops[k] \in Operation /\ Sound(d, t, ops[k])
  /\ Arranged(d, t, ops)
  /\ Orderly(d, t, items) /\ Held(d, t, items, ops) /\ Room(d, t, items, ops, lost)
  /\ Swept(d, t, items, ops) /\ Served(d, t, items, ops)

(* The item a create makes is its entry's, which had none. *)
MadeFor(d, t, items, op, i, x) ==
  /\ i \in DOMAIN t.entries /\ For(t, op, i) /\ Owns(d, t, i, x)
  /\ x.name = Wrote(t, i) /\ x.val = t.entries[i].val
  /\ \A l \in items : ~Owns(d, t, i, l)
  /\ t.entries[i].flag # Unset => x.flag = t.entries[i].flag
  /\ t.entries[i].flag = Unset /\ d.edit # "recreate" => x.flag = Default
  /\ x.flag = OrDefault(op.body.flag)

LEMMA CreatedItem ==
  ASSUME NEW d, NEW t, NEW items, NEW ops, NEW rest, NEW lost, Running(d, t, items, ops, rest, lost),
         NEW x, NEW next, ops[1].role = "create", Creates(d, items, ops, ops[1], x, next)
  PROVE  \E i : MadeFor(d, t, items, ops[1], i, x)
<1> DEFINE op == ops[1]
<1>0. /\ d \in Decls /\ t \in Documents /\ Valid(d, t.entries) /\ items \in SUBSET Item
      /\ 1 \in DOMAIN ops /\ op \in Operation /\ Sound(d, t, op)
  BY DEF Running, Follows
<1>1. PICK i \in DOMAIN t.entries : For(t, op, i)
  BY <1>0 DEF Sound
<1> DEFINE e == t.entries[i]
<1>2. /\ x \in Item /\ Beside(d, x, items) /\ x.flag = OrDefault(op.body.flag)
      /\ x.name = Wrote(t, i) /\ x.val = e.val
      /\ e.flag # Unset => op.body.flag = e.flag
  BY <1>1 DEF Creates, For
<1>3. Owns(d, t, i, x)
  BY <1>0, <1>2, EntryFacts
<1>4. ASSUME NEW l \in items, Owns(d, t, i, l) PROVE FALSE
  <2>1. ~GoesBefore(ops, 1, l)
    BY DEF GoesBefore, Running, Follows
  <2>2. l.name = x.name /\ l.val = x.val
    BY <1>0, <1>1, <1>2, <1>4, <2>1 DEF Running, Room
  <2>3. ~d.exclusive
    BY <1>2, <2>2 DEF Beside
  <2>4. <<x.name, l.name>> \in d.clash
    <3>1. x.name \in Names
      BY <1>2 DEF Item
    <3>2. QED
      BY <1>0, <2>2, <2>3, <3>1, Declared
  <2>5. QED
    BY <1>2, <2>4 DEF Beside
<1>5. e.flag # Unset => x.flag = e.flag
  BY <1>2 DEF OrDefault
<1>6. e.flag = Unset /\ d.edit # "recreate" => x.flag = Default
  BY <1>0, <1>1, <1>2 DEF Sound, OrDefault
<1>7. QED
  BY <1>1, <1>2, <1>3, <1>4, <1>5, <1>6 DEF MadeFor

(* The item a write leaves is its entry's, as the item it found was. *)
WrittenFor(d, t, op, i, l, y) ==
  /\ i \in DOMAIN t.entries /\ For(t, op, i) /\ Owns(d, t, i, l) /\ Owns(d, t, i, y)
  /\ d.edit # "recreate" /\ y.name = Wrote(t, i) /\ y.id = l.id
  /\ \/ op.role = "updateConfig" /\ d.edit = "mapping" /\ y.val = t.entries[i].val /\ y.flag = l.flag
     \/ /\ op.role = "update" /\ d.edit = "mapping" /\ y.val = l.val
        /\ y.flag = t.entries[i].flag /\ t.entries[i].flag # Unset
     \/ /\ op.role = "update" /\ d.edit # "mapping" /\ y.val = t.entries[i].val
        /\ t.entries[i].flag # Unset => y.flag = t.entries[i].flag
        /\ t.entries[i].flag = Unset => y.flag = IF d.edit = "replace" THEN Default ELSE l.flag

LEMMA RewrittenItem ==
  ASSUME NEW d, NEW t, NEW items, NEW ops, NEW rest, NEW lost, Running(d, t, items, ops, rest, lost),
         NEW l, NEW y, NEW next, Writes(ops[1]), Rewrites(d, items, ops[1], l, y, next)
  PROVE  \E i : WrittenFor(d, t, ops[1], i, l, y)
<1> DEFINE op == ops[1]
<1>0. /\ d \in Decls /\ t \in Documents /\ Valid(d, t.entries) /\ items \in SUBSET Item
      /\ 1 \in DOMAIN ops /\ op \in Operation /\ Sound(d, t, op) /\ op.role \in {"update", "updateConfig"}
  BY DEF Running, Follows, Writes
<1>1. PICK i \in DOMAIN t.entries : For(t, op, i)
  BY <1>0 DEF Sound
<1> DEFINE e == t.entries[i]
<1>2. /\ Owns(d, t, i, op.at) /\ d.edit # "recreate" /\ op.body.flag = e.flag
      /\ op.role = "updateConfig" => d.edit = "mapping"
      /\ op.role = "update" /\ d.edit = "mapping" => op.body.flag # Unset
  BY <1>0, <1>1 DEF Sound, Writes
<1>3. l \in items /\ l \in Item /\ Hits(d, op, l) /\ y \in Item /\ Became(d, op, l, y)
  BY <1>0 DEF Rewrites
<1>4. Owns(d, t, i, l) /\ l.val \notin d.foreign
  BY <1>0, <1>2, <1>3 DEF Running, Held
<1>5. y.name = Wrote(t, i)
  <2>1. d.edit # "patch" => l.name = Wrote(t, i)
    BY <1>0, <1>3, <1>4, EntryFacts
  <2>2. op.body.name = Wrote(t, i)
    BY <1>1 DEF For
  <2>3. QED
    BY <1>3, <2>1, <2>2 DEF Became
<1>6. op.body.val = e.val
  BY <1>1 DEF For
<1>7. Owns(d, t, i, y)
  <2>1. y.val \in {e.val, l.val}
    BY <1>0, <1>3, <1>6 DEF Became
  <2>2. e.val \notin d.foreign /\ d.key[Wrote(t, i)] \in Claims(d, e)
    BY <1>0, EntryFacts DEF Claims, Wrote
  <2>3. QED
    BY <1>4, <1>5, <2>1, <2>2 DEF Owns
<1>8. \/ op.role = "updateConfig" /\ d.edit = "mapping" /\ y.val = e.val /\ y.flag = l.flag
      \/ op.role = "update" /\ d.edit = "mapping" /\ y.val = l.val /\ y.flag = e.flag /\ e.flag # Unset
      \/ /\ op.role = "update" /\ d.edit # "mapping" /\ y.val = e.val
         /\ e.flag # Unset => y.flag = e.flag
         /\ e.flag = Unset => y.flag = IF d.edit = "replace" THEN Default ELSE l.flag
  BY <1>0, <1>2, <1>3, <1>6 DEF Became
<1>9. y.id = l.id
  BY <1>3 DEF Became
<1>10. QED
  BY <1>1, <1>2, <1>4, <1>5, <1>7, <1>8, <1>9 DEF WrittenFor

(* The item a removal takes is of whom its operation says. *)
LEMMA RemovedItem ==
  ASSUME NEW d, NEW t, NEW items, NEW ops, NEW rest, NEW lost, Running(d, t, items, ops, rest, lost),
         NEW l, NEW next, ops[1].role = "remove", Removes(d, items, ops[1], l, next)
  PROVE  /\ l.val \notin d.foreign
         /\ \A i \in DOMAIN t.entries : Owns(d, t, i, l) =>
              d.edit = "recreate" /\ 1 \in DOMAIN rest /\ rest[1].role = "create" /\ For(t, rest[1], i)
         /\ (\A i \in DOMAIN t.entries : ~Owns(d, t, i, l)) => t.policy = "delete" /\ Unowned(d, t, l)
<1> DEFINE op == ops[1]
<1>0. 1 \in DOMAIN ops /\ op \in Operation /\ Sound(d, t, op) /\ l \in items /\ Hits(d, op, l)
  BY DEF Running, Follows, Removes
<1>1. l.val \notin d.foreign /\ \A i \in DOMAIN t.entries : Owns(d, t, i, l) <=> Owns(d, t, i, op.at)
  BY <1>0 DEF Running, Held
<1>2. \/ t.policy = "delete" /\ Unowned(d, t, op.at)
      \/ d.edit = "recreate" /\ \E i \in DOMAIN t.entries : Owns(d, t, i, op.at)
  BY <1>0 DEF Sound
<1>3. ASSUME NEW i \in DOMAIN t.entries, Owns(d, t, i, l)
      PROVE  d.edit = "recreate" /\ 1 \in DOMAIN rest /\ rest[1].role = "create" /\ For(t, rest[1], i)
  <2>1. Owns(d, t, i, op.at)
    BY <1>1, <1>3
  <2>2. 1 + 1 \in DOMAIN ops /\ ops[1 + 1].role = "create" /\ For(t, ops[1 + 1], i)
    BY <1>0, <2>1 DEF Running, Arranged
  <2>3. 2 \in DOMAIN ops => 1 \in DOMAIN rest /\ rest[1] = ops[2]
    <3>1. 2 \in DOMAIN ops => 2 - 1 \in DOMAIN rest /\ rest[2 - 1] = ops[2]
      BY DEF Running, Follows
    <3>2. QED
      BY <3>1
  <2>4. QED
    BY <1>2, <2>1, <2>2, <2>3 DEF Unowned
<1>4. QED
  BY <1>1, <1>2, <1>3 DEF Unowned

(* The three ways a request lands, and what is then left of the items found. *)
LEMMA LandingCases ==
  ASSUME NEW d, NEW t, NEW items, NEW ops, NEW rest, NEW lost, Running(d, t, items, ops, rest, lost),
         NEW next, Landing(d, items, ops, ops[1], next)
  PROVE  \/ /\ ops[1].role = "create"
            /\ \E x, i : Creates(d, items, ops, ops[1], x, next) /\ MadeFor(d, t, items, ops[1], i, x)
         \/ /\ ops[1].role = "remove"
            /\ \E l : Removes(d, items, ops[1], l, next)
         \/ /\ Writes(ops[1]) /\ ops[1].role # "create" /\ ops[1].role # "remove"
            /\ \E l, y, i : Rewrites(d, items, ops[1], l, y, next) /\ WrittenFor(d, t, ops[1], i, l, y)
<1>1. ops[1] \in Operation
  BY DEF Running, Follows
<1>2. ops[1].role = "create" \/ ops[1].role = "remove" \/ (Writes(ops[1]) /\ ops[1].role # "create" /\ ops[1].role # "remove")
  BY <1>1 DEF Operation, Writes
<1>3. CASE ops[1].role = "create"
  <2>1. PICK x : Creates(d, items, ops, ops[1], x, next)
    BY <1>3 DEF Landing
  <2>2. \E i : MadeFor(d, t, items, ops[1], i, x)
    BY <1>3, <2>1, CreatedItem
  <2>3. QED
    BY <1>3, <2>1, <2>2
<1>4. CASE ops[1].role = "remove"
  BY <1>4 DEF Landing
<1>5. CASE Writes(ops[1]) /\ ops[1].role # "create" /\ ops[1].role # "remove"
  <2>1. PICK l, y : Rewrites(d, items, ops[1], l, y, next)
    BY <1>5 DEF Landing
  <2>2. \E i : WrittenFor(d, t, ops[1], i, l, y)
    BY <1>5, <2>1, RewrittenItem
  <2>3. QED
    BY <1>5, <2>1, <2>2
<1>6. QED
  BY <1>2, <1>3, <1>4, <1>5

LEMMA LandsConsistent ==
  ASSUME NEW d \in Decls, NEW items \in SUBSET Item, Consistent(d, items), NEW ops, NEW op \in Operation,
         NEW next, Landing(d, items, ops, op, next)
  PROVE  Consistent(d, next)
<1>0. \A p, q \in Names : <<p, q>> \in d.clash => <<q, p>> \in d.clash
  BY Declared
<1>1. \A x \in Item : x.name \in Names
  BY DEF Item
<1>2. ASSUME NEW x \in Item, NEW kept \in SUBSET items, Beside(d, x, kept), \A l \in kept : l.id # x.id
      PROVE  Consistent(d, kept \cup {x})
  <2>1. \A l \in kept : <<l.name, x.name>> \notin d.clash
    BY <1>0, <1>1, <1>2 DEF Beside
  <2>2. QED
    BY <1>2, <2>1 DEF Consistent, Beside
<1>3. CASE op.role = "create"
  <2>1. PICK x : Creates(d, items, ops, op, x, next)
    BY <1>3 DEF Landing
  <2>2. QED
    BY <1>2, <2>1 DEF Creates
<1>4. CASE op.role = "remove"
  <2>1. PICK l : Removes(d, items, op, l, next)
    BY <1>4 DEF Landing
  <2>2. QED
    BY <2>1 DEF Removes, Consistent
<1>5. CASE Writes(op)
  <2>1. PICK l, y : Rewrites(d, items, op, l, y, next)
    BY <1>5 DEF Landing
  <2>2. \A m \in items \ {l} : m.id # y.id
    BY <2>1 DEF Rewrites, Became, Consistent
  <2>3. QED
    BY <1>2, <2>1, <2>2 DEF Rewrites
<1>6. QED
  BY <1>3, <1>4, <1>5 DEF Operation, Writes

LEMMA LandsOrderly ==
  ASSUME NEW d, NEW t, NEW items, NEW ops, NEW rest, NEW lost, Running(d, t, items, ops, rest, lost),
         NEW next, Landing(d, items, ops, ops[1], next)
  PROVE  Orderly(d, t, next)
<1>0. d \in Decls /\ t \in Documents /\ Valid(d, t.entries) /\ Orderly(d, t, items)
  BY DEF Running
(* An entry's item z joins items of which none is the entry's. *)
<1>1. ASSUME NEW kept \in SUBSET items, NEW i \in DOMAIN t.entries, NEW z, Owns(d, t, i, z), z.name = Wrote(t, i),
             \A l \in kept : ~Owns(d, t, i, l), d.exclusive => z.val = t.entries[i].val
      PROVE  Orderly(d, t, kept \cup {z})
  <2>1. d.key[z.name] \in Claims(d, t.entries[i]) /\ z.val \notin d.foreign
    BY <1>1 DEF Owns
  <2>2. \A l \in kept : l.val \notin d.foreign => d.key[l.name] # d.key[z.name]
    BY <1>1, <2>1 DEF Owns
  <2>3. \A l, m \in kept \cup {z} : l.val \notin d.foreign /\ m.val \notin d.foreign /\ d.key[l.name] = d.key[m.name] => l = m
    BY <1>0, <2>2 DEF Orderly
  <2>4. ASSUME NEW j \in DOMAIN t.entries, Owns(d, t, j, z) PROVE j = i
    BY <1>0, <1>1, <2>4, EntriesApart
  <2>5. \A j \in DOMAIN t.entries, l, m \in kept \cup {z} : Owns(d, t, j, l) /\ Owns(d, t, j, m) => l = m
    BY <1>0, <1>1, <2>4 DEF Orderly
  <2>6. ASSUME d.exclusive, NEW j \in DOMAIN t.entries, z.val = t.entries[j].val PROVE z.name = Wrote(t, j)
    <3>1. i # j => t.entries[i].val # t.entries[j].val
      BY <1>0, <2>6, EntriesApart
    <3>2. QED
      BY <1>1, <2>6, <3>1
  <2>7. d.exclusive => \A j \in DOMAIN t.entries, l \in kept \cup {z} :
          l.val \notin d.foreign /\ l.val = t.entries[j].val => l.name = Wrote(t, j)
    BY <1>0, <2>6 DEF Orderly
  <2>8. QED
    BY <2>3, <2>5, <2>7 DEF Orderly
<1>2. CASE ops[1].role = "create" /\ \E x, i : Creates(d, items, ops, ops[1], x, next) /\ MadeFor(d, t, items, ops[1], i, x)
  <2>1. PICK x, i : Creates(d, items, ops, ops[1], x, next) /\ MadeFor(d, t, items, ops[1], i, x)
    BY <1>2
  <2>2. /\ next = items \cup {x} /\ i \in DOMAIN t.entries /\ Owns(d, t, i, x) /\ x.name = Wrote(t, i)
        /\ x.val = t.entries[i].val /\ \A l \in items : ~Owns(d, t, i, l)
    BY <2>1 DEF Creates, MadeFor
  <2>3. Orderly(d, t, items \cup {x})
    BY <1>1, <2>2
  <2>4. QED
    BY <2>2, <2>3
<1>3. CASE ops[1].role = "remove" /\ \E l : Removes(d, items, ops[1], l, next)
  <2>1. next \subseteq items
    BY <1>3 DEF Removes
  <2>2. QED
    BY <1>0, <2>1 DEF Orderly
<1>4. CASE Writes(ops[1]) /\ \E l, y, i : Rewrites(d, items, ops[1], l, y, next) /\ WrittenFor(d, t, ops[1], i, l, y)
  <2>1. PICK l, y, i : Rewrites(d, items, ops[1], l, y, next) /\ WrittenFor(d, t, ops[1], i, l, y)
    BY <1>4
  <2>2. /\ next = (items \ {l}) \cup {y} /\ i \in DOMAIN t.entries /\ Owns(d, t, i, y) /\ y.name = Wrote(t, i)
        /\ l \in items /\ Owns(d, t, i, l) /\ d.edit # "recreate"
    BY <2>1 DEF Rewrites, WrittenFor
  <2>3. \A m \in items \ {l} : ~Owns(d, t, i, m)
    BY <1>0, <2>2 DEF Orderly
  <2>4. ~d.exclusive
    BY <1>0, <2>2, Declared
  <2>5. Orderly(d, t, (items \ {l}) \cup {y})
    BY <1>1, <2>2, <2>3, <2>4
  <2>6. QED
    BY <2>2, <2>5
<1>5. QED
  BY <1>2, <1>3, <1>4, LandingCases

LEMMA LandsHeld ==
  ASSUME NEW d, NEW t, NEW items, NEW ops, NEW rest, NEW lost, Running(d, t, items, ops, rest, lost),
         NEW next, Landing(d, items, ops, ops[1], next)
  PROVE  Held(d, t, next, ops) /\ Held(d, t, next, rest)
<1>0. /\ d \in Decls /\ t \in Documents /\ Valid(d, t.entries) /\ Held(d, t, items, ops)
  BY DEF Running
<1>1. ASSUME d.byName, NEW k \in DOMAIN ops, NEW l, Hits(d, ops[k], l)
      PROVE  l.val \notin d.foreign /\ \A i \in DOMAIN t.entries : Owns(d, t, i, l) <=> Owns(d, t, i, ops[k].at)
  BY <1>0, <1>1, Declared DEF Hits, Owns
<1>2. ASSUME ~d.byName, NEW k \in DOMAIN ops, ops[k].role # "create", NEW l \in next, l \notin items, Hits(d, ops[k], l)
      PROVE  l.val \notin d.foreign /\ \A i \in DOMAIN t.entries : Owns(d, t, i, l) <=> Owns(d, t, i, ops[k].at)
  <2>0. l.id = ops[k].at.id
    BY <1>2 DEF Hits
  <2>1. CASE \E x, i : Creates(d, items, ops, ops[1], x, next) /\ MadeFor(d, t, items, ops[1], i, x)
    <3>1. PICK x : Creates(d, items, ops, ops[1], x, next)
      BY <2>1
    <3>2. l = x
      BY <1>2, <3>1 DEF Creates
    <3>3. QED
      BY <1>2, <2>0, <3>1, <3>2 DEF Creates
  <2>2. CASE \E m : Removes(d, items, ops[1], m, next)
    BY <1>2, <2>2 DEF Removes
  <2>3. CASE \E m, y, i : Rewrites(d, items, ops[1], m, y, next) /\ WrittenFor(d, t, ops[1], i, m, y)
    <3>1. PICK m, y, i : Rewrites(d, items, ops[1], m, y, next) /\ WrittenFor(d, t, ops[1], i, m, y)
      BY <2>3
    <3>2. l = y /\ m \in items
      BY <1>2, <3>1 DEF Rewrites
    <3>3. m.id = l.id /\ i \in DOMAIN t.entries /\ Owns(d, t, i, m) /\ Owns(d, t, i, l)
      BY <3>1, <3>2 DEF WrittenFor
    <3>4. Hits(d, ops[k], m)
      BY <1>2, <2>0, <3>3 DEF Hits
    <3>5. \A j \in DOMAIN t.entries : Owns(d, t, j, m) <=> Owns(d, t, j, ops[k].at)
      BY <1>0, <1>2, <3>2, <3>4 DEF Held
    <3>6. ASSUME NEW j \in DOMAIN t.entries, j # i PROVE ~Owns(d, t, j, m) /\ ~Owns(d, t, j, l)
      BY <1>0, <3>3, <3>6, EntriesApart
    <3>7. \A j \in DOMAIN t.entries : Owns(d, t, j, l) <=> Owns(d, t, j, m)
      BY <3>3, <3>6
    <3>8. l.val \notin d.foreign
      BY <3>3 DEF Owns
    <3>9. QED
      BY <3>5, <3>7, <3>8
  <2>4. QED
    BY <2>1, <2>2, <2>3, LandingCases
<1>3. Held(d, t, next, ops)
  <2> SUFFICES ASSUME NEW k \in DOMAIN ops, NEW l \in next, ops[k].role # "create", Hits(d, ops[k], l)
               PROVE  l.val \notin d.foreign /\ \A i \in DOMAIN t.entries : Owns(d, t, i, l) <=> Owns(d, t, i, ops[k].at)
    BY DEF Held
  <2>1. CASE d.byName
    BY <1>1, <2>1
  <2>2. CASE ~d.byName /\ l \in items
    BY <1>0, <2>2 DEF Held
  <2>3. CASE ~d.byName /\ l \notin items
    BY <1>2, <2>3
  <2>4. QED
    BY <2>1, <2>2, <2>3
<1>4. Held(d, t, next, rest)
  <2>1. \A k \in DOMAIN rest : k + 1 \in DOMAIN ops /\ rest[k] = ops[k + 1]
    BY DEF Running, Follows
  <2>2. QED
    BY <1>3, <2>1 DEF Held
<1>5. QED
  BY <1>3, <1>4

(* Only a recreate removes an entry's item. *)
LEMMA NoneBefore ==
  ASSUME NEW d, NEW t, NEW items, NEW ops, NEW rest, NEW lost, Running(d, t, items, ops, rest, lost),
         d.edit # "recreate", NEW i \in DOMAIN t.entries, NEW l, Owns(d, t, i, l), NEW k
  PROVE  ~GoesBefore(ops, k, l)
<1> SUFFICES ASSUME NEW j \in DOMAIN ops, ops[j] = RemoveOp(l) PROVE FALSE
  BY DEF GoesBefore
<1>1. ops[j].role = "remove" /\ ops[j].at = l
  BY DEF RemoveOp, Op
<1>2. Sound(d, t, ops[j])
  BY DEF Running
<1>3. Unowned(d, t, l)
  BY <1>1, <1>2 DEF Sound
<1>4. QED
  BY <1>3 DEF Unowned

(* An entry is created once. *)
LEMMA CreatedOnce ==
  ASSUME NEW d, NEW t, NEW items, NEW ops, NEW rest, NEW lost, Running(d, t, items, ops, rest, lost),
         NEW i \in DOMAIN t.entries, ops[1].role = "create", For(t, ops[1], i), NEW k \in DOMAIN rest
  PROVE  ~(rest[k].role = "create" /\ For(t, rest[k], i))
<1>1. k + 1 \in DOMAIN ops /\ rest[k] = ops[k + 1] /\ 1 \in DOMAIN ops /\ 1 < k + 1
  BY DEF Running, Follows
<1>2. ops[k + 1].role = "create" => ops[1].body.name # ops[k + 1].body.name
  BY <1>1 DEF Running, Arranged
<1>3. QED
  BY <1>1, <1>2 DEF For

(* An item still there is removed by what is left, where a removal of it was. *)
LEMMA StillBefore ==
  ASSUME NEW d, NEW t, NEW items, NEW ops, NEW rest, NEW lost, Running(d, t, items, ops, rest, lost),
         NEW next, Landing(d, items, ops, ops[1], next), NEW k \in DOMAIN rest,
         NEW l \in items, l \in next, GoesBefore(ops, k + 1, l)
  PROVE  GoesBefore(rest, k, l)
<1>0. Follows(rest, ops) /\ k \in Nat
  BY DEF Running, Follows
<1>1. PICK j \in DOMAIN ops : j < k + 1 /\ ops[j] = RemoveOp(l)
  BY DEF GoesBefore
<1>2. j # 1
  <2>1. SUFFICES ASSUME ops[1] = RemoveOp(l) PROVE FALSE
    BY <1>1
  <2>2. ops[1].role = "remove" /\ ops[1].at = l
    BY <2>1 DEF RemoveOp, Op
  <2>3. Hits(d, ops[1], l)
    BY <2>2 DEF Hits
  <2>4. PICK m : Removes(d, items, ops[1], m, next)
    BY <2>2 DEF Landing
  <2>5. QED
    BY <2>3, <2>4 DEF Removes
<1>3. j \in Nat /\ j > 0 /\ j - 1 \in DOMAIN rest /\ rest[j - 1] = RemoveOp(l)
  BY <1>0, <1>1, <1>2 DEF Follows
<1>4. j - 1 < k
  BY <1>0, <1>1, <1>3
<1>5. QED
  BY <1>3, <1>4 DEF GoesBefore

LEMMA LandsRoom ==
  ASSUME NEW d, NEW t, NEW items, NEW ops, NEW rest, NEW lost, Running(d, t, items, ops, rest, lost),
         NEW next, Landing(d, items, ops, ops[1], next)
  PROVE  /\ \A again \in BOOLEAN : again => Room(d, t, next, ops, again)
         /\ Room(d, t, next, rest, lost)
<1>0. /\ d \in Decls /\ t \in Documents /\ Valid(d, t.entries) /\ Room(d, t, items, ops, lost)
      /\ Follows(rest, ops)
  BY DEF Running
(* The item a write leaves keeps the place its predecessor had. *)
<1>1. ASSUME NEW l, NEW y, NEW j, Rewrites(d, items, ops[1], l, y, next), WrittenFor(d, t, ops[1], j, l, y),
             NEW k \in DOMAIN ops, NEW i \in DOMAIN t.entries, ops[k].role = "create", For(t, ops[k], i), Owns(d, t, i, y)
      PROVE  lost /\ y.name = Wrote(t, i) /\ y.val = t.entries[i].val
  <2>1. j \in DOMAIN t.entries /\ Owns(d, t, j, y) /\ Owns(d, t, j, l) /\ d.edit # "recreate" /\ l \in items
        /\ y.name = Wrote(t, j) /\ y.val \in {t.entries[j].val, l.val}
    BY <1>1 DEF WrittenFor, Rewrites
  <2>2. i = j
    BY <1>0, <1>1, <2>1, EntriesApart
  <2>3. ~GoesBefore(ops, k, l)
    BY <2>1, NoneBefore
  <2>4. lost /\ l.val = t.entries[i].val
    BY <1>0, <1>1, <2>1, <2>2, <2>3 DEF Room
  <2>5. QED
    BY <2>1, <2>2, <2>4
<1>2. ASSUME NEW again \in BOOLEAN, again,
             NEW k \in DOMAIN ops, NEW i \in DOMAIN t.entries, NEW l \in next,
             ops[k].role = "create", For(t, ops[k], i), Owns(d, t, i, l)
      PROVE  GoesBefore(ops, k, l) \/ (again /\ l.name = Wrote(t, i) /\ l.val = t.entries[i].val)
  <2>1. CASE l \in items
    BY <1>0, <1>2, <2>1 DEF Room
  <2>2. CASE l \notin items /\ \E x, j : Creates(d, items, ops, ops[1], x, next) /\ MadeFor(d, t, items, ops[1], j, x)
    <3>1. PICK x, j : Creates(d, items, ops, ops[1], x, next) /\ MadeFor(d, t, items, ops[1], j, x)
      BY <2>2
    <3>2. l = x
      BY <1>2, <2>2, <3>1 DEF Creates
    <3>3. /\ j \in DOMAIN t.entries /\ Owns(d, t, j, l) /\ l.name = Wrote(t, j) /\ l.val = t.entries[j].val
      BY <3>1, <3>2 DEF MadeFor
    <3>4. i = j
      BY <1>0, <1>2, <3>3, EntriesApart
    <3>5. QED
      BY <1>2, <3>3, <3>4
  <2>3. CASE l \notin items /\ \E m : Removes(d, items, ops[1], m, next)
    BY <1>2, <2>3 DEF Removes
  <2>4. CASE l \notin items /\ \E m, y, j : Rewrites(d, items, ops[1], m, y, next) /\ WrittenFor(d, t, ops[1], j, m, y)
    <3>1. PICK m, y, j : Rewrites(d, items, ops[1], m, y, next) /\ WrittenFor(d, t, ops[1], j, m, y)
      BY <2>4
    <3>2. l = y
      BY <1>2, <2>4, <3>1 DEF Rewrites
    <3>3. QED
      BY <1>1, <1>2, <3>1, <3>2
  <2>5. QED
    BY <2>1, <2>2, <2>3, <2>4, LandingCases
<1>3. ASSUME NEW k \in DOMAIN rest, NEW i \in DOMAIN t.entries, NEW l \in next,
             rest[k].role = "create", For(t, rest[k], i), Owns(d, t, i, l)
      PROVE  GoesBefore(rest, k, l) \/ (lost /\ l.name = Wrote(t, i) /\ l.val = t.entries[i].val)
  <2>0. k \in Nat /\ k > 0 /\ k + 1 \in DOMAIN ops /\ rest[k] = ops[k + 1]
    BY <1>0 DEF Follows
  <2>1. CASE l \in items
    <3>1. GoesBefore(ops, k + 1, l) \/ (lost /\ l.name = Wrote(t, i) /\ l.val = t.entries[i].val)
      BY <1>0, <1>3, <2>0, <2>1 DEF Room
    <3>2. GoesBefore(ops, k + 1, l) => GoesBefore(rest, k, l)
      BY <1>3, <2>1, StillBefore
    <3>3. QED
      BY <3>1, <3>2
  <2>2. CASE l \notin items /\ ops[1].role = "create" /\ \E x, j : Creates(d, items, ops, ops[1], x, next) /\ MadeFor(d, t, items, ops[1], j, x)
    <3>1. PICK x, j : Creates(d, items, ops, ops[1], x, next) /\ MadeFor(d, t, items, ops[1], j, x)
      BY <2>2
    <3>2. l = x
      BY <1>3, <2>2, <3>1 DEF Creates
    <3>3. j \in DOMAIN t.entries /\ Owns(d, t, j, l) /\ For(t, ops[1], j)
      BY <3>1, <3>2 DEF MadeFor
    <3>4. i = j
      BY <1>0, <1>3, <3>3, EntriesApart
    <3>5. QED
      BY <1>3, <2>2, <3>3, <3>4, CreatedOnce
  <2>3. CASE l \notin items /\ \E m : Removes(d, items, ops[1], m, next)
    BY <1>3, <2>3 DEF Removes
  <2>4. CASE l \notin items /\ \E m, y, j : Rewrites(d, items, ops[1], m, y, next) /\ WrittenFor(d, t, ops[1], j, m, y)
    <3>1. PICK m, y, j : Rewrites(d, items, ops[1], m, y, next) /\ WrittenFor(d, t, ops[1], j, m, y)
      BY <2>4
    <3>2. l = y
      BY <1>3, <2>4, <3>1 DEF Rewrites
    <3>3. ops[k + 1].role = "create" /\ For(t, ops[k + 1], i)
      BY <1>3, <2>0
    <3>4. QED
      BY <1>1, <1>3, <2>0, <3>1, <3>2, <3>3
  <2>5. QED
    BY <2>1, <2>2, <2>3, <2>4, LandingCases
<1>4. \A again \in BOOLEAN : again => Room(d, t, next, ops, again)
  BY <1>2 DEF Room
<1>5. Room(d, t, next, rest, lost)
  BY <1>3 DEF Room
<1>6. QED
  BY <1>4, <1>5

LEMMA LandsPresent ==
  ASSUME NEW d, NEW t, NEW items, NEW ops, NEW rest, NEW lost, Running(d, t, items, ops, rest, lost),
         Present(d, items, ops), NEW next, Landing(d, items, ops, ops[1], next)
  PROVE  Present(d, next, rest)
<1> SUFFICES ASSUME NEW k \in DOMAIN rest, rest[k].role # "create"
             PROVE  \E l \in next : Hits(d, rest[k], l)
  BY DEF Present
<1>0. d \in Decls /\ k + 1 \in DOMAIN ops /\ rest[k] = ops[k + 1] /\ 1 \in DOMAIN ops /\ 1 < k + 1
  BY DEF Running, Follows
<1> DEFINE op == ops[1]
<1> DEFINE oq == rest[k]
<1>1. PICK l \in items : Hits(d, oq, l)
  BY <1>0 DEF Present
<1>2. ops[1].role # "create" => Apart(d, op, oq)
  BY <1>0 DEF Running, Arranged
<1>3. ASSUME op.role # "create", Hits(d, op, l)
      PROVE  op.role = "updateConfig" /\ ~d.byName
  <2>1. d.key[op.at.name] = d.key[oq.at.name] \/ op.at.id = oq.at.id
    BY <1>1, <1>3 DEF Hits
  <2>2. op.role = "updateConfig"
    BY <1>2, <1>3, <2>1 DEF Apart
  <2>3. d.edit = "mapping"
    BY <1>0, <2>2 DEF Running, Sound, Writes
  <2>4. QED
    BY <1>0, <2>2, <2>3, Declared
<1>4. CASE \E x, i : Creates(d, items, ops, op, x, next) /\ MadeFor(d, t, items, op, i, x)
  BY <1>1, <1>4 DEF Creates
<1>5. CASE op.role = "remove" /\ \E m : Removes(d, items, op, m, next)
  <2>1. ~Hits(d, op, l)
    BY <1>3, <1>5
  <2>2. QED
    BY <1>1, <1>5, <2>1 DEF Removes
<1>6. CASE op.role # "create" /\ \E m, y, i : Rewrites(d, items, op, m, y, next) /\ WrittenFor(d, t, op, i, m, y)
  <2>1. PICK m, y, i : Rewrites(d, items, op, m, y, next) /\ WrittenFor(d, t, op, i, m, y)
    BY <1>6
  <2>2. next = (items \ {m}) \cup {y} /\ y.id = m.id /\ Hits(d, op, m)
    BY <2>1 DEF Rewrites, WrittenFor
  <2>3. CASE l # m
    BY <1>1, <2>2, <2>3
  <2>4. CASE l = m
    <3>1. ~d.byName
      BY <1>3, <1>6, <2>2, <2>4
    <3>2. Hits(d, oq, y)
      BY <1>1, <2>2, <2>4, <3>1 DEF Hits
    <3>3. QED
      BY <2>2, <3>2
  <2>5. QED
    BY <2>3, <2>4
<1>7. QED
  BY <1>4, <1>5, <1>6, LandingCases

LEMMA LandsSwept ==
  ASSUME NEW d, NEW t, NEW items, NEW ops, NEW rest, NEW lost, Running(d, t, items, ops, rest, lost),
         NEW next, Landing(d, items, ops, ops[1], next)
  PROVE  Swept(d, t, next, rest) /\ Swept(d, t, next, ops)
<1>0. Swept(d, t, items, ops) /\ Follows(rest, ops)
  BY DEF Running
<1>1. ASSUME t.policy = "delete", NEW l \in next, Unowned(d, t, l)
      PROVE  \E k \in DOMAIN rest : rest[k] = RemoveOp(l)
  <2>1. l \in items
    <3>1. \A i \in DOMAIN t.entries : ~Owns(d, t, i, l)
      BY <1>1 DEF Unowned
    <3>2. CASE \E x, i : Creates(d, items, ops, ops[1], x, next) /\ MadeFor(d, t, items, ops[1], i, x)
      BY <1>1, <3>1, <3>2 DEF Creates, MadeFor
    <3>3. CASE \E m : Removes(d, items, ops[1], m, next)
      BY <1>1, <3>3 DEF Removes
    <3>4. CASE \E m, y, i : Rewrites(d, items, ops[1], m, y, next) /\ WrittenFor(d, t, ops[1], i, m, y)
      BY <1>1, <3>1, <3>4 DEF Rewrites, WrittenFor
    <3>5. QED
      BY <3>2, <3>3, <3>4, LandingCases
  <2>2. PICK k \in DOMAIN ops : ops[k] = RemoveOp(l)
    BY <1>0, <1>1, <2>1 DEF Swept
  <2>3. k # 1
    <3>1. SUFFICES ASSUME ops[1] = RemoveOp(l) PROVE FALSE
      BY <2>2
    <3>2. ops[1].role = "remove" /\ ops[1].at = l
      BY <3>1 DEF RemoveOp, Op
    <3>3. Hits(d, ops[1], l)
      BY <3>2 DEF Hits
    <3>4. PICK m : Removes(d, items, ops[1], m, next)
      BY <3>2 DEF Landing
    <3>5. QED
      BY <1>1, <2>1, <3>3, <3>4 DEF Removes
  <2>4. k - 1 \in DOMAIN rest /\ rest[k - 1] = ops[k]
    BY <1>0, <2>3 DEF Follows
  <2>5. QED
    BY <2>2, <2>4
<1>2. \A k \in DOMAIN rest : k + 1 \in DOMAIN ops /\ rest[k] = ops[k + 1]
  BY <1>0 DEF Follows
<1>3. Swept(d, t, next, rest)
  BY <1>1 DEF Swept
<1>4. Swept(d, t, next, ops)
  BY <1>1, <1>2 DEF Swept
<1>5. QED
  BY <1>3, <1>4

(* What Served says of one entry. *)
ServedBy(d, t, i, l, ops) ==
  /\ Owns(d, t, i, l)
  /\ \/ l.name = Wrote(t, i) /\ l.val = t.entries[i].val
     \/ \E k \in DOMAIN ops : Writes(ops[k]) /\ For(t, ops[k], i) /\ (ops[k].role = "updateConfig" <=> d.edit = "mapping")
  /\ Settled(d, t.entries[i], l) \/ \E k \in DOMAIN ops : ops[k].role = "update" /\ For(t, ops[k], i)
EntryServed(d, t, i, items, ops) ==
  \/ \E k \in DOMAIN ops : ops[k].role = "create" /\ For(t, ops[k], i)
  \/ \E l \in items : ServedBy(d, t, i, l, ops)

LEMMA ServedEach ==
  ASSUME NEW d, NEW t, NEW items, NEW ops
  PROVE  Served(d, t, items, ops) <=> \A i \in DOMAIN t.entries : EntryServed(d, t, i, items, ops)
BY DEF Served, EntryServed, ServedBy

LEMMA LandsServed ==
  ASSUME NEW d, NEW t, NEW items, NEW ops, NEW rest, NEW lost, Running(d, t, items, ops, rest, lost),
         NEW next, Landing(d, items, ops, ops[1], next)
  PROVE  Served(d, t, next, rest) /\ Served(d, t, next, ops)
<1> DEFINE op == ops[1]
<1>0. /\ d \in Decls /\ t \in Documents /\ Valid(d, t.entries) /\ Follows(rest, ops)
      /\ \A i \in DOMAIN t.entries : EntryServed(d, t, i, items, ops)
  BY ServedEach DEF Running
<1>r. \A k \in DOMAIN ops : k # 1 => \E m \in DOMAIN rest : rest[m] = ops[k]
  BY <1>0 DEF Follows
<1>o. \A m \in DOMAIN rest : \E k \in DOMAIN ops : rest[m] = ops[k]
  BY <1>0 DEF Follows
(* Where the operation landing does not write the entry, nothing it relied on is gone. *)
<1>1. ASSUME NEW i \in DOMAIN t.entries, op.role = "remove" \/ ~For(t, op, i),
             NEW l \in items, ServedBy(d, t, i, l, ops)
      PROVE  ServedBy(d, t, i, l, rest)
  <2>1. \A k \in DOMAIN ops : ops[k].role # "remove" /\ For(t, ops[k], i) => \E m \in DOMAIN rest : rest[m] = ops[k]
    BY <1>r, <1>1
  <2>2. \A o : Writes(o) => o.role # "remove"
    BY DEF Writes
  <2>3. \/ l.name = Wrote(t, i) /\ l.val = t.entries[i].val
        \/ \E k \in DOMAIN rest : Writes(rest[k]) /\ For(t, rest[k], i) /\ (rest[k].role = "updateConfig" <=> d.edit = "mapping")
    BY <1>1, <2>1, <2>2 DEF ServedBy
  <2>4. Settled(d, t.entries[i], l) \/ \E k \in DOMAIN rest : rest[k].role = "update" /\ For(t, rest[k], i)
    BY <1>1, <2>1 DEF ServedBy
  <2>5. QED
    BY <1>1, <2>3, <2>4 DEF ServedBy
<1>2. ASSUME NEW i \in DOMAIN t.entries, op.role # "create" \/ ~For(t, op, i),
             NEW k \in DOMAIN ops, ops[k].role = "create", For(t, ops[k], i)
      PROVE  EntryServed(d, t, i, next, rest)
  <2>1. PICK m \in DOMAIN rest : rest[m] = ops[k]
    BY <1>r, <1>2
  <2>2. QED
    BY <1>2, <2>1 DEF EntryServed
<1>3. ASSUME op.role = "create", NEW x, NEW i, Creates(d, items, ops, op, x, next), MadeFor(d, t, items, op, i, x),
             NEW j \in DOMAIN t.entries
      PROVE  EntryServed(d, t, j, next, rest)
  <2>1. /\ next = items \cup {x} /\ i \in DOMAIN t.entries /\ For(t, op, i) /\ Owns(d, t, i, x)
        /\ x.name = Wrote(t, i) /\ x.val = t.entries[i].val
        /\ t.entries[i].flag # Unset => x.flag = t.entries[i].flag
        /\ t.entries[i].flag = Unset /\ d.edit # "recreate" => x.flag = Default
    BY <1>3 DEF Creates, MadeFor
  <2>2. CASE j = i
    <3>1. Settled(d, t.entries[i], x)
      BY <2>1 DEF Settled
    <3>2. ServedBy(d, t, i, x, rest)
      BY <2>1, <3>1 DEF ServedBy
    <3>3. QED
      BY <2>1, <2>2, <3>2 DEF EntryServed
  <2>3. CASE j # i
    <3>1. ~For(t, op, j)
      BY <1>0, <2>1, <2>3, EntriesApart
    <3>2. CASE \E k \in DOMAIN ops : ops[k].role = "create" /\ For(t, ops[k], j)
      BY <1>2, <3>1, <3>2
    <3>3. CASE \E l \in items : ServedBy(d, t, j, l, ops)
      BY <1>1, <2>1, <3>1, <3>3 DEF EntryServed
    <3>4. QED
      BY <1>0, <3>2, <3>3 DEF EntryServed
  <2>4. QED
    BY <2>2, <2>3
<1>4. ASSUME op.role = "remove", NEW l, Removes(d, items, op, l, next), NEW j \in DOMAIN t.entries
      PROVE  EntryServed(d, t, j, next, rest)
  <2>1. next = items \ {l}
    BY <1>4 DEF Removes
  <2>2. CASE \E k \in DOMAIN ops : ops[k].role = "create" /\ For(t, ops[k], j)
    BY <1>2, <1>4, <2>2
  <2>3. CASE \E m \in items : ServedBy(d, t, j, m, ops)
    <3>1. PICK m \in items : ServedBy(d, t, j, m, ops)
      BY <2>3
    <3>2. CASE m # l
      BY <1>1, <1>4, <2>1, <3>1, <3>2 DEF EntryServed
    <3>3. CASE m = l
      <4>1. Owns(d, t, j, l)
        BY <3>1, <3>3 DEF ServedBy
      <4>2. 1 \in DOMAIN rest /\ rest[1].role = "create" /\ For(t, rest[1], j)
        BY <1>4, <4>1, RemovedItem
      <4>3. QED
        BY <4>2 DEF EntryServed
    <3>4. QED
      BY <3>2, <3>3
  <2>4. QED
    BY <1>0, <2>2, <2>3 DEF EntryServed
<1>5. ASSUME Writes(op), op.role # "create", op.role # "remove",
             NEW l, NEW y, NEW i, Rewrites(d, items, op, l, y, next), WrittenFor(d, t, op, i, l, y),
             NEW j \in DOMAIN t.entries
      PROVE  EntryServed(d, t, j, next, rest)
  <2>1. /\ next = (items \ {l}) \cup {y} /\ i \in DOMAIN t.entries /\ For(t, op, i)
        /\ Owns(d, t, i, l) /\ Owns(d, t, i, y) /\ y.name = Wrote(t, i) /\ l \in items
    BY <1>5 DEF Rewrites, WrittenFor
  <2>2. CASE \E k \in DOMAIN ops : ops[k].role = "create" /\ For(t, ops[k], j)
    BY <1>2, <1>5, <2>2
  <2>3. ASSUME NEW m \in items, ServedBy(d, t, j, m, ops), j # i PROVE EntryServed(d, t, j, next, rest)
    <3>1. ~For(t, op, j)
      BY <1>0, <2>1, <2>3, EntriesApart
    <3>2. m # l
      <4>1. Owns(d, t, j, m)
        BY <2>3 DEF ServedBy
      <4>2. QED
        BY <1>0, <2>1, <2>3, <4>1, EntriesApart
    <3>3. QED
      BY <1>1, <2>1, <2>3, <3>1, <3>2 DEF EntryServed
  <2>4. ASSUME NEW m \in items, ServedBy(d, t, i, m, ops) PROVE ServedBy(d, t, i, y, rest)
    <3> DEFINE e == t.entries[i]
    <3>1. m = l
      BY <2>1, <2>4 DEF Running, Orderly, ServedBy
    <3>2. \/ op.role = "updateConfig" /\ d.edit = "mapping" /\ y.val = e.val /\ y.flag = l.flag
          \/ op.role = "update" /\ d.edit = "mapping" /\ y.val = l.val /\ y.flag = e.flag /\ e.flag # Unset
          \/ /\ op.role = "update" /\ d.edit # "mapping" /\ y.val = e.val
             /\ e.flag # Unset => y.flag = e.flag
             /\ e.flag = Unset => y.flag = IF d.edit = "replace" THEN Default ELSE l.flag
      BY <1>5 DEF WrittenFor
    <3>3. y.val = e.val \/ \E k \in DOMAIN rest : Writes(rest[k]) /\ For(t, rest[k], i) /\ (rest[k].role = "updateConfig" <=> d.edit = "mapping")
      <4>1. CASE y.val = e.val
        BY <4>1
      <4>2. CASE op.role = "update" /\ d.edit = "mapping" /\ y.val = l.val
        <5>1. CASE l.val = e.val
          BY <4>2, <5>1
        <5>2. CASE l.val # e.val
          <6>1. PICK k \in DOMAIN ops : Writes(ops[k]) /\ For(t, ops[k], i) /\ (ops[k].role = "updateConfig" <=> d.edit = "mapping")
            BY <2>4, <3>1, <5>2 DEF ServedBy
          <6>2. k # 1
            BY <4>2, <6>1
          <6>3. QED
            BY <1>r, <6>1, <6>2
        <5>3. QED
          BY <5>1, <5>2
      <4>3. QED
        BY <3>2, <4>1, <4>2
    <3>4. Settled(d, e, y) \/ \E k \in DOMAIN rest : rest[k].role = "update" /\ For(t, rest[k], i)
      <4>1. CASE op.role = "updateConfig" /\ y.flag = l.flag
        <5>1. CASE Settled(d, e, l)
          BY <4>1, <5>1 DEF Settled
        <5>2. CASE ~Settled(d, e, l)
          <6>1. PICK k \in DOMAIN ops : ops[k].role = "update" /\ For(t, ops[k], i)
            BY <2>4, <3>1, <5>2 DEF ServedBy
          <6>2. k # 1
            BY <4>1, <6>1
          <6>3. QED
            BY <1>r, <6>1, <6>2
        <5>3. QED
          BY <5>1, <5>2
      <4>2. CASE op.role = "update"
        BY <3>2, <4>2 DEF Settled
      <4>3. QED
        BY <3>2, <4>1, <4>2
    <3>5. QED
      BY <2>1, <3>3, <3>4 DEF ServedBy
  <2>5. CASE \E m \in items : ServedBy(d, t, j, m, ops)
    <3>1. CASE j = i
      BY <2>1, <2>4, <2>5, <3>1 DEF EntryServed
    <3>2. CASE j # i
      BY <2>3, <2>5, <3>2
    <3>3. QED
      BY <3>1, <3>2
  <2>6. QED
    BY <1>0, <2>2, <2>5 DEF EntryServed
<1>6. \A j \in DOMAIN t.entries : EntryServed(d, t, j, next, rest)
  BY <1>3, <1>4, <1>5, LandingCases
<1>7. \A j \in DOMAIN t.entries : EntryServed(d, t, j, next, ops)
  BY <1>o, <1>6 DEF EntryServed, ServedBy
<1>8. QED
  BY <1>6, <1>7, ServedEach

(* The field an entry leaves undeclared, as a request lands. *)
LEMMA LandsPreserved ==
  ASSUME NEW d, NEW t, NEW items, NEW ops, NEW rest, NEW lost, Running(d, t, items, ops, rest, lost),
         NEW next, Landing(d, items, ops, ops[1], next), ~ops[1].refused,
         NEW was, Found(t, was), Preserved(d, t, items, was), SentAgain(d, t, items, ops, was)
  PROVE  Preserved(d, t, next, was)
<1> SUFFICES ASSUME NEW i \in DOMAIN t.entries, NEW l \in next, was[i] # Unset, Owns(d, t, i, l)
             PROVE  l.flag = was[i]
  BY DEF Preserved
<1>0. /\ d \in Decls /\ t \in Documents /\ Valid(d, t.entries) /\ 1 \in DOMAIN ops
      /\ t.entries[i].flag = Unset
  BY DEF Running, Follows, Found
<1>1. CASE l \in items
  BY <1>1 DEF Preserved
<1>2. CASE l \notin items /\ ops[1].role = "create" /\ \E x, j : Creates(d, items, ops, ops[1], x, next) /\ MadeFor(d, t, items, ops[1], j, x)
  <2>1. PICK x, j : Creates(d, items, ops, ops[1], x, next) /\ MadeFor(d, t, items, ops[1], j, x)
    BY <1>2
  <2>2. l = x
    BY <1>2, <2>1 DEF Creates
  <2>3. j \in DOMAIN t.entries /\ Owns(d, t, j, l) /\ For(t, ops[1], j) /\ l.flag = OrDefault(ops[1].body.flag)
    BY <2>1, <2>2 DEF MadeFor
  <2>4. i = j
    BY <1>0, <2>3, EntriesApart
  <2>5. ops[1].body.flag = was[i]
    BY <1>0, <1>2, <2>3, <2>4 DEF SentAgain
  <2>6. QED
    BY <2>3, <2>5 DEF OrDefault
<1>3. CASE l \notin items /\ \E m : Removes(d, items, ops[1], m, next)
  BY <1>3 DEF Removes
<1>4. CASE l \notin items /\ \E m, y, j : Rewrites(d, items, ops[1], m, y, next) /\ WrittenFor(d, t, ops[1], j, m, y)
  <2>1. PICK m, y, j : Rewrites(d, items, ops[1], m, y, next) /\ WrittenFor(d, t, ops[1], j, m, y)
    BY <1>4
  <2>2. l = y /\ m \in items
    BY <1>4, <2>1 DEF Rewrites
  <2>3. /\ j \in DOMAIN t.entries /\ Owns(d, t, j, l) /\ Owns(d, t, j, m) /\ For(t, ops[1], j)
        /\ \/ l.flag = m.flag
           \/ l.flag = t.entries[j].flag /\ t.entries[j].flag # Unset
           \/ /\ ops[1].role = "update"
              /\ t.entries[j].flag = Unset => l.flag = IF d.edit = "replace" THEN Default ELSE m.flag
    BY <2>1, <2>2 DEF WrittenFor
  <2>4. i = j
    BY <1>0, <2>3, EntriesApart
  <2>5. m.flag = was[i]
    BY <2>2, <2>3, <2>4 DEF Preserved
  <2>6. ops[1].role = "update" /\ d.edit = "replace" => was[i] = Default
    BY <1>0, <2>3, <2>4 DEF SentAgain
  <2>7. QED
    BY <1>0, <2>3, <2>4, <2>5, <2>6
<1>5. QED
  BY <1>1, <1>2, <1>3, <1>4, LandingCases

LEMMA LandsSentAgain ==
  ASSUME NEW d, NEW t, NEW items, NEW ops, NEW rest, NEW lost, Running(d, t, items, ops, rest, lost),
         NEW next, Landing(d, items, ops, ops[1], next),
         NEW was, SentAgain(d, t, items, ops, was)
  PROVE  /\ SentAgain(d, t, next, rest, was)
         /\ d.edit # "recreate" => SentAgain(d, t, next, ops, was)
<1>0. d \in Decls /\ t \in Documents /\ Valid(d, t.entries) /\ Follows(rest, ops)
  BY DEF Running
<1>1. d.edit # "recreate" => SentAgain(d, t, next, ops, was)
  BY DEF SentAgain
<1>2. ASSUME NEW k \in DOMAIN rest, NEW i \in DOMAIN t.entries, was[i] # Unset, For(t, rest[k], i), rest[k].role = "create"
      PROVE  /\ d.edit = "recreate" /\ rest[k].body.flag = was[i]
             /\ \A l \in next : <<Wrote(t, i), l.name>> \in d.clash => GoesBefore(rest, k, l)
  <2>1. k + 1 \in DOMAIN ops /\ rest[k] = ops[k + 1]
    BY <1>0 DEF Follows
  <2>2. /\ d.edit = "recreate" /\ rest[k].body.flag = was[i]
        /\ \A l \in items : <<Wrote(t, i), l.name>> \in d.clash => GoesBefore(ops, k + 1, l)
    BY <1>2, <2>1 DEF SentAgain
  <2>3. ASSUME NEW l \in next, <<Wrote(t, i), l.name>> \in d.clash PROVE GoesBefore(rest, k, l)
    <3>1. CASE l \in items
      BY <2>2, <2>3, <3>1, StillBefore
    <3>2. CASE l \notin items /\ ops[1].role = "create" /\ \E x, j : Creates(d, items, ops, ops[1], x, next) /\ MadeFor(d, t, items, ops[1], j, x)
      <4>1. PICK x, j : Creates(d, items, ops, ops[1], x, next) /\ MadeFor(d, t, items, ops[1], j, x)
        BY <3>2
      <4>2. l = x
        BY <2>3, <3>2, <4>1 DEF Creates
      <4>3. j \in DOMAIN t.entries /\ For(t, ops[1], j) /\ l.name = Wrote(t, j)
        BY <4>1, <4>2 DEF MadeFor
      <4>4. j # i
        BY <1>2, <3>2, <4>3, CreatedOnce
      <4>5. QED
        BY <1>0, <2>3, <4>3, <4>4, EntriesApart
    <3>3. CASE l \notin items /\ \E m : Removes(d, items, ops[1], m, next)
      BY <2>3, <3>3 DEF Removes
    <3>4. CASE \E m, y, j : WrittenFor(d, t, ops[1], j, m, y)
      BY <2>2, <3>4 DEF WrittenFor
    <3>5. QED
      BY <3>1, <3>2, <3>3, <3>4, LandingCases
  <2>4. QED
    BY <2>2, <2>3
<1>3. ASSUME NEW k \in DOMAIN rest, NEW i \in DOMAIN t.entries, was[i] # Unset, For(t, rest[k], i),
             rest[k].role = "update", d.edit = "replace", ~rest[k].refused
      PROVE  was[i] = Default
  <2>1. k + 1 \in DOMAIN ops /\ rest[k] = ops[k + 1]
    BY <1>0 DEF Follows
  <2>2. QED
    BY <1>3, <2>1 DEF SentAgain
<1>4. SentAgain(d, t, next, rest, was)
  BY <1>2, <1>3 DEF SentAgain
<1>5. QED
  BY <1>1, <1>4

LEMMA LandsStillThere ==
  ASSUME NEW d, NEW t, NEW items, NEW ops, NEW rest, NEW lost, Running(d, t, items, ops, rest, lost),
         NEW next, Landing(d, items, ops, ops[1], next),
         NEW was, StillThere(d, t, items, ops, was), Head(ops) = ops[1]
  PROVE  \A i \in DOMAIN t.entries : was[i] # Unset =>
           \/ \E l \in next : Owns(d, t, i, l)
           \/ d.edit = "recreate" /\ 1 \in DOMAIN rest /\ rest[1].role = "create" /\ For(t, rest[1], i)
<1> SUFFICES ASSUME NEW i \in DOMAIN t.entries, was[i] # Unset
             PROVE  \/ \E l \in next : Owns(d, t, i, l)
                    \/ d.edit = "recreate" /\ 1 \in DOMAIN rest /\ rest[1].role = "create" /\ For(t, rest[1], i)
  OBVIOUS
<1>a. (\E l \in items : Owns(d, t, i, l)) \/ (ops[1].role = "create" /\ For(t, ops[1], i))
  BY DEF StillThere
<1>0. d \in Decls /\ t \in Documents /\ Valid(d, t.entries)
  BY DEF Running
<1>1. CASE ops[1].role = "create" /\ \E x, j : Creates(d, items, ops, ops[1], x, next) /\ MadeFor(d, t, items, ops[1], j, x)
  <2>1. PICK x, j : Creates(d, items, ops, ops[1], x, next) /\ MadeFor(d, t, items, ops[1], j, x)
    BY <1>1
  <2>2. next = items \cup {x} /\ j \in DOMAIN t.entries /\ For(t, ops[1], j) /\ Owns(d, t, j, x)
    BY <2>1 DEF Creates, MadeFor
  <2>3. For(t, ops[1], i) => i = j
    BY <1>0, <2>2, EntriesApart
  <2>4. QED
    BY <1>a, <2>2, <2>3
<1>2. CASE ops[1].role = "remove" /\ \E m : Removes(d, items, ops[1], m, next)
  <2>1. PICK m : Removes(d, items, ops[1], m, next)
    BY <1>2
  <2>2. PICK l \in items : Owns(d, t, i, l)
    BY <1>a, <1>2
  <2>3. CASE l = m
    BY <1>2, <2>1, <2>2, <2>3, RemovedItem
  <2>4. CASE l # m
    BY <2>1, <2>2, <2>4 DEF Removes
  <2>5. QED
    BY <2>3, <2>4
<1>3. CASE ops[1].role # "create" /\ \E m, y, j : Rewrites(d, items, ops[1], m, y, next) /\ WrittenFor(d, t, ops[1], j, m, y)
  <2>1. PICK m, y, j : Rewrites(d, items, ops[1], m, y, next) /\ WrittenFor(d, t, ops[1], j, m, y)
    BY <1>3
  <2>2. PICK l \in items : Owns(d, t, i, l)
    BY <1>a, <1>3
  <2>3. next = (items \ {m}) \cup {y} /\ j \in DOMAIN t.entries /\ Owns(d, t, j, m) /\ Owns(d, t, j, y)
    BY <2>1 DEF Rewrites, WrittenFor
  <2>4. l = m => i = j
    BY <1>0, <2>2, <2>3, EntriesApart
  <2>5. QED
    BY <2>2, <2>3, <2>4
<1>4. QED
  BY <1>1, <1>2, <1>3, LandingCases

-----------------------------------------------------------------------------
(* The invariant holds at first, and every step keeps it. *)

(* A new plan is sound, and says what the run has to do. *)
LEMMA NewPlan ==
  ASSUME TypeOK, Consistent(decl, live), ~Refused
  PROVE  /\ Orderly(decl, doc, live)
         /\ Plan \in Seq(Operation) /\ (\A k \in DOMAIN Plan : Sound(decl, doc, Plan[k])) /\ Arranged(decl, doc, Plan)
         /\ Held(decl, doc, live, Plan) /\ Present(decl, live, Plan)
         /\ \A lost : Room(decl, doc, live, Plan, lost)
         /\ Swept(decl, doc, live, Plan) /\ Served(decl, doc, live, Plan)
         /\ \A was : Found(doc, was) /\ Preserved(decl, doc, live, was)
                     /\ (\A i \in Entries : was[i] # Unset => \E l \in live : Owns(decl, doc, i, l))
                     => SentAgain(decl, doc, live, Plan, was)
<1>1. Ready(decl, doc, live)
  BY NotRefused DEF TypeOK, Ready
<1>2. Plan \in Seq(Operation) /\ IsLaid(Plan, GroupsOf, SweptItems)
  BY PlanIsLaid
<1>3. PICK n, gone, own, pos : Laid(Plan, GroupsOf, SweptItems, n, gone, own, pos)
  BY <1>2 DEF IsLaid
<1>4. Planned(decl, doc, live, GroupsOf, Plan, n, gone, own, pos)
  <2>1. DOMAIN GroupsOf = DOMAIN doc.entries /\ \A i \in DOMAIN doc.entries : GroupsOf[i] = Group(doc.entries[i])
    BY DEF GroupsOf, Entries
  <2>2. \A i \in DOMAIN doc.entries : Shape(decl, doc, live, i, Group(doc.entries[i]))
    BY GroupShape DEF Entries
  <2>3. QED
    BY <1>2, <1>3, <2>1, <2>2 DEF Planned, SweptItems
<1> DEFINE P == Plan
<1>5. Planned(decl, doc, live, GroupsOf, P, n, gone, own, pos) /\ P \in Seq(Operation)
  BY <1>2, <1>4
<1>6. P = Plan
  OBVIOUS
<1> HIDE DEF P
<1>7. (\A k \in DOMAIN P : Sound(decl, doc, P[k])) /\ Arranged(decl, doc, P)
  BY <1>1, <1>5, PlanSound, PlanArranged
<1>8. Held(decl, doc, live, P) /\ Present(decl, live, P)
  BY <1>1, <1>5, PlanHolds
<1>9. \A lost : Room(decl, doc, live, P, lost)
  BY <1>1, <1>5, PlanMakesRoom DEF Room
<1>10. Swept(decl, doc, live, P) /\ Served(decl, doc, live, P)
  BY <1>1, <1>5, PlanServes
<1>11. ASSUME NEW was, Found(doc, was), Preserved(decl, doc, live, was),
              \A i \in Entries : was[i] # Unset => \E l \in live : Owns(decl, doc, i, l)
       PROVE  SentAgain(decl, doc, live, P, was)
  BY <1>1, <1>5, <1>11, PlanSendsAgain DEF Entries
<1>12. Orderly(decl, doc, live)
  BY <1>1 DEF Ready
<1>13. \A was : Found(doc, was) /\ Preserved(decl, doc, live, was)
                /\ (\A i \in Entries : was[i] # Unset => \E l \in live : Owns(decl, doc, i, l))
                => SentAgain(decl, doc, live, P, was)
  BY <1>11
<1>14. QED
  BY <1>5, <1>7, <1>8, <1>9, <1>10, <1>12, <1>13 DEF P

(* The request in flight lands as its operation says. *)
LEMMA HeadLands ==
  ASSUME TypeOK, PlanInv, InFlight, Accepts(Head(plan))
  PROVE  /\ Landing(decl, live, plan, plan[1], After(Head(plan)))
         /\ After(Head(plan)) \subseteq Item /\ IsFiniteSet(After(Head(plan)))
         /\ Consistent(decl, After(Head(plan)))
<1>1. Head(plan) = plan[1] /\ Head(plan) \in Operation /\ 1 \in DOMAIN plan
  BY InFlightOp DEF InFlight
<1>2. Sound(decl, doc, Head(plan)) /\ Consistent(decl, live)
  BY <1>1 DEF PlanInv
<1>3. /\ Writes(Head(plan)) => decl.edit # "recreate"
      /\ Head(plan).role = "updateConfig" => decl.edit = "mapping"
      /\ Head(plan).role = "update" /\ decl.edit = "mapping" => Head(plan).body.flag # Unset
  BY <1>2 DEF Sound, Writes
<1> DEFINE op == Head(plan)
<1> HIDE DEF op
<1>4. /\ Landing(decl, live, plan, op, After(op))
      /\ After(op) \subseteq Item /\ IsFiniteSet(After(op))
  BY <1>1, <1>2, <1>3, HowItLands DEF op
<1>5. Consistent(decl, After(op))
  <2>1. decl \in Decls /\ live \in SUBSET Item /\ op \in Operation
    BY <1>1 DEF TypeOK, op
  <2>2. QED
    BY <1>2, <1>4, <2>1, LandsConsistent
<1>6. QED
  BY <1>1, <1>4, <1>5 DEF op

(* A run nobody interfered with. *)
LEMMA RunningNow ==
  ASSUME TypeOK, PlanInv, RunInv, InFlight, ~interfered
  PROVE  Running(decl, doc, live, plan, Tail(plan), faulted)
<1>1. Follows(Tail(plan), plan)
  BY InFlightOp DEF InFlight, Follows
<1>2. \A k \in DOMAIN plan : plan[k] \in Operation
  BY DEF TypeOK
<1>3. Underway
  BY DEF InFlight, Underway
<1>4. QED
  BY <1>1, <1>2, <1>3 DEF Running, TypeOK, PlanInv, RunInv

LEMMA InitInv ==
  ASSUME Init
  PROVE  IInv
<1>1. PICK n \in 0..MaxItems : \E held \in [1..n -> Content] :
        live = {[id |-> i, name |-> held[i].name, val |-> held[i].val, flag |-> held[i].flag] : i \in 1..n}
  BY DEF Init
<1>2. PICK held \in [1..n -> Content] :
        live = {[id |-> i, name |-> held[i].name, val |-> held[i].val, flag |-> held[i].flag] : i \in 1..n}
  BY <1>1
<1>3. n \in Nat
  BY ListBoundsAssumption
<1> DEFINE f == [i \in 1..n |-> [id |-> i, name |-> held[i].name, val |-> held[i].val, flag |-> held[i].flag]]
<1>4. \A i \in 1..n : f[i] \in Item
  BY <1>2, <1>3 DEF Item, Content
<1>5. f \in Surjection(1..n, live)
  BY <1>2 DEF Surjection
<1>6. live \subseteq Item
  BY <1>4, <1>5 DEF Surjection
<1>7. IsFiniteSet(live)
  BY <1>3, <1>5, FS_Interval, FS_Surjection
<1>8. TypeOK
  <2>1. decl \in Decls /\ doc \in Documents /\ Valid(decl, doc.entries)
    BY DEF Init
  <2>2. /\ pc \in {"idle", "exec"} /\ tries \in Nat /\ row \in {"none", "failed", "applied"}
        /\ interfered \in BOOLEAN /\ faulted \in BOOLEAN /\ edits \in Nat /\ faults \in Nat
    BY DEF Init
  <2>5. plan \in Seq(Operation)
    <3>1. plan = <<>>
      BY DEF Init
    <3>2. QED
      BY <3>1
  <2>3. seen \in [Entries -> Flags \cup {Unset}]
    BY DEF Init
  <2>4. QED
    BY <1>6, <1>7, <2>1, <2>2, <2>3, <2>5 DEF TypeOK
<1>9. PlanInv
  BY DEF Init, PlanInv, Arranged
<1>10. RunInv
  BY DEF Init, RunInv, Underway
<1>11. \A i \in DOMAIN doc.entries : seen[i] = Unset
  BY DEF Init, Entries
<1>12. FlagInv
  BY <1>11 DEF FlagInv, Found, Preserved, SentAgain, StillThere, Init, Entries
<1>13. QED
  BY <1>8, <1>9, <1>10, <1>12 DEF IInv

(* A run that ends keeps what it found; the plan is over. *)
LEMMA EndKeepsTypes ==
  ASSUME TypeOK, EndWith("failed") \/ EndWith("applied"), UNCHANGED <<decl, doc>>,
         live' \subseteq Item, IsFiniteSet(live'), UNCHANGED <<seen, interfered, edits>>,
         faulted' \in BOOLEAN, faults' \in Nat
  PROVE  TypeOK'
<1>1. pc' = "idle" /\ plan' = <<>> /\ tries' = 0 /\ row' \in {"failed", "applied"}
  BY DEF EndWith
<1>2. plan' \in Seq(Operation)
  BY <1>1
<1>3. Entries' = Entries
  BY DEF Entries
<1>4. QED
  BY <1>1, <1>2, <1>3 DEF TypeOK

LEMMA TypeStep ==
  ASSUME TypeOK, PlanInv, Next
  PROVE  TypeOK'
<1>0. decl' = decl /\ doc' = doc /\ Entries' = Entries
  BY DEF Next, Step, PlanRefused, PlanSection, HookRefuses, Lands, Rejected, AnswerLost, RunFails,
         FinishSection, EditLive, Entries
<1>1. CASE PlanRefused \/ HookRefuses \/ Rejected \/ FinishSection
  <2>1. (EndWith("failed") \/ EndWith("applied")) /\ UNCHANGED <<decl, doc, live, history>>
    BY <1>1 DEF PlanRefused, HookRefuses, Rejected, FinishSection
  <2>2. live' \subseteq Item /\ IsFiniteSet(live') /\ faulted' \in BOOLEAN /\ faults' \in Nat
    BY <2>1 DEF TypeOK, history
  <2>3. QED
    BY <2>1, <2>2, EndKeepsTypes DEF history
<1>2. CASE PlanSection
  <2>1. ~Refused /\ plan' = Plan /\ pc' = "exec" /\ row' = "none" /\ UNCHANGED <<decl, doc, live, tries, edits, faults>>
        /\ interfered' = FALSE /\ faulted' = FALSE
    BY <1>2 DEF PlanSection
  <2>2. plan' \in Seq(Operation)
    BY <2>1, NewPlan DEF PlanInv
  <2>3. ASSUME NEW i \in Entries, Matches(doc.entries[i]) # {}
        PROVE  (CHOOSE l \in Matches(doc.entries[i]) : TRUE).flag \in Flags
    <3>1. Matches(doc.entries[i]) \subseteq live
      BY DEF Matches, Managed
    <3>2. (CHOOSE l \in Matches(doc.entries[i]) : TRUE) \in Item
      BY <2>3, <3>1 DEF TypeOK
    <3>3. QED
      BY <3>2 DEF Item
  <2>4. seen' \in [Entries -> Flags \cup {Unset}]
    BY <1>2, <2>3 DEF PlanSection, TypeOK
  <2>5. QED
    BY <1>0, <2>1, <2>2, <2>4 DEF TypeOK
<1>3. CASE Lands
  <2>1. /\ InFlight /\ Accepts(Head(plan)) /\ live' = After(Head(plan)) /\ plan' = Tail(plan) /\ tries' = 0
        /\ UNCHANGED <<decl, doc, pc, row, seen, interfered, faulted, edits, faults>>
    BY <1>3 DEF Lands, Sending, history
  <2>2. live' \subseteq Item /\ IsFiniteSet(live') /\ plan' \in Seq(Operation)
    BY <2>1, HeadLands, InFlightOp DEF InFlight
  <2>3. QED
    BY <1>0, <2>1, <2>2 DEF TypeOK
<1>4. CASE AnswerLost
  <2>1. /\ InFlight /\ Fault /\ UNCHANGED <<decl, doc, seen, interfered, edits>>
        /\ live' = live \/ (Accepts(Head(plan)) /\ live' = After(Head(plan)))
        /\ (tries' = tries + 1 /\ UNCHANGED <<pc, plan, row>>) \/ EndWith("failed")
    BY <1>4 DEF AnswerLost, Sending
  <2>2. live' \subseteq Item /\ IsFiniteSet(live')
    BY <2>1, HeadLands DEF TypeOK
  <2>3. faulted' \in BOOLEAN /\ faults' \in Nat
    BY <2>1 DEF Fault, TypeOK
  <2>4. CASE tries' = tries + 1 /\ UNCHANGED <<pc, plan, row>>
    BY <1>0, <2>1, <2>2, <2>3, <2>4 DEF TypeOK
  <2>5. CASE EndWith("failed")
    BY <2>1, <2>2, <2>3, <2>5, EndKeepsTypes
  <2>6. QED
    BY <2>1, <2>4, <2>5
<1>5. CASE RunFails
  <2>1. EndWith("failed") /\ Fault /\ UNCHANGED <<decl, doc, live, seen, interfered, edits>>
    BY <1>5 DEF RunFails
  <2>2. live' \subseteq Item /\ IsFiniteSet(live') /\ faulted' \in BOOLEAN /\ faults' \in Nat
    BY <2>1 DEF Fault, TypeOK
  <2>3. QED
    BY <2>1, <2>2, EndKeepsTypes
<1>6. CASE EditLive
  <2>1. /\ UNCHANGED <<decl, doc, pc, plan, tries, row, faulted, faults>>
        /\ edits' = edits + 1 /\ interfered' = TRUE /\ seen' = [i \in Entries |-> Unset]
    BY <1>6 DEF EditLive
  <2>2. seen' \in [Entries -> Flags \cup {Unset}]
    BY <2>1
  <2>3. live' \subseteq Item /\ IsFiniteSet(live')
    <3>0. IsFiniteSet(live) /\ live \subseteq Item
      BY DEF TypeOK
    <3>1. CASE \E l \in live : live' = live \ {l}
      BY <3>0, <3>1, FS_RemoveElement
    <3>2. CASE \E l \in live, c \in Content :
                 live' = (live \ {l}) \cup {[id |-> l.id, name |-> c.name, val |-> c.val, flag |-> c.flag]}
      <4>1. PICK l \in live, c \in Content :
              live' = (live \ {l}) \cup {[id |-> l.id, name |-> c.name, val |-> c.val, flag |-> c.flag]}
        BY <3>2
      <4> DEFINE y == [id |-> l.id, name |-> c.name, val |-> c.val, flag |-> c.flag]
      <4>2. y \in Item
        BY <3>0 DEF Item, Content
      <4>3. live' = (live \ {l}) \cup {y}
        BY <4>1
      <4> HIDE DEF y
      <4>4. IsFiniteSet((live \ {l}) \cup {y})
        BY <3>0, FS_RemoveElement, FS_AddElement
      <4>5. QED
        BY <3>0, <4>2, <4>3, <4>4
    <3>3. CASE \E c \in Content :
                 live' = live \cup {[id |-> FreshId, name |-> c.name, val |-> c.val, flag |-> c.flag]}
      <4>1. PICK c \in Content :
              live' = live \cup {[id |-> FreshId, name |-> c.name, val |-> c.val, flag |-> c.flag]}
        BY <3>3
      <4> DEFINE y == [id |-> FreshId, name |-> c.name, val |-> c.val, flag |-> c.flag]
      <4>2. y \in Item
        BY FreshIdIsFresh DEF Item, Content
      <4>3. live' = live \cup {y}
        BY <4>1
      <4> HIDE DEF y
      <4>4. IsFiniteSet(live \cup {y})
        BY <3>0, FS_AddElement
      <4>5. QED
        BY <3>0, <4>2, <4>3, <4>4
    <3>4. QED
      BY <1>6, <3>1, <3>2, <3>3 DEF EditLive
  <2>4. QED
    BY <1>0, <2>1, <2>2, <2>3 DEF TypeOK
<1>7. QED
  BY <1>1, <1>2, <1>3, <1>4, <1>5, <1>6 DEF Next, Step

LEMMA PlanStep ==
  ASSUME TypeOK, PlanInv, Next
  PROVE  PlanInv'
(* With no operation left, there is little to say. *)
<1>1. ASSUME EndWith("failed") \/ EndWith("applied"), decl' = decl, doc' = doc, Consistent(decl, live'), faulted' => faults' > 0
      PROVE  PlanInv'
  <2>1. plan' = <<>> /\ pc' = "idle"
    BY <1>1 DEF EndWith
  <2>2. QED
    BY <1>1, <2>1 DEF PlanInv, Arranged
<1>2. CASE PlanRefused \/ HookRefuses \/ Rejected \/ FinishSection
  <2>1. (EndWith("failed") \/ EndWith("applied")) /\ UNCHANGED <<decl, doc, live, faulted, faults>>
    BY <1>2 DEF PlanRefused, HookRefuses, Rejected, FinishSection, history
  <2>2. QED
    BY <1>1, <2>1 DEF PlanInv
<1>3. CASE PlanSection
  <2>1. ~Refused /\ plan' = Plan /\ pc' = "exec" /\ row' = "none" /\ UNCHANGED <<decl, doc, live>> /\ faulted' = FALSE
    BY <1>3 DEF PlanSection
  <2>2. (\A k \in DOMAIN Plan : Sound(decl, doc, Plan[k])) /\ Arranged(decl, doc, Plan) /\ Consistent(decl, live)
    BY <2>1, NewPlan DEF PlanInv
  <2>3. (\A k \in DOMAIN plan' : Sound(decl, doc, plan'[k])) /\ Arranged(decl, doc, plan') /\ Consistent(decl, live')
    BY <2>1, <2>2
  <2>4. QED
    BY <2>1, <2>3 DEF PlanInv
<1>4. CASE Lands
  <2>1. /\ InFlight /\ Accepts(Head(plan)) /\ live' = After(Head(plan)) /\ plan' = Tail(plan)
        /\ UNCHANGED <<decl, doc, pc, row, faulted, faults>> /\ pc = "exec"
    BY <1>4 DEF Lands, Sending, InFlight, history
  <2>2. Consistent(decl, live')
    BY <2>1, HeadLands
  <2>3. \A k \in DOMAIN Tail(plan) : k \in Nat /\ k > 0 /\ k + 1 \in DOMAIN plan /\ Tail(plan)[k] = plan[k + 1]
    BY <2>1, InFlightOp DEF InFlight
  <2>4. \A k \in DOMAIN plan : k # 1 => k - 1 \in DOMAIN Tail(plan) /\ Tail(plan)[k - 1] = plan[k]
    BY <2>1, InFlightOp DEF InFlight
  <2> DEFINE rest == Tail(plan)
  <2> HIDE DEF rest
  <2>5. (\A k \in DOMAIN rest : Sound(decl, doc, rest[k])) /\ Arranged(decl, doc, rest)
    <3>1. \A k \in DOMAIN rest : k \in Nat /\ k > 0 /\ k + 1 \in DOMAIN plan /\ rest[k] = plan[k + 1]
      BY <2>3 DEF rest
    <3>2. \A k \in DOMAIN plan : k # 1 => k - 1 \in DOMAIN rest /\ rest[k - 1] = plan[k]
      BY <2>4 DEF rest
    <3>3. \A k \in DOMAIN rest : Sound(decl, doc, rest[k])
      BY <3>1 DEF PlanInv
    <3>4. ASSUME NEW k \in DOMAIN rest, NEW m \in DOMAIN rest, k < m
          PROVE  /\ rest[k].role # "create" /\ rest[m].role # "create" => Apart(decl, rest[k], rest[m])
                 /\ rest[k].role = "create" /\ rest[m].role = "create" => rest[k].body.name # rest[m].body.name
                 /\ rest[m].role = "remove" /\ Unowned(decl, doc, rest[m].at)
                      => rest[k].role = "remove" /\ Unowned(decl, doc, rest[k].at)
      <4>1. k + 1 \in DOMAIN plan /\ m + 1 \in DOMAIN plan /\ k + 1 < m + 1 /\ rest[k] = plan[k + 1] /\ rest[m] = plan[m + 1]
        BY <3>1, <3>4
      <4>2. QED
        BY <4>1 DEF PlanInv, Arranged
    <3>5. ASSUME NEW k \in DOMAIN rest, NEW i \in DOMAIN doc.entries, rest[k].role = "remove", Owns(decl, doc, i, rest[k].at)
          PROVE  k + 1 \in DOMAIN rest /\ rest[k + 1].role = "create" /\ For(doc, rest[k + 1], i)
      <4>1. k \in Nat /\ k > 0 /\ k + 1 \in DOMAIN plan /\ rest[k] = plan[k + 1]
        BY <3>1
      <4>2. (k + 1) + 1 \in DOMAIN plan /\ plan[(k + 1) + 1].role = "create" /\ For(doc, plan[(k + 1) + 1], i)
        BY <3>5, <4>1 DEF PlanInv, Arranged
      <4>3. ((k + 1) + 1) - 1 = k + 1 /\ (k + 1) + 1 # 1
        BY <4>1
      <4>4. k + 1 \in DOMAIN rest /\ rest[k + 1] = plan[(k + 1) + 1]
        BY <3>2, <4>2, <4>3
      <4>5. QED
        BY <4>2, <4>4
    <3>6. QED
      BY <3>3, <3>4, <3>5 DEF Arranged
  <2>6. plan' = rest
    BY <2>1 DEF rest
  <2>7. QED
    BY <2>1, <2>2, <2>5, <2>6 DEF PlanInv
<1>5. CASE AnswerLost
  <2>1. /\ InFlight /\ Fault /\ UNCHANGED <<decl, doc>>
        /\ live' = live \/ (Accepts(Head(plan)) /\ live' = After(Head(plan)))
        /\ UNCHANGED <<pc, plan, row>> \/ EndWith("failed")
    BY <1>5 DEF AnswerLost, Sending
  <2>2. Consistent(decl, live')
    BY <2>1, HeadLands DEF PlanInv
  <2>3. faulted' => faults' > 0
    BY <2>1 DEF Fault, TypeOK
  <2>4. CASE UNCHANGED <<pc, plan, row>>
    BY <2>1, <2>2, <2>3, <2>4 DEF PlanInv
  <2>5. CASE EndWith("failed")
    BY <1>1, <2>1, <2>2, <2>3, <2>5
  <2>6. QED
    BY <2>1, <2>4, <2>5
<1>6. CASE RunFails
  <2>1. EndWith("failed") /\ Fault /\ UNCHANGED <<decl, doc, live>>
    BY <1>6 DEF RunFails
  <2>2. faulted' => faults' > 0
    BY <2>1 DEF Fault, TypeOK
  <2>3. QED
    BY <1>1, <2>1, <2>2 DEF PlanInv
<1>7. CASE EditLive
  <2>1. UNCHANGED <<decl, doc, pc, plan, row, faulted, faults>> /\ Consistent(decl, live')
    BY <1>7 DEF EditLive
  <2>2. QED
    BY <2>1 DEF PlanInv
<1>8. QED
  BY <1>2, <1>3, <1>4, <1>5, <1>6, <1>7 DEF Next, Step

LEMMA RunStep ==
  ASSUME TypeOK, PlanInv, RunInv, Next
  PROVE  RunInv'
<1>1. CASE EndWith("failed")
  <2>1. ~Underway'
    BY <1>1 DEF EndWith, Underway
  <2>2. QED
    BY <2>1 DEF RunInv
<1>2. CASE PlanRefused \/ HookRefuses \/ Rejected \/ RunFails
  BY <1>1, <1>2 DEF PlanRefused, HookRefuses, Rejected, RunFails
<1>3. CASE FinishSection
  <2>1. /\ pc = "exec" /\ plan = <<>> /\ plan' = plan
        /\ UNCHANGED <<decl, doc, live, interfered, faulted>>
    BY <1>3 DEF FinishSection, EndWith, history
  <2>2. Underway
    BY <2>1 DEF Underway
  <2>3. QED
    BY <2>1, <2>2 DEF RunInv
<1>4. CASE PlanSection
  <2>1. ~Refused /\ plan' = Plan /\ UNCHANGED <<decl, doc, live>>
    BY <1>4 DEF PlanSection
  <2>2. /\ Orderly(decl, doc, live) /\ Held(decl, doc, live, Plan) /\ Present(decl, live, Plan)
        /\ Room(decl, doc, live, Plan, faulted')
        /\ Swept(decl, doc, live, Plan) /\ Served(decl, doc, live, Plan)
    BY <2>1, NewPlan DEF PlanInv
  <2> DEFINE P == Plan
  <2>3. P = plan' /\ /\ Orderly(decl, doc, live) /\ Held(decl, doc, live, P) /\ Present(decl, live, P)
                     /\ Room(decl, doc, live, P, faulted')
                     /\ Swept(decl, doc, live, P) /\ Served(decl, doc, live, P)
    BY <2>1, <2>2
  <2> HIDE DEF P
  <2>4. QED
    BY <2>1, <2>3 DEF RunInv
<1>5. CASE Lands
  <2> SUFFICES ASSUME ~interfered PROVE RunInv'
    BY <1>5 DEF Lands, history, RunInv
  <2>1. /\ InFlight /\ Accepts(Head(plan)) /\ live' = After(Head(plan)) /\ plan' = Tail(plan)
        /\ UNCHANGED <<decl, doc, faulted>>
    BY <1>5 DEF Lands, Sending, history
  <2>2. Running(decl, doc, live, plan, Tail(plan), faulted)
    BY <2>1, RunningNow
  <2>3. Landing(decl, live, plan, plan[1], live')
    BY <2>1, HeadLands
  <2>4. PICK next, rest : next = live' /\ rest = plan'
    OBVIOUS
  <2>5. Running(decl, doc, live, plan, rest, faulted) /\ Landing(decl, live, plan, plan[1], next)
    BY <2>1, <2>2, <2>3, <2>4
  <2>6. Orderly(decl, doc, next) /\ Held(decl, doc, next, rest)
    BY <2>5, LandsOrderly, LandsHeld
  <2>7. Room(decl, doc, next, rest, faulted)
    BY <2>5, LandsRoom
  <2>8. ~faulted => Present(decl, next, rest)
    <3>1. ~faulted => Present(decl, live, plan)
      BY <2>1 DEF RunInv, Underway, InFlight
    <3>2. QED
      BY <2>5, <3>1, LandsPresent
  <2>9. Swept(decl, doc, next, rest) /\ Served(decl, doc, next, rest)
    BY <2>5, LandsSwept, LandsServed
  <2>10. QED
    BY <2>1, <2>4, <2>6, <2>7, <2>8, <2>9 DEF RunInv
<1>6. CASE AnswerLost /\ ~EndWith("failed")
  <2> SUFFICES ASSUME ~interfered PROVE RunInv'
    BY <1>6 DEF AnswerLost, RunInv
  <2>1. /\ InFlight /\ faulted' = TRUE /\ UNCHANGED <<decl, doc, plan>>
        /\ live' = live \/ (Accepts(Head(plan)) /\ live' = After(Head(plan)))
    BY <1>6 DEF AnswerLost, Sending, Fault
  <2>2. Running(decl, doc, live, plan, Tail(plan), faulted)
    BY <2>1, RunningNow
  <2>3. faulted' \in BOOLEAN /\ faulted'
    BY <2>1
  <2>4. CASE live' = live
    <3>1. /\ Orderly(decl, doc, live) /\ Held(decl, doc, live, plan) /\ Room(decl, doc, live, plan, faulted)
          /\ Swept(decl, doc, live, plan) /\ Served(decl, doc, live, plan)
      BY <2>2 DEF Running
    <3>2. PICK again : again = faulted'
      OBVIOUS
    <3>3. Room(decl, doc, live, plan, again)
      BY <2>3, <3>1, <3>2 DEF Room
    <3>4. QED
      BY <2>1, <2>4, <3>1, <3>2, <3>3 DEF RunInv
  <2>5. CASE Accepts(Head(plan)) /\ live' = After(Head(plan))
    <3>1. Landing(decl, live, plan, plan[1], live')
      BY <2>1, <2>5, HeadLands
    <3>2. PICK next, again : next = live' /\ again = faulted'
      OBVIOUS
    <3>3. Landing(decl, live, plan, plan[1], next)
      BY <3>1, <3>2
    <3>4. Orderly(decl, doc, next) /\ Held(decl, doc, next, plan)
      BY <2>2, <3>3, LandsOrderly, LandsHeld
    <3>5. Room(decl, doc, next, plan, again)
      BY <2>2, <2>3, <3>2, <3>3, LandsRoom
    <3>6. Swept(decl, doc, next, plan) /\ Served(decl, doc, next, plan)
      BY <2>2, <3>3, LandsSwept, LandsServed
    <3>7. QED
      BY <2>1, <3>2, <3>4, <3>5, <3>6 DEF RunInv
  <2>6. QED
    BY <2>1, <2>4, <2>5
<1>7. CASE EditLive
  BY <1>7 DEF EditLive, RunInv
<1>8. QED
  BY <1>1, <1>2, <1>3, <1>4, <1>5, <1>6, <1>7 DEF Next, Step

(* Without a recreate, an entry's item goes on being there. *)
LEMMA Unbroken ==
  ASSUME TypeOK, PlanInv, RunInv, FlagInv, InFlight, decl.edit = "recreate" => faults = 0,
         NEW i \in DOMAIN doc.entries, seen[i] # Unset,
         decl.edit # "recreate" \/ Head(plan).role # "create" \/ ~Accepts(Head(plan))
  PROVE  \E l \in live : Owns(decl, doc, i, l)
<1>1. StillThere(decl, doc, live, plan, seen) /\ SentAgain(decl, doc, live, plan, seen)
  BY DEF FlagInv
<1>2. Head(plan) = plan[1] /\ 1 \in DOMAIN plan /\ (\A k \in DOMAIN plan : k \in Nat /\ k > 0) /\ Head(plan) \in Operation
  BY InFlightOp DEF InFlight
<1>3. SUFFICES ASSUME plan[1].role = "create", For(doc, plan[1], i), ~\E l \in live : Owns(decl, doc, i, l)
               PROVE  FALSE
  BY <1>1, <1>2 DEF StillThere
<1>4. \A l : ~GoesBefore(plan, 1, l)
  BY <1>2 DEF GoesBefore
<1>5. decl.edit = "recreate" /\ \A l \in live : <<Wrote(doc, i), l.name>> \notin decl.clash
  BY <1>1, <1>2, <1>3, <1>4 DEF SentAgain
<1>6. ~interfered
  BY DEF FlagInv, Entries
<1>7. Orderly(decl, doc, live)
  BY <1>6 DEF RunInv, Underway, InFlight
<1>8. decl \in Decls /\ doc \in Documents /\ Valid(decl, doc.entries)
  BY DEF TypeOK
<1>9. ASSUME decl.exclusive, NEW l \in live, l.val = doc.entries[i].val PROVE FALSE
  <2>1. doc.entries[i].val \notin decl.foreign
    BY <1>8, EntryFacts
  <2>2. l.name = Wrote(doc, i)
    BY <1>7, <1>9, <2>1 DEF Orderly
  <2>3. Owns(decl, doc, i, l)
    BY <1>8, <1>9, <2>2, EntryFacts
  <2>4. QED
    BY <1>3, <2>3
<1>10. plan[1].body.name = Wrote(doc, i) /\ plan[1].body.val = doc.entries[i].val
  BY <1>3 DEF For
<1>11. Accepts(Head(plan))
  BY <1>2, <1>3, <1>5, <1>9, <1>10 DEF Accepts, Free
<1>12. QED
  BY <1>2, <1>3, <1>5, <1>11

LEMMA FlagStep ==
  ASSUME TypeOK, PlanInv, RunInv, FlagInv, Next
  PROVE  FlagInv'
<1> DEFINE Kept == decl.edit = "recreate" => faults = 0
<1>0. faults \in Nat /\ faulted \in BOOLEAN /\ Entries = DOMAIN doc.entries
  BY DEF TypeOK, Entries
(* A run that ends. *)
<1>1. ASSUME EndWith("failed") \/ EndWith("applied"), UNCHANGED <<decl, doc, live, seen, interfered>>,
             Kept' => Kept,
             Kept' => \A i \in DOMAIN doc.entries : seen[i] # Unset => \E l \in live : Owns(decl, doc, i, l)
      PROVE  FlagInv'
  <2>1. plan' = <<>>
    BY <1>1 DEF EndWith
  <2>2. Found(doc, seen) /\ (interfered => \A i \in Entries : seen[i] = Unset)
    BY DEF FlagInv
  <2>3. Kept' => Preserved(decl, doc, live, seen)
    BY <1>1 DEF FlagInv
  <2> DEFINE none == <<>>
  <2>4. \A t, items, was : SentAgain(decl, t, items, none, was)
    BY DEF SentAgain
  <2>5. Kept' => StillThere(decl, doc, live, none, seen)
    BY <1>1 DEF StillThere
  <2>6. plan' = none
    BY <2>1
  <2> HIDE DEF none
  <2>7. QED
    BY <1>0, <1>1, <2>2, <2>3, <2>4, <2>5, <2>6 DEF FlagInv, Entries
<1>2. ASSUME plan = <<>>, Kept PROVE \A i \in DOMAIN doc.entries : seen[i] # Unset => \E l \in live : Owns(decl, doc, i, l)
  BY <1>2 DEF FlagInv, StillThere
<1>3. CASE PlanRefused \/ FinishSection
  <2>1. /\ EndWith("failed") \/ EndWith("applied")
        /\ UNCHANGED <<decl, doc, live, seen, interfered, faults>>
    BY <1>3 DEF PlanRefused, FinishSection, history
  <2>2. plan = <<>>
    BY <1>3 DEF PlanRefused, FinishSection, PlanInv
  <2>3. QED
    BY <1>1, <1>2, <2>1, <2>2
<1>4. CASE HookRefuses \/ Rejected
  <2>1. InFlight /\ EndWith("failed") /\ UNCHANGED <<decl, doc, live, seen, interfered, faults>>
    BY <1>4 DEF HookRefuses, Rejected, Sending, history
  <2>2. Head(plan).role # "create" \/ ~Accepts(Head(plan))
    <3>1. CASE HookRefuses
      <4>1. Head(plan) \in Operation /\ Head(plan).refused
        BY <2>1, <3>1, InFlightOp DEF HookRefuses, InFlight
      <4>2. QED
        BY <4>1 DEF Operation
    <3>2. CASE Rejected
      BY <3>2 DEF Rejected
    <3>3. QED
      BY <1>4, <3>1, <3>2
  <2>3. ASSUME Kept, NEW i \in DOMAIN doc.entries, seen[i] # Unset PROVE \E l \in live : Owns(decl, doc, i, l)
    BY <2>1, <2>2, <2>3, Unbroken
  <2>4. QED
    BY <1>1, <2>1, <2>3
<1>5. CASE RunFails
  <2>1. /\ InFlight /\ EndWith("failed") /\ UNCHANGED <<decl, doc, live, seen, interfered>>
        /\ faults' = faults + 1
    BY <1>5 DEF RunFails, Fault
  <2>2. Kept' => Kept /\ decl.edit # "recreate"
    BY <1>0, <2>1
  <2>3. ASSUME Kept, decl.edit # "recreate", NEW i \in DOMAIN doc.entries, seen[i] # Unset PROVE \E l \in live : Owns(decl, doc, i, l)
    BY <2>1, <2>3, Unbroken
  <2>4. QED
    BY <1>1, <2>1, <2>2, <2>3
<1>6. CASE PlanSection
  <2>1. /\ ~Refused /\ plan' = Plan /\ UNCHANGED <<decl, doc, live, faults>> /\ interfered' = FALSE
        /\ pc = "idle"
    BY <1>6 DEF PlanSection
  <2>2. PICK was : was = seen'
    OBVIOUS
  <2>3. ASSUME NEW i \in Entries
        PROVE  \/ was[i] = seen[i]
               \/ /\ doc.entries[i].flag = Unset
                  /\ \E l \in live : Owns(decl, doc, i, l) /\ was[i] = l.flag
    <3>1. was[i] = IF doc.entries[i].flag = Unset /\ seen[i] = Unset /\ Matches(doc.entries[i]) # {}
                   THEN (CHOOSE l \in Matches(doc.entries[i]) : TRUE).flag ELSE seen[i]
      BY <1>6, <2>2 DEF PlanSection
    <3>2. Matches(doc.entries[i]) = {l \in live : Owns(decl, doc, i, l)}
      BY DEF Matches, Managed, Owns
    <3>3. CASE doc.entries[i].flag = Unset /\ seen[i] = Unset /\ Matches(doc.entries[i]) # {}
      <4>1. PICK l \in Matches(doc.entries[i]) : was[i] = l.flag
        BY <3>1, <3>3
      <4>2. QED
        BY <3>2, <3>3, <4>1
    <3>4. QED
      BY <3>1, <3>3
  <2>4. Found(doc, was)
    BY <1>0, <2>3 DEF FlagInv, Found
  <2>5. Orderly(decl, doc, live) /\ Consistent(decl, live)
    BY <2>1, NewPlan DEF PlanInv
  <2>6. Kept => Preserved(decl, doc, live, was)
    <3>1. SUFFICES ASSUME Kept, NEW i \in DOMAIN doc.entries, NEW l \in live, was[i] # Unset, Owns(decl, doc, i, l)
                   PROVE  l.flag = was[i]
      BY DEF Preserved
    <3>2. CASE was[i] = seen[i]
      BY <3>1, <3>2 DEF FlagInv, Preserved
    <3>3. CASE \E m \in live : Owns(decl, doc, i, m) /\ was[i] = m.flag
      BY <2>5, <3>1, <3>3 DEF Orderly
    <3>4. QED
      BY <1>0, <2>3, <3>2, <3>3
  <2>7. Kept => \A i \in Entries : was[i] # Unset => \E l \in live : Owns(decl, doc, i, l)
    <3>1. plan = <<>>
      BY <2>1 DEF PlanInv
    <3>2. QED
      BY <1>0, <1>2, <2>3, <3>1
  <2> DEFINE P == Plan
  <2>8. Kept => SentAgain(decl, doc, live, P, was)
    BY <2>1, <2>4, <2>5, <2>6, <2>7, NewPlan
  <2>9. P = plan'
    BY <2>1
  <2> HIDE DEF P
  <2>10. Kept => StillThere(decl, doc, live, P, was)
    BY <1>0, <2>7 DEF StillThere
  <2>11. QED
    BY <2>1, <2>2, <2>4, <2>6, <2>8, <2>9, <2>10 DEF FlagInv
<1>7. ASSUME InFlight, ~Head(plan).refused, ~interfered, Accepts(Head(plan)), live' = After(Head(plan)), Kept
      PROVE  /\ Landing(decl, live, plan, plan[1], live')
             /\ Running(decl, doc, live, plan, Tail(plan), faulted)
             /\ Preserved(decl, doc, live', seen)
             /\ SentAgain(decl, doc, live', Tail(plan), seen)
             /\ StillThere(decl, doc, live', Tail(plan), seen)
             /\ decl.edit # "recreate" => /\ SentAgain(decl, doc, live', plan, seen)
                                          /\ \A i \in DOMAIN doc.entries : seen[i] # Unset => \E l \in live' : Owns(decl, doc, i, l)
  <2>1. Landing(decl, live, plan, plan[1], live') /\ Running(decl, doc, live, plan, Tail(plan), faulted)
    BY <1>7, HeadLands, RunningNow
  <2>2. PICK next, rest : next = live' /\ rest = Tail(plan)
    OBVIOUS
  <2>3. Landing(decl, live, plan, plan[1], next) /\ Running(decl, doc, live, plan, rest, faulted)
    BY <2>1, <2>2
  <2>4. Found(doc, seen) /\ Preserved(decl, doc, live, seen) /\ SentAgain(decl, doc, live, plan, seen)
        /\ StillThere(decl, doc, live, plan, seen)
    BY <1>7 DEF FlagInv
  <2>5. Head(plan) = plan[1] /\ ~plan[1].refused /\ plan # <<>>
    BY <1>7, InFlightOp DEF InFlight
  <2>6. Preserved(decl, doc, next, seen)
    BY <2>3, <2>4, <2>5, LandsPreserved
  <2>7. SentAgain(decl, doc, next, rest, seen) /\ (decl.edit # "recreate" => SentAgain(decl, doc, next, plan, seen))
    BY <2>3, <2>4, LandsSentAgain
  <2>8. \A i \in DOMAIN doc.entries : seen[i] # Unset =>
          \/ \E l \in next : Owns(decl, doc, i, l)
          \/ decl.edit = "recreate" /\ 1 \in DOMAIN rest /\ rest[1].role = "create" /\ For(doc, rest[1], i)
    BY <2>3, <2>4, <2>5, LandsStillThere
  <2>9. StillThere(decl, doc, next, rest, seen)
    <3>1. 1 \in DOMAIN rest => rest # <<>> /\ Head(rest) = rest[1]
      <4>1. rest \in Seq(Operation)
        BY <2>2, <2>5, InFlightOp
      <4>2. QED
        BY <4>1
    <3>2. QED
      BY <2>8, <3>1 DEF StillThere
  <2>10. decl.edit # "recreate" => \A i \in DOMAIN doc.entries : seen[i] # Unset => \E l \in next : Owns(decl, doc, i, l)
    BY <2>8
  <2>11. QED
    BY <2>1, <2>2, <2>6, <2>7, <2>9, <2>10
<1>8. CASE interfered /\ ~EditLive /\ ~PlanSection
  <2>1. UNCHANGED <<decl, doc, seen, interfered>>
    BY <1>8 DEF Next, Step, PlanRefused, HookRefuses, Lands, Rejected, AnswerLost, RunFails, FinishSection, history
  <2>2. \A i \in DOMAIN doc.entries : seen[i] = Unset
    BY <1>8 DEF FlagInv, Entries
  <2>3. QED
    BY <2>1, <2>2 DEF FlagInv, Found, Preserved, SentAgain, StillThere, Entries
<1>9. CASE ~interfered /\ Lands
  <2>1. /\ InFlight /\ ~Head(plan).refused /\ Accepts(Head(plan)) /\ live' = After(Head(plan)) /\ plan' = Tail(plan)
        /\ UNCHANGED <<decl, doc, seen, interfered, faults>>
    BY <1>9 DEF Lands, Sending, history
  <2>2. Kept => /\ Preserved(decl, doc, live', seen)
                /\ SentAgain(decl, doc, live', Tail(plan), seen)
                /\ StillThere(decl, doc, live', Tail(plan), seen)
    BY <1>7, <1>9, <2>1
  <2>3. QED
    BY <1>9, <2>1, <2>2 DEF FlagInv
<1>10. CASE ~interfered /\ AnswerLost
  <2>1. /\ InFlight /\ ~Head(plan).refused /\ UNCHANGED <<decl, doc, seen, interfered>> /\ faults' = faults + 1
        /\ live' = live \/ (Accepts(Head(plan)) /\ live' = After(Head(plan)))
        /\ plan' = plan \/ EndWith("failed")
    BY <1>10 DEF AnswerLost, Sending, Fault
  <2>2. Kept' => Kept /\ decl.edit # "recreate"
    BY <1>0, <2>1
  <2>3. ASSUME Kept, decl.edit # "recreate"
        PROVE  /\ Preserved(decl, doc, live', seen)
               /\ SentAgain(decl, doc, live', plan, seen)
               /\ \A i \in DOMAIN doc.entries : seen[i] # Unset => \E l \in live' : Owns(decl, doc, i, l)
    <3>1. CASE live' = live
      <4>1. \A i \in DOMAIN doc.entries : seen[i] # Unset => \E l \in live : Owns(decl, doc, i, l)
        BY <2>1, <2>3, Unbroken
      <4>2. QED
        BY <2>3, <3>1, <4>1 DEF FlagInv
    <3>2. CASE Accepts(Head(plan)) /\ live' = After(Head(plan))
      BY <1>7, <1>10, <2>1, <2>3, <3>2
    <3>3. QED
      BY <2>1, <3>1, <3>2
  <2>4. plan' = plan \/ plan' = <<>>
    BY <2>1 DEF EndWith
  <2>5. PICK next, rest : next = live' /\ rest = plan'
    OBVIOUS
  <2>6. Kept' => /\ Preserved(decl, doc, next, seen)
                 /\ SentAgain(decl, doc, next, rest, seen)
                 /\ StillThere(decl, doc, next, rest, seen)
    <3>1. CASE rest = plan
      BY <2>2, <2>3, <2>5, <3>1 DEF StillThere
    <3>2. CASE rest = <<>>
      BY <2>2, <2>3, <2>5, <3>2 DEF StillThere, SentAgain
    <3>3. QED
      BY <2>4, <2>5, <3>1, <3>2
  <2>7. QED
    BY <1>10, <2>1, <2>5, <2>6 DEF FlagInv
<1>11. CASE EditLive
  <2>1. UNCHANGED <<decl, doc, plan>> /\ seen' = [i \in Entries |-> Unset]
    BY <1>11 DEF EditLive
  <2>2. Entries' = Entries /\ \A i \in DOMAIN doc.entries : seen'[i] = Unset
    BY <1>0, <2>1 DEF Entries
  <2>3. PICK was : was = seen'
    OBVIOUS
  <2>4. QED
    BY <2>1, <2>2, <2>3 DEF FlagInv, Found, Preserved, SentAgain, StillThere, Entries
<1>12. QED
  BY <1>3, <1>4, <1>5, <1>6, <1>8, <1>9, <1>10, <1>11 DEF Next, Step

LEMMA InvStep ==
  ASSUME IInv, [Next]_vars
  PROVE  IInv'
<1>1. CASE Next
  BY <1>1, TypeStep, PlanStep, RunStep, FlagStep DEF IInv
<1>2. CASE UNCHANGED vars
  <2>1. UNCHANGED <<decl, doc, live, pc, plan, tries, row, seen, interfered, faulted, edits, faults>>
    BY <1>2 DEF vars, history
  <2>2. TypeOK'
    BY <2>1 DEF IInv, TypeOK, Entries
  <2>3. PlanInv'
    BY <2>1 DEF IInv, PlanInv
  <2>4. RunInv'
    BY <2>1 DEF IInv, RunInv, Underway
  <2>5. FlagInv'
    BY <2>1 DEF IInv, FlagInv, Entries
  <2>6. QED
    BY <2>2, <2>3, <2>4, <2>5 DEF IInv
<1>3. QED
  BY <1>1, <1>2

(* The inductive invariant: what the operations left say of the items, of a run no
   outsider interfered with, and what becomes of an undeclared field.      *)
THEOREM Invariant == Spec => []IInv
<1>1. Init => IInv
  BY InitInv
<1>2. IInv /\ [Next]_vars => IInv'
  BY InvStep
<1>3. QED
  BY <1>1, <1>2, PTL DEF Spec

(* Every variable keeps its type, and a plan is a sequence of operations. *)
THEOREM TypeCorrect == Spec => []TypeOK
<1>1. IInv => TypeOK
  BY DEF IInv
<1>2. QED
  BY <1>1, Invariant, PTL

-----------------------------------------------------------------------------
(* What the invariant gives. *)

(* An entry whose item is as declared has nothing planned. *)
LEMMA NothingToDo ==
  ASSUME TypeOK, Orderly(decl, doc, live), NEW i \in Entries, NEW l \in live, Owns(decl, doc, i, l),
         l.name = Wrote(doc, i), l.val = doc.entries[i].val, Settled(decl, doc.entries[i], l)
  PROVE  Group(doc.entries[i]) = <<>>
<1> DEFINE e == doc.entries[i]
<1>1. Matches(e) = {l}
  <2>1. Matches(e) = {m \in live : Owns(decl, doc, i, m)}
    BY DEF Matches, Managed, Owns
  <2>2. QED
    BY <2>1 DEF Orderly, Entries
<1>2. Group(e) = UpdateOps(e, l)
  BY <1>1 DEF Group
<1>3. ~FlagDiffers(e, l) /\ ~Omits(e, l) /\ ~Differs(e, l)
  BY DEF Settled, FlagDiffers, Omits, Differs, Wrote
<1>4. MappingOps(e, l) = <<>>
  BY <1>3 DEF MappingOps
<1>5. UpdateOps(e, l) = <<>>
  BY <1>3, <1>4 DEF UpdateOps
<1>6. QED
  BY <1>2, <1>5

LEMMA NothingLeft ==
  ASSUME IInv, row = "applied", ~interfered
  PROVE  Reconciled /\ ~Refused /\ Plan = <<>>
<1>1. /\ TypeOK /\ Consistent(decl, live) /\ plan = <<>> /\ Orderly(decl, doc, live)
      /\ Swept(decl, doc, live, plan) /\ Served(decl, doc, live, plan)
  BY DEF IInv, PlanInv, RunInv, Underway
<1>2. ASSUME NEW i \in Entries
      PROVE  \E l \in live : /\ Owns(decl, doc, i, l) /\ l.name = Wrote(doc, i) /\ l.val = doc.entries[i].val
                             /\ Settled(decl, doc.entries[i], l)
  BY <1>1 DEF Served, Entries
<1>3. doc.policy = "delete" => \A l \in live : ~Unowned(decl, doc, l)
  BY <1>1 DEF Swept
<1>4. Reconciled
  <2>1. ASSUME NEW i \in Entries
        PROVE  \E l \in Managed :
                 /\ l.name = WriteName(doc.entries[i]) /\ l.val = doc.entries[i].val /\ doc.entries[i].flag \in {Unset, l.flag}
                 /\ \A m \in Managed \ {l} : decl.key[m.name] # decl.key[l.name]
    <3>1. PICK l \in live : /\ Owns(decl, doc, i, l) /\ l.name = Wrote(doc, i) /\ l.val = doc.entries[i].val
                            /\ Settled(decl, doc.entries[i], l)
      BY <1>2
    <3>2. l \in Managed /\ l.name = WriteName(doc.entries[i]) /\ doc.entries[i].flag \in {Unset, l.flag}
      BY <3>1 DEF Managed, Owns, Settled, Wrote
    <3>3. \A m \in Managed \ {l} : decl.key[m.name] # decl.key[l.name]
      BY <1>1, <3>2 DEF Orderly, Managed
    <3>4. QED
      BY <3>1, <3>2, <3>3
  <2>2. ASSUME doc.policy = "delete", NEW l \in Managed
        PROVE  \E i \in Entries : WriteName(doc.entries[i]) = l.name
    <3>1. l \in live /\ l.val \notin decl.foreign
      BY DEF Managed
    <3>2. PICK i \in Entries : Owns(decl, doc, i, l)
      BY <1>3, <2>2, <3>1 DEF Unowned, Entries
    <3>3. PICK m \in live : Owns(decl, doc, i, m) /\ m.name = Wrote(doc, i)
      BY <1>2
    <3>4. m = l
      BY <1>1, <3>1, <3>2, <3>3 DEF Orderly, Entries
    <3>5. QED
      BY <3>3, <3>4 DEF Wrote
  <2>3. QED
    BY <2>1, <2>2 DEF Reconciled
<1>5. ~Refused
  BY <1>1, NotRefused
<1>6. Plan = <<>>
  <2>1. Plan \in Seq(Operation) /\ IsLaid(Plan, GroupsOf, SweptItems)
    BY <1>1, PlanIsLaid
  <2>2. PICK n, gone, own, pos : Laid(Plan, GroupsOf, SweptItems, n, gone, own, pos)
    BY <2>1 DEF IsLaid
  <2>3. SweptItems = {}
    BY <1>3 DEF SweptItems
  <2>4. \A i \in DOMAIN GroupsOf : GroupsOf[i] = <<>>
    BY <1>1, <1>2, NothingToDo DEF GroupsOf
  <2> DEFINE P == Plan
  <2>5. P \in Seq(Operation) /\ Laid(P, GroupsOf, SweptItems, n, gone, own, pos)
    BY <2>1, <2>2
  <2> HIDE DEF P
  <2>6. ASSUME 1 \in DOMAIN P PROVE FALSE
    <3>1. n \in Nat /\ ~(1 \in 1..n)
      BY <2>3, <2>5 DEF Laid
    <3>2. own[1] \in DOMAIN GroupsOf /\ pos[1] \in DOMAIN GroupsOf[own[1]]
      BY <2>5, <2>6, <3>1 DEF Laid
    <3>3. pos[1] \in DOMAIN <<>>
      BY <2>4, <3>2
    <3>4. QED
      BY <3>3
  <2>7. P = <<>>
    BY <2>5, <2>6
  <2>8. QED
    BY <2>7 DEF P
<1>7. QED
  BY <1>4, <1>5, <1>6

(* A section reported applied is as declared, and planning it again finds nothing
   to do, whatever failed on the way, unless an outsider changed it since the plan. *)
THEOREM AppliedIsReconciled == Spec => []AppliedMeansReconciled
<1>1. IInv => AppliedMeansReconciled
  BY NothingLeft DEF AppliedMeansReconciled
<1>2. QED
  BY <1>1, Invariant, PTL

LEMMA HeadIsAccepted ==
  ASSUME IInv, Sending, ~interfered, ~faulted, ~Blocked
  PROVE  Accepts(Head(plan))
<1> DEFINE op == plan[1]
<1>1. InFlight
  BY DEF Sending
<1>2. /\ Running(decl, doc, live, plan, Tail(plan), faulted)
      /\ Present(decl, live, plan)
  BY <1>1, RunningNow DEF IInv, RunInv, Underway, InFlight
<1>3. /\ Head(plan) = op /\ op \in Operation /\ 1 \in DOMAIN plan
      /\ \A k \in DOMAIN plan : k \in Nat /\ k > 0
  BY <1>1, InFlightOp DEF IInv, InFlight
<1>4. Sound(decl, doc, op) /\ decl \in Decls /\ doc \in Documents /\ Valid(decl, doc.entries)
  BY <1>2, <1>3 DEF Running
(* What an operation that writes an entry finds is removed or left alone. *)
<1>5. ASSUME op.role # "remove", NEW i \in DOMAIN doc.entries, NEW m \in live, ~Owns(decl, doc, i, m)
      PROVE  <<Wrote(doc, i), m.name>> \notin decl.clash
  <2>1. SUFFICES ASSUME <<Wrote(doc, i), m.name>> \in decl.clash PROVE FALSE
    OBVIOUS
  <2>2. m \notin Matches(doc.entries[i])
    BY <1>5 DEF Matches, Managed, Owns
  <2>3. m \in Undeclared /\ doc.policy # "keep"
    BY <2>1, <2>2 DEF Blocked, Entries, Wrote
  <2>4. Unowned(decl, doc, m)
    BY <2>3 DEF Undeclared, Managed, Claimed, Unowned, Owns, Entries
  <2>5. doc.policy = "delete"
    BY <1>4, <2>3, DocumentsAssumption
  <2>6. PICK k \in DOMAIN plan : plan[k] = RemoveOp(m)
    BY <1>2, <2>4, <2>5 DEF Running, Swept
  <2>7. plan[k].role = "remove" /\ plan[k].at = m
    BY <2>6 DEF RemoveOp, Op
  <2>8. k # 1 /\ 1 < k
    BY <1>3, <1>5, <2>7
  <2>9. op.role = "remove"
    BY <1>2, <1>3, <2>4, <2>7, <2>8 DEF Running, Arranged
  <2>10. QED
    BY <1>5, <2>9
<1>6. CASE op.role = "create"
  <2>1. PICK i \in DOMAIN doc.entries : For(doc, op, i)
    BY <1>4, <1>6 DEF Sound
  <2>2. op.body.name = Wrote(doc, i) /\ op.body.val = doc.entries[i].val /\ doc.entries[i].val \notin decl.foreign
    BY <1>4, <2>1, EntryFacts DEF For
  <2>3. \A m \in live : ~Owns(decl, doc, i, m)
    <3>1. \A m \in live : ~GoesBefore(plan, 1, m)
      BY <1>3 DEF GoesBefore
    <3>2. QED
      BY <1>2, <1>3, <1>6, <2>1, <3>1 DEF Running, Room
  <2>4. ASSUME decl.exclusive, NEW m \in live, m.val = doc.entries[i].val PROVE FALSE
    <3>1. m.name = Wrote(doc, i)
      BY <1>2, <2>2, <2>4 DEF Running, Orderly
    <3>2. Owns(decl, doc, i, m)
      BY <1>4, <2>4, <3>1, EntryFacts
    <3>3. QED
      BY <2>3, <3>2
  <2>5. Free(op.body.name, op.body.val, {})
    BY <1>5, <1>6, <2>2, <2>3, <2>4 DEF Free
  <2>6. QED
    BY <1>3, <1>6, <2>5 DEF Accepts
<1>7. CASE op.role = "remove"
  <2>1. \E l \in live : Hits(decl, op, l)
    BY <1>2, <1>3, <1>7 DEF Present
  <2>2. Addressed(op) # {}
    BY <2>1 DEF Addressed, Hits
  <2>3. QED
    BY <1>3, <1>7, <2>2 DEF Accepts
<1>8. CASE Writes(op)
  <2>0. op.role \in {"update", "updateConfig"} /\ op.role # "create" /\ op.role # "remove"
    BY <1>8 DEF Writes
  <2>1. PICK i \in DOMAIN doc.entries : For(doc, op, i)
    BY <1>4, <2>0 DEF Sound
  <2>2. op.body.name = Wrote(doc, i) /\ decl.edit # "recreate" /\ Owns(decl, doc, i, op.at)
    BY <1>4, <1>8, <2>1 DEF For, Sound
  <2>3. ~decl.exclusive
    BY <1>4, <2>2, Declared
  <2>4. PICK l \in live : Hits(decl, op, l)
    BY <1>2, <1>3, <2>0 DEF Present
  <2>5. Owns(decl, doc, i, l)
    BY <1>2, <1>3, <2>0, <2>2, <2>4 DEF Running, Held
  <2>6. \A m \in live \ {l} : ~Owns(decl, doc, i, m)
    BY <1>2, <2>5 DEF Running, Orderly
  <2>7. Free(op.body.name, op.body.val, {l})
    BY <1>5, <2>0, <2>2, <2>3, <2>6 DEF Free
  <2>8. l \in Addressed(op)
    BY <2>4 DEF Addressed, Hits
  <2>9. QED
    BY <1>3, <2>0, <2>7, <2>8 DEF Accepts
<1>9. QED
  BY <1>3, <1>6, <1>7, <1>8 DEF Operation, Writes

(* Left alone, GitHub accepts every operation in the plan's order: a removal has
   freed what the create after it needs (plan.ts).                         *)
THEOREM PlansAreFeasible == Spec => []PlanIsFeasible
<1>1. IInv => PlanIsFeasible
  BY HeadIsAccepted DEF PlanIsFeasible
<1>2. QED
  BY <1>1, Invariant, PTL

(* The field an entry leaves undeclared keeps the value the first plan found, where
   no fault can separate the halves of a recreate.                         *)
THEOREM FlagIsKept == Spec => []UndeclaredFlagKeptUnbroken
<1>1. IInv => UndeclaredFlagKeptUnbroken
  <2> SUFFICES ASSUME IInv, decl.edit = "recreate" => faults = 0,
                      NEW i \in Entries, seen[i] # Unset, NEW l \in Matches(doc.entries[i])
               PROVE  l.flag = seen[i]
    BY DEF UndeclaredFlagKeptUnbroken, UndeclaredFlagKept
  <2>1. l \in live /\ Owns(decl, doc, i, l) /\ i \in DOMAIN doc.entries
    BY DEF Matches, Managed, Owns, Entries
  <2>2. QED
    BY <2>1 DEF IInv, FlagInv, Preserved
<1>2. QED
  BY <1>1, Invariant, PTL

(* What a step of the program does to the items, of a run nobody interfered with. *)
LEMMA StepLands ==
  ASSUME IInv, Next, edits' = edits, ~interfered, live' # live
  PROVE  /\ UNCHANGED <<decl, doc>>
         /\ Landing(decl, live, plan, plan[1], live')
         /\ Running(decl, doc, live, plan, Tail(plan), faulted)
<1>1. ~EditLive
  BY DEF EditLive, IInv, TypeOK
<1>2. ~PlanRefused /\ ~PlanSection /\ ~HookRefuses /\ ~Rejected /\ ~RunFails /\ ~FinishSection
  BY DEF PlanRefused, PlanSection, HookRefuses, Rejected, RunFails, FinishSection
<1>3. Lands \/ AnswerLost
  BY <1>1, <1>2 DEF Next, Step
<1>4. UNCHANGED <<decl, doc>> /\ InFlight /\ Accepts(Head(plan)) /\ live' = After(Head(plan))
  BY <1>3 DEF Lands, AnswerLost, Sending
<1>5. QED
  BY <1>4, HeadLands, RunningNow DEF IInv

(* A run that fails anywhere leaves nothing its re-run refuses. *)
THEOREM NothingWedges == Spec => NeverWedges
<1>1. TypeOK => (~Refused <=> Orderly(decl, doc, live))
  BY NotRefused
<1>2. TypeOK' => (~Refused' <=> Orderly(decl, doc, live)')
  BY <1>1, PTL
<1>3. ASSUME IInv, IInv', [Next]_vars, edits' = edits, ~interfered, ~Refused PROVE ~Refused'
  <2>1. TypeOK /\ TypeOK' /\ Orderly(decl, doc, live)
    BY <1>1, <1>3 DEF IInv
  <2>2. UNCHANGED <<decl, doc>>
    BY <1>3 DEF Next, Step, PlanRefused, PlanSection, HookRefuses, Lands, Rejected, AnswerLost, RunFails,
       FinishSection, EditLive, vars
  <2>3. PICK next : next = live'
    OBVIOUS
  <2>4. Orderly(decl, doc, next)
    <3>1. CASE live' # live
      <4>1. Next
        BY <1>3, <3>1 DEF vars
      <4>2. Landing(decl, live, plan, plan[1], next) /\ Running(decl, doc, live, plan, Tail(plan), faulted)
        BY <1>3, <2>3, <3>1, <4>1, StepLands
      <4>3. QED
        BY <4>2, LandsOrderly
    <3>2. CASE live' = live
      BY <2>1, <2>3, <3>2
    <3>3. QED
      BY <3>1, <3>2
  <2>5. Orderly(decl, doc, live)'
    BY <2>2, <2>3, <2>4
  <2>6. QED
    BY <1>2, <2>1, <2>5
<1>4. IInv /\ IInv' /\ [Next]_vars => [edits' = edits /\ ~interfered /\ ~Refused => ~Refused']_vars
  BY <1>3
<1>5. QED
  BY <1>4, Invariant, PTL DEF Spec, NeverWedges

(* A run removes an item only where no entry names it and the policy is delete, or to
   create it anew; it changes an entry's item only, and none the section cannot declare. *)
THEOREM UndeclaredIsSpared == Spec => SparesUndeclared
<1> DEFINE Named(l) == \E i \in Entries : decl.key[l.name] \in
                         {decl.key[doc.entries[i].name], decl.key[WriteName(doc.entries[i])]}
<1> DEFINE Spared(l, next) ==
      /\ l.val \notin decl.foreign
      /\ Named(l) \/ (doc.policy = "delete" /\ ~\E m \in next : m.id = l.id)
      /\ Named(l) /\ (~\E m \in next : m.id = l.id) => decl.edit = "recreate"
<1>1. ASSUME IInv, [Next]_vars, edits' = edits, ~interfered, NEW l \in live, l \notin live', NEW next, next = live'
      PROVE  Spared(l, next)
  <2>0. live' # live /\ Next /\ Consistent(decl, live)
    BY <1>1 DEF vars, IInv, PlanInv
  <2>1. /\ Landing(decl, live, plan, plan[1], next)
        /\ Running(decl, doc, live, plan, Tail(plan), faulted)
    BY <1>1, <2>0, StepLands
  <2>2. \A m : m.val \notin decl.foreign => (Named(m) <=> \E i \in DOMAIN doc.entries : Owns(decl, doc, i, m))
    BY DEF Owns, Claims, Entries
  <2> HIDE DEF Named
  <2>3. CASE \E x, i : Creates(decl, live, plan, plan[1], x, next) /\ MadeFor(decl, doc, live, plan[1], i, x)
    BY <1>1, <2>3 DEF Creates
  <2>4. CASE plan[1].role = "remove" /\ \E m : Removes(decl, live, plan[1], m, next)
    <3>1. PICK m : Removes(decl, live, plan[1], m, next)
      BY <2>4
    <3>2. l = m /\ next = live \ {l}
      BY <1>1, <3>1 DEF Removes
    <3>3. /\ l.val \notin decl.foreign
          /\ \A i \in DOMAIN doc.entries : Owns(decl, doc, i, l) => decl.edit = "recreate"
          /\ (\A i \in DOMAIN doc.entries : ~Owns(decl, doc, i, l)) => doc.policy = "delete"
      BY <2>1, <2>4, <3>1, <3>2, RemovedItem
    <3>4. ~\E m2 \in next : m2.id = l.id
      BY <2>0, <3>2, IdsDiffer
    <3>5. QED
      BY <2>2, <3>3, <3>4
  <2>5. CASE \E m, y, i : Rewrites(decl, live, plan[1], m, y, next) /\ WrittenFor(decl, doc, plan[1], i, m, y)
    <3>1. PICK m, y, i : Rewrites(decl, live, plan[1], m, y, next) /\ WrittenFor(decl, doc, plan[1], i, m, y)
      BY <2>5
    <3>2. l = m /\ y \in next
      BY <1>1, <3>1 DEF Rewrites
    <3>3. i \in DOMAIN doc.entries /\ Owns(decl, doc, i, l) /\ y.id = l.id
      BY <3>1, <3>2 DEF WrittenFor
    <3>4. l.val \notin decl.foreign
      BY <3>3 DEF Owns
    <3>5. QED
      BY <2>2, <3>2, <3>3, <3>4
  <2>6. QED
    BY <2>1, <2>3, <2>4, <2>5, LandingCases
<1>2. ASSUME IInv, [Next]_vars, edits' = edits, ~interfered PROVE \A l \in live \ live' : Spared(l, live')
  <2>1. PICK next : next = live'
    OBVIOUS
  <2>2. \A l \in live : l \notin live' => Spared(l, next)
    BY <1>1, <1>2, <2>1
  <2>3. QED
    BY <2>1, <2>2
<1>3. IInv /\ [Next]_vars =>
        [edits' = edits /\ ~interfered =>
           \A l \in live \ live' :
             /\ l.val \notin decl.foreign
             /\ \/ \E i \in Entries : decl.key[l.name] \in
                        {decl.key[doc.entries[i].name], decl.key[WriteName(doc.entries[i])]}
                \/ doc.policy = "delete" /\ ~\E m \in live' : m.id = l.id
             /\ (\E i \in Entries : decl.key[l.name] \in
                    {decl.key[doc.entries[i].name], decl.key[WriteName(doc.entries[i])]})
                /\ (~\E m \in live' : m.id = l.id) => decl.edit = "recreate"]_vars
  BY <1>2
<1>4. QED
  BY <1>3, Invariant, PTL DEF Spec, SparesUndeclared
=============================================================================
