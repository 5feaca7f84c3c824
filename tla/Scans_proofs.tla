---------------------------- MODULE Scans_proofs ----------------------------
(***************************************************************************)
(* Proofs about Scans, for any sources, findings of tools, options,        *)
(* documents of auditors and answers of the LLM.                           *)
(***************************************************************************)
EXTENDS Scans, FunctionTheorems, SequenceTheorems, FiniteSetTheorems, NaturalsInduction,
        WellFoundedInduction, TLAPS

-----------------------------------------------------------------------------
(* Sorting                                                                 *)

LEMMA LeastNatural ==
    ASSUME NEW S \in SUBSET Nat, NEW s \in S
    PROVE  \E n \in S : \A m \in S : n <= m
<1>1. PICK n \in S : \A m \in S : ~(<<m, n>> \in OpToRel(<, Nat))
  BY NatLessThanWellFounded, WFMin, Zenon
<1>2. ASSUME NEW m \in S PROVE n <= m
  <2>1. ~(m < n)
    BY <1>1 DEF OpToRel
  <2> QED
    BY <2>1
<1> QED
  BY <1>2

\* Keys of one length are in a linear order.
LEMMA KeysAreOrdered ==
    ASSUME NEW n \in Nat, NEW a \in [1..n -> Int], NEW b \in [1..n -> Int],
           NEW c \in [1..n -> Int]
    PROVE  /\ ~Precedes(a, a)
           /\ Precedes(a, b) /\ Precedes(b, c) => Precedes(a, c)
           /\ a # b => Precedes(a, b) \/ Precedes(b, a)
<1>1. ~Precedes(a, a)
  BY DEF Precedes
<1>2. ASSUME Precedes(a, b), Precedes(b, c) PROVE Precedes(a, c)
  <2>1. PICK k \in 1..n : a[k] < b[k] /\ \A j \in 1..(k - 1) : a[j] = b[j]
    BY <1>2 DEF Precedes
  <2>2. PICK l \in 1..n : b[l] < c[l] /\ \A j \in 1..(l - 1) : b[j] = c[j]
    BY <1>2 DEF Precedes
  <2> DEFINE m == IF k <= l THEN k ELSE l
  <2>3. m \in 1..n /\ m <= k /\ m <= l /\ (m = k \/ m = l)
    OBVIOUS
  <2> HIDE DEF m
  <2>4. a[m] \in Int /\ b[m] \in Int /\ c[m] \in Int
    BY <2>3
  <2>5. (m < k /\ m = l) \/ (m = k /\ m < l) \/ (m = k /\ m = l)
    BY <2>3
  <2>6. (m < k => a[m] = b[m]) /\ (m < l => b[m] = c[m])
    <3>1. (m < k => m \in 1..(k - 1)) /\ (m < l => m \in 1..(l - 1))
      BY <2>3
    <3> QED
      BY <2>1, <2>2, <3>1
  <2>7. a[m] < c[m]
    <3>1. (m = k => a[m] < b[m]) /\ (m = l => b[m] < c[m])
      BY <2>1, <2>2
    <3> QED
      BY <2>4, <2>5, <2>6, <3>1, SMTT(30)
  <2>8. ASSUME NEW j \in 1..(m - 1) PROVE a[j] = c[j]
    <3>1. j \in 1..(k - 1) /\ j \in 1..(l - 1)
      BY <2>3
    <3> QED
      BY <2>1, <2>2, <3>1
  <2> QED
    BY <2>3, <2>7, <2>8 DEF Precedes
<1>3. ASSUME a # b PROVE Precedes(a, b) \/ Precedes(b, a)
  <2> DEFINE D == {k \in 1..n : a[k] # b[k]}
  <2>1. D \in SUBSET Nat
    OBVIOUS
  <2>2. D # {}
    <3>1. D = {} => a = b
      <4>1. a = [k \in 1..n |-> a[k]] /\ b = [k \in 1..n |-> b[k]]
        OBVIOUS
      <4>2. D = {} => \A k \in 1..n : a[k] = b[k]
        OBVIOUS
      <4> QED
        BY <4>1, <4>2
    <3> QED
      BY <1>3, <3>1
  <2>3. PICK k \in D : \A m \in D : k <= m
    BY <2>1, <2>2, LeastNatural
  <2>4. ASSUME NEW j \in 1..(k - 1) PROVE a[j] = b[j]
    <3>1. j \in 1..n /\ ~(k <= j)
      BY <2>3
    <3>2. j \notin D
      BY <2>3, <3>1
    <3> QED
      BY <3>1, <3>2
  <2>5. k \in 1..n /\ (a[k] < b[k] \/ b[k] < a[k])
    BY <2>3
  <2> QED
    BY <2>4, <2>5 DEF Precedes
<1> QED
  BY <1>1, <1>2, <1>3

\* The k-th of n things that each have as many before them as some number under
\* n tells, no two the same: there is exactly one for each number.
LEMMA RanksAreAll ==
    ASSUME NEW S, IsFiniteSet(S), NEW rank \in [S -> Nat],
           \A i \in S : rank[i] < Cardinality(S),
           \A i, j \in S : rank[i] = rank[j] => i = j
    PROVE  \A k \in 1..Cardinality(S) : \E i \in S : rank[i] = k - 1
<1>1. PICK n \in Nat : n = Cardinality(S)
  BY FS_CardinalityType
<1> DEFINE r == [i \in S |-> rank[i] + 1]
<1>2. r \in [S -> 1..n] /\ \A i, j \in S : r[i] = r[j] => i = j
  BY <1>1
<1>3. r \in Injection(S, 1..n)
  BY <1>2, Fun_IsInj
<1>4. IsFiniteSet(1..n) /\ Cardinality(1..n) = n
  BY FS_Interval
<1>5. r \in Surjection(S, 1..n)
  BY <1>1, <1>3, <1>4, FS_Injection
<1>6. \A k \in 1..n : \E i \in S : r[i] = k
  <2> HIDE DEF r
  <2> QED
    BY <1>5, Fun_SurjectionProperties, ZenonT(30)
<1> QED
  BY <1>1, <1>6

\* Those of S that a sort puts before i, and the numbers less than i.
Before(S, key, i) == {j \in S : Precedes(key[j], key[i])}
Below(S, i) == {j \in S : j < i}

\* f has each member of S once, in the order of the keys.
Sorts(f, S, key) ==
    /\ Cardinality(S) \in Nat
    /\ f \in [1..Cardinality(S) -> S]
    /\ \A i \in S : \E k \in 1..Cardinality(S) : f[k] = i
    /\ \A k, l \in 1..Cardinality(S) : k < l => Precedes(key[f[k]], key[f[l]])
    /\ \A k \in 1..Cardinality(S), i \in S :
          f[k] = i <=> Cardinality(Before(S, key, i)) = k - 1

LEMMA Sorted ==
    ASSUME NEW S, IsFiniteSet(S), NEW n \in Nat, NEW key,
           \A i \in S : key[i] \in [1..n -> Int],
           \A i, j \in S : key[i] = key[j] => i = j
    PROVE  Sorts(SortedBy(S, key), S, key)
<1> DEFINE before(i) == {j \in S : Precedes(key[j], key[i])}
           rank == [i \in S |-> Cardinality(before(i))]
           f == SortedBy(S, key)
<1>a. \A i \in S : before(i) \in SUBSET S
  OBVIOUS
<1>b. \A i, j \in S : j \in before(i) <=> Precedes(key[j], key[i])
  OBVIOUS
<1>c. /\ DOMAIN rank = S
      /\ \A i \in S : rank[i] = Cardinality(before(i))
  OBVIOUS
<1>d. f = [k \in 1..Cardinality(S) |-> CHOOSE i \in S : rank[i] = k - 1]
  BY DEF SortedBy
<1>e. \A i \in S : Cardinality(Before(S, key, i)) = rank[i]
  BY DEF Before
<1> HIDE DEF before, rank, f
<1>1. Cardinality(S) \in Nat /\ \A i \in S : IsFiniteSet(before(i)) /\ rank[i] \in Nat
  BY <1>a, <1>c, FS_Subset, FS_CardinalityType
<1>2. ASSUME NEW i \in S, NEW T \in SUBSET S, before(i) \subseteq T, i \in T
      PROVE  rank[i] < Cardinality(T)
  <2>1. IsFiniteSet(T) /\ Cardinality(T) \in Nat
    BY FS_Subset, FS_CardinalityType
  <2>2. before(i) \in SUBSET T /\ before(i) # T
    BY <1>2, <1>b, KeysAreOrdered
  <2>3. Cardinality(before(i)) <= Cardinality(T) /\ Cardinality(before(i)) # Cardinality(T)
    BY <2>1, <2>2, FS_Subset
  <2> QED
    BY <1>1, <1>c, <2>1, <2>3
<1>3. \A i \in S : rank[i] < Cardinality(S)
  BY <1>2, <1>a
<1>4. ASSUME NEW i \in S, NEW j \in S, Precedes(key[i], key[j])
      PROVE  rank[i] < rank[j]
  <2>1. before(i) \subseteq before(j)
    BY <1>4, <1>a, <1>b, KeysAreOrdered
  <2>2. i \in before(j) /\ before(j) \in SUBSET S
    BY <1>4, <1>a, <1>b
  <2>3. rank[i] < Cardinality(before(j))
    BY <1>2, <2>1, <2>2
  <2> QED
    BY <1>c, <2>3
<1>5. ASSUME NEW i \in S, NEW j \in S, rank[i] = rank[j], i # j PROVE FALSE
  <2>1. Precedes(key[i], key[j]) \/ Precedes(key[j], key[i])
    BY <1>5, KeysAreOrdered
  <2>2. rank[i] < rank[j] \/ rank[j] < rank[i]
    BY <1>4, <2>1
  <2> QED
    BY <1>1, <1>5, <2>2
<1>6. \A k \in 1..Cardinality(S) : \E i \in S : rank[i] = k - 1
  <2>1. rank = [i \in S |-> rank[i]]
    BY <1>c DEF rank
  <2>2. rank \in [S -> Nat]
    BY <1>1, <2>1
  <2> QED
    BY <1>3, <1>5, <2>2, RanksAreAll
<1>7. \A k \in 1..Cardinality(S) : f[k] \in S /\ rank[f[k]] = k - 1
  BY <1>6, <1>d
<1>8. f \in [1..Cardinality(S) -> S]
  BY <1>7, <1>d
<1>9. ASSUME NEW k \in 1..Cardinality(S), NEW i \in S
      PROVE  f[k] = i <=> rank[i] = k - 1
  BY <1>5, <1>7
<1>10. ASSUME NEW i \in S PROVE \E k \in 1..Cardinality(S) : f[k] = i
  <2>1. PICK r \in Nat : r = rank[i]
    BY <1>1
  <2>2. r + 1 \in 1..Cardinality(S) /\ rank[i] = (r + 1) - 1
    BY <1>1, <1>3, <2>1
  <2> QED
    BY <1>9, <2>2
<1>11. ASSUME NEW k \in 1..Cardinality(S), NEW l \in 1..Cardinality(S), k < l
       PROVE  Precedes(key[f[k]], key[f[l]])
  <2>1. f[k] \in S /\ f[l] \in S /\ rank[f[k]] = k - 1 /\ rank[f[l]] = l - 1
    BY <1>7
  <2>2. f[k] # f[l] /\ ~(rank[f[l]] < rank[f[k]])
    BY <1>11, <2>1
  <2>3. key[f[k]] # key[f[l]]
    BY <2>1, <2>2
  <2> QED
    BY <1>4, <2>1, <2>2, <2>3, KeysAreOrdered
<1> QED
  BY <1>1, <1>8, <1>9, <1>10, <1>11, <1>e DEF f, Sorts

\* Tuples of numbers are keys.
LEMMA KeysOfNumbers ==
    ASSUME NEW a \in Int, NEW b \in Int
    PROVE  <<a>> \in [1..1 -> Int] /\ <<a, b>> \in [1..2 -> Int]
OBVIOUS

LEMMA PrecedesOne ==
    ASSUME NEW a \in Int, NEW b \in Int
    PROVE  Precedes(<<a>>, <<b>>) <=> a < b
<1> DEFINE x == <<a>>
           y == <<b>>
<1>1. DOMAIN x = {1} /\ 1..(1 - 1) = {} /\ x[1] = a /\ y[1] = b
  OBVIOUS
<1> HIDE DEF x, y
<1>2. Precedes(x, y) <=> a < b
  BY <1>1 DEF Precedes
<1> QED
  BY <1>2 DEF x, y

\* A key that ends with the position: at the same place in the order are only
\* those before it of the same sort.
LEMMA PrecedesTwo ==
    ASSUME NEW a \in Int, NEW b \in Int, NEW c \in Int, NEW d \in Int
    PROVE  Precedes(<<a, b>>, <<c, d>>) <=> a < c \/ (a = c /\ b < d)
<1> DEFINE x == <<a, b>>
           y == <<c, d>>
<1>1. /\ DOMAIN x = {1, 2} /\ 1..(1 - 1) = {} /\ 1..(2 - 1) = {1}
      /\ x[1] = a /\ x[2] = b /\ y[1] = c /\ y[2] = d
  OBVIOUS
<1> HIDE DEF x, y
<1>2. Precedes(x, y) <=> a < c \/ (b < d /\ a = c)
  BY <1>1 DEF Precedes
<1> QED
  BY <1>2 DEF x, y

\* f counts the numbers in S off, from the least on.
CountsOff(f, S) ==
    /\ Cardinality(S) \in Nat
    /\ f \in [1..Cardinality(S) -> S]
    /\ \A i \in S : \E k \in 1..Cardinality(S) : f[k] = i
    /\ \A k, l \in 1..Cardinality(S) : k < l => f[k] < f[l]
    /\ \A k \in 1..Cardinality(S), i \in S : f[k] = i <=> Cardinality(Below(S, i)) = k - 1

LEMMA AscendingSet ==
    ASSUME NEW S \in SUBSET Int, IsFiniteSet(S)
    PROVE  CountsOff(Ascending(S), S)
<1> DEFINE key == [i \in S |-> <<i>>]
<1>1. \A i \in S : key[i] \in [1..1 -> Int]
  BY KeysOfNumbers
<1>2. \A i, j \in S : key[i] = key[j] => i = j
  OBVIOUS
<1>3. \A i, j \in S : Precedes(key[i], key[j]) <=> i < j
  BY PrecedesOne
<1>4. \A i \in S : Before(S, key, i) = Below(S, i)
  BY <1>3 DEF Before, Below
<1>5. Ascending(S) = SortedBy(S, key)
  BY DEF Ascending
<1> HIDE DEF key
<1> DEFINE f == SortedBy(S, key)
<1>6. 1 \in Nat
  OBVIOUS
<1>7. Sorts(f, S, key)
  BY <1>1, <1>2, <1>6, Sorted, Zenon
<1> HIDE DEF f
<1>8. ASSUME NEW k \in 1..Cardinality(S), NEW l \in 1..Cardinality(S), k < l
      PROVE  f[k] < f[l]
  <2>1. f[k] \in S /\ f[l] \in S /\ Precedes(key[f[k]], key[f[l]])
    BY <1>7, <1>8 DEF Sorts
  <2> QED
    BY <1>3, <2>1
<1>9. \A k \in 1..Cardinality(S), i \in S : f[k] = i <=> Cardinality(Below(S, i)) = k - 1
  BY <1>4, <1>7 DEF Sorts
<1>10. Ascending(S) = f
  BY <1>5 DEF f
<1> QED
  BY <1>7, <1>8, <1>9, <1>10 DEF Sorts, CountsOff

\* Sets of positions that a map takes to each other in order are counted off alike.
LEMMA SameOrder ==
    ASSUME NEW A \in SUBSET Int, IsFiniteSet(A), NEW B \in SUBSET Int, IsFiniteSet(B),
           NEW m \in [A -> B], \A b \in B : \E a \in A : m[a] = b,
           \A i, j \in A : i < j => m[i] < m[j]
    PROVE  /\ Cardinality(A) = Cardinality(B)
           /\ \A k \in 1..Cardinality(A) : Ascending(B)[k] = m[Ascending(A)[k]]
<1>1. \A i, j \in A : m[i] < m[j] => i < j
  <2> SUFFICES ASSUME NEW i \in A, NEW j \in A, ~(i < j) PROVE ~(m[i] < m[j])
    OBVIOUS
  <2>1. i = j \/ j < i
    OBVIOUS
  <2>2. m[i] \in Int /\ m[j] \in Int
    OBVIOUS
  <2> QED
    BY <2>1, <2>2
<1>2. \A i, j \in A : m[i] = m[j] => i = j
  <2> SUFFICES ASSUME NEW i \in A, NEW j \in A, i # j PROVE m[i] # m[j]
    OBVIOUS
  <2>1. i < j \/ j < i
    OBVIOUS
  <2>2. m[i] \in Int /\ m[j] \in Int
    OBVIOUS
  <2> QED
    BY <2>1, <2>2
<1>3. ASSUME NEW X \in SUBSET A, NEW Y \in SUBSET B, \A a \in A : a \in X <=> m[a] \in Y
      PROVE  Cardinality(X) = Cardinality(Y)
  <2> DEFINE g == [a \in X |-> m[a]]
  <2>1. g \in [X -> Y] /\ \A y \in Y : \E a \in X : g[a] = y
    BY <1>3
  <2>2. \A i, j \in X : g[i] = g[j] => i = j
    BY <1>2
  <2> HIDE DEF g
  <2>3. g \in Bijection(X, Y)
    BY <2>1, <2>2, Fun_IsBij
  <2>4. ExistsBijection(X, Y) /\ IsFiniteSet(X)
    BY <2>3, FS_Subset DEF ExistsBijection
  <2> QED
    BY <2>4, FS_Bijection
<1>4. Cardinality(A) = Cardinality(B)
  BY <1>3
<1>5. PICK f : f = Ascending(A)
  OBVIOUS
<1>6. PICK g : g = Ascending(B)
  OBVIOUS
<1>7. CountsOff(f, A) /\ CountsOff(g, B)
  BY <1>5, <1>6, AscendingSet, Zenon
<1>8. ASSUME NEW k \in 1..Cardinality(A) PROVE g[k] = m[f[k]]
  <2>1. PICK i \in A : i = f[k]
    BY <1>7 DEF CountsOff
  <2>2. Cardinality(Below(A, i)) = k - 1
    BY <1>7, <2>1 DEF CountsOff
  <2>3. Cardinality(Below(A, i)) = Cardinality(Below(B, m[i]))
    <3>1. \A a \in A : a < i <=> m[a] < m[i]
      BY <1>1
    <3>2. Below(A, i) \in SUBSET A /\ Below(B, m[i]) \in SUBSET B
      BY DEF Below
    <3>3. \A a \in A : a \in Below(A, i) <=> m[a] \in Below(B, m[i])
      BY <3>1 DEF Below
    <3> QED
      BY <1>3, <3>2, <3>3
  <2>4. k \in 1..Cardinality(B) /\ m[i] \in B
    BY <1>4
  <2>5. Cardinality(Below(B, m[i])) = k - 1
    BY <2>2, <2>3
  <2>6. g[k] = m[i]
    BY <1>7, <2>4, <2>5, ZenonT(30) DEF CountsOff
  <2> QED
    BY <2>1, <2>6
<1> QED
  BY <1>4, <1>5, <1>6, <1>8

-----------------------------------------------------------------------------
(* The scan of dependencies                                                *)

\* The packages of a document have no advisories just if each has none.
LEMMA AdvisoriesNone ==
    ASSUME NEW D, IsFiniteSet(D), NEW f \in [D -> Nat]
    PROVE  /\ Advisories(f) \in Nat
           /\ Advisories(f) = 0 <=> \A p \in D : f[p] = 0
<1> DEFINE Of(p) == {<<p, n>> : n \in 1..f[p]}
           all == UNION {Of(p) : p \in D}
<1>1. ASSUME NEW p \in D PROVE IsFiniteSet(Of(p))
  <2> DEFINE g == [n \in 1..f[p] |-> <<p, n>>]
  <2>1. g \in Surjection(1..f[p], Of(p))
    BY DEF Surjection
  <2>2. IsFiniteSet(1..f[p])
    BY FS_Interval
  <2> HIDE DEF g, Of
  <2> QED
    BY <2>1, <2>2, FS_Surjection
<1>2. IsFiniteSet({Of(p) : p \in D})
  <2> DEFINE h == [p \in D |-> Of(p)]
  <2> HIDE DEF Of
  <2>1. h \in Surjection(D, {Of(p) : p \in D})
    BY DEF Surjection
  <2> HIDE DEF h
  <2> QED
    BY <2>1, FS_Surjection
<1>3. IsFiniteSet(all)
  <2> HIDE DEF Of
  <2> QED
    BY <1>1, <1>2, FS_UNION
<1>4. \A p \in D : f[p] = 0 <=> Of(p) = {}
  <2> SUFFICES ASSUME NEW p \in D PROVE f[p] = 0 <=> Of(p) = {}
    OBVIOUS
  <2>1. f[p] = 0 => 1..f[p] = {}
    OBVIOUS
  <2>2. f[p] # 0 => 1 \in 1..f[p]
    OBVIOUS
  <2> QED
    BY <2>1, <2>2
<1>5. all = {} <=> \A p \in D : f[p] = 0
  <2> HIDE DEF Of
  <2> QED
    BY <1>4
<1>6. Advisories(f) = Cardinality(all)
  BY DEF Advisories
<1> HIDE DEF all
<1>7. Cardinality(all) \in Nat /\ (Cardinality(all) = 0 <=> all = {})
  BY <1>3, FS_EmptySet, FS_CardinalityType
<1> QED
  BY <1>5, <1>6, <1>7

\* What a scan knows of a tool is what the tool has last printed.
DepInv ==
    /\ DOMAIN answer = Auditor /\ DOMAIN printed = Auditor
    /\ CleanMeansAudited

\* A result that reads clean stands for a list without a vulnerable package.
LEMMA PipCleanIsClean ==
    ASSUME NEW doc \in PipDocument, Clean(PipResult(doc))
    PROVE  CleanListing("pip-audit", Listing(doc))
<1> DEFINE fix == [p \in DOMAIN doc |-> doc[p].fixable]
           not == [p \in DOMAIN doc |-> doc[p].unfixable]
<1>1. IsFiniteSet(DOMAIN doc) /\ doc \in [DOMAIN doc -> [fixable: Nat, unfixable: Nat]]
  BY DocumentAssumption
<1>2. /\ fix \in [DOMAIN doc -> Nat] /\ not \in [DOMAIN doc -> Nat]
      /\ \A p \in DOMAIN doc : fix[p] = doc[p].fixable /\ not[p] = doc[p].unfixable
  BY <1>1
<1>3. PipResult(doc).total = Advisories(fix) + Advisories(not)
  BY DEF PipResult, Fresh, Absent
<1> HIDE DEF fix, not
<1>4. /\ Advisories(fix) \in Nat /\ Advisories(not) \in Nat
      /\ Advisories(fix) = 0 <=> \A p \in DOMAIN doc : fix[p] = 0
      /\ Advisories(not) = 0 <=> \A p \in DOMAIN doc : not[p] = 0
  BY <1>1, <1>2, AdvisoriesNone
<1>5. Advisories(fix) = 0 /\ Advisories(not) = 0
  BY <1>3, <1>4 DEF Clean
<1> QED
  BY <1>2, <1>4, <1>5 DEF CleanListing, Listing

LEMMA NpmCleanIsClean ==
    ASSUME NEW doc \in NpmDocument, Clean(NpmResult(doc))
    PROVE  CleanListing("npm-audit", Listing(doc))
<1> DEFINE of(s) == {p \in DOMAIN doc : Normal(doc[p].severity) = s}
<1>1. IsFiniteSet(DOMAIN doc)
  BY DocumentAssumption
<1>2. \A s \in Severity : NpmResult(doc).count[s] = Cardinality(of(s))
  BY DEF NpmResult, Fresh, Absent
<1>3. \A s \in Severity : of(s) = {}
  <2> SUFFICES ASSUME NEW s \in Severity PROVE of(s) = {}
    OBVIOUS
  <2>1. of(s) \in SUBSET DOMAIN doc
    OBVIOUS
  <2>2. Cardinality(of(s)) = 0
    BY <1>2 DEF Clean
  <2> HIDE DEF of
  <2>3. IsFiniteSet(of(s))
    BY <1>1, <2>1, FS_Subset
  <2> QED
    BY <2>2, <2>3, FS_EmptySet
<1>4. \A p \in DOMAIN doc : Normal(doc[p].severity) \in Severity
  BY DEF Normal, Severity
<1>5. DOMAIN doc = {}
  BY <1>3, <1>4
<1> QED
  BY <1>5 DEF CleanListing, Listing

LEMMA DepInitially == DepInit => DepInv
BY DEF DepInit, DepInv, CleanMeansAudited, Clean, Absent

\* One result is replaced, by one that is not clean or that stands for its document.
LEMMA Replaced ==
    ASSUME DepInv, NEW t \in Auditor, NEW r, NEW p,
           answer' = [answer EXCEPT ![t] = r],
           printed' = [printed EXCEPT ![t] = p] \/ (printed' = printed /\ p = printed[t]),
           Clean(r) => CleanListing(t, p) \/ (t = "npm-audit" /\ p = ErrorDocument)
    PROVE  DepInv'
<1>1. DOMAIN answer' = Auditor /\ DOMAIN printed' = Auditor
  BY DEF DepInv
<1>2. ASSUME NEW u \in Auditor, Clean(answer'[u])
      PROVE  CleanListing(u, printed'[u]) \/ (u = "npm-audit" /\ printed'[u] = ErrorDocument)
  <2>1. CASE u = t
    <3>1. answer'[u] = r /\ printed'[u] = p
      BY <2>1 DEF DepInv
    <3> QED
      BY <1>2, <2>1, <3>1
  <2>2. CASE u # t
    <3>1. answer'[u] = answer[u] /\ printed'[u] = printed[u]
      BY <2>2 DEF DepInv
    <3> QED
      BY <1>2, <3>1 DEF DepInv, CleanMeansAudited
  <2> QED
    BY <2>1, <2>2
<1> QED
  BY <1>1, <1>2 DEF DepInv, CleanMeansAudited

\* The same if the tool has printed nothing that is taken for a document.
LEMMA ReplacedByUnclean ==
    ASSUME DepInv, NEW t \in Auditor, NEW r,
           answer' = [answer EXCEPT ![t] = r], printed' = printed, ~Clean(r)
    PROVE  DepInv'
BY Replaced, Zenon

LEMMA FailedIsNotClean == ~Clean(Failed) /\ \A n : ~Clean([Failed EXCEPT !.packages = n])
BY DEF Clean, Failed, Fresh, Absent

LEMMA DepStep == DepInv /\ [DepNext]_depVars => DepInv'
<1> SUFFICES ASSUME DepInv, [DepNext]_depVars PROVE DepInv'
  OBVIOUS
<1>1. CASE answer' = answer /\ printed' = printed
  BY <1>1 DEF DepInv, CleanMeansAudited
<1>2. CASE Ask
  <2>1. CASE answer' = [answer EXCEPT !["none"] = Failed]
    BY <1>2, <2>1, ReplacedByUnclean, FailedIsNotClean DEF Ask, Auditor
  <2> QED
    BY <1>1, <1>2, <2>1 DEF Ask
<1>3. CASE AuditPip
  <2>1. ASSUME NEW doc \in PipDocument,
               printed' = [printed EXCEPT !["pip-audit"] = Listing(doc)],
               answer' = [answer EXCEPT !["pip-audit"] = PipResult(doc)]
        PROVE  DepInv'
    BY <2>1, PipCleanIsClean, Replaced DEF Auditor
  <2>2. CASE Fallback /\ UNCHANGED printed
    BY <2>2, ReplacedByUnclean, FailedIsNotClean DEF Fallback, Auditor
  <2>3. CASE answer' = [answer EXCEPT !["pip-audit"] = Failed] /\ UNCHANGED printed
    BY <2>3, ReplacedByUnclean, FailedIsNotClean DEF Auditor
  <2> QED
    BY <1>1, <1>3, <2>1, <2>2, <2>3 DEF AuditPip
<1>4. CASE AuditNpm
  <2>1. ASSUME NEW doc \in NpmDocument,
               printed' = [printed EXCEPT !["npm-audit"] = Listing(doc)],
               answer' = [answer EXCEPT !["npm-audit"] = NpmResult(doc)]
        PROVE  DepInv'
    BY <2>1, NpmCleanIsClean, Replaced DEF Auditor
  <2>2. CASE /\ printed' = [printed EXCEPT !["npm-audit"] = ErrorDocument]
             /\ answer' = [answer EXCEPT !["npm-audit"] = Fresh]
    BY <2>2, Replaced DEF Auditor
  <2>3. CASE answer' = [answer EXCEPT !["npm-audit"] = Failed] /\ UNCHANGED printed
    BY <2>3, ReplacedByUnclean, FailedIsNotClean DEF Auditor
  <2> QED
    BY <1>1, <1>4, <2>1, <2>2, <2>3 DEF AuditNpm
<1>5. CASE NoManifest
  BY <1>5, ReplacedByUnclean, FailedIsNotClean DEF NoManifest, Auditor
<1>6. CASE Install
  BY <1>1, <1>6 DEF Install
<1> QED
  BY <1>1, <1>2, <1>3, <1>4, <1>5, <1>6 DEF DepNext, depVars

\* CleanMeansAudited: a result that reads clean stands for a document in which
\* the tool names no vulnerable package, or says that it could not audit.
THEOREM CleanMeansAuditedAlways == Spec => []CleanMeansAudited
<1>1. Init => DepInv
  BY DepInitially DEF Init
<1>2. DepInv /\ [Next]_vars => DepInv'
  BY DepStep DEF Next, vars
<1>3. DepInv => CleanMeansAudited
  BY DEF DepInv
<1> QED
  BY <1>1, <1>2, <1>3, PTL DEF Spec

-----------------------------------------------------------------------------
(* Risk                                                                    *)

LEMMA BoundsAbove ==
    ASSUME NEW a \in Int, NEW b \in Int, NEW c \in Int, a < b, b < c, NEW s \in Int
    PROVE  Cardinality({x \in {a, b, c} : s < x})
             = IF s < a THEN 3 ELSE IF s < b THEN 2 ELSE IF s < c THEN 1 ELSE 0
<1> DEFINE B == {x \in {a, b, c} : s < x}
<1>1. IsFiniteSet({c}) /\ Cardinality({c}) = 1
  BY FS_Singleton
<1>2. IsFiniteSet({c} \cup {b}) /\ Cardinality({c} \cup {b}) = 2
  BY <1>1, FS_AddElement
<1>3. Cardinality(({c} \cup {b}) \cup {a}) = 3
  BY <1>2, FS_AddElement
<1>4. Cardinality({}) = 0
  BY FS_EmptySet
<1>5. CASE s < a
  <2>1. B = ({c} \cup {b}) \cup {a}
    BY <1>5
  <2> QED
    BY <1>3, <1>5, <2>1
<1>6. CASE ~(s < a) /\ s < b
  <2>1. B = {c} \cup {b}
    BY <1>6
  <2> QED
    BY <1>2, <1>6, <2>1
<1>7. CASE ~(s < b) /\ s < c
  <2>1. B = {c} /\ ~(s < a)
    BY <1>7
  <2> QED
    BY <1>1, <1>7, <2>1
<1>8. CASE ~(s < c)
  <2>1. B = {} /\ ~(s < a) /\ ~(s < b)
    BY <1>8
  <2> QED
    BY <1>4, <1>8, <2>1
<1> QED
  BY <1>5, <1>6, <1>7, <1>8

LEMMA Levels ==
    ASSUME NEW s \in Int
    PROVE  LevelAt(s) = IF s < 4000 THEN 3 ELSE IF s < 7000 THEN 2 ELSE IF s < 9000 THEN 1 ELSE 0
<1>1. PICK a \in Int, b \in Int, c \in Int : a = 4000 /\ b = 7000 /\ c = 9000
  OBVIOUS
<1>2. LevelAt(s) = Cardinality({x \in {a, b, c} : s < x})
  BY <1>1 DEF LevelAt
<1>3. a < b /\ b < c
  BY <1>1
<1>4. LevelAt(s) = IF s < a THEN 3 ELSE IF s < b THEN 2 ELSE IF s < c THEN 1 ELSE 0
  BY <1>2, <1>3, BoundsAbove, SMTT(30)
<1> QED
  BY <1>1, <1>4

\* The scores of the table and of the severities.
Base == {98, 91, 88, 82, 75, 65, 61, 59, 53, 95, 25, 50}

LEMMA CweScores == \A c \in DOMAIN CweScore : CweScore[c] \in Base
<1>1. \A e \in CweTable : e[1] \in Base
  BY DEF CweTable, Base
<1> SUFFICES ASSUME NEW c \in DOMAIN CweScore PROVE CweScore[c] \in Base
  OBVIOUS
<1>2. DOMAIN CweScore = UNION {e[2] : e \in CweTable}
  BY DEF CweScore
<1>3. PICK e \in CweTable : c \in e[2]
  BY <1>2
<1> DEFINE d == CHOOSE x \in CweTable : c \in x[2]
<1>4. d \in CweTable
  BY <1>3
<1>5. CweScore[c] = d[1]
  BY <1>2 DEF CweScore
<1> QED
  BY <1>1, <1>4, <1>5

LEMMA Lesser == ASSUME NEW a \in Int, NEW b \in Int
                PROVE  Min({a, b}) = IF a <= b THEN a ELSE b
BY DEF Min

LEMMA Scores ==
    ASSUME NEW r
    PROVE  \E b \in Base : Score(r) \in {b * 80, b * 100, IF b * 105 <= 10000 THEN b * 105 ELSE 10000}
<1> DEFINE base == IF r.cwe \in DOMAIN CweScore THEN CweScore[r.cwe] ELSE SeverityScore(r.severity)
<1>1. base \in Base
  BY CweScores DEF SeverityScore, Base
<1>2. Score(r) = CASE r.confidence = "LOW"  -> base * 80
                   [] r.confidence = "HIGH" -> Min({base * 105, 10000})
                   [] OTHER                 -> base * 100
  BY DEF Score
<1> HIDE DEF base
<1>3. base * 105 \in Int
  BY <1>1 DEF Base
<1>4. Min({base * 105, 10000}) = IF base * 105 <= 10000 THEN base * 105 ELSE 10000
  BY <1>3, Lesser
<1> QED
  BY <1>1, <1>2, <1>4

LEMMA ScoreTypes ==
    ASSUME NEW r
    PROVE  Score(r) \in Int /\ ShownScore(r) \in Int /\ RiskLevel(r) \in Int
<1>1. Score(r) \in Int
  BY Scores DEF Base
<1>2. ShownScore(r) \in Int
  BY <1>1 DEF ShownScore
<1>3. RiskLevel(r) \in Int
  BY <1>1, Levels DEF RiskLevel
<1> QED
  BY <1>1, <1>2, <1>3

LEMMA ShownLevel ==
    ASSUME NEW r
    PROVE  LevelAt(ShownScore(r) * 100) = RiskLevel(r)
<1>1. PICK b \in Base : Score(r) \in {b * 80, b * 100, IF b * 105 <= 10000 THEN b * 105 ELSE 10000}
  BY Scores
<1>2. ShownScore(r) \in Int /\ Score(r) \in Int
  BY ScoreTypes
<1>3. /\ ShownScore(r) * 100 < 4000 <=> Score(r) < 4000
      /\ ShownScore(r) * 100 < 7000 <=> Score(r) < 7000
      /\ ShownScore(r) * 100 < 9000 <=> Score(r) < 9000
  BY <1>1, SMTT(60) DEF ShownScore, Base
<1>4. ShownScore(r) * 100 \in Int
  BY <1>2
<1> QED
  BY <1>2, <1>3, <1>4, Levels DEF RiskLevel

\* ScoreMatchesLevel: rounding the score never takes a report over the bound of
\* a level, for all scores that there are.
THEOREM ScoreMatchesLevelAlways == Spec => []ScoreMatchesLevel
<1>1. ScoreMatchesLevel
  BY ShownLevel DEF ScoreMatchesLevel
<1> QED
  BY <1>1, PTL

-----------------------------------------------------------------------------
(* The exchange with the LLM                                               *)

LEMMA CountedOff ==
    ASSUME NEW S \in SUBSET Int, IsFiniteSet(S), NEW f, CountsOff(f, S)
    PROVE  /\ DOMAIN f = 1..Cardinality(S) /\ ToSet(f) = S
           /\ \A i \in S : f[Cardinality({j \in S : j <= i})] = i
<1>1. DOMAIN f = 1..Cardinality(S) /\ ToSet(f) = S
  BY DEF CountsOff, ToSet
<1>2. ASSUME NEW i \in S PROVE f[Cardinality({j \in S : j <= i})] = i
  <2>1. {j \in S : j <= i} = Below(S, i) \cup {i} /\ i \notin Below(S, i)
    <3>1. \A j \in S : j <= i <=> j < i \/ j = i
      OBVIOUS
    <3>2. i \in {j \in S : j <= i} /\ ~(i < i)
      OBVIOUS
    <3>3. \A j : j \in {k \in S : k <= i} <=> j \in Below(S, i) \cup {i}
      BY <3>1, <3>2 DEF Below
    <3> QED
      BY <3>2, <3>3 DEF Below
  <2>2. IsFiniteSet(Below(S, i))
    BY FS_Subset DEF Below
  <2>3. Cardinality({j \in S : j <= i}) = Cardinality(Below(S, i)) + 1
    BY <2>1, <2>2, FS_AddElement
  <2>4. PICK k \in 1..Cardinality(S) : f[k] = i
    BY DEF CountsOff
  <2>5. Cardinality(Below(S, i)) = k - 1
    BY <2>4 DEF CountsOff
  <2>6. k \in Int
    BY DEF CountsOff
  <2> QED
    BY <2>3, <2>4, <2>5, <2>6
<1> QED
  BY <1>1, <1>2

LEMMA AscendingInterval ==
    ASSUME NEW n \in Nat
    PROVE  /\ IsFiniteSet(1..n) /\ Cardinality(1..n) = n
           /\ \A k \in 1..n : Ascending(1..n)[k] = k
<1>1. IsFiniteSet(1..n) /\ Cardinality(1..n) = n /\ 1..n \in SUBSET Int
  BY FS_Interval
<1>2. PICK f : f = Ascending(1..n)
  OBVIOUS
<1>3. CountsOff(f, 1..n)
  BY <1>1, <1>2, AscendingSet
<1>4. ASSUME NEW k \in 1..n PROVE f[k] = k
  <2>1. Below(1..n, k) = 1..(k - 1)
    BY DEF Below
  <2>2. Cardinality(1..(k - 1)) = k - 1
    BY FS_Interval
  <2> QED
    BY <1>1, <1>3, <2>1, <2>2 DEF CountsOff
<1> QED
  BY <1>1, <1>2, <1>4

LEMMA FiniteNumbers ==
    ASSUME NEW n \in Nat, NEW S \in SUBSET (1..n)
    PROVE  S \in SUBSET Int /\ IsFiniteSet(S)
<1>1. PICK T : T = 1..n
  OBVIOUS
<1>2. IsFiniteSet(T) /\ S \in SUBSET T
  BY <1>1, AscendingInterval
<1>3. IsFiniteSet(S)
  BY <1>2, FS_Subset
<1> QED
  BY <1>3

\* The options that may be offered, and have code.
Coded(options) == {k \in DOMAIN options \cap DOMAIN FixType : options[k].code # <<>>}

\* Each of them is offered, and those whose number is their place by their names.
RightlyNamed(offers, options) ==
    /\ Coded(options) # {} => DOMAIN offers = 1..Cardinality(Coded(options))
    /\ \A k \in Coded(options) : options[k].number = k =>
         \E i \in DOMAIN offers : /\ offers[i].fix_type = FixType[options[k].number]
                                  /\ offers[i].code = options[k].code

LEMMA NothingCoded ==
    ASSUME NEW options, Coded(options) = {}, NEW offers
    PROVE  RightlyNamed(offers, options)
BY DEF RightlyNamed

LEMMA OptionsRightlyNamed ==
    ASSUME NEW n \in Nat, NEW a, DOMAIN a.options = 1..n
    PROVE  /\ RightlyNamed(Options(a), Answered(a))
           /\ Options(a) = <<>> => Coded(Answered(a)) = {}
<1> DEFINE offers == [k \in DOMAIN a.options \cap DOMAIN FixType |->
                        Offer(FirstBlock(a.options[k]), FixType[k])]
           kept == {k \in DOMAIN offers : offers[k].code # <<>>}
<1>1. PICK options : options = Answered(a)
  OBVIOUS
<1>2. /\ DOMAIN options = 1..n
      /\ \A k \in 1..n : options[k].code = FirstBlock(a.options[k])
  BY <1>1 DEF Answered
<1>3. /\ DOMAIN offers = (1..n) \cap DOMAIN FixType
      /\ \A k \in DOMAIN offers : /\ offers[k].code = FirstBlock(a.options[k])
                                  /\ offers[k].fix_type = FixType[k]
  BY DEF Offer
<1>4. PICK g : g = Ascending(kept)
  OBVIOUS
<1>5. Options(a) = [k \in DOMAIN g |-> offers[g[k]]]
  BY <1>4 DEF Options, WithCode
<1> HIDE DEF offers
<1>6. kept = Coded(options)
  BY <1>2, <1>3 DEF Coded
<1>7. kept \in SUBSET (1..n)
  BY <1>3
<1> HIDE DEF kept
<1>8. kept \in SUBSET Int /\ IsFiniteSet(kept)
  BY <1>7, FiniteNumbers
<1>9. CountsOff(g, kept)
  BY <1>4, <1>8, AscendingSet
<1>10. DOMAIN g = 1..Cardinality(kept) /\ ToSet(g) = kept /\ Cardinality(kept) \in Nat
  BY <1>8, <1>9, CountedOff, FS_CardinalityType
<1>11. DOMAIN Options(a) = 1..Cardinality(kept)
  BY <1>5, <1>10
<1>12. ASSUME NEW k \in kept, options[k].number = k
       PROVE  \E i \in DOMAIN Options(a) : /\ Options(a)[i].fix_type = FixType[options[k].number]
                                           /\ Options(a)[i].code = options[k].code
  <2>1. PICK i \in DOMAIN g : g[i] = k
    BY <1>10 DEF ToSet
  <2>2. Options(a)[i] = offers[k] /\ i \in DOMAIN Options(a)
    BY <1>5, <2>1
  <2>3. k \in DOMAIN offers /\ k \in 1..n
    BY <1>3, <1>6, <1>7 DEF Coded, kept
  <2> QED
    BY <1>2, <1>3, <1>12, <2>2, <2>3
<1>13. RightlyNamed(Options(a), options)
  BY <1>6, <1>11, <1>12 DEF RightlyNamed
<1>14. Options(a) = <<>> => kept = {}
  <2> SUFFICES ASSUME Options(a) = <<>>, NEW k \in kept PROVE FALSE
    OBVIOUS
  <2>1. DOMAIN g = {}
    BY <1>5
  <2> QED
    BY <1>10, <2>1 DEF ToSet
<1> QED
  BY <1>1, <1>6, <1>13, <1>14

\* The headings that an answer may have.
HeadingsFor(what) == IF what = "options" THEN Headings ELSE {<<>>, <<1>>}

LEMMA OptionsOfAnswer ==
    ASSUME NEW a \in Answers(HeadingsFor(ask))
    PROVE  \E n \in Nat : a.options \in [1..n -> Blocks]
<1>1. PICK numbers \in HeadingsFor(ask) : a.options \in [DOMAIN numbers -> Blocks]
  BY DEF Answers
<1>2. \E n \in Nat : DOMAIN numbers = 1..n
  <2>1. HeadingsFor(ask) \subseteq Seq(0..9)
    <3>1. <<>> \in Seq(0..9) /\ <<1>> \in Seq(0..9)
      OBVIOUS
    <3> QED
      BY <3>1, HeadingsAssumption DEF HeadingsFor
  <2>2. numbers \in Seq(0..9)
    BY <2>1
  <2> QED
    BY <2>2
<1> QED
  BY <1>1, <1>2

LEMMA ParsedRightlyNamed ==
    ASSUME ask = "options", NEW a \in Answers(HeadingsFor(ask))
    PROVE  RightlyNamed(Parsed(a), Answered(a))
<1>1. PICK n \in Nat : DOMAIN a.options = 1..n
  <2>1. PICK n \in Nat : a.options \in [1..n -> Blocks]
    BY OptionsOfAnswer
  <2> QED
    BY <2>1
<1>2. /\ RightlyNamed(Options(a), Answered(a))
      /\ Options(a) = <<>> => Coded(Answered(a)) = {}
  BY <1>1, OptionsRightlyNamed
<1>3. Options(a) # <<>> => Parsed(a) = Options(a)
  BY DEF Parsed, ParseMultiResponse
<1>4. CASE Options(a) = <<>>
  BY <1>2, <1>4, NothingCoded
<1> QED
  BY <1>2, <1>3, <1>4

\* The findings of an audit that are objects and the reports made of them.
Reported(a) ==
    LET objects == Objects(a.found)
        made == a.reports
    IN  /\ DOMAIN made = 1..Cardinality(objects)
        /\ \A k \in objects : LET n == Cardinality({j \in objects : j <= k})
                             IN  made[n].cwe = a.found[k].cwe
        /\ \A i, j \in DOMAIN made : made[i].id = made[j].id => i = j

LEMMA FindingsReported ==
    ASSUME NEW v \in Verdict, v.kind = "object"
    PROVE  \A a : a.found = v.findings /\ a.reports = AuditReports(Findings(v)) => Reported(a)
<1> DEFINE objects == Objects(v.findings)
           made == AuditReports(Findings(v))
<1>1. PICK n \in Nat : DOMAIN v.findings = 1..n
  BY VerdictAssumption
<1>2. objects \in SUBSET (1..n)
  BY <1>1 DEF Objects
<1> HIDE DEF objects
<1>3. objects \in SUBSET Int /\ IsFiniteSet(objects)
  BY <1>2, FiniteNumbers
<1>4. PICK f : f = Ascending(objects)
  OBVIOUS
<1>5. CountsOff(f, objects)
  BY <1>3, <1>4, AscendingSet
<1>6. /\ DOMAIN f = 1..Cardinality(objects)
      /\ \A k \in objects : f[Cardinality({j \in objects : j <= k})] = k
  BY <1>3, <1>5, CountedOff
<1>7. /\ DOMAIN Findings(v) = DOMAIN f
      /\ \A k \in DOMAIN f : Findings(v)[k].cwe = v.findings[f[k]].cwe
  BY <1>4 DEF Findings, objects
<1>8. /\ DOMAIN made = DOMAIN Findings(v)
      /\ \A k \in DOMAIN made : made[k].cwe = Findings(v)[k].cwe /\ made[k].id[2] = k
  BY DEF AuditReports
<1>9. ASSUME NEW k \in objects
      PROVE  Cardinality({j \in objects : j <= k}) \in DOMAIN f
  <2>1. PICK upto \in SUBSET objects : upto = {j \in objects : j <= k}
    OBVIOUS
  <2>2. IsFiniteSet(upto) /\ Cardinality(upto) <= Cardinality(objects)
    BY <1>3, FS_Subset
  <2>3. k \in upto
    BY <1>3, <2>1
  <2>4. Cardinality(upto) # 0 /\ Cardinality(upto) \in Nat /\ Cardinality(objects) \in Nat
    BY <1>3, <2>2, <2>3, FS_EmptySet, FS_CardinalityType
  <2> QED
    BY <1>6, <2>1, <2>2, <2>4
<1> HIDE DEF made
<1>10. \A k \in objects : made[Cardinality({j \in objects : j <= k})].cwe = v.findings[k].cwe
  BY <1>6, <1>7, <1>8, <1>9
<1>11. \A i, j \in DOMAIN made : made[i].id = made[j].id => i = j
  BY <1>8
<1> QED
  BY <1>6, <1>7, <1>8, <1>10, <1>11, Zenon DEF objects, made, Reported

LEMMA NothingReported == \A status : Reported([NoAudit EXCEPT !.status = status])
<1> SUFFICES ASSUME NEW a, a.found = <<>>, a.reports = <<>> PROVE Reported(a)
  BY DEF NoAudit
<1>1. Objects(<<>>) = {} /\ Cardinality({}) = 0 /\ DOMAIN <<>> = 1..0
  BY FS_EmptySet DEF Objects
<1> QED
  BY <1>1 DEF Reported

DialogueInv ==
    /\ phase # "done" => answered = <<>>
    /\ RightlyNamed(offered, answered)
    /\ Reported(audit)

LEMMA NothingAnswered == \A offers : RightlyNamed(offers, <<>>)
<1>1. Coded(<<>>) = {}
  BY DEF Coded
<1> QED
  BY <1>1, NothingCoded

LEMMA DialogueStep == DialogueInv /\ [DialogueNext]_dialogueVars => DialogueInv'
<1> SUFFICES ASSUME DialogueInv, [DialogueNext]_dialogueVars PROVE DialogueInv'
  OBVIOUS
<1>1. CASE Receive
  <2>1. PICK a \in Answers(HeadingsFor(ask)) :
           offered' = Parsed(a) /\ answered' = IF ask = "options" THEN Answered(a) ELSE answered
    BY <1>1 DEF Receive, HeadingsFor
  <2>2. RightlyNamed(offered', answered')
    <3>1. CASE ask = "options"
      <4>1. RightlyNamed(Parsed(a), Answered(a))
        BY <3>1, ParsedRightlyNamed
      <4> QED
        BY <2>1, <3>1, <4>1
    <3>2. CASE ask # "options"
      <4>1. answered' = <<>>
        BY <1>1, <2>1, <3>2 DEF Receive, DialogueInv
      <4> QED
        BY <4>1, NothingAnswered
    <3> QED
      BY <3>1, <3>2
  <2> QED
    BY <1>1, <2>2 DEF Receive, DialogueInv
<1>2. CASE Miss
  <2>1. answered' = <<>>
    BY <1>2 DEF Miss, DialogueInv
  <2>2. RightlyNamed(offered', answered')
    BY <2>1, NothingAnswered
  <2> QED
    BY <1>2, <2>1, <2>2 DEF Miss, DialogueInv
<1>3. CASE ReceiveAudit
  <2>1. PICK v \in Verdict :
           \/ audit' = [NoAudit EXCEPT !.status = "reviewed"]
           \/ audit' = [NoAudit EXCEPT !.status = "error"]
           \/ /\ v.kind = "object"
              /\ audit' = [status |-> Status(v), found |-> v.findings,
                           reports |-> AuditReports(Findings(v))]
    BY <1>3 DEF ReceiveAudit, ExtractAuditJson
  <2>2. CASE /\ v.kind = "object"
             /\ audit' = [status |-> Status(v), found |-> v.findings,
                          reports |-> AuditReports(Findings(v))]
    <3>1. audit'.found = v.findings /\ audit'.reports = AuditReports(Findings(v))
      BY <2>2
    <3>2. Reported(audit')
      BY <2>2, <3>1, FindingsReported, Zenon
    <3> QED
      BY <1>3, <3>2 DEF ReceiveAudit, DialogueInv
  <2> QED
    BY <1>3, <2>1, <2>2, NothingReported, SMTT(30) DEF ReceiveAudit, DialogueInv
<1>4. CASE FailAudit
  BY <1>4, NothingReported DEF FailAudit, DialogueInv
<1>5. CASE AskPatch \/ AskOptions \/ AskAudit
  BY <1>5 DEF AskPatch, AskOptions, AskAudit, DialogueInv
<1>6. CASE UNCHANGED dialogueVars
  BY <1>6 DEF dialogueVars, DialogueInv
<1> QED
  BY <1>1, <1>2, <1>3, <1>4, <1>5, <1>6 DEF DialogueNext

LEMMA DialogueInitially == DialogueInit => DialogueInv
<1> SUFFICES ASSUME DialogueInit PROVE DialogueInv
  OBVIOUS
<1>1. audit = [NoAudit EXCEPT !.status = "none"] /\ answered = <<>>
  BY DEF DialogueInit, NoAudit
<1> QED
  BY <1>1, NothingAnswered, NothingReported DEF DialogueInv

LEMMA DialogueAlways == Spec => []DialogueInv
<1>1. Init => DialogueInv
  BY DialogueInitially DEF Init
<1>2. DialogueInv /\ [Next]_vars => DialogueInv'
  <2>1. [Next]_vars => [DialogueNext]_dialogueVars
    BY DEF Next, vars
  <2> QED
    BY <2>1, DialogueStep
<1> QED
  BY <1>1, <1>2, PTL DEF Spec

\* OptionsKeepTheirName: whatever numbers the headings of an answer have, each of
\* the first three options with code is offered, and one whose number is its place
\* under its name: an option without code does not pass its name on to the next one.
THEOREM OptionsKeepTheirNameAlways == Spec => []OptionsKeepTheirName
<1>1. DialogueInv => OptionsKeepTheirName
  BY Zenon DEF DialogueInv, OptionsKeepTheirName, RightlyNamed, Coded
<1> QED
  BY <1>1, DialogueAlways, PTL

\* EveryFindingReported: all findings of an audit that are objects become
\* reports, in their order, and no two get one id.
THEOREM EveryFindingReportedAlways == Spec => []EveryFindingReported
<1>1. DialogueInv => EveryFindingReported
  BY Zenon DEF DialogueInv, EveryFindingReported, Reported
<1> QED
  BY <1>1, DialogueAlways, PTL

-----------------------------------------------------------------------------
(* The scan of a source: what the tools have found                         *)

HitsIn(hits, text) ==
    /\ \E n \in Nat : DOMAIN hits = 1..n
    /\ \A k \in DOMAIN hits : hits[k].line \in DOMAIN text
                              /\ \E r \in DOMAIN Rules : hits[k].rule = Rules[r]

LEMMA QuickScanTypes ==
    ASSUME NEW s \in Source, NEW language
    PROVE  HitsIn(QuickScan(s.text, language), s.text)
<1> DEFINE found == {h \in (DOMAIN s.text) \X (DOMAIN Rules) :
                       /\ language \in Rules[h[2]].languages
                       /\ h[1] \in LinesOf(Rules[h[2]], s.text)}
           key == [h \in found |-> h]
           order == SortedBy(found, key)
<1>1. /\ DOMAIN s.text = 1..Len(s.text) /\ Len(s.text) \in Nat
      /\ DOMAIN Rules = 1..Len(Rules) /\ Len(Rules) \in Nat
  BY ScanAssumption, RulesAssumption
<1>2. IsFiniteSet(found) /\ found \in SUBSET ((DOMAIN s.text) \X (DOMAIN Rules))
  <2>1. IsFiniteSet(DOMAIN s.text) /\ IsFiniteSet(DOMAIN Rules)
    BY <1>1, AscendingInterval
  <2>2. IsFiniteSet((DOMAIN s.text) \X (DOMAIN Rules))
    BY <2>1, FS_Product
  <2>3. found \in SUBSET ((DOMAIN s.text) \X (DOMAIN Rules))
    OBVIOUS
  <2> HIDE DEF found
  <2> QED
    BY <2>2, <2>3, FS_Subset
<1> HIDE DEF found
<1>3. \A h \in found : key[h] \in [1..2 -> Int]
  <2> SUFFICES ASSUME NEW h \in found PROVE h \in [1..2 -> Int]
    OBVIOUS
  <2>1. PICK a \in DOMAIN s.text, b \in DOMAIN Rules : h = <<a, b>>
    BY <1>2
  <2> QED
    BY <1>1, <2>1, KeysOfNumbers
<1>4. \A h, i \in found : key[h] = key[i] => h = i
  OBVIOUS
<1> HIDE DEF key
<1>5. Sorts(order, found, key)
  <2>1. 2 \in Nat
    OBVIOUS
  <2> QED
    BY <1>2, <1>3, <1>4, <2>1, Sorted, Zenon
<1>6. QuickScan(s.text, language) =
        [k \in DOMAIN order |-> [rule |-> Rules[order[k][2]], line |-> order[k][1]]]
  BY DEF QuickScan, found, key
<1> HIDE DEF order
<1>7. DOMAIN order = 1..Cardinality(found) /\ Cardinality(found) \in Nat
  BY <1>5 DEF Sorts
<1>8. ASSUME NEW k \in DOMAIN order
      PROVE  order[k][1] \in DOMAIN s.text /\ order[k][2] \in DOMAIN Rules
  <2>1. order[k] \in found
    BY <1>5, <1>7 DEF Sorts
  <2> QED
    BY <1>2, <2>1
<1> QED
  BY <1>6, <1>7, <1>8 DEF HitsIn

\* What a tool has found are findings of its own, no more than the bound has
\* room for.
Found(src, t) ==
    CASE t = "bandit"    -> BanditReport
      [] t = "semgrep"   -> SemgrepReport
      [] t = "heuristic" -> {f \in Seq(ReportOf({"heuristic"})) :
                               Len(f) <= Len(QuickScan(src.text, QuickLanguage(src.ext)))}

LEMMA FoundOwn ==
    ASSUME NEW src \in Source, NEW t \in Tool
    PROVE  <<>> \in Found(src, t) /\ Found(src, t) \subseteq Seq(ReportOf({t}))
<1>1. CASE t = "bandit" \/ t = "semgrep"
  BY <1>1, ScanAssumption DEF Found
<1>2. CASE t = "heuristic"
  <2>1. PICK hits : hits = QuickScan(src.text, QuickLanguage(src.ext))
    OBVIOUS
  <2>a. \E n \in Nat : DOMAIN hits = 1..n
    BY <2>1, QuickScanTypes DEF HitsIn
  <2>b. Len(hits) \in Nat
    BY <2>a
  <2>2. <<>> \in Seq(ReportOf({"heuristic"})) /\ Len(<<>>) = 0
    OBVIOUS
  <2> QED
    BY <1>2, <2>1, <2>b, <2>2 DEF Found
<1> QED
  BY <1>1, <1>2 DEF Tool

LEMMA RecordOfReport ==
    ASSUME NEW T, NEW t \in T, NEW rule \in STRING, NEW line \in Int, NEW severity \in STRING,
           NEW confidence \in Confidence, NEW cwe \in STRING, NEW mentions \in SUBSET STRING,
           NEW code \in Code
    PROVE  [tool |-> t, rule |-> rule, line |-> line, severity |-> severity,
            confidence |-> confidence, cwe |-> cwe, mentions |-> mentions, code |-> code]
             \in ReportOf(T)
BY DEF ReportOf

LEMMA HeuristicFound ==
    source \in Source =>
        LET hits == QuickScan(source.text, QuickLanguage(source.ext))
        IN  [k \in DOMAIN hits |-> HeuristicFinding(hits[k])] \in Found(source, "heuristic")
<1> SUFFICES ASSUME source \in Source
             PROVE  LET hits == QuickScan(source.text, QuickLanguage(source.ext))
                    IN  [k \in DOMAIN hits |-> HeuristicFinding(hits[k])] \in Found(source, "heuristic")
  OBVIOUS
<1>1. PICK hits : hits = QuickScan(source.text, QuickLanguage(source.ext))
  OBVIOUS
<1>a. /\ \E n \in Nat : DOMAIN hits = 1..n
      /\ \A k \in DOMAIN hits : hits[k].line \in DOMAIN source.text
                                /\ \E r \in DOMAIN Rules : hits[k].rule = Rules[r]
  <2>1. HitsIn(hits, source.text)
    BY <1>1, QuickScanTypes
  <2> QED
    BY <2>1 DEF HitsIn
<1>2. PICK n \in Nat : DOMAIN hits = 1..n
  BY <1>a
<1>3. ASSUME NEW k \in DOMAIN hits
      PROVE  HeuristicFinding(hits[k]) \in ReportOf({"heuristic"})
  <2>1. /\ hits[k].line \in DOMAIN source.text
        /\ \E r \in DOMAIN Rules : hits[k].rule = Rules[r]
    BY <1>a, <1>3
  <2>2. hits[k].line \in Int /\ source.code[hits[k].line] \in Code
    <3>1. source.text \in Seq(SUBSET STRING) /\ source.code \in [DOMAIN source.text -> Code]
      BY ScanAssumption
    <3>2. DOMAIN source.text = 1..Len(source.text)
      BY <3>1
    <3> QED
      BY <2>1, <3>1, <3>2
  <2>3. hits[k].rule.id \in STRING /\ hits[k].rule.severity \in STRING /\ hits[k].rule.cwe \in STRING
    <3>1. PICK r \in DOMAIN Rules : hits[k].rule = Rules[r]
      BY <2>1
    <3>2. Rules[r] \in [id: STRING, severity: STRING, cwe: STRING, languages: SUBSET STRING,
                        require_all: BOOLEAN, match_mode: STRING, patterns: Seq(STRING)]
      BY RulesAssumption, ElementOfSeq, LenProperties, Zenon
    <3> QED
      BY <3>1, <3>2
  <2>4. "heuristic" \in {"heuristic"}
    BY Zenon
  <2>6. "MEDIUM" \in Confidence
    BY DEF Confidence
  <2>5. {} \in SUBSET STRING
    BY Zenon
  <2> QED
    BY <2>2, <2>3, <2>4, <2>5, <2>6, RecordOfReport, Zenon DEF HeuristicFinding
<1> DEFINE f == [k \in DOMAIN hits |-> HeuristicFinding(hits[k])]
<1>4. f \in Seq(ReportOf({"heuristic"}))
  BY <1>2, <1>3
<1>5. Len(f) = n /\ Len(hits) = n
  BY <1>2
<1>6. f \in Found(source, "heuristic")
  <2> HIDE DEF f
  <2> QED
    BY <1>1, <1>4, <1>5 DEF Found
<1> QED
  BY <1>1, <1>6

\* The positions of what list has of tool t and a severity.
At(list, t, severity) == {k \in DOMAIN list : list[k].tool = t /\ list[k].severity = severity}

\* A map in order from the findings of a tool and severity in one list to those in another.
InOrder(m, old, new, t, severity) ==
    /\ m \in [At(old, t, severity) -> At(new, t, severity)]
    /\ \A b \in At(new, t, severity) : \E a \in At(old, t, severity) : m[a] = b
    /\ \A i, j \in At(old, t, severity) : i < j => m[i] < m[j]
    /\ \A k \in At(old, t, severity) : new[m[k]].line = old[k].line

LEMMA SameLines ==
    ASSUME NEW n \in Nat, NEW old, DOMAIN old = 1..n, NEW p \in Nat, NEW new, DOMAIN new = 1..p,
           NEW t, NEW severity, NEW m, InOrder(m, old, new, t, severity)
    PROVE  LinesOfTool(old, t, severity) = LinesOfTool(new, t, severity)
<1>1. PICK A : A = At(old, t, severity)
  OBVIOUS
<1>2. PICK B : B = At(new, t, severity)
  OBVIOUS
<1>3. A \in SUBSET Int /\ IsFiniteSet(A)
  <2>1. A \in SUBSET (1..n)
    BY <1>1 DEF At
  <2> QED
    BY <2>1, FiniteNumbers
<1>4. B \in SUBSET Int /\ IsFiniteSet(B)
  <2>1. B \in SUBSET (1..p)
    BY <1>2 DEF At
  <2> QED
    BY <2>1, FiniteNumbers
<1>5. PICK f : f = Ascending(A)
  OBVIOUS
<1>6. PICK g : g = Ascending(B)
  OBVIOUS
<1>7. CountsOff(f, A) /\ CountsOff(g, B)
  BY <1>3, <1>4, <1>5, <1>6, AscendingSet
<1>8. /\ m \in [A -> B]
      /\ \A b \in B : \E a \in A : m[a] = b
      /\ \A i, j \in A : i < j => m[i] < m[j]
      /\ \A k \in A : new[m[k]].line = old[k].line
  BY <1>1, <1>2 DEF InOrder
<1>9. Cardinality(A) = Cardinality(B) /\ \A k \in 1..Cardinality(A) : g[k] = m[f[k]]
  BY <1>3, <1>4, <1>5, <1>6, <1>8, SameOrder, SMTT(30)
<1>10. /\ LinesOfTool(old, t, severity) = [k \in DOMAIN f |-> old[f[k]].line]
       /\ LinesOfTool(new, t, severity) = [k \in DOMAIN g |-> new[g[k]].line]
  BY <1>1, <1>2, <1>5, <1>6 DEF LinesOfTool, At
<1>11. DOMAIN f = 1..Cardinality(A) /\ DOMAIN g = 1..Cardinality(A)
  BY <1>7, <1>9 DEF CountsOff
<1>12. \A k \in 1..Cardinality(A) : old[f[k]].line = new[g[k]].line
  BY <1>7, <1>8, <1>9 DEF CountsOff
<1> QED
  BY <1>10, <1>11, <1>12

\* new has the findings of old in the order that `order` gives them.
Reordered(order, old, new) ==
    /\ order \in [DOMAIN old -> DOMAIN old]
    /\ \A i \in DOMAIN old : \E k \in DOMAIN old : order[k] = i
    /\ new = [k \in DOMAIN old |-> old[order[k]]]
    /\ \A k, l \in DOMAIN old :
          k < l /\ old[order[k]].severity = old[order[l]].severity => order[k] < order[l]

LEMMA RankType == ASSUME NEW severity PROVE SeverityRank(severity) \in Int
BY DEF SeverityRank

\* A sort by severity is stable.
LEMMA BySeverityReorders ==
    ASSUME NEW n \in Nat, NEW list, DOMAIN list = 1..n
    PROVE  \E order : Reordered(order, list, BySeverity(list))
<1> DEFINE key == [i \in DOMAIN list |-> <<SeverityRank(list[i].severity), i>>]
<1>1. PICK order : order = SortedBy(DOMAIN list, key)
  OBVIOUS
<1>2. IsFiniteSet(1..n) /\ Cardinality(1..n) = n
  BY AscendingInterval
<1>3. \A i \in 1..n : key[i] \in [1..2 -> Int]
  BY RankType, KeysOfNumbers
<1>4. \A i, j \in 1..n : key[i] = key[j] => i = j
  OBVIOUS
<1>5. ASSUME NEW i \in 1..n, NEW j \in 1..n, Precedes(key[i], key[j]),
             list[i].severity = list[j].severity
      PROVE  i < j
  <2>1. PICK a \in Int : a = SeverityRank(list[i].severity)
    BY RankType
  <2>2. key[i] = <<a, i>> /\ key[j] = <<a, j>>
    BY <1>5, <2>1
  <2> HIDE DEF key
  <2>3. Precedes(<<a, i>>, <<a, j>>)
    BY <1>5, <2>2
  <2> QED
    BY <2>3, PrecedesTwo
<1>6. BySeverity(list) = [k \in DOMAIN order |-> list[order[k]]]
  BY <1>1 DEF BySeverity
<1> HIDE DEF key
<1>7. Sorts(order, 1..n, key)
  <2>1. PICK S : S = 1..n
    OBVIOUS
  <2>2. 2 \in Nat
    OBVIOUS
  <2>3. IsFiniteSet(S) /\ order = SortedBy(S, key)
    BY <1>1, <1>2, <2>1
  <2>4. (\A i \in S : key[i] \in [1..2 -> Int]) /\ \A i, j \in S : key[i] = key[j] => i = j
    BY <1>3, <1>4, <2>1
  <2>5. Sorts(order, S, key)
    BY <2>2, <2>3, <2>4, Sorted, Zenon
  <2> QED
    BY <2>1, <2>5
<1>8. /\ order \in [1..n -> 1..n]
      /\ \A i \in 1..n : \E k \in 1..n : order[k] = i
      /\ \A k, l \in 1..n : k < l => Precedes(key[order[k]], key[order[l]])
  BY <1>2, <1>7 DEF Sorts
<1>9. \A k, l \in 1..n : k < l /\ list[order[k]].severity = list[order[l]].severity => order[k] < order[l]
  BY <1>5, <1>8
<1>10. DOMAIN order = 1..n
  BY <1>8
<1> QED
  BY <1>6, <1>8, <1>9, <1>10 DEF Reordered

LEMMA ReorderedLines ==
    ASSUME NEW n \in Nat, NEW old, DOMAIN old = 1..n, NEW order, NEW new,
           Reordered(order, old, new), NEW t, NEW severity
    PROVE  LinesOfTool(new, t, severity) = LinesOfTool(old, t, severity)
<1> DEFINE m == [k \in At(new, t, severity) |-> order[k]]
<1>1. DOMAIN new = 1..n /\ \A k \in 1..n : new[k] = old[order[k]] /\ order[k] \in 1..n
  BY DEF Reordered
<1>2. m \in [At(new, t, severity) -> At(old, t, severity)]
  BY <1>1 DEF At
<1>3. ASSUME NEW b \in At(old, t, severity) PROVE \E a \in At(new, t, severity) : m[a] = b
  <2>1. PICK k \in 1..n : order[k] = b
    BY DEF Reordered, At
  <2>2. k \in At(new, t, severity)
    BY <1>1, <2>1 DEF At
  <2> QED
    BY <2>1, <2>2
<1>4. ASSUME NEW i \in At(new, t, severity), NEW j \in At(new, t, severity), i < j
      PROVE  m[i] < m[j]
  <2>1. i \in 1..n /\ j \in 1..n /\ old[order[i]].severity = old[order[j]].severity
    BY <1>1 DEF At
  <2> QED
    BY <1>4, <2>1 DEF Reordered
<1>5. \A k \in At(new, t, severity) : old[m[k]].line = new[k].line
  BY <1>1 DEF At
<1> HIDE DEF m
<1>6. InOrder(m, new, old, t, severity)
  BY <1>2, <1>3, <1>4, <1>5 DEF InOrder
<1> QED
  BY <1>1, <1>6, SameLines

\* old is a piece of new that has all of a tool's findings.
Piece(old, n, new, p, off, t) ==
    /\ DOMAIN old = 1..n /\ DOMAIN new = 1..p /\ off + n <= p
    /\ \A k \in 1..n : new[off + k] = old[k]
    /\ \A i \in 1..p : new[i].tool = t => off < i /\ i <= off + n

LEMMA PieceLines ==
    ASSUME NEW n \in Nat, NEW old, NEW p \in Nat, NEW new, NEW off \in Nat, NEW t,
           Piece(old, n, new, p, off, t), NEW severity
    PROVE  LinesOfTool(old, t, severity) = LinesOfTool(new, t, severity)
<1>a. /\ DOMAIN old = 1..n /\ DOMAIN new = 1..p /\ off + n <= p
      /\ \A k \in 1..n : new[off + k] = old[k]
      /\ \A i \in 1..p : new[i].tool = t => off < i /\ i <= off + n
  BY DEF Piece
<1> DEFINE m == [k \in At(old, t, severity) |-> off + k]
<1>1. At(old, t, severity) \in SUBSET (1..n) /\ At(new, t, severity) \in SUBSET (1..p)
  BY <1>a DEF At
<1>2. m \in [At(old, t, severity) -> At(new, t, severity)]
  <2> SUFFICES ASSUME NEW k \in At(old, t, severity) PROVE off + k \in At(new, t, severity)
    OBVIOUS
  <2>1. k \in 1..n /\ new[off + k] = old[k] /\ off + k \in 1..p
    BY <1>1, <1>a
  <2> QED
    BY <1>a, <2>1 DEF At
<1>3. ASSUME NEW b \in At(new, t, severity) PROVE \E a \in At(old, t, severity) : m[a] = b
  <2>1. b \in 1..p /\ new[b].tool = t
    BY <1>a DEF At
  <2>2. PICK k \in 1..n : k = b - off
    BY <1>a, <2>1
  <2>3. b = off + k /\ new[b] = old[k]
    BY <1>a, <2>1, <2>2
  <2>4. k \in At(old, t, severity)
    BY <1>a, <2>3 DEF At
  <2> QED
    BY <2>3, <2>4
<1>4. \A i, j \in At(old, t, severity) : i < j => m[i] < m[j]
  BY <1>1
<1>5. \A k \in At(old, t, severity) : new[m[k]].line = old[k].line
  BY <1>1, <1>a
<1> HIDE DEF m
<1>6. InOrder(m, old, new, t, severity)
  BY <1>2, <1>3, <1>4, <1>5 DEF InOrder
<1> QED
  BY <1>6, <1>a, SameLines

LEMMA SeqOfMore == ASSUME NEW S, NEW T, S \subseteq T, NEW s \in Seq(S) PROVE s \in Seq(T)
OBVIOUS

LEMMA ReportOfMore ==
    ASSUME NEW T, NEW U, T \subseteq U
    PROVE  ReportOf(T) \subseteq ReportOf(U) /\ Seq(ReportOf(T)) \subseteq Seq(ReportOf(U))
<1>1. ReportOf(T) \subseteq ReportOf(U)
  BY DEF ReportOf
<1> QED
  BY <1>1, SeqOfMore

LEMMA ToolOf ==
    ASSUME NEW T, NEW s \in Seq(ReportOf(T)), NEW i \in 1..Len(s)
    PROVE  s[i] \in ReportOf(T) /\ s[i].tool \in T
<1>1. s[i] \in ReportOf(T)
  OBVIOUS
<1> QED
  BY <1>1 DEF ReportOf

LEMMA ConcatenatedLines ==
    ASSUME NEW a \in Seq(ReportOf({"bandit"})), NEW b \in Seq(ReportOf({"semgrep"})),
           NEW c \in Seq(ReportOf({"heuristic"})), NEW severity
    PROVE  /\ a \o b \o c \in Seq(ReportOf(Tool))
           /\ Len(a \o b \o c) = Len(a) + Len(b) + Len(c)
           /\ LinesOfTool(a, "bandit", severity) = LinesOfTool(a \o b \o c, "bandit", severity)
           /\ LinesOfTool(b, "semgrep", severity) = LinesOfTool(a \o b \o c, "semgrep", severity)
           /\ LinesOfTool(c, "heuristic", severity) = LinesOfTool(a \o b \o c, "heuristic", severity)
<1> DEFINE R == ReportOf(Tool)
<1>1. a \in Seq(R) /\ b \in Seq(R) /\ c \in Seq(R)
  <2>1. {"bandit"} \subseteq Tool /\ {"semgrep"} \subseteq Tool /\ {"heuristic"} \subseteq Tool
    BY DEF Tool
  <2> QED
    BY <2>1, ReportOfMore
<1>2. PICK x \in Nat : x = Len(a) /\ DOMAIN a = 1..x
  OBVIOUS
<1>3. PICK y \in Nat : y = Len(b) /\ DOMAIN b = 1..y
  OBVIOUS
<1>4. PICK z \in Nat : z = Len(c) /\ DOMAIN c = 1..z
  OBVIOUS
<1>5. /\ \A i \in 1..x : a[i].tool = "bandit"
      /\ \A i \in 1..y : b[i].tool = "semgrep"
      /\ \A i \in 1..z : c[i].tool = "heuristic"
  <2>1. ASSUME NEW i \in 1..Len(a) PROVE a[i].tool = "bandit"
    BY ToolOf
  <2>2. ASSUME NEW i \in 1..Len(b) PROVE b[i].tool = "semgrep"
    BY ToolOf
  <2>3. ASSUME NEW i \in 1..Len(c) PROVE c[i].tool = "heuristic"
    BY ToolOf
  <2> QED
    BY <1>2, <1>3, <1>4, <2>1, <2>2, <2>3
<1> HIDE DEF R
<1>6. /\ a \o b \in Seq(R) /\ Len(a \o b) = x + y
      /\ \A i \in 1..(x + y) : (a \o b)[i] = IF i <= x THEN a[i] ELSE b[i - x]
  BY <1>1, <1>2, <1>3, ConcatProperties
<1>7. PICK d \in Seq(R) : d = a \o b
  BY <1>6
<1>w. PICK w \in Nat : w = x + y
  OBVIOUS
<1>v. d \in Seq(R) /\ Len(d) = w
  BY <1>6, <1>7, <1>w
<1>u. /\ d \o c \in Seq(R) /\ Len(d \o c) = w + z
      /\ \A i \in 1..(w + z) : (d \o c)[i] = IF i <= w THEN d[i] ELSE c[i - w]
  BY <1>1, <1>4, <1>v, ConcatProperties
<1>8. /\ d \o c \in Seq(R) /\ Len(d \o c) = (x + y) + z
      /\ \A i \in 1..((x + y) + z) : (d \o c)[i] = IF i <= x + y THEN d[i] ELSE c[i - (x + y)]
  BY <1>u, <1>w
<1>9. PICK l \in Seq(R) : l = a \o b \o c
  BY <1>7, <1>8
<1>10. DOMAIN l = 1..(x + y + z)
  BY <1>7, <1>8, <1>9
<1>11. \A i \in 1..x : l[i] = a[i]
  BY <1>6, <1>7, <1>8, <1>9
<1>12. \A i \in 1..y : l[x + i] = b[i]
  BY <1>6, <1>7, <1>8, <1>9
<1>13. \A i \in 1..z : l[(x + y) + i] = c[i]
  BY <1>6, <1>7, <1>8, <1>9
<1>14. ASSUME NEW i \in 1..(x + y + z)
       PROVE  /\ i <= x => l[i].tool = "bandit"
              /\ x < i /\ i <= x + y => l[i].tool = "semgrep"
              /\ x + y < i => l[i].tool = "heuristic"
  <2>1. ASSUME i <= x PROVE l[i].tool = "bandit"
    <3>1. i \in 1..x
      BY <2>1
    <3> QED
      BY <1>5, <1>11, <3>1
  <2>2. ASSUME x < i, i <= x + y PROVE l[i].tool = "semgrep"
    <3>1. PICK k \in 1..y : i = x + k
      <4>1. i - x \in 1..y /\ i = x + (i - x)
        BY <2>2
      <4> QED
        BY <4>1
    <3> QED
      BY <1>5, <1>12, <3>1
  <2>3. ASSUME x + y < i PROVE l[i].tool = "heuristic"
    <3>1. PICK k \in 1..z : i = (x + y) + k
      <4>1. i - (x + y) \in 1..z /\ i = (x + y) + (i - (x + y))
        BY <2>3
      <4> QED
        BY <4>1
    <3> QED
      BY <1>5, <1>13, <3>1
  <2> QED
    BY <2>1, <2>2, <2>3
<1>15. PICK q \in Nat, o \in Nat : q = x + y + z /\ o = 0
  OBVIOUS
<1>a. DOMAIN l = 1..q /\ o + x <= q /\ x + y <= q /\ w + z <= q
  BY <1>10, <1>15, <1>w
<1>b. LinesOfTool(a, "bandit", severity) = LinesOfTool(l, "bandit", severity)
  <2>1. ASSUME NEW i \in 1..q, l[i].tool = "bandit" PROVE o < i /\ i <= o + x
    <3>1. ~(x < i /\ i <= x + y) /\ ~(x + y < i)
      BY <1>14, <1>15, <2>1
    <3> QED
      BY <1>15, <3>1
  <2>2. \A k \in 1..x : o + k = k
    BY <1>15
  <2>3. Piece(a, x, l, q, o, "bandit")
    BY <1>2, <1>11, <1>a, <2>1, <2>2 DEF Piece
  <2> QED
    BY <2>3, PieceLines
<1>16. LinesOfTool(b, "semgrep", severity) = LinesOfTool(l, "semgrep", severity)
  <2>1. ASSUME NEW i \in 1..q, l[i].tool = "semgrep" PROVE x < i /\ i <= x + y
    <3>1. ~(i <= x) /\ ~(x + y < i)
      BY <1>14, <1>15, <2>1
    <3> QED
      BY <3>1
  <2>2. Piece(b, y, l, q, x, "semgrep")
    BY <1>3, <1>12, <1>a, <2>1 DEF Piece
  <2> QED
    BY <2>2, PieceLines
<1>17. LinesOfTool(c, "heuristic", severity) = LinesOfTool(l, "heuristic", severity)
  <2>1. ASSUME NEW i \in 1..q, l[i].tool = "heuristic" PROVE w < i /\ i <= w + z
    <3>1. ~(i <= x) /\ ~(x < i /\ i <= x + y)
      BY <1>14, <1>15, <2>1
    <3> QED
      BY <1>15, <1>w, <3>1
  <2>2. \A k \in 1..z : l[w + k] = c[k]
    BY <1>13, <1>w
  <2>3. Piece(c, z, l, q, w, "heuristic")
    BY <1>4, <1>a, <2>1, <2>2 DEF Piece
  <2> QED
    BY <2>3, PieceLines
<1> QED
  BY <1>2, <1>3, <1>4, <1>7, <1>8, <1>9, <1>b, <1>16, <1>17 DEF R

-----------------------------------------------------------------------------
(* Duplicates                                                              *)

\* The leader of report i, if g has those of the reports before.
Lead(rs, g, i) ==
    LET open == {j \in 1..(i - 1) : /\ g[j] = j
                                    /\ rs[j].rule = rs[i].rule
                                    /\ Similar(rs[j].code, rs[i].code)}
    IN  IF open = {} THEN i ELSE Min(open)

\* Each report has its leader in g.
LedBy(rs, g, n) == DOMAIN g = 1..n /\ \A i \in 1..n : g[i] = Lead(rs, g, i)

LEMMA LeadOfThoseBefore ==
    ASSUME NEW rs, NEW i \in Nat, NEW g, NEW h, \A j \in 1..(i - 1) : g[j] = h[j]
    PROVE  Lead(rs, g, i) = Lead(rs, h, i)
<1> DEFINE Open(x) == {j \in 1..(i - 1) : /\ x[j] = j
                                          /\ rs[j].rule = rs[i].rule
                                          /\ Similar(rs[j].code, rs[i].code)}
<1>1. Open(g) = Open(h)
  OBVIOUS
<1>2. Lead(rs, g, i) = (IF Open(g) = {} THEN i ELSE Min(Open(g)))
  BY DEF Lead
<1>3. Lead(rs, h, i) = (IF Open(h) = {} THEN i ELSE Min(Open(h)))
  BY DEF Lead
<1> HIDE DEF Open
<1> QED
  BY <1>1, <1>2, <1>3

\* However many reports there are, their leaders can be found one after the other.
LEMMA LeadersExist == ASSUME NEW rs, NEW m \in Nat PROVE \E g : LedBy(rs, g, m)
<1> DEFINE Bad == {n \in Nat : ~ \E g : LedBy(rs, g, n)}
<1>1. SUFFICES ASSUME Bad # {} PROVE FALSE
  OBVIOUS
<1>2. PICK n \in Bad : \A k \in Bad : n <= k
  <2>1. Bad \in SUBSET Nat
    OBVIOUS
  <2> HIDE DEF Bad
  <2> QED
    BY <1>1, <2>1, LeastNatural
<1>3. n # 0
  <2>1. LedBy(rs, <<>>, 0)
    BY DEF LedBy
  <2> QED
    BY <2>1
<1>4. PICK g : LedBy(rs, g, n - 1)
  <2>1. n - 1 \in Nat /\ ~(n <= n - 1)
    BY <1>3
  <2> QED
    BY <1>2, <2>1
<1> DEFINE h == [i \in 1..n |-> IF i = n THEN Lead(rs, g, n) ELSE g[i]]
<1>5. \A i \in 1..(n - 1) : h[i] = g[i]
  OBVIOUS
<1>6. h[n] = Lead(rs, g, n)
  BY <1>3
<1>7. DOMAIN h = 1..n
  OBVIOUS
<1> HIDE DEF h
<1>8. ASSUME NEW i \in 1..n PROVE h[i] = Lead(rs, h, i)
  <2>1. \A j \in 1..(i - 1) : h[j] = g[j]
    BY <1>5
  <2>2. Lead(rs, h, i) = Lead(rs, g, i)
    BY <2>1, LeadOfThoseBefore
  <2>3. i # n => i \in 1..(n - 1)
    OBVIOUS
  <2> QED
    BY <1>4, <1>5, <1>6, <2>2, <2>3 DEF LedBy
<1>9. LedBy(rs, h, n)
  BY <1>7, <1>8 DEF LedBy
<1> QED
  BY <1>9

LEMMA LeadersLead ==
    ASSUME NEW n \in Nat, NEW rs, DOMAIN rs = 1..n
    PROVE  LedBy(rs, Leaders(rs), n)
<1>1. PICK g : LedBy(rs, g, n)
  BY LeadersExist
<1>2. PICK h : h = [i \in 1..n |-> g[i]]
  OBVIOUS
<1>3. h = [i \in 1..n |-> Lead(rs, h, i)]
  <2>1. \A i \in 1..n : Lead(rs, h, i) = Lead(rs, g, i)
    <3> SUFFICES ASSUME NEW i \in 1..n PROVE Lead(rs, h, i) = Lead(rs, g, i)
      OBVIOUS
    <3>1. \A j \in 1..(i - 1) : h[j] = g[j]
      BY <1>2
    <3> QED
      BY <3>1, LeadOfThoseBefore
  <2> QED
    BY <1>1, <1>2, <2>1 DEF LedBy
<1>4. Leaders(rs) = CHOOSE x : x = [i \in 1..n |-> Lead(rs, x, i)]
  BY DEF Leaders, Lead
<1>5. Leaders(rs) = [i \in 1..n |-> Lead(rs, Leaders(rs), i)]
  BY <1>3, <1>4, Zenon
<1> QED
  BY <1>5 DEF LedBy

LEMMA LeastOf ==
    ASSUME NEW S \in SUBSET Nat, S # {}
    PROVE  Min(S) \in S /\ \A x \in S : Min(S) <= x
<1>1. PICK n \in S : \A m \in S : n <= m
  BY LeastNatural
<1> QED
  BY <1>1 DEF Min

\* Each report belongs to a leader that belongs to itself and has the same rule.
LEMMA LeaderOf ==
    ASSUME NEW n \in Nat, NEW rs, DOMAIN rs = 1..n, NEW i \in 1..n
    PROVE  /\ Leaders(rs)[i] \in 1..n
           /\ Leaders(rs)[Leaders(rs)[i]] = Leaders(rs)[i]
           /\ rs[Leaders(rs)[i]].rule = rs[i].rule
<1>1. PICK g : g = Leaders(rs)
  OBVIOUS
<1>2. \A k \in 1..n : g[k] = Lead(rs, g, k)
  BY <1>1, LeadersLead DEF LedBy
<1>3. PICK open : open = {j \in 1..(i - 1) : /\ g[j] = j
                                             /\ rs[j].rule = rs[i].rule
                                             /\ Similar(rs[j].code, rs[i].code)}
  OBVIOUS
<1>4. g[i] = IF open = {} THEN i ELSE Min(open)
  BY <1>2, <1>3 DEF Lead
<1>5. CASE open = {}
  BY <1>1, <1>4, <1>5
<1>6. CASE open # {}
  <2>1. open \in SUBSET Nat
    BY <1>3
  <2>2. g[i] \in open
    BY <1>4, <1>6, <2>1, LeastOf
  <2> QED
    BY <1>1, <1>3, <2>2
<1> QED
  BY <1>5, <1>6

LEMMA RepresentativeOf ==
    ASSUME NEW n \in Nat, NEW rs, DOMAIN rs = 1..n, NEW i \in 1..n
    PROVE  /\ Representative(rs, i) \in 1..n
           /\ Leaders(rs)[Representative(rs, i)] = Leaders(rs)[i]
           /\ \A j \in 1..n : Leaders(rs)[j] = Leaders(rs)[i] =>
                 SeverityRank(rs[Representative(rs, i)].severity) <= SeverityRank(rs[j].severity)
<1> DEFINE key == [j \in DOMAIN rs |-> <<SeverityRank(rs[j].severity), j>>]
<1>1. PICK g : g = Leaders(rs)
  OBVIOUS
<1>2. PICK C : C = {j \in 1..n : g[j] = g[i]}
  OBVIOUS
<1>3. C = ClusterOf(rs, i)
  BY <1>1, <1>2 DEF ClusterOf
<1>4. C \in SUBSET (1..n) /\ IsFiniteSet(C) /\ i \in C
  BY <1>2, FiniteNumbers
<1>5. \A j \in C : key[j] \in [1..2 -> Int]
  BY <1>4, RankType, KeysOfNumbers
<1>6. \A j, k \in C : key[j] = key[k] => j = k
  BY <1>4
<1>7. ASSUME NEW j \in C, NEW k \in C, Precedes(key[j], key[k])
      PROVE  SeverityRank(rs[j].severity) <= SeverityRank(rs[k].severity)
  <2>1. PICK a \in Int, b \in Int : a = SeverityRank(rs[j].severity) /\ b = SeverityRank(rs[k].severity)
    BY RankType
  <2>2. key[j] = <<a, j>> /\ key[k] = <<b, k>> /\ j \in Int /\ k \in Int
    BY <1>4, <2>1
  <2> HIDE DEF key
  <2>3. Precedes(<<a, j>>, <<b, k>>)
    BY <1>7, <2>2
  <2>4. a < b \/ a = b
    BY <2>2, <2>3, PrecedesTwo
  <2> QED
    BY <2>1, <2>4
<1>8. PICK order : order = SortedBy(C, key)
  OBVIOUS
<1>9. Representative(rs, i) = order[1]
  BY <1>3, <1>8 DEF Representative
<1> HIDE DEF key
<1>10. Sorts(order, C, key)
  <2>1. 2 \in Nat
    OBVIOUS
  <2> QED
    BY <1>4, <1>5, <1>6, <1>8, <2>1, Sorted, Zenon
<1>11. Cardinality(C) \in Nat /\ 1 \in 1..Cardinality(C)
  <2>1. Cardinality(C) \in Nat /\ (Cardinality(C) = 0 <=> C = {})
    BY <1>4, FS_EmptySet, FS_CardinalityType
  <2> QED
    BY <1>4, <2>1
<1>12. order[1] \in C
  BY <1>10, <1>11 DEF Sorts
<1>13. ASSUME NEW j \in C
       PROVE  SeverityRank(rs[order[1]].severity) <= SeverityRank(rs[j].severity)
  <2>1. PICK k \in 1..Cardinality(C) : order[k] = j
    BY <1>10 DEF Sorts
  <2>2. CASE k = 1
    <3>1. PICK a \in Int : a = SeverityRank(rs[j].severity)
      BY RankType
    <3> QED
      BY <2>1, <2>2, <3>1
  <2>3. CASE 1 < k
    <3>1. Precedes(key[order[1]], key[j])
      BY <1>10, <1>11, <2>1, <2>3 DEF Sorts
    <3> QED
      BY <1>7, <1>12, <3>1
  <2> QED
    BY <1>11, <2>2, <2>3
<1> QED
  BY <1>1, <1>2, <1>9, <1>12, <1>13

\* Those who stand for a cluster, in some order of the leaders.
Stand(order, m, rs) ==
    /\ DOMAIN order = 1..m
    /\ \A k \in 1..m : order[k] \in DOMAIN rs /\ Leaders(rs)[order[k]] = order[k]
    /\ \A i \in DOMAIN rs : \E k \in 1..m : order[k] = Leaders(rs)[i]
    /\ \A k, l \in 1..m : order[k] = order[l] => k = l
    /\ Representatives(rs) = [k \in 1..m |-> Representative(rs, order[k])]

LEMMA RepresentativesStand ==
    ASSUME NEW n \in Nat, NEW rs, DOMAIN rs = 1..n
    PROVE  \E m \in Nat : \E order : Stand(order, m, rs)
<1> DEFINE same(i) == {j \in DOMAIN rs : rs[j].rule = rs[i].rule}
           key == [i \in DOMAIN rs |-> <<Min(same(i)), i>>]
<1>1. PICK g : g = Leaders(rs)
  OBVIOUS
<1>2. PICK L : L = {g[i] : i \in 1..n}
  OBVIOUS
<1>3. \A i \in 1..n : g[i] \in 1..n /\ g[g[i]] = g[i]
  BY <1>1, LeaderOf
<1>4. L \in SUBSET (1..n) /\ IsFiniteSet(L) /\ \A l \in L : g[l] = l
  BY <1>2, <1>3, FiniteNumbers
<1>5. \A i \in L : key[i] \in [1..2 -> Int]
  <2> SUFFICES ASSUME NEW i \in L PROVE key[i] \in [1..2 -> Int]
    OBVIOUS
  <2>1. same(i) \in SUBSET Nat /\ same(i) # {}
    BY <1>4
  <2>2. i \in Int /\ i \in DOMAIN rs
    BY <1>4
  <2> HIDE DEF same
  <2>3. Min(same(i)) \in Int
    BY <2>1, LeastOf
  <2> QED
    BY <2>2, <2>3, KeysOfNumbers
<1>6. \A i, j \in L : key[i] = key[j] => i = j
  <2> HIDE DEF same
  <2> QED
    BY <1>4
<1>7. PICK order : order = SortedBy(L, key)
  OBVIOUS
<1>8. Representatives(rs) = [k \in DOMAIN order |-> Representative(rs, order[k])]
  <2>1. L = {g[i] : i \in DOMAIN rs}
    BY <1>2
  <2> QED
    BY <1>1, <1>7, <2>1 DEF Representatives
<1> HIDE DEF key
<1>9. Sorts(order, L, key)
  <2>1. 2 \in Nat
    OBVIOUS
  <2> QED
    BY <1>4, <1>5, <1>6, <1>7, <2>1, Sorted, Zenon
<1>10. PICK m \in Nat : m = Cardinality(L)
  BY <1>9 DEF Sorts
<1>11. DOMAIN order = 1..m /\ \A k \in 1..m : order[k] \in L
  BY <1>9, <1>10 DEF Sorts
<1>12. \A i \in L : \E k \in 1..m : order[k] = i
  BY <1>9, <1>10 DEF Sorts
<1>13. ASSUME NEW k \in 1..m, NEW l \in 1..m, order[k] = order[l] PROVE k = l
  <2>1. PICK c : c = Cardinality(Before(L, key, order[k]))
    OBVIOUS
  <2>2. c = k - 1
    BY <1>9, <1>10, <1>11, <2>1 DEF Sorts
  <2>3. c = l - 1
    BY <1>9, <1>10, <1>11, <1>13, <2>1 DEF Sorts
  <2> QED
    BY <2>2, <2>3
<1>14. \A i \in 1..n : g[i] \in L
  BY <1>2
<1>15. Stand(order, m, rs)
  BY <1>1, <1>4, <1>8, <1>11, <1>12, <1>13, <1>14 DEF Stand
<1> QED
  BY <1>15

LEMMA RepresentativesTypes ==
    ASSUME NEW n \in Nat, NEW rs, DOMAIN rs = 1..n
    PROVE  /\ Representatives(rs) \in Seq(1..n)
           /\ Representatives(rs) = <<>> <=> n = 0
<1>0. PICK m \in Nat : \E order : Stand(order, m, rs)
  BY RepresentativesStand
<1>1. PICK order : Stand(order, m, rs)
  BY <1>0
<1>2. Representatives(rs) = [k \in 1..m |-> Representative(rs, order[k])]
  BY <1>1 DEF Stand
<1>3. \A k \in 1..m : Representative(rs, order[k]) \in 1..n
  BY <1>1, RepresentativeOf DEF Stand
<1>4. Representatives(rs) \in Seq(1..n)
  BY <1>2, <1>3
<1>5. m = 0 <=> n = 0
  <2>1. ASSUME m = 0, n # 0 PROVE FALSE
    <3>1. 1 \in DOMAIN rs
      BY <2>1
    <3>2. PICK k \in 1..m : order[k] = Leaders(rs)[1]
      BY <1>1, <3>1 DEF Stand
    <3> QED
      BY <2>1, <3>2
  <2>2. ASSUME n = 0, m # 0 PROVE FALSE
    <3>1. 1 \in 1..m
      BY <2>2
    <3>2. order[1] \in DOMAIN rs
      BY <1>1, <3>1 DEF Stand
    <3> QED
      BY <2>2, <3>2
  <2> QED
    BY <2>1, <2>2
<1>6. Representatives(rs) = <<>> <=> m = 0
  BY <1>2
<1> QED
  BY <1>4, <1>5, <1>6

LEMMA GroupIsLeader ==
    ASSUME NEW n \in Nat, NEW rs, DOMAIN rs = 1..n, NEW ids,
           \A i, j \in DOMAIN rs : ids[i] = ids[j] => i = j, NEW i \in 1..n
    PROVE  GroupMap(rs, ids)[i] = Leaders(rs)[i]
<1>1. PICK g : g = Leaders(rs)
  OBVIOUS
<1>2. g[i] \in 1..n
  BY <1>1, LeaderOf
<1>3. {k \in DOMAIN rs : ids[k] = ids[i]} = {i}
  OBVIOUS
<1>4. {g[j] : j \in {k \in DOMAIN rs : ids[k] = ids[i]}} = {g[i]}
  BY <1>3
<1>5. GroupMap(rs, ids)[i] = Max({g[j] : j \in {k \in DOMAIN rs : ids[k] = ids[i]}})
  BY <1>1 DEF GroupMap
<1>6. \A x \in Int : Max({x}) = x
  BY DEF Max
<1> QED
  BY <1>1, <1>2, <1>4, <1>5, <1>6

\* Of the representatives exactly one is in the cluster of a report.
LEMMA OneStands ==
    ASSUME NEW n \in Nat, NEW rs, DOMAIN rs = 1..n, NEW ids,
           \A i, j \in DOMAIN rs : ids[i] = ids[j] => i = j, NEW i \in 1..n
    PROVE  \E t \in ToSet(Representatives(rs)) :
              /\ {u \in ToSet(Representatives(rs)) : GroupMap(rs, ids)[u] = GroupMap(rs, ids)[i]} = {t}
              /\ rs[t].rule = rs[i].rule
              /\ SeverityRank(rs[t].severity) <= SeverityRank(rs[i].severity)
<1>0. PICK m \in Nat : \E order : Stand(order, m, rs)
  BY RepresentativesStand
<1>1. PICK order : Stand(order, m, rs)
  BY <1>0
<1>2. PICK g : g = Leaders(rs)
  OBVIOUS
<1>3. \A k \in 1..n : g[k] \in 1..n /\ g[g[k]] = g[k] /\ rs[g[k]].rule = rs[k].rule
  BY <1>2, LeaderOf
<1>4. PICK k \in 1..m : order[k] = g[i]
  BY <1>1, <1>2 DEF Stand
<1>5. PICK t : t = Representative(rs, order[k])
  OBVIOUS
<1>6. t \in 1..n /\ g[t] = g[i]
  <2>1. order[k] \in 1..n /\ g[order[k]] = g[i]
    BY <1>3, <1>4
  <2>2. t \in 1..n /\ g[t] = g[order[k]]
    BY <1>2, <1>5, <2>1, RepresentativeOf
  <2> QED
    BY <2>1, <2>2
<1>7. SeverityRank(rs[t].severity) <= SeverityRank(rs[i].severity)
  <2>1. order[k] \in 1..n /\ Leaders(rs)[i] = Leaders(rs)[order[k]]
    BY <1>2, <1>3, <1>4
  <2>2. \A j \in 1..n : Leaders(rs)[j] = Leaders(rs)[order[k]] =>
           SeverityRank(rs[t].severity) <= SeverityRank(rs[j].severity)
    BY <1>5, <2>1, RepresentativeOf
  <2> QED
    BY <2>1, <2>2
<1>8. rs[t].rule = rs[i].rule
  BY <1>3, <1>6
<1>9. PICK T : T = ToSet(Representatives(rs))
  OBVIOUS
<1>10. PICK R : /\ R = Representatives(rs) /\ DOMAIN R = 1..m
                /\ \A l \in 1..m : R[l] = Representative(rs, order[l])
  BY <1>1, SMTT(30) DEF Stand
<1>a. T = {R[l] : l \in 1..m}
  BY <1>9, <1>10 DEF ToSet
<1>b. /\ \A l \in 1..m : order[l] \in 1..n /\ g[order[l]] = order[l]
      /\ \A j, l \in 1..m : order[j] = order[l] => j = l
  BY <1>1, <1>2 DEF Stand
<1>11. t \in T
  BY <1>5, <1>10, <1>a
<1>12. ASSUME NEW u \in T PROVE u \in 1..n /\ (g[u] = g[i] => u = t)
  <2>1. PICK l \in 1..m : u = Representative(rs, order[l])
    BY <1>10, <1>a
  <2>2. order[l] \in 1..n /\ g[order[l]] = order[l]
    BY <1>b
  <2>3. u \in 1..n /\ g[u] = order[l]
    BY <1>2, <2>1, <2>2, RepresentativeOf
  <2>4. ASSUME g[u] = g[i] PROVE l = k
    BY <1>4, <1>b, <2>3, <2>4
  <2> QED
    BY <1>5, <2>1, <2>3, <2>4
<1>13. PICK G : G = GroupMap(rs, ids)
  OBVIOUS
<1>14. \A u \in 1..n : G[u] = g[u]
  BY <1>2, <1>13, GroupIsLeader
<1>15. {u \in T : G[u] = G[i]} = {t}
  BY <1>6, <1>11, <1>12, <1>14
<1> QED
  BY <1>7, <1>8, <1>9, <1>11, <1>13, <1>15

-----------------------------------------------------------------------------
(* Scope, order and cap                                                    *)

LEMMA PrecedesAppended ==
    ASSUME NEW a \in Seq(Int), NEW b \in Seq(Int), Len(a) = Len(b), NEW x \in Int, NEW y \in Int,
           Precedes(a, b)
    PROVE  Precedes(Append(a, x), Append(b, y))
<1>1. PICK k \in DOMAIN a : a[k] < b[k] /\ \A j \in 1..(k - 1) : a[j] = b[j]
  BY DEF Precedes
<1>2. k \in 1..Len(a) /\ k \in DOMAIN Append(a, x)
  OBVIOUS
<1>3. \A j \in 1..Len(a) : Append(a, x)[j] = a[j] /\ Append(b, y)[j] = b[j]
  OBVIOUS
<1>4. Append(a, x)[k] < Append(b, y)[k] /\ \A j \in 1..(k - 1) : Append(a, x)[j] = Append(b, y)[j]
  BY <1>1, <1>2, <1>3
<1> QED
  BY <1>2, <1>4 DEF Precedes

LEMMA PriorityType ==
    ASSUME NEW r, r.line \in Int
    PROVE  Priority(r) \in Seq(Int) /\ Len(Priority(r)) = 4
<1>1. PICK a \in Int, b \in Int, c \in Int, d \in Int :
         a = RiskLevel(r) /\ b = SeverityRank(r.severity) /\ c = -ShownScore(r) /\ d = r.line
  BY ScoreTypes, RankType
<1>2. Priority(r) = <<a, b, c, d>>
  BY <1>1 DEF Priority
<1> QED
  BY <1>2

\* Of the reports in input, all in scope are sent, or those that come first.
SendsTop(sent, rs, input, config) ==
    /\ sent \in Seq(ToSet(input))
    /\ \A i \in ToSet(sent) : InScope(rs[i], config)
    /\ \A i \in ToSet(input) \ ToSet(sent) : InScope(rs[i], config) =>
          /\ config.max_targets > 0 /\ Len(sent) = config.max_targets
          /\ \A t \in ToSet(sent) : ~Precedes(Priority(rs[i]), Priority(rs[t]))

LEMMA OptimizeSendsTop ==
    ASSUME NEW n \in Nat, NEW rs, \A i \in 1..n : rs[i].line \in Int, NEW input \in Seq(1..n),
           NEW config, config.enabled, config.max_targets \in Int
    PROVE  SendsTop(Optimize(rs, input, config), rs, input, config)
<1> DEFINE key == [k \in {k \in DOMAIN input : InScope(rs[input[k]], config)} |->
                     Append(Priority(rs[input[k]]), k)]
           cap == config.max_targets
<1>1. PICK kept : kept = {k \in DOMAIN input : InScope(rs[input[k]], config)}
  OBVIOUS
<1>2. PICK order : order = SortedBy(kept, key)
  OBVIOUS
<1>3. PICK sorted : sorted = [k \in DOMAIN order |-> input[order[k]]]
  OBVIOUS
<1>4. Optimize(rs, input, config) = IF cap > 0 /\ Len(sorted) > cap THEN SubSeq(sorted, 1, cap)
                                    ELSE sorted
  BY <1>1, <1>2, <1>3, Zenon DEF Optimize
<1>5. kept \in SUBSET (1..Len(input)) /\ IsFiniteSet(kept)
  <2>1. kept \in SUBSET (1..Len(input)) /\ Len(input) \in Nat
    BY <1>1
  <2> QED
    BY <2>1, FiniteNumbers
<1>6. ASSUME NEW k \in kept
      PROVE  /\ input[k] \in 1..n /\ k \in Int /\ key[k] = Append(Priority(rs[input[k]]), k)
             /\ Priority(rs[input[k]]) \in Seq(Int) /\ Len(Priority(rs[input[k]])) = 4
  BY <1>1, <1>5, PriorityType, SMTT(30)
<1>7. ASSUME NEW k \in kept PROVE key[k] \in [1..5 -> Int] /\ key[k][5] = k
  <2>1. PICK s \in Seq(Int) : s = Priority(rs[input[k]]) /\ Len(s) = 4
    BY <1>6
  <2>2. k \in Int /\ key[k] = Append(s, k)
    BY <1>6, <2>1
  <2> HIDE DEF key
  <2>a. PICK a : a = Append(s, k)
    OBVIOUS
  <2>b. a \in Seq(Int) /\ Len(a) = Len(s) + 1 /\ a[Len(s) + 1] = k
    BY <2>a, <2>2, AppendProperties
  <2>3. a \in Seq(Int) /\ Len(a) = 5 /\ a[5] = k
    BY <2>1, <2>b
  <2>4. a \in [1..5 -> Int]
    BY <2>3, LenProperties
  <2> QED
    BY <2>a, <2>2, <2>3, <2>4
<1> HIDE DEF key
<1>8. Sorts(order, kept, key)
  <2>1. 5 \in Nat
    OBVIOUS
  <2>2. \A i, j \in kept : key[i] = key[j] => i = j
    BY <1>7
  <2> QED
    BY <1>2, <1>5, <1>7, <2>1, <2>2, Sorted, Zenon
<1>9. PICK m \in Nat : m = Cardinality(kept)
  BY <1>8 DEF Sorts
<1>10. /\ DOMAIN order = 1..m
       /\ \A k \in 1..m : order[k] \in kept
       /\ \A i \in kept : \E k \in 1..m : order[k] = i
       /\ \A k, l \in 1..m : k < l => Precedes(key[order[k]], key[order[l]])
  BY <1>8, <1>9 DEF Sorts
<1>11. sorted \in Seq(ToSet(input)) /\ Len(sorted) = m
       /\ \A k \in 1..m : sorted[k] = input[order[k]] /\ InScope(rs[sorted[k]], config)
  <2>1. \A k \in 1..m : input[order[k]] \in ToSet(input)
    <3>1. DOMAIN input = 1..Len(input)
      OBVIOUS
    <3>2. \A k \in 1..m : order[k] \in DOMAIN input
      BY <1>5, <1>10, <3>1
    <3> QED
      BY <3>2 DEF ToSet
  <2>2. \A k \in 1..m : InScope(rs[input[order[k]]], config)
    BY <1>1, <1>10
  <2>3. sorted = [k \in 1..m |-> input[order[k]]]
    BY <1>3, <1>10
  <2>4. sorted \in Seq(ToSet(input)) /\ Len(sorted) = m
    BY <2>1, <2>3, SMTT(30)
  <2> QED
    BY <2>2, <2>3, <2>4
<1>a. PICK sent : sent = Optimize(rs, input, config)
  OBVIOUS
<1>b. /\ sent \in Seq(ToSet(input)) /\ Len(sent) <= m
      /\ \A k \in 1..Len(sent) : sent[k] = sorted[k]
      /\ Len(sent) = m \/ (cap > 0 /\ Len(sent) = cap)
  <2>1. CASE cap > 0 /\ Len(sorted) > cap
    <3>1. cap \in Nat /\ \A k \in 1..cap : sorted[k] \in ToSet(input)
      BY <1>11, <2>1
    <3>2. sent = SubSeq(sorted, 1, cap)
      BY <1>4, <1>a, <2>1
    <3>3. sent \in Seq(ToSet(input)) /\ Len(sent) = cap /\ \A k \in 1..cap : sent[k] = sorted[k]
      BY <1>11, <2>1, <3>1, <3>2
    <3> QED
      BY <1>11, <2>1, <3>1, <3>3
  <2>2. CASE ~(cap > 0 /\ Len(sorted) > cap)
    BY <1>4, <1>11, <1>a, <2>2
  <2> QED
    BY <2>1, <2>2
<1>12. PICK p \in Nat : /\ sent \in Seq(ToSet(input)) /\ Len(sent) = p /\ p <= m
                        /\ \A k \in 1..p : sent[k] = sorted[k]
                        /\ sent = Optimize(rs, input, config)
                        /\ p = m \/ (cap > 0 /\ p = cap)
                        /\ DOMAIN sent = 1..p
  BY <1>a, <1>b
<1>13. \A i \in ToSet(sent) : InScope(rs[i], config)
  BY <1>11, <1>12, SMTT(30) DEF ToSet
<1>14. ASSUME NEW i \in ToSet(input) \ ToSet(sent), InScope(rs[i], config)
       PROVE  /\ cap > 0 /\ Len(sent) = cap
              /\ \A t \in ToSet(sent) : ~Precedes(Priority(rs[i]), Priority(rs[t]))
  <2>1. PICK k \in kept : input[k] = i
    BY <1>1, <1>14 DEF ToSet
  <2>2. PICK q \in 1..m : order[q] = k
    BY <1>10
  <2>3. p < q
    <3>1. q \in 1..p => sent[q] = i
      BY <1>11, <1>12, <2>1, <2>2
    <3>2. q \notin 1..p
      BY <1>12, <1>14, <3>1 DEF ToSet
    <3> QED
      BY <3>2
  <2>4. ASSUME NEW t \in ToSet(sent), Precedes(Priority(rs[i]), Priority(rs[t])) PROVE FALSE
    <3>1. PICK l \in 1..p : t = sent[l]
      BY <1>12 DEF ToSet
    <3>2. l \in 1..m /\ l < q /\ t = input[order[l]]
      BY <1>11, <1>12, <2>3, <3>1
    <3>3. Precedes(key[order[l]], key[k])
      BY <1>10, <2>2, <3>2
    <3>4. order[l] \in kept
      BY <1>10, <3>2
    <3>a. PICK c, d : c = Priority(rs[i]) /\ d = Priority(rs[t])
      OBVIOUS
    <3>b. /\ c \in Seq(Int) /\ Len(c) = 4 /\ key[k] = Append(c, k) /\ k \in Int
          /\ d \in Seq(Int) /\ Len(d) = 4 /\ key[order[l]] = Append(d, order[l]) /\ order[l] \in Int
      BY <1>6, <2>1, <3>2, <3>4, <3>a
    <3>5. Precedes(key[k], key[order[l]])
      BY <2>4, <3>a, <3>b, PrecedesAppended
    <3>6. PICK a \in [1..5 -> Int], b \in [1..5 -> Int] : a = key[k] /\ b = key[order[l]]
      BY <1>7, <3>4
    <3>7. 5 \in Nat
      OBVIOUS
    <3>8. Precedes(a, b) /\ Precedes(b, a)
      BY <3>3, <3>5, <3>6
    <3> QED
      BY <3>7, <3>8, KeysAreOrdered, Zenon
  <2>5. cap > 0 /\ p = cap
    BY <1>12, <2>3
  <2> QED
    BY <1>12, <2>4, <2>5
<1> QED
  BY <1>12, <1>13, <1>14 DEF SendsTop


-----------------------------------------------------------------------------
(* The scan of a source: its steps                                         *)

\* A tool has found what it may find.
FoundBy(res, src) == DOMAIN res = Tool /\ \A t \in Tool : res[t].found \in Found(src, t)

\* No finding of any tool is missing from rs.
Survive(rs, res) ==
    \A t \in Tool, severity \in {"HIGH", "MEDIUM", "LOW", "UNDEFINED"} :
        LinesOfTool(rs, t, severity) = LinesOfTool(res[t].found, t, severity)

\* The reports that the findings are merged into.
Merged(rs, res) == rs \in Seq(ReportOf(Tool)) /\ Len(rs) <= MaxReports /\ Survive(rs, res)

LEMMA MergedFindings ==
    ASSUME NEW src \in Source, NEW res, FoundBy(res, src)
    PROVE  Merged(BySeverity(res["bandit"].found \o res["semgrep"].found \o res["heuristic"].found), res)
<1>1. PICK a, b, c : a = res["bandit"].found /\ b = res["semgrep"].found /\ c = res["heuristic"].found
  OBVIOUS
<1>2. a \in Found(src, "bandit") /\ b \in Found(src, "semgrep") /\ c \in Found(src, "heuristic")
  BY <1>1 DEF FoundBy, Tool
<1>3. /\ a \in Seq(ReportOf({"bandit"})) /\ b \in Seq(ReportOf({"semgrep"}))
      /\ c \in Seq(ReportOf({"heuristic"}))
  BY <1>2, FoundOwn DEF Tool
<1>4. Len(a) + Len(b) + Len(c) <= MaxReports
  <2>1. PICK n : n = Len(QuickScan(src.text, QuickLanguage(src.ext)))
    OBVIOUS
  <2>2. n \in Nat
    <3>1. \E k \in Nat : DOMAIN QuickScan(src.text, QuickLanguage(src.ext)) = 1..k
      BY QuickScanTypes DEF HitsIn
    <3> QED
      BY <2>1, <3>1
  <2>3. Len(a) + Len(b) + n <= MaxReports
    BY <1>2, <2>1, BoundAssumption DEF Found
  <2>4. Len(c) <= n
    BY <1>2, <2>1 DEF Found
  <2> QED
    BY <1>3, <2>2, <2>3, <2>4, BoundAssumption
<1>5. PICK l : l = a \o b \o c
  OBVIOUS
<1>6. l \in Seq(ReportOf(Tool)) /\ Len(l) <= MaxReports
  <2>1. \A severity \in {0} : /\ a \o b \o c \in Seq(ReportOf(Tool))
                              /\ Len(a \o b \o c) = Len(a) + Len(b) + Len(c)
    BY <1>3, ConcatenatedLines
  <2> QED
    BY <1>4, <1>5, <2>1
<1>7. PICK n \in Nat : n = Len(l) /\ DOMAIN l = 1..n
  BY <1>6
<1>8. PICK order : Reordered(order, l, BySeverity(l))
  BY <1>7, BySeverityReorders
<1>9. PICK new : new = BySeverity(l)
  OBVIOUS
<1>10. new \in Seq(ReportOf(Tool)) /\ Len(new) = n
  <2>1. new = [k \in 1..n |-> l[order[k]]] /\ order \in [1..n -> 1..n]
    BY <1>7, <1>8, <1>9 DEF Reordered
  <2>2. \A k \in 1..n : l[order[k]] \in ReportOf(Tool)
    BY <1>6, <1>7, <2>1
  <2> QED
    BY <2>1, <2>2
<1>11. ASSUME NEW t \in Tool, NEW severity
       PROVE  LinesOfTool(new, t, severity) = LinesOfTool(res[t].found, t, severity)
  <2>1. LinesOfTool(new, t, severity) = LinesOfTool(l, t, severity)
    BY <1>7, <1>8, <1>9, ReorderedLines
  <2>2. /\ LinesOfTool(a, "bandit", severity) = LinesOfTool(l, "bandit", severity)
        /\ LinesOfTool(b, "semgrep", severity) = LinesOfTool(l, "semgrep", severity)
        /\ LinesOfTool(c, "heuristic", severity) = LinesOfTool(l, "heuristic", severity)
    BY <1>3, <1>5, ConcatenatedLines
  <2> QED
    BY <1>1, <2>1, <2>2 DEF Tool
<1> QED
  BY <1>1, <1>5, <1>6, <1>7, <1>9, <1>10, <1>11 DEF Merged, Survive

\* The reports with the function around them in place of their snippet.
WithFunctions(rs) ==
    [i \in DOMAIN rs |-> [rs[i] EXCEPT !.code = IF FunctionAt(rs[i].line) = NoCode THEN @
                                                ELSE FunctionAt(rs[i].line)]]

\* new differs from old in nothing but the code.
OtherCode(old, new) ==
    /\ DOMAIN new = DOMAIN old
    /\ \A i \in DOMAIN old : /\ new[i].tool = old[i].tool /\ new[i].rule = old[i].rule
                             /\ new[i].line = old[i].line /\ new[i].severity = old[i].severity

LEMMA FunctionsAreCode ==
    ASSUME NEW T, NEW rs \in Seq(ReportOf(T))
    PROVE  WithFunctions(rs) \in Seq(ReportOf(T)) /\ OtherCode(rs, WithFunctions(rs))
<1>1. PICK n \in Nat : n = Len(rs) /\ DOMAIN rs = 1..n
  OBVIOUS
<1>2. ASSUME NEW i \in 1..n
      PROVE  /\ WithFunctions(rs)[i] \in ReportOf(T)
             /\ WithFunctions(rs)[i].tool = rs[i].tool /\ WithFunctions(rs)[i].rule = rs[i].rule
             /\ WithFunctions(rs)[i].line = rs[i].line
             /\ WithFunctions(rs)[i].severity = rs[i].severity
  <2>1. PICK r \in ReportOf(T) : r = rs[i]
    BY <1>1
  <2>2. PICK c : c = IF FunctionAt(r.line) = NoCode THEN r.code ELSE FunctionAt(r.line)
    OBVIOUS
  <2>3. c \in Code
    <3>1. r.code \in Code
      BY DEF ReportOf
    <3>2. CASE r.line \in DOMAIN Function
      <4>1. Function[r.line] \in Code
        BY <3>2, ScanAssumption, ElementOfSeq, LenProperties
      <4> QED
        BY <3>1, <3>2, <4>1, <2>2 DEF FunctionAt
    <3>3. CASE r.line \notin DOMAIN Function
      BY <3>1, <3>3, <2>2 DEF FunctionAt
    <3> QED
      BY <3>2, <3>3
  <2>4. WithFunctions(rs)[i] = [r EXCEPT !.code = c]
    BY <1>1, <2>1, <2>2 DEF WithFunctions
  <2>5. [r EXCEPT !.code = c] \in ReportOf(T)
    BY <2>3 DEF ReportOf
  <2>6. LET q == [r EXCEPT !.code = c]
        IN  q.tool = r.tool /\ q.rule = r.rule /\ q.line = r.line /\ q.severity = r.severity
    BY DEF ReportOf
  <2> QED
    BY <2>1, <2>4, <2>5, <2>6
<1>3. WithFunctions(rs) = [i \in 1..n |-> WithFunctions(rs)[i]]
  BY <1>1 DEF WithFunctions
<1>4. WithFunctions(rs) \in Seq(ReportOf(T))
  BY <1>2, <1>3
<1>5. DOMAIN WithFunctions(rs) = DOMAIN rs
  BY DEF WithFunctions
<1> QED
  BY <1>1, <1>2, <1>4, <1>5 DEF OtherCode

LEMMA OtherCodeSurvives ==
    ASSUME NEW old, NEW new, OtherCode(old, new), NEW n \in Nat, DOMAIN old = 1..n,
           NEW res, Survive(old, res)
    PROVE  Survive(new, res)
<1> SUFFICES ASSUME NEW t \in Tool, NEW severity
             PROVE  LinesOfTool(old, t, severity) = LinesOfTool(new, t, severity)
  BY DEF Survive
<1> DEFINE m == [k \in At(old, t, severity) |-> k]
<1>1. At(old, t, severity) = At(new, t, severity)
  BY DEF OtherCode, At
<1>2. InOrder(m, old, new, t, severity)
  <2>1. \A k \in At(old, t, severity) : new[k].line = old[k].line
    BY DEF OtherCode, At
  <2> QED
    BY <1>1, <2>1 DEF InOrder
<1>3. DOMAIN new = 1..n
  BY DEF OtherCode
<1> HIDE DEF m
<1> QED
  BY <1>2, <1>3, SameLines

\* Findings of the audit are of a tool of its own.
LEMMA AuditSurvives ==
    ASSUME NEW rs \in Seq(ReportOf({"llm_audit"})), NEW res, Survive(<<>>, res)
    PROVE  Survive(rs, res)
<1> SUFFICES ASSUME NEW t \in Tool, NEW severity
             PROVE  LinesOfTool(<<>>, t, severity) = LinesOfTool(rs, t, severity)
  BY DEF Survive
<1>1. PICK p \in Nat : p = Len(rs) /\ DOMAIN rs = 1..p
  OBVIOUS
<1>2. \A i \in 1..p : rs[i].tool # t
  <2>1. \A i \in 1..p : rs[i].tool \in {"llm_audit"}
    BY <1>1, ToolOf
  <2> QED
    BY <2>1 DEF Tool
<1>3. PICK none : none = <<>>
  OBVIOUS
<1>4. PICK z \in Nat : z = 0
  OBVIOUS
<1>5. DOMAIN none = 1..z /\ z + z <= p
  BY <1>3, <1>4
<1>6. Piece(none, z, rs, p, z, t)
  BY <1>1, <1>2, <1>4, <1>5 DEF Piece
<1> QED
  BY <1>3, <1>6, PieceLines

\* What a run sends of the reports in input.
ChoiceOf(rs, input, o) == IF o.optimize THEN Optimize(rs, input, o.config) ELSE input

LEMMA ChoiceTypes ==
    ASSUME NEW T, NEW rs \in Seq(ReportOf(T)), NEW n \in Nat, n = Len(rs),
           NEW input \in Seq(1..n), NEW o \in ScanOption
    PROVE  /\ ChoiceOf(rs, input, o) \in Seq(1..n)
           /\ input = <<>> => ChoiceOf(rs, input, o) = <<>>
           /\ ChoiceOf(rs, input, o) = <<>> => input = <<>> \/ o.optimize
           /\ o.optimize /\ o.config.enabled => SendsTop(ChoiceOf(rs, input, o), rs, input, o.config)
<1>1. {o.use_llm, o.audit, o.optimize, o.config.enabled} \subseteq BOOLEAN /\ o.config.max_targets \in Int
  BY ScanAssumption
<1>2. CASE o.optimize /\ o.config.enabled
  <2>1. \A i \in 1..n : rs[i].line \in Int
    <3>1. \A i \in 1..n : rs[i] \in ReportOf(T)
      OBVIOUS
    <3> QED
      BY <3>1 DEF ReportOf
  <2>2. PICK c : c = o.config
    OBVIOUS
  <2>3. c.enabled /\ c.max_targets \in Int
    BY <1>1, <1>2, <2>2
  <2>4. SendsTop(Optimize(rs, input, c), rs, input, c)
    BY <2>1, <2>3, OptimizeSendsTop
  <2>5. PICK sent : sent = ChoiceOf(rs, input, o)
    OBVIOUS
  <2>6. SendsTop(sent, rs, input, c)
    BY <1>2, <2>2, <2>4, <2>5 DEF ChoiceOf
  <2>7. ToSet(input) \subseteq 1..n
    BY DEF ToSet
  <2>8. sent \in Seq(ToSet(input))
    BY <2>6 DEF SendsTop
  <2>9. sent \in Seq(1..n)
    BY <2>7, <2>8, SeqOfMore
  <2>10. ASSUME input = <<>> PROVE sent = <<>>
    <3>1. ToSet(input) = {}
      BY <2>10 DEF ToSet
    <3> QED
      BY <2>8, <3>1
  <2> QED
    BY <1>2, <2>2, <2>5, <2>6, <2>9, <2>10
<1>3. CASE ~(o.optimize /\ o.config.enabled)
  <2>1. ChoiceOf(rs, input, o) = input
    <3>1. ~o.config.enabled => Optimize(rs, input, o.config) = input
      BY Zenon DEF Optimize
    <3> QED
      BY <1>3, <3>1 DEF ChoiceOf
  <2> QED
    BY <1>3, <2>1
<1> QED
  BY <1>2, <1>3

\* What the LLM gets of the findings of the tools, or of the audit.
SentOf(rs, sent, o) ==
    \/ rs \in Seq(ReportOf(Tool)) /\ sent = ChoiceOf(rs, Representatives(rs), o)
    \/ rs \in Seq(ReportOf({"llm_audit"})) /\ sent = ChoiceOf(rs, [i \in DOMAIN rs |-> i], o)

ScanInv ==
    /\ source \in Source /\ option \in ScanOption /\ FoundBy(result, source)
    /\ stage \in Tool \cup {"merge", "context", "deduplicate", "optimize", "audit", "generate", "build",
                                 "raised"}
    /\ stage \in Tool \cup {"merge"} => reports = <<>>
    /\ stage \notin Tool \cup {"merge", "raised"} => Survive(reports, result)
    /\ stage \in {"context", "deduplicate", "optimize"} => reports \in Seq(ReportOf(Tool))
    /\ stage = "optimize" => group = GroupMap(reports, Ids(reports)) /\ targets = Representatives(reports)
    /\ stage = "audit" => reports = <<>> /\ targets = <<>>
    /\ stage \in {"generate", "build"} => SentOf(reports, targets, option)

LEMMA ScanInitially == ScanInit => ScanInv
<1> SUFFICES ASSUME ScanInit PROVE ScanInv
  OBVIOUS
<1>1. source \in Source /\ option \in ScanOption /\ reports = <<>>
  BY DEF ScanInit
<1>2. stage \in Tool \cup {"merge"}
  <2>1. stage = IF Tools(source.ext) = <<>> THEN "merge" ELSE Tools(source.ext)[1]
    BY DEF ScanInit
  <2>2. PICK ext : ext = source.ext
    OBVIOUS
  <2>3. Tools(ext) \in {<<"bandit", "semgrep", "heuristic">>, <<"semgrep", "heuristic">>, <<>>}
    BY Zenon DEF Tools
  <2> QED
    BY <2>1, <2>2, <2>3 DEF Tool
<1>3. FoundBy(result, source)
  <2>1. result = [t \in Tool |-> [found |-> <<>>, error |-> FALSE]]
    BY DEF ScanInit
  <2>2. \A t \in Tool : <<>> \in Found(source, t)
    BY <1>1, FoundOwn
  <2> QED
    BY <2>1, <2>2 DEF FoundBy
<1>4. stage \notin {"context", "deduplicate", "optimize", "audit", "generate", "build"}
  BY <1>2 DEF Tool
<1> QED
  BY <1>1, <1>2, <1>3, <1>4 DEF ScanInv

LEMMA RecordKeepsFound ==
    ASSUME NEW t \in Tool, NEW found \in Found(source, t), NEW error, FoundBy(result, source),
           Record(t, found, error)
    PROVE  /\ FoundBy(result', source)
           /\ UNCHANGED <<source, option, reports, group, targets, llmError>>
<1>1. result' = [result EXCEPT ![t] = [found |-> found, error |-> error]]
  BY DEF Record
<1>2. DOMAIN result' = Tool
  BY <1>1 DEF FoundBy
<1>3. \A u \in Tool : result'[u].found \in Found(source, u)
  BY <1>1 DEF FoundBy
<1>4. UNCHANGED <<source, option, reports, group, targets, llmError>>
  BY DEF Record
<1> QED
  BY <1>2, <1>3, <1>4 DEF FoundBy

\* A step of a tool records what it has found, and nothing else.
ToolStep ==
    /\ stage \in Tool /\ stage' \in Tool \cup {"merge"} /\ FoundBy(result', source)
    /\ UNCHANGED <<source, option, reports, group, targets, llmError>>

LEMMA ToolSteps == ScanInv /\ (RunBandit \/ RunSemgrep \/ RunHeuristic) => ToolStep
<1> SUFFICES ASSUME ScanInv, RunBandit \/ RunSemgrep \/ RunHeuristic PROVE ToolStep
  OBVIOUS
<1>1. source \in Source /\ FoundBy(result, source)
  BY DEF ScanInv
<1>2. {"bandit", "semgrep", "heuristic"} = Tool
  BY DEF Tool
<1>3. \A t \in Tool : <<>> \in Found(source, t)
  BY <1>1, FoundOwn
<1>4. CASE RunBandit
  <2>1. stage \in Tool /\ stage' \in Tool \cup {"merge"}
    BY <1>4 DEF RunBandit, Tool
  <2>2. PICK found \in BanditReport, error \in BOOLEAN : Record("bandit", found, error) \/ Record("bandit", <<>>, error)
    BY <1>4, Zenon DEF RunBandit
  <2>3. found \in Found(source, "bandit")
    BY DEF Found
  <2> QED
    BY <1>1, <1>2, <1>3, <2>1, <2>2, <2>3, RecordKeepsFound DEF ToolStep
<1>5. CASE RunSemgrep
  <2>1. stage \in Tool /\ stage' \in Tool \cup {"merge"}
    BY <1>5 DEF RunSemgrep, Tool
  <2>2. PICK found \in SemgrepReport, error \in BOOLEAN : Record("semgrep", found, error) \/ Record("semgrep", <<>>, error)
    BY <1>5, Zenon DEF RunSemgrep
  <2>3. found \in Found(source, "semgrep")
    BY DEF Found
  <2> QED
    BY <1>1, <1>2, <1>3, <2>1, <2>2, <2>3, RecordKeepsFound DEF ToolStep
<1>6. CASE RunHeuristic
  <2>1. stage \in Tool /\ stage' \in Tool \cup {"merge"}
    BY <1>6 DEF RunHeuristic, Tool
  <2>2. PICK found \in Found(source, "heuristic"), error \in BOOLEAN : Record("heuristic", found, error)
    BY <1>1, <1>2, <1>3, <1>6, HeuristicFound, Zenon DEF RunHeuristic
  <2> QED
    BY <1>1, <1>2, <2>1, <2>2, RecordKeepsFound DEF ToolStep
<1> QED
  BY <1>4, <1>5, <1>6

LEMMA SelectIsChoice ==
    /\ \A rs, input : Select(rs, input) = ChoiceOf(rs, input, option)
    /\ OptimizeTargets => targets' = ChoiceOf(reports, targets, option)
    /\ AuditClean => \/ UNCHANGED <<reports, targets>> /\ stage' = "build" /\ llmError' = TRUE
                     \/ /\ reports' \in AuditReport /\ UNCHANGED llmError
                        /\ targets' = ChoiceOf(reports', [i \in DOMAIN reports' |-> i], option)
                        /\ stage' = IF targets' = <<>> THEN "build" ELSE "generate"
<1>1. \A rs, input : Select(rs, input) = ChoiceOf(rs, input, option)
  BY DEF Select, ChoiceOf
<1>2. OptimizeTargets => targets' = ChoiceOf(reports, targets, option)
  BY <1>1 DEF OptimizeTargets
<1>3. AuditClean => \/ UNCHANGED <<reports, targets>> /\ stage' = "build" /\ llmError' = TRUE
                    \/ /\ reports' \in AuditReport /\ UNCHANGED llmError
                       /\ targets' = ChoiceOf(reports', [i \in DOMAIN reports' |-> i], option)
                       /\ stage' = IF targets' = <<>> THEN "build" ELSE "generate"
  BY <1>1, Zenon DEF AuditClean
<1> QED
  BY <1>1, <1>2, <1>3

LEMMA ScanStep == ScanInv /\ [ScanNext]_scanVars => ScanInv'
<1> SUFFICES ASSUME ScanInv, [ScanNext]_scanVars PROVE ScanInv'
  OBVIOUS
<1>1. CASE RunBandit \/ RunSemgrep \/ RunHeuristic
  <2>1. ToolStep
    BY <1>1, ToolSteps
  <2>2. stage' \in {"bandit", "semgrep", "heuristic", "merge"}
    BY <2>1 DEF ToolStep, Tool
  <2> QED
    BY <2>1, <2>2 DEF ToolStep, ScanInv
<1>8. CASE BreakOff
  <2>1. /\ stage \in {"bandit", "semgrep"} /\ stage' = "raised"
        /\ UNCHANGED <<source, option, result, reports, group, targets, llmError>>
    BY <1>8 DEF BreakOff
  <2>2. "raised" \notin Tool \cup {"merge"}
    BY DEF Tool
  <2> QED
    BY <2>1, <2>2 DEF ScanInv
<1>2. CASE RunStaticAnalysis
  <2>1. stage' = "context" /\ "context" \notin Tool \cup {"merge"}
    BY <1>2 DEF RunStaticAnalysis, Tool
  <2>2. reports' = BySeverity(result["bandit"].found \o result["semgrep"].found \o result["heuristic"].found)
    BY <1>2 DEF RunStaticAnalysis, MergeResults
  <2>3. source \in Source /\ option \in ScanOption /\ FoundBy(result, source)
    BY DEF ScanInv
  <2>4. Merged(reports', result)
    BY <2>2, <2>3, MergedFindings
  <2>5. UNCHANGED <<source, option, result>>
    BY <1>2 DEF RunStaticAnalysis
  <2>6. FoundBy(result', source')
    BY <2>3, <2>5
  <2>7. Survive(reports', result')
    BY <2>4, <2>5 DEF Merged
  <2> QED
    BY <2>1, <2>3, <2>4, <2>5, <2>6, <2>7 DEF ScanInv, Merged
<1>3. CASE ExtractContext
  <2>1. stage = "context" /\ stage' = "deduplicate" /\ {"context", "deduplicate"} \cap (Tool \cup {"merge"}) = {}
    BY <1>3 DEF ExtractContext, Tool
  <2>2. reports \in Seq(ReportOf(Tool)) /\ Survive(reports, result)
    BY <2>1 DEF ScanInv
  <2>3. reports' = reports \/ reports' = WithFunctions(reports)
    BY <1>3 DEF ExtractContext, WithFunctions
  <2>4. reports' \in Seq(ReportOf(Tool)) /\ Survive(reports', result)
    BY <2>2, <2>3, FunctionsAreCode, OtherCodeSurvives, LenProperties
  <2>5. UNCHANGED <<source, option, result>>
    BY <1>3 DEF ExtractContext
  <2>6. source \in Source /\ option \in ScanOption /\ FoundBy(result, source)
    BY DEF ScanInv
  <2>7. FoundBy(result', source') /\ Survive(reports', result')
    BY <2>4, <2>5, <2>6
  <2> QED
    BY <2>1, <2>4, <2>5, <2>6, <2>7 DEF ScanInv
<1>4. CASE Deduplicate
  <2>1. stage = "deduplicate" /\ stage' = "optimize" /\ {"deduplicate", "optimize"} \cap (Tool \cup {"merge"}) = {}
    BY <1>4 DEF Deduplicate, Tool
  <2>2. UNCHANGED <<source, option, result, reports>>
    BY <1>4 DEF Deduplicate
  <2>3. group' = GroupMap(reports, Ids(reports)) /\ targets' = Representatives(reports)
    BY <1>4 DEF Deduplicate, Ids
  <2>4. /\ source \in Source /\ option \in ScanOption /\ FoundBy(result, source)
        /\ reports \in Seq(ReportOf(Tool)) /\ Survive(reports, result)
    BY <2>1 DEF ScanInv
  <2>5. /\ FoundBy(result', source') /\ Survive(reports', result')
        /\ group' = GroupMap(reports', Ids(reports')) /\ targets' = Representatives(reports')
    BY <2>2, <2>3, <2>4
  <2> QED
    BY <2>1, <2>2, <2>4, <2>5 DEF ScanInv
<1>5. CASE OptimizeTargets
  <2>1. /\ stage = "optimize" /\ stage' \in {"generate", "audit", "build"}
        /\ {"optimize", "generate", "audit", "build"} \cap (Tool \cup {"merge"}) = {}
    BY <1>5 DEF OptimizeTargets, Tool
  <2>2. UNCHANGED <<source, option, result, reports>>
    BY <1>5 DEF OptimizeTargets
  <2>3. /\ source \in Source /\ option \in ScanOption /\ FoundBy(result, source)
        /\ reports \in Seq(ReportOf(Tool)) /\ Survive(reports, result)
        /\ targets = Representatives(reports)
    BY <2>1 DEF ScanInv
  <2>4. targets' = ChoiceOf(reports, Representatives(reports), option)
    BY <1>5, <2>3, SelectIsChoice
  <2>5. SentOf(reports', targets', option')
    BY <2>2, <2>3, <2>4 DEF SentOf
  <2>6. stage' = "audit" => reports = <<>>
    BY <1>5 DEF OptimizeTargets
  <2>7. reports = <<>> => targets' = <<>>
    <3>1. PICK n \in Nat : n = Len(reports) /\ DOMAIN reports = 1..n
      BY <2>3
    <3>2. Representatives(reports) \in Seq(1..n) /\ (Representatives(reports) = <<>> <=> n = 0)
      BY <3>1, RepresentativesTypes
    <3>3. Representatives(reports) = <<>> => targets' = <<>>
      BY <2>3, <2>4, <3>1, <3>2, ChoiceTypes
    <3> QED
      BY <3>1, <3>2, <3>3
  <2>8. FoundBy(result', source') /\ Survive(reports', result')
    BY <2>2, <2>3
  <2> QED
    BY <2>1, <2>2, <2>3, <2>5, <2>6, <2>7, <2>8 DEF ScanInv
<1>6. CASE AuditClean
  <2>1. /\ stage = "audit" /\ stage' \in {"generate", "build"}
        /\ {"audit", "generate", "build"} \cap (Tool \cup {"merge"}) = {}
    BY <1>6, SelectIsChoice DEF AuditClean, Tool
  <2>2. UNCHANGED <<source, option, result>>
    BY <1>6 DEF AuditClean
  <2>3. /\ source \in Source /\ option \in ScanOption /\ FoundBy(result, source)
        /\ reports = <<>> /\ targets = <<>> /\ Survive(reports, result)
    BY <2>1 DEF ScanInv
  <2>4. SentOf(reports', targets', option') /\ Survive(reports', result')
    <3>1. CASE UNCHANGED <<reports, targets>>
      <4>1. PICK none : none = <<>>
        OBVIOUS
      <4>2. PICK n \in Nat : n = 0
        OBVIOUS
      <4>3. none \in Seq(ReportOf(Tool)) /\ n = Len(none) /\ DOMAIN none = 1..n
        BY <4>1, <4>2
      <4>4. Representatives(none) \in Seq(1..n) /\ Representatives(none) = <<>>
        BY <4>2, <4>3, RepresentativesTypes
      <4>5. ChoiceOf(none, Representatives(none), option) = <<>>
        BY <2>3, <4>3, <4>4, ChoiceTypes
      <4> QED
        BY <2>2, <2>3, <3>1, <4>1, <4>3, <4>5 DEF SentOf
    <3>2. CASE /\ reports' \in AuditReport
               /\ targets' = ChoiceOf(reports', [i \in DOMAIN reports' |-> i], option)
      <4>1. reports' \in Seq(ReportOf({"llm_audit"}))
        BY <3>2, ScanAssumption
      <4>2. Survive(reports', result)
        BY <2>3, <4>1, AuditSurvives
      <4> QED
        BY <2>2, <3>2, <4>1, <4>2 DEF SentOf
    <3> QED
      BY <1>6, <3>1, <3>2, SelectIsChoice
  <2>5. FoundBy(result', source')
    BY <2>2, <2>3
  <2> QED
    BY <2>1, <2>2, <2>3, <2>4, <2>5 DEF ScanInv
<1>7. CASE UNCHANGED scanVars
  BY <1>7 DEF scanVars, ScanInv
<1> QED
  BY <1>1, <1>2, <1>3, <1>4, <1>5, <1>6, <1>7, <1>8 DEF ScanNext

LEMMA ScanAlways == Spec => []ScanInv
<1>1. Init => ScanInv
  BY ScanInitially DEF Init
<1>2. ScanInv /\ [Next]_vars => ScanInv'
  <2>1. [Next]_vars => [ScanNext]_scanVars
    BY DEF Next, vars
  <2> QED
    BY <2>1, ScanStep
<1> QED
  BY <1>1, <1>2, PTL DEF Spec

\* FindingsSurvive: a tool that fails, prints nothing or prints something else
\* first hides no finding of another one.
THEOREM FindingsSurviveAlways == Spec => []FindingsSurvive
<1>1. ScanInv => FindingsSurvive
  BY DEF ScanInv, Survive, FindingsSurvive
<1> QED
  BY <1>1, ScanAlways, PTL

\* Represented: a report whose code is similar to that of another one, which is
\* similar to a third, is still in exactly one group with a representative.
THEOREM RepresentedAlways == Spec => []Represented
<1>1. ScanInv => Represented
  <2> SUFFICES ASSUME ScanInv, stage = "optimize",
                      \A i, j \in DOMAIN reports : IdOf(reports, i) = IdOf(reports, j) => i = j,
                      NEW i \in DOMAIN reports
               PROVE  \E t \in ToSet(targets) :
                        /\ {u \in ToSet(targets) : group[u] = group[i]} = {t}
                        /\ reports[t].rule = reports[i].rule
                        /\ SeverityRank(reports[t].severity) <= SeverityRank(reports[i].severity)
    BY DEF Represented
  <2>1. reports \in Seq(ReportOf(Tool)) /\ group = GroupMap(reports, Ids(reports))
        /\ targets = Representatives(reports)
    BY DEF ScanInv
  <2>2. PICK n \in Nat : DOMAIN reports = 1..n
    BY <2>1
  <2>3. PICK ids : ids = Ids(reports)
    OBVIOUS
  <2>4. \A k, l \in DOMAIN reports : ids[k] = ids[l] => k = l
    BY <2>3 DEF Ids
  <2> QED
    BY <2>1, <2>2, <2>3, <2>4, OneStands
<1> QED
  BY <1>1, ScanAlways, PTL

\* TopOfScope: the cap cuts off nothing but the least urgent reports, after the
\* scope and after the duplicates.
THEOREM TopOfScopeAlways == Spec => []TopOfScope
<1>1. ScanInv => TopOfScope
  <2> SUFFICES ASSUME ScanInv, Chosen
               PROVE  TopOfScope
    BY DEF TopOfScope
  <2>1. PICK config : config = option.config
    OBVIOUS
  <2>2. option \in ScanOption /\ option.optimize /\ config.enabled /\ SentOf(reports, targets, option)
    BY <2>1 DEF ScanInv, Chosen
  <2>3. PICK n \in Nat : n = Len(reports) /\ DOMAIN reports = 1..n
    BY <2>2 DEF SentOf
  <2>4. \E input \in Seq(1..n) :
           /\ SendsTop(targets, reports, input, config)
           /\ \A i \in 1..n : i \in ToSet(Representatives(reports)) \/ reports[i].tool = "llm_audit"
                                => i \in ToSet(input)
    <3>1. CASE reports \in Seq(ReportOf(Tool)) /\ targets = ChoiceOf(reports, Representatives(reports), option)
      <4>1. PICK input : input = Representatives(reports)
        OBVIOUS
      <4>2. input \in Seq(1..n)
        BY <2>3, <4>1, RepresentativesTypes
      <4>3. SendsTop(targets, reports, input, config)
        BY <2>1, <2>2, <2>3, <3>1, <4>1, <4>2, ChoiceTypes
      <4>4. \A i \in 1..n : reports[i].tool # "llm_audit"
        <5>1. \A i \in 1..n : reports[i].tool \in Tool
          BY <2>3, <3>1, ToolOf
        <5> QED
          BY <5>1 DEF Tool
      <4> QED
        BY <4>1, <4>2, <4>3, <4>4
    <3>2. CASE /\ reports \in Seq(ReportOf({"llm_audit"}))
               /\ targets = ChoiceOf(reports, [i \in DOMAIN reports |-> i], option)
      <4>1. PICK input : input = [i \in DOMAIN reports |-> i]
        OBVIOUS
      <4>2. input \in Seq(1..n) /\ ToSet(input) = 1..n
        BY <2>3, <4>1 DEF ToSet
      <4>3. SendsTop(targets, reports, input, config)
        BY <2>1, <2>2, <2>3, <3>2, <4>1, <4>2, ChoiceTypes
      <4> QED
        BY <4>2, <4>3
    <3> QED
      BY <2>2, <3>1, <3>2 DEF SentOf
  <2>5. PICK input \in Seq(1..n) :
           /\ SendsTop(targets, reports, input, config)
           /\ \A i \in 1..n : i \in ToSet(Representatives(reports)) \/ reports[i].tool = "llm_audit"
                                => i \in ToSet(input)
    BY <2>4
  <2>6. \A i \in ToSet(targets) : HasScope(config) => Matches(reports[i], config)
    BY <2>5 DEF SendsTop, InScope
  <2>7. ASSUME NEW i \in DOMAIN reports \ ToSet(targets),
               i \in ToSet(Representatives(reports)) \/ reports[i].tool = "llm_audit",
               HasScope(config) => Matches(reports[i], config)
        PROVE  /\ config.max_targets > 0 /\ Len(targets) = config.max_targets
               /\ \A t \in ToSet(targets) : ~Precedes(Priority(reports[i]), Priority(reports[t]))
    BY <2>3, <2>5, <2>7 DEF SendsTop, InScope
  <2> QED
    BY <2>1, <2>6, <2>7, Zenon DEF TopOfScope
<1> QED
  BY <1>1, ScanAlways, PTL

-----------------------------------------------------------------------------
(* The scan of a source as the front of PatchPipeline                      *)

\* The steps of PatchPipeline, by what they do to the variables that are mapped.
LEMMA FindingsArrive ==
    ASSUME stageBar = "static", stageBar' = "select", NEW n \in 0..MaxReports,
           Ids(reports)' \in [1..n -> {"vuln", "llm_audit"} \X STRING \X Int],
           UNCHANGED <<optsBar, targetsBar, todoBar, llmError>>
    PROVE  Pipeline!Next
<1>1. Pipeline!RunStaticAnalysis
  BY DEF Pipeline!RunStaticAnalysis, Pipeline!agentVars
<1> QED
  BY <1>1 DEF Pipeline!Next

LEMMA TargetsChosen ==
    ASSUME stageBar = "select", NEW n \in Nat, Len(Ids(reports)) = n,
           targetsBar' \subseteq 1..n, targetsBar' = {} => n = 0 \/ optsBar.optimize,
           todoBar' = IF optsBar.use_llm THEN targetsBar' ELSE {},
           stageBar' = CASE optsBar.use_llm /\ targetsBar' # {}               -> "generate"
                         [] optsBar.use_llm /\ optsBar.audit /\ Ids(reports) = <<>> -> "audit"
                         [] OTHER                                            -> "build",
           UNCHANGED <<optsBar, Ids(reports), llmError>>
    PROVE  Pipeline!Next
<1>1. Pipeline!Reports = 1..n
  BY DEF Pipeline!Reports
<1>2. n = 0 => 1..n = {}
  OBVIOUS
<1>3. Pipeline!Select
  BY <1>1, <1>2, Zenon DEF Pipeline!Select
<1> QED
  BY <1>3 DEF Pipeline!Next

LEMMA AuditFailed ==
    ASSUME stageBar = "audit", stageBar' = "build", llmError' = TRUE,
           UNCHANGED <<optsBar, Ids(reports), targetsBar, todoBar>>
    PROVE  Pipeline!Next
<1>1. Pipeline!Audit
  BY DEF Pipeline!Audit
<1> QED
  BY <1>1 DEF Pipeline!Next

LEMMA AuditAnswered ==
    ASSUME stageBar = "audit", NEW n \in 0..MaxReports,
           NEW ids \in [1..n -> {"vuln", "llm_audit"} \X STRING \X Int], Ids(reports)' = ids,
           \A i, j \in 1..n : ids[i] = ids[j] => i = j,
           targetsBar' \subseteq 1..n, targetsBar' = {} => n = 0 \/ optsBar.optimize,
           todoBar' = targetsBar', stageBar' = IF targetsBar' = {} THEN "build" ELSE "generate",
           UNCHANGED <<optsBar, llmError>>
    PROVE  Pipeline!Next
<1>1. DOMAIN ids = 1..n /\ (n = 0 => ids = <<>>)
  OBVIOUS
<1>2. ids \in {s \in [1..n -> {"vuln", "llm_audit"} \X STRING \X Int] :
                 \A i, j \in DOMAIN s : s[i] = s[j] => i = j}
  BY <1>1
<1>3. Pipeline!Audit
  BY <1>1, <1>2, Zenon DEF Pipeline!Audit
<1> QED
  BY <1>3 DEF Pipeline!Next

LEMMA IdsTypes ==
    ASSUME NEW T, NEW rs \in Seq(ReportOf(T)), NEW n \in Nat, n = Len(rs)
    PROVE  /\ Ids(rs) \in [1..n -> {"vuln", "llm_audit"} \X STRING \X Int]
           /\ DOMAIN rs = 1..n /\ Len(Ids(rs)) = n
           /\ Ids(rs) = <<>> <=> n = 0
           /\ rs = <<>> <=> n = 0
<1>1. DOMAIN rs = 1..n /\ \A i \in 1..n : rs[i] \in ReportOf(T)
  OBVIOUS
<1>2. ASSUME NEW i \in 1..n PROVE IdOf(rs, i) \in {"vuln", "llm_audit"} \X STRING \X Int
  <2>1. rs[i].rule \in STRING /\ rs[i].line \in Int
    BY <1>1 DEF ReportOf
  <2>2. i \in Int
    OBVIOUS
  <2>3. IdOf(rs, i) = <<"llm_audit", rs[i].rule, i>> \/ IdOf(rs, i) = <<"vuln", rs[i].rule, rs[i].line>>
    BY DEF IdOf
  <2>4. "llm_audit" \in {"vuln", "llm_audit"} /\ "vuln" \in {"vuln", "llm_audit"}
    BY Zenon
  <2> QED
    BY <2>1, <2>2, <2>3, <2>4
<1>3. Ids(rs) = [i \in 1..n |-> IdOf(rs, i)]
  BY <1>1 DEF Ids
<1> QED
  BY <1>1, <1>2, <1>3

LEMMA FrontInitially == ScanInit => Pipeline!Init
<1> SUFFICES ASSUME ScanInit PROVE Pipeline!Init
  OBVIOUS
<1>1. ScanInv /\ reports = <<>> /\ llmError = FALSE
  BY ScanInitially DEF ScanInit
<1>2. stage \in Tool \cup {"merge"}
  BY <1>1 DEF ScanInit, ScanInv, Tools, Tool
<1>3. stageBar = "static" /\ targetsBar = {} /\ todoBar = {}
  BY <1>2 DEF stageBar, targetsBar, todoBar, Tool
<1>4. optsBar \in [use_llm: BOOLEAN, multi: BOOLEAN, audit: BOOLEAN, optimize: BOOLEAN]
  <2>1. {option.use_llm, option.audit, option.optimize} \subseteq BOOLEAN
    BY <1>1, ScanAssumption DEF ScanInv
  <2> QED
    BY <2>1 DEF optsBar
<1>5. Ids(reports) = <<>>
  BY <1>1 DEF Ids
<1> QED
  BY <1>1, <1>3, <1>4, <1>5 DEF Pipeline!Init, Pipeline!Option

LEMMA FrontUnchanged ==
    ASSUME UNCHANGED <<stageBar, optsBar, Ids(reports), targetsBar, todoBar, llmError>>
    PROVE  UNCHANGED Pipeline!vars
BY DEF Pipeline!vars, Pipeline!agentVars

LEMMA FrontRaises ==
    ASSUME stageBar = "static", stageBar' = "raised",
           UNCHANGED <<optsBar, Ids(reports), targetsBar, todoBar, llmError>>
    PROVE  Pipeline!Next
<1>1. Pipeline!Raise
  BY DEF Pipeline!Raise, Pipeline!agentVars
<1> QED
  BY <1>1 DEF Pipeline!Next

\* The mapping, stage by stage.
Bars ==
    /\ stage \in Tool \cup {"merge"} => stageBar = "static" /\ targetsBar = {} /\ todoBar = {}
    /\ stage \in {"context", "deduplicate", "optimize"} =>
          stageBar = "select" /\ targetsBar = {} /\ todoBar = {}
    /\ stage = "audit" => stageBar = "audit" /\ targetsBar = {} /\ todoBar = {}
    /\ stage = "generate" => stageBar = "generate" /\ targetsBar = ToSet(targets) /\ todoBar = ToSet(targets)
    /\ stage = "build" => stageBar = "build" /\ targetsBar = ToSet(targets) /\ todoBar = {}
    /\ stage = "raised" => stageBar = "raised" /\ targetsBar = {} /\ todoBar = {}

LEMMA BarsOfStage == Bars
<1>1. stage \in Tool \cup {"merge"} => stageBar = "static" /\ targetsBar = {} /\ todoBar = {}
  BY DEF stageBar, targetsBar, todoBar, Tool
<1>2. stage \in {"context", "deduplicate", "optimize"} =>
        stageBar = "select" /\ targetsBar = {} /\ todoBar = {}
  BY DEF stageBar, targetsBar, todoBar, Tool
<1>3. stage \in {"audit", "generate", "build", "raised"} => stageBar = stage
  BY DEF stageBar, Tool
<1>4. stage \in {"audit", "raised"} => targetsBar = {} /\ todoBar = {}
  BY DEF targetsBar, todoBar
<1>5. stage = "generate" => targetsBar = ToSet(targets) /\ todoBar = ToSet(targets)
  BY DEF targetsBar, todoBar
<1>6. stage = "build" => targetsBar = ToSet(targets) /\ todoBar = {}
  BY DEF targetsBar, todoBar
<1> QED
  BY <1>1, <1>2, <1>3, <1>4, <1>5, <1>6 DEF Bars

LEMMA BarsOfNextStage == Bars'
BY BarsOfStage, PTL

USE DEF Bars

LEMMA NothingChosen ==
    ASSUME NEW n \in Nat, NEW sent \in Seq(1..n)
    PROVE  ToSet(sent) \subseteq 1..n /\ (ToSet(sent) = {} <=> sent = <<>>)
<1>1. PICK m \in Nat : m = Len(sent) /\ DOMAIN sent = 1..m
  OBVIOUS
<1>2. ToSet(sent) = {sent[k] : k \in 1..m}
  BY <1>1 DEF ToSet
<1>3. m # 0 => sent[1] \in ToSet(sent)
  BY <1>1, <1>2
<1>4. m = 0 <=> sent = <<>>
  BY <1>1
<1>5. m = 0 => ToSet(sent) = {}
  BY <1>2
<1>6. ToSet(sent) \subseteq 1..n
  BY <1>1, <1>2
<1> QED
  BY <1>1, <1>3, <1>4, <1>5, <1>6

LEMMA FrontStep == ScanInv /\ [ScanNext]_scanVars => [Pipeline!Next]_(Pipeline!vars)
<1> SUFFICES ASSUME ScanInv, [ScanNext]_scanVars PROVE [Pipeline!Next]_(Pipeline!vars)
  OBVIOUS
<1>a. option' = option => optsBar' = optsBar
  BY DEF optsBar
<1>b. reports' = reports => Ids(reports)' = Ids(reports)
  OBVIOUS
<1>c. option \in ScanOption /\ {option.use_llm, option.audit, option.optimize} \subseteq BOOLEAN
  BY ScanAssumption DEF ScanInv
<1>d. /\ optsBar.use_llm = option.use_llm /\ optsBar.audit = option.audit
      /\ optsBar.optimize = option.optimize
  BY DEF optsBar
<1>1. CASE RunBandit \/ RunSemgrep \/ RunHeuristic
  <2>1. ToolStep
    BY <1>1, ToolSteps
  <2>2. UNCHANGED <<stageBar, optsBar, Ids(reports), targetsBar, todoBar, llmError>>
    BY <1>a, <1>b, <2>1, BarsOfStage, BarsOfNextStage DEF ToolStep
  <2> QED
    BY <2>2, FrontUnchanged
<1>8. CASE BreakOff
  <2>1. /\ stage \in {"bandit", "semgrep"} /\ stage' = "raised"
        /\ UNCHANGED <<option, reports, llmError>>
    BY <1>8 DEF BreakOff
  <2>2. stage \in Tool \cup {"merge"}
    BY <2>1 DEF Tool
  <2>3. /\ stageBar = "static" /\ stageBar' = "raised"
        /\ UNCHANGED <<optsBar, Ids(reports), targetsBar, todoBar, llmError>>
    BY <1>a, <1>b, <2>1, <2>2, BarsOfStage, BarsOfNextStage
  <2> QED
    BY <2>3, FrontRaises
<1>2. CASE RunStaticAnalysis
  <2>1. stage = "merge" /\ stage' = "context" /\ UNCHANGED <<option, llmError>>
    BY <1>2 DEF RunStaticAnalysis
  <2>2. Merged(reports', result)
    <3>1. source \in Source /\ FoundBy(result, source)
      BY DEF ScanInv
    <3> QED
      BY <1>2, <3>1, MergedFindings DEF RunStaticAnalysis, MergeResults
  <2>3. PICK n \in Nat : n = Len(reports') /\ n <= MaxReports
    BY <2>2 DEF Merged
  <2>4. n \in 0..MaxReports
    BY <2>3, BoundAssumption
  <2>5. Ids(reports)' \in [1..n -> {"vuln", "llm_audit"} \X STRING \X Int]
    BY <2>2, <2>3, IdsTypes DEF Merged
  <2> QED
    BY <1>a, <2>1, <2>4, <2>5, BarsOfStage, BarsOfNextStage, FindingsArrive
<1>3. CASE ExtractContext
  <2>1. stage = "context" /\ stage' = "deduplicate" /\ UNCHANGED <<option, llmError>>
    BY <1>3 DEF ExtractContext
  <2>2. reports \in Seq(ReportOf(Tool))
    BY <2>1 DEF ScanInv
  <2>3. reports' = reports \/ OtherCode(reports, reports')
    BY <1>3, <2>2, FunctionsAreCode DEF ExtractContext, WithFunctions
  <2>4. Ids(reports') = Ids(reports)
    BY <2>3 DEF OtherCode, Ids, IdOf
  <2>5. UNCHANGED <<stageBar, optsBar, Ids(reports), targetsBar, todoBar, llmError>>
    BY <1>a, <2>1, <2>4, BarsOfStage, BarsOfNextStage
  <2> QED
    BY <2>5, FrontUnchanged
<1>4. CASE Deduplicate
  <2>1. stage = "deduplicate" /\ stage' = "optimize" /\ UNCHANGED <<option, reports, llmError>>
    BY <1>4 DEF Deduplicate
  <2>2. UNCHANGED <<stageBar, optsBar, Ids(reports), targetsBar, todoBar, llmError>>
    BY <1>a, <1>b, <2>1, BarsOfStage, BarsOfNextStage
  <2> QED
    BY <2>2, FrontUnchanged
<1>5. CASE OptimizeTargets
  <2>1. stage = "optimize" /\ UNCHANGED <<option, reports, llmError>>
    BY <1>5 DEF OptimizeTargets
  <2>2. reports \in Seq(ReportOf(Tool)) /\ targets = Representatives(reports)
    BY <2>1 DEF ScanInv
  <2>3. PICK n \in Nat : n = Len(reports) /\ DOMAIN reports = 1..n
    BY <2>2
  <2>4. PICK sent : sent = targets'
    OBVIOUS
  <2>5. /\ Representatives(reports) \in Seq(1..n)
        /\ Representatives(reports) = <<>> <=> n = 0
    BY <2>3, RepresentativesTypes
  <2>6. /\ sent \in Seq(1..n)
        /\ targets = <<>> => sent = <<>>
        /\ sent = <<>> => targets = <<>> \/ option.optimize
    BY <1>c, <1>5, <2>2, <2>3, <2>4, <2>5, SelectIsChoice, ChoiceTypes
  <2>7. ToSet(sent) \subseteq 1..n /\ (ToSet(sent) = {} <=> sent = <<>>)
    BY <2>6, NothingChosen
  <2>8. Len(Ids(reports)) = n /\ (Ids(reports) = <<>> <=> n = 0) /\ (reports = <<>> <=> n = 0)
    BY <2>2, <2>3, IdsTypes
  <2>9. stage' = CASE option.use_llm /\ sent # <<>>                   -> "generate"
                   [] option.use_llm /\ option.audit /\ reports = <<>> -> "audit"
                   [] OTHER                                           -> "build"
    BY <1>5, <2>4, Zenon DEF OptimizeTargets
  <2>10. stageBar = "select"
    BY <2>1, BarsOfStage
  <2>11. targetsBar' = ToSet(sent)
    BY <2>2, <2>4, <2>5, <2>6, <2>7, <2>8, <2>9, BarsOfNextStage
  <2>12. todoBar' = IF optsBar.use_llm THEN targetsBar' ELSE {}
    <3>1. CASE option.use_llm /\ sent # <<>>
      <4>1. reports # <<>>
        BY <2>2, <2>5, <2>6, <2>8, <3>1
      <4>2. stage' = "generate"
        BY <2>9, <3>1, <4>1
      <4> QED
        BY <1>d, <2>4, <2>11, <3>1, <4>2, BarsOfNextStage
    <3>2. CASE option.use_llm /\ sent = <<>>
      <4>1. stage' \in {"audit", "build"}
        BY <2>9, <3>2
      <4> QED
        BY <2>7, <2>11, <3>2, <4>1, BarsOfNextStage
    <3>3. CASE ~option.use_llm
      <4>1. stage' = "build"
        BY <2>9, <3>3
      <4> QED
        BY <1>d, <3>3, <4>1, BarsOfNextStage
    <3> QED
      BY <3>1, <3>2, <3>3
  <2>13. stageBar' = stage'
    BY <2>9, BarsOfNextStage
  <2>14. stageBar' = CASE optsBar.use_llm /\ targetsBar' # {}                     -> "generate"
                       [] optsBar.use_llm /\ optsBar.audit /\ Ids(reports) = <<>> -> "audit"
                       [] OTHER                                                  -> "build"
    BY <1>d, <2>7, <2>8, <2>9, <2>11, <2>13
  <2>15. /\ targetsBar' \subseteq 1..n
         /\ targetsBar' = {} => n = 0 \/ optsBar.optimize
         /\ UNCHANGED <<optsBar, Ids(reports), llmError>>
    BY <1>a, <1>b, <1>d, <2>1, <2>2, <2>5, <2>6, <2>7, <2>11
  <2> QED
    BY <2>8, <2>10, <2>12, <2>14, <2>15, TargetsChosen
<1>6. CASE AuditClean
  <2>1. stage = "audit" /\ UNCHANGED option /\ reports = <<>> /\ targets = <<>>
    BY <1>6 DEF AuditClean, ScanInv
  <2>2. stageBar = "audit" /\ targetsBar = {} /\ todoBar = {} /\ UNCHANGED optsBar
    BY <1>a, <2>1, BarsOfStage
  <2>3. CASE UNCHANGED <<reports, targets>> /\ stage' = "build" /\ llmError' = TRUE
    <3>1. ToSet(targets') = {}
      BY <2>1, <2>3 DEF ToSet
    <3> QED
      BY <1>b, <2>2, <2>3, <3>1, BarsOfNextStage, AuditFailed
  <2>4. CASE /\ reports' \in AuditReport /\ UNCHANGED llmError
             /\ targets' = ChoiceOf(reports', [i \in DOMAIN reports' |-> i], option)
             /\ stage' = IF targets' = <<>> THEN "build" ELSE "generate"
    <3>1. PICK rs, sent, input : rs = reports' /\ sent = targets' /\ input = [i \in DOMAIN rs |-> i]
      OBVIOUS
    <3>2. rs \in Seq(ReportOf({"llm_audit"}))
      BY <2>4, <3>1, ScanAssumption
    <3>3. PICK n \in Nat : n = Len(rs) /\ DOMAIN rs = 1..n
      BY <3>2
    <3>4. n \in 0..MaxReports
      BY <2>4, <3>1, <3>3, BoundAssumption
    <3>5. input \in Seq(1..n) /\ (input = <<>> => n = 0)
      BY <3>1, <3>3
    <3>6. sent \in Seq(1..n) /\ (sent = <<>> => input = <<>> \/ option.optimize)
      BY <1>c, <2>4, <3>1, <3>2, <3>3, <3>5, ChoiceTypes
    <3>7. ToSet(sent) \subseteq 1..n /\ (ToSet(sent) = {} <=> sent = <<>>)
      BY <3>6, NothingChosen
    <3>8. PICK ids \in [1..n -> {"vuln", "llm_audit"} \X STRING \X Int] : ids = Ids(rs)
      BY <3>2, <3>3, IdsTypes
    <3>9. \A i, j \in 1..n : ids[i] = ids[j] => i = j
      <4>1. \A i \in 1..n : rs[i].tool \in {"llm_audit"}
        BY <3>2, <3>3, ToolOf
      <4>2. \A i \in 1..n : ids[i] = <<"llm_audit", rs[i].rule, i>>
        BY <3>3, <3>8, <4>1 DEF Ids, IdOf
      <4> QED
        BY <4>2
    <3>10. Ids(reports)' = ids
      BY <3>1, <3>8
    <3>11. targetsBar' = ToSet(sent) /\ todoBar' = targetsBar'
      BY <2>4, <3>1, <3>7, BarsOfNextStage
    <3>12. stageBar' = IF targetsBar' = {} THEN "build" ELSE "generate"
      BY <2>4, <3>1, <3>7, <3>11, BarsOfNextStage
    <3>13. targetsBar' \subseteq 1..n /\ (targetsBar' = {} => n = 0 \/ optsBar.optimize)
      BY <1>d, <3>5, <3>6, <3>7, <3>11
    <3> QED
      BY <2>2, <2>4, <3>4, <3>9, <3>10, <3>11, <3>12, <3>13, AuditAnswered
  <2> QED
    BY <1>6, <2>3, <2>4, SelectIsChoice
<1>7. CASE UNCHANGED scanVars
  <2>1. UNCHANGED <<stageBar, optsBar, Ids(reports), targetsBar, todoBar, llmError>>
    BY <1>7 DEF scanVars, stageBar, optsBar, targetsBar, todoBar
  <2> QED
    BY <2>1, FrontUnchanged
<1> QED
  BY <1>1, <1>2, <1>3, <1>4, <1>5, <1>6, <1>7, <1>8 DEF ScanNext

\* ImplementsPipeline: what the scan hands over, and when it turns to the audit,
\* is what PatchPipeline allows for, so what is proved of that holds of the
\* patches for these reports.
THEOREM ScanImplementsPipeline == Spec => ImplementsPipeline
<1>1. Init => Pipeline!Init
  BY FrontInitially DEF Init
<1>2. ScanInv /\ [Next]_vars => [Pipeline!Next]_(Pipeline!vars)
  <2>1. [Next]_vars => [ScanNext]_scanVars
    BY DEF Next, vars
  <2> QED
    BY <2>1, FrontStep
<1> QED
  BY <1>1, <1>2, ScanAlways, PTL DEF Spec, ImplementsPipeline

-----------------------------------------------------------------------------
(* Masking and unmasking.  A function P from atoms to texts rewrites a     *)
(* text atom by atom; Unmask is such a rewriting (UnmaskFills), for no     *)
(* value of a mask map has a placeholder in it.  What a match leaves is    *)
(* Masked: to fill its placeholders gives the original.  So is what all    *)
(* matches of a pattern leave, all patterns, and Presidio before them.     *)
(*                                                                         *)
(* Rewriting the atoms of a text                                           *)

\* f[i] is what the first i of the sequences p are when joined.
JoinedBy(f, p, n) ==
    DOMAIN f = 1..n /\ \A i \in 1..n : f[i] = IF i = 1 THEN p[i] ELSE f[i - 1] \o p[i]

LEMMA JoinExists == ASSUME NEW p, NEW m \in Nat PROVE \E f : JoinedBy(f, p, m)
<1> DEFINE Bad == {n \in Nat : ~ \E f : JoinedBy(f, p, n)}
<1>1. SUFFICES ASSUME Bad # {} PROVE FALSE
  OBVIOUS
<1>2. PICK n \in Bad : \A k \in Bad : n <= k
  <2>1. Bad \in SUBSET Nat
    OBVIOUS
  <2> HIDE DEF Bad
  <2> QED
    BY <1>1, <2>1, LeastNatural
<1>3. n # 0
  <2>1. JoinedBy(<<>>, p, 0)
    BY DEF JoinedBy
  <2> QED
    BY <2>1
<1>4. PICK f : JoinedBy(f, p, n - 1)
  <2>1. n - 1 \in Nat /\ ~(n <= n - 1)
    BY <1>3
  <2> QED
    BY <1>2, <2>1
<1> DEFINE g == [i \in 1..n |-> IF i # n THEN f[i] ELSE IF n = 1 THEN p[n] ELSE f[n - 1] \o p[n]]
<1>5. /\ DOMAIN g = 1..n /\ \A i \in 1..(n - 1) : g[i] = f[i]
      /\ g[n] = IF n = 1 THEN p[n] ELSE f[n - 1] \o p[n]
  <2>1. DOMAIN g = 1..n
    OBVIOUS
  <2>2. \A i \in 1..(n - 1) : i \in 1..n /\ i # n
    OBVIOUS
  <2>3. \A i \in 1..(n - 1) : g[i] = f[i]
    BY <2>2
  <2>4. n \in 1..n
    BY <1>3
  <2>5. g[n] = IF n = 1 THEN p[n] ELSE f[n - 1] \o p[n]
    BY <2>4
  <2> QED
    BY <2>1, <2>3, <2>5
<1> HIDE DEF g
<1>6. ASSUME NEW i \in 1..n PROVE g[i] = IF i = 1 THEN p[i] ELSE g[i - 1] \o p[i]
  <2>1. CASE i = n
    <3>1. n # 1 => n - 1 \in 1..(n - 1)
      BY <1>3
    <3> QED
      BY <1>5, <2>1, <3>1
  <2>2. CASE i # n
    <3>1. i \in 1..(n - 1) /\ (i # 1 => i - 1 \in 1..(n - 1))
      BY <2>2
    <3> QED
      BY <1>4, <1>5, <3>1 DEF JoinedBy
  <2> QED
    BY <2>1, <2>2
<1>7. JoinedBy(g, p, n)
  BY <1>5, <1>6 DEF JoinedBy
<1> QED
  BY <1>7

LEMMA JoinedAlike ==
    ASSUME NEW n \in Nat, NEW m \in Nat, n <= m, NEW p, NEW q, NEW f, NEW g,
           JoinedBy(f, p, n), JoinedBy(g, q, m), \A i \in 1..n : p[i] = q[i]
    PROVE  \A i \in 1..n : f[i] = g[i]
<1> DEFINE Bad == {i \in 1..n : f[i] # g[i]}
<1>1. SUFFICES ASSUME Bad # {} PROVE FALSE
  OBVIOUS
<1>2. PICK i \in Bad : \A k \in Bad : i <= k
  <2>1. Bad \in SUBSET Nat
    OBVIOUS
  <2> HIDE DEF Bad
  <2> QED
    BY <1>1, <2>1, LeastNatural
<1>3. i \in 1..n /\ i \in 1..m
  OBVIOUS
<1>4. i # 1 => f[i - 1] = g[i - 1]
  <2>1. i # 1 => i - 1 \in 1..n /\ ~(i <= i - 1)
    BY <1>3
  <2> QED
    BY <1>2, <2>1
<1>5. f[i] = IF i = 1 THEN p[i] ELSE f[i - 1] \o p[i]
  BY DEF JoinedBy
<1>6. g[i] = IF i = 1 THEN q[i] ELSE g[i - 1] \o q[i]
  BY <1>3 DEF JoinedBy
<1>7. f[i] = g[i]
  BY <1>4, <1>5, <1>6
<1> QED
  BY <1>7

\* The value of FlattenSeq.
LEMMA FlattenIsJoin ==
    ASSUME NEW n \in Nat, n # 0, NEW p, Len(p) = n
    PROVE  \E f : JoinedBy(f, p, n) /\ FlattenSeq(p) = f[n]
<1>1. PICK g : JoinedBy(g, p, n)
  BY JoinExists
<1>2. PICK h : h = [i \in 1..n |-> g[i]]
  OBVIOUS
<1>3. h = [i \in 1..n |-> IF i = 1 THEN p[i] ELSE h[i - 1] \o p[i]]
  <2>1. \A i \in 1..n : g[i] = IF i = 1 THEN p[i] ELSE h[i - 1] \o p[i]
    <3> SUFFICES ASSUME NEW i \in 1..n
                 PROVE  g[i] = IF i = 1 THEN p[i] ELSE h[i - 1] \o p[i]
      OBVIOUS
    <3>1. i # 1 => i - 1 \in 1..n
      OBVIOUS
    <3> QED
      BY <1>1, <1>2, <3>1 DEF JoinedBy
  <2> QED
    BY <1>2, <2>1
<1> DEFINE f == CHOOSE x : x = [i \in 1..n |-> IF i = 1 THEN p[i] ELSE x[i - 1] \o p[i]]
<1>4. FlattenSeq(p) = f[n]
  BY DEF FlattenSeq
<1>5. f = [i \in 1..n |-> IF i = 1 THEN p[i] ELSE f[i - 1] \o p[i]]
  BY <1>3, Zenon
<1> HIDE DEF f
<1>6. JoinedBy(f, p, n)
  BY <1>5 DEF JoinedBy
<1> QED
  BY <1>4, <1>6

LEMMA FlattenNone == FlattenSeq(<<>>) = <<>>
BY DEF FlattenSeq

LEMMA FlattenMore ==
    ASSUME NEW Y, NEW p \in Seq(Seq(Y)), NEW q \in Seq(Y)
    PROVE  FlattenSeq(Append(p, q)) = IF p = <<>> THEN q ELSE FlattenSeq(p) \o q
<1>1. PICK n \in Nat : n = Len(p)
  OBVIOUS
<1>2. PICK r : r = Append(p, q)
  OBVIOUS
<1>3. Len(r) = n + 1 /\ r[n + 1] = q /\ \A i \in 1..n : p[i] = r[i]
  BY <1>1, <1>2
<1>4. PICK g : JoinedBy(g, r, n + 1) /\ FlattenSeq(r) = g[n + 1]
  BY <1>3, FlattenIsJoin
<1>5. CASE n = 0
  <2>1. p = <<>>
    BY <1>1, <1>5, EmptySeq
  <2>2. g[1] = q
    BY <1>3, <1>4, <1>5 DEF JoinedBy
  <2> QED
    BY <1>2, <1>4, <1>5, <2>1, <2>2
<1>6. CASE n # 0
  <2>1. PICK f : JoinedBy(f, p, n) /\ FlattenSeq(p) = f[n]
    BY <1>1, <1>6, FlattenIsJoin
  <2>2. \A i \in 1..n : f[i] = g[i]
    <3>1. n + 1 \in Nat /\ n <= n + 1
      OBVIOUS
    <3> QED
      BY <1>3, <1>4, <2>1, <3>1, JoinedAlike
  <2>3. g[n + 1] = g[n] \o q
    <3>1. n + 1 \in 1..(n + 1) /\ n + 1 # 1 /\ (n + 1) - 1 = n
      BY <1>6
    <3> QED
      BY <1>3, <1>4, <3>1 DEF JoinedBy
  <2>4. n \in 1..n /\ p # <<>>
    BY <1>1, <1>6
  <2> QED
    BY <1>2, <1>4, <2>1, <2>2, <2>3, <2>4
<1> QED
  BY <1>5, <1>6

LEMMA Associative ==
    ASSUME NEW Y, NEW a \in Seq(Y), NEW b \in Seq(Y), NEW c \in Seq(Y)
    PROVE  (a \o b) \o c = a \o (b \o c)
BY ConcatAssociative

\* v is z and a last y after it.
EndsIn(v, Y) == \E z \in Seq(Y), y \in Y : v = Append(z, y)

LEMMA HasLast == ASSUME NEW Y, NEW v \in Seq(Y), v # <<>> PROVE EndsIn(v, Y)
BY SequenceEmptyOrAppend DEF EndsIn

\* Texts of which all beginnings are in T are in T.
LEMMA TextInduction ==
    ASSUME NEW S, NEW T, <<>> \in T, \A t \in Seq(S), x \in S : t \in T => Append(t, x) \in T
    PROVE  \A t \in Seq(S) : t \in T
<1> DEFINE Bad == {n \in Nat : \E s \in Seq(S) : Len(s) = n /\ s \notin T}
<1>1. SUFFICES ASSUME Bad # {} PROVE FALSE
  <2> SUFFICES ASSUME NEW t \in Seq(S), t \notin T PROVE Bad # {}
    OBVIOUS
  <2>1. Len(t) \in Bad
    OBVIOUS
  <2> HIDE DEF Bad
  <2> QED
    BY <2>1
<1>2. PICK n \in Bad : \A k \in Bad : n <= k
  <2>1. Bad \in SUBSET Nat
    OBVIOUS
  <2> HIDE DEF Bad
  <2> QED
    BY <1>1, <2>1, LeastNatural
<1>3. PICK s \in Seq(S) : Len(s) = n /\ s \notin T
  OBVIOUS
<1>4. s # <<>>
  BY <1>3
<1>5. PICK u \in Seq(S), x \in S : s = Append(u, x)
  BY <1>4, SequenceEmptyOrAppend
<1>6. u \in T
  <2>1. Len(u) \in Nat /\ ~(n <= Len(u))
    BY <1>3, <1>5
  <2> QED
    BY <1>2, <2>1
<1> QED
  BY <1>3, <1>5, <1>6

\* The text with each of its atoms x replaced by the text P[x].
Rewritten(t, P) == FlattenSeq([k \in DOMAIN t |-> P[t[k]]])

LEMMA RewrittenNone == ASSUME NEW P PROVE Rewritten(<<>>, P) = <<>>
<1>1. [k \in DOMAIN <<>> |-> P[<<>>[k]]] = <<>>
  OBVIOUS
<1> QED
  BY <1>1, FlattenNone DEF Rewritten

\* P replaces the members of S by texts over Y.
Rewrites(P, S, Y) == \A x \in S : P[x] \in Seq(Y)

LEMMA RewrittenMoreOrNone ==
    ASSUME NEW S, NEW Y, NEW P, Rewrites(P, S, Y), NEW t \in Seq(S), NEW x \in S
    PROVE  Rewritten(Append(t, x), P) = IF t = <<>> THEN P[x] ELSE Rewritten(t, P) \o P[x]
<1>1. PICK p : p = [k \in DOMAIN t |-> P[t[k]]]
  OBVIOUS
<1>2. p \in Seq(Seq(Y)) /\ (p = <<>> <=> t = <<>>) /\ Len(p) = Len(t)
  <2>1. \A k \in 1..Len(t) : P[t[k]] \in Seq(Y)
    BY DEF Rewrites
  <2> QED
    BY <1>1, <2>1
<1>3. PICK u : u = Append(t, x)
  OBVIOUS
<1>4. u \in Seq(S) /\ Len(u) = Len(t) + 1 /\ u[Len(t) + 1] = x
      /\ \A k \in 1..Len(t) : u[k] = t[k]
  BY <1>3
<1>5. PICK q : q = [k \in DOMAIN u |-> P[u[k]]]
  OBVIOUS
<1>6. q = Append(p, P[x])
  <2>1. q \in Seq(Seq(Y)) /\ Len(q) = Len(t) + 1
    <3>1. \A k \in 1..Len(u) : P[u[k]] \in Seq(Y)
      BY <1>4 DEF Rewrites
    <3> QED
      BY <1>4, <1>5, <3>1
  <2>2. Append(p, P[x]) \in Seq(Seq(Y)) /\ Len(Append(p, P[x])) = Len(t) + 1
    BY <1>2 DEF Rewrites
  <2>3. ASSUME NEW k \in 1..(Len(t) + 1) PROVE q[k] = Append(p, P[x])[k]
    <3>1. CASE k = Len(t) + 1
      BY <1>2, <1>4, <1>5, <3>1 DEF Rewrites
    <3>2. CASE k # Len(t) + 1
      <4>1. k \in 1..Len(t)
        BY <3>2
      <4>2. q[k] = P[t[k]] /\ p[k] = P[t[k]]
        BY <1>1, <1>4, <1>5, <4>1
      <4>3. Append(p, P[x])[k] = p[k]
        BY <1>2, <4>1 DEF Rewrites
      <4> QED
        BY <4>2, <4>3
    <3> QED
      BY <3>1, <3>2
  <2> QED
    BY <2>1, <2>2, <2>3, SeqEqual
<1>7. P[x] \in Seq(Y)
  BY DEF Rewrites
<1>8. FlattenSeq(q) = IF p = <<>> THEN P[x] ELSE FlattenSeq(p) \o P[x]
  BY <1>2, <1>6, <1>7, FlattenMore
<1> QED
  BY <1>1, <1>2, <1>3, <1>5, <1>8 DEF Rewritten

LEMMA RewrittenType ==
    ASSUME NEW S, NEW Y, NEW P, Rewrites(P, S, Y), NEW t \in Seq(S)
    PROVE  Rewritten(t, P) \in Seq(Y)
<1> DEFINE T == {s \in Seq(S) : Rewritten(s, P) \in Seq(Y)}
<1>1. <<>> \in T
  BY RewrittenNone, EmptySeq
<1>2. ASSUME NEW s \in Seq(S), NEW x \in S, s \in T PROVE Append(s, x) \in T
  <2>1. P[x] \in Seq(Y)
    BY DEF Rewrites
  <2>2. Rewritten(Append(s, x), P) = IF s = <<>> THEN P[x] ELSE Rewritten(s, P) \o P[x]
    BY RewrittenMoreOrNone
  <2>3. Rewritten(Append(s, x), P) \in Seq(Y)
    BY <1>2, <2>1, <2>2, ConcatProperties
  <2> QED
    BY <2>3, AppendProperties
<1>3. t \in T
  <2> HIDE DEF T
  <2> QED
    BY <1>1, <1>2, TextInduction
<1> QED
  BY <1>3

LEMMA RewrittenMore ==
    ASSUME NEW S, NEW Y, NEW P, Rewrites(P, S, Y), NEW t \in Seq(S), NEW x \in S
    PROVE  Rewritten(Append(t, x), P) = Rewritten(t, P) \o P[x]
<1>1. Rewritten(Append(t, x), P) = IF t = <<>> THEN P[x] ELSE Rewritten(t, P) \o P[x]
  BY RewrittenMoreOrNone
<1>2. P[x] \in Seq(Y)
  BY DEF Rewrites
<1> QED
  BY <1>1, <1>2, RewrittenNone
LEMMA RewrittenOne ==
    ASSUME NEW S, NEW Y, NEW P, Rewrites(P, S, Y), NEW x \in S
    PROVE  Rewritten(<<x>>, P) = P[x]
<1>1. <<>> \in Seq(S) /\ Append(<<>>, x) = <<x>>
  OBVIOUS
<1>2. Rewritten(Append(<<>>, x), P) = P[x]
  BY <1>1, RewrittenMoreOrNone
<1> QED
  BY <1>1, <1>2

LEMMA RewrittenJoin ==
    ASSUME NEW S, NEW Y, NEW P, Rewrites(P, S, Y), NEW s \in Seq(S), NEW t \in Seq(S)
    PROVE  Rewritten(s \o t, P) = Rewritten(s, P) \o Rewritten(t, P)
<1> DEFINE T == {u \in Seq(S) : Rewritten(s \o u, P) = Rewritten(s, P) \o Rewritten(u, P)}
<1>0. Rewritten(s, P) \in Seq(Y)
  BY RewrittenType
<1>1. <<>> \in T
  BY <1>0, RewrittenNone
<1>2. ASSUME NEW u \in Seq(S), NEW x \in S, u \in T PROVE Append(u, x) \in T
  <2>1. s \o Append(u, x) = Append(s \o u, x) /\ s \o u \in Seq(S)
    OBVIOUS
  <2>2. Rewritten(Append(s \o u, x), P) = Rewritten(s \o u, P) \o P[x]
    <3>1. PICK w \in Seq(S) : w = s \o u
      BY <2>1
    <3>2. Rewritten(Append(w, x), P) = Rewritten(w, P) \o P[x]
      BY RewrittenMore
    <3> QED
      BY <3>1, <3>2
  <2>3. Rewritten(Append(u, x), P) = Rewritten(u, P) \o P[x]
    BY RewrittenMore
  <2>4. Rewritten(u, P) \in Seq(Y) /\ P[x] \in Seq(Y)
    BY RewrittenType DEF Rewrites
  <2>5. (Rewritten(s, P) \o Rewritten(u, P)) \o P[x] = Rewritten(s, P) \o (Rewritten(u, P) \o P[x])
    <3>1. PICK a \in Seq(Y), b \in Seq(Y), c \in Seq(Y) :
                 a = Rewritten(s, P) /\ b = Rewritten(u, P) /\ c = P[x]
      BY <1>0, <2>4
    <3>2. (a \o b) \o c = a \o (b \o c)
      BY Associative, SMTT(30)
    <3> QED
      BY <3>1, <3>2
  <2>6. Append(u, x) \in Seq(S)
    OBVIOUS
  <2>7. Rewritten(s \o u, P) = Rewritten(s, P) \o Rewritten(u, P)
    BY <1>2
  <2> QED
    BY <2>1, <2>2, <2>3, <2>5, <2>6, <2>7, Zenon
<1>3. t \in T
  <2> HIDE DEF T
  <2> QED
    BY <1>1, <1>2, TextInduction
<1> QED
  BY <1>3

LEMMA RewrittenAlike ==
    ASSUME NEW S, NEW Y, NEW P, NEW Q, Rewrites(P, S, Y), \A x \in S : P[x] = Q[x],
           NEW t \in Seq(S)
    PROVE  Rewritten(t, P) = Rewritten(t, Q)
<1>1. \A k \in DOMAIN t : P[t[k]] = Q[t[k]]
  OBVIOUS
<1>2. [k \in DOMAIN t |-> P[t[k]]] = [k \in DOMAIN t |-> Q[t[k]]]
  BY <1>1
<1> QED
  BY <1>2 DEF Rewritten

\* P makes each atom of s the one of t at its place.
AtomByAtom(P, s, t) == Len(s) = Len(t) /\ \A k \in 1..Len(s) : P[s[k]] = <<t[k]>>

LEMMA RewrittenByAtom ==
    ASSUME NEW S, NEW Y, NEW P, Rewrites(P, S, Y), NEW s \in Seq(S), NEW t \in Seq(Y),
           AtomByAtom(P, s, t)
    PROVE  Rewritten(s, P) = t
<1> DEFINE T == {u \in Seq(S) : \A v \in Seq(Y) : AtomByAtom(P, u, v) => Rewritten(u, P) = v}
<1>1. <<>> \in T
  BY RewrittenNone, EmptySeq DEF AtomByAtom
<1>2. ASSUME NEW u \in Seq(S), NEW x \in S, u \in T PROVE Append(u, x) \in T
  <2>1. PICK w : w = Append(u, x)
    OBVIOUS
  <2>2. /\ w \in Seq(S) /\ Len(w) = Len(u) + 1 /\ w[Len(u) + 1] = x
        /\ \A k \in 1..Len(u) : w[k] = u[k]
    BY <2>1
  <2> SUFFICES ASSUME NEW v \in Seq(Y), Len(w) = Len(v), \A k \in 1..Len(w) : P[w[k]] = <<v[k]>>
               PROVE  Rewritten(w, P) = v
    BY <2>1, <2>2 DEF AtomByAtom
  <2>3. PICK m \in Nat : m = Len(u)
    OBVIOUS
  <2>4. v # <<>>
    <3>1. Len(v) = m + 1 /\ m + 1 # 0
      BY <2>2, <2>3
    <3>2. Len(<<>>) = 0
      BY EmptySeq
    <3> QED
      BY <3>1, <3>2
  <2>5. PICK z \in Seq(Y), y \in Y : v = Append(z, y)
    <3>1. EndsIn(v, Y)
      BY <2>4, HasLast
    <3> QED
      BY <3>1 DEF EndsIn
  <2>6. Len(z) = m /\ v[m + 1] = y /\ \A k \in 1..m : v[k] = z[k]
    <3>1. Len(v) = Len(z) + 1 /\ v[Len(z) + 1] = y /\ \A k \in 1..Len(z) : v[k] = z[k]
      BY <2>5
    <3>2. Len(v) = m + 1 /\ Len(z) \in Nat
      BY <2>2, <2>3
    <3> QED
      BY <3>1, <3>2
  <2>7. \A k \in 1..m : P[u[k]] = <<z[k]>>
    BY <2>2, <2>3, <2>6
  <2>8. P[x] = <<y>>
    <3>1. m + 1 \in 1..Len(w)
      BY <2>2, <2>3
    <3> QED
      BY <2>2, <2>3, <2>6, <3>1
  <2>9. Rewritten(u, P) = z
    BY <1>2, <2>3, <2>6, <2>7 DEF AtomByAtom
  <2>10. Rewritten(w, P) = Rewritten(u, P) \o P[x]
    BY <2>1, RewrittenMore
  <2>11. z \o <<y>> = Append(z, y)
    OBVIOUS
  <2> QED
    BY <2>5, <2>8, <2>9, <2>10, <2>11
<1>3. s \in T
  <2> HIDE DEF T
  <2> QED
    BY <1>1, <1>2, TextInduction
<1> QED
  BY <1>3

LEMMA RewrittenSame ==
    ASSUME NEW S, NEW P, \A x \in S : P[x] = <<x>>, NEW t \in Seq(S)
    PROVE  Rewritten(t, P) = t
<1>1. Rewrites(P, S, S)
  <2>1. \A x \in S : <<x>> \in Seq(S)
    OBVIOUS
  <2> QED
    BY <2>1 DEF Rewrites
<1>2. AtomByAtom(P, t, t)
  BY DEF AtomByAtom
<1> QED
  BY <1>1, <1>2, RewrittenByAtom

LEMMA RewrittenSome ==
    ASSUME NEW S, NEW Y, NEW P, Rewrites(P, S, Y), \A x \in S : P[x] # <<>>,
           NEW t \in Seq(S), t # <<>>
    PROVE  Rewritten(t, P) # <<>>
<1>1. PICK u \in Seq(S), x \in S : t = Append(u, x)
  BY SequenceEmptyOrAppend
<1>2. Rewritten(t, P) = Rewritten(u, P) \o P[x]
  BY <1>1, RewrittenMore
<1>3. Rewritten(u, P) \in Seq(Y) /\ P[x] \in Seq(Y) /\ P[x] # <<>>
  BY RewrittenType DEF Rewrites
<1> QED
  BY <1>2, <1>3, ConcatEqualIffEmpty

\* First by P, then what comes of it by Q.
LEMMA RewrittenTwice ==
    ASSUME NEW S, NEW Y, NEW Z, NEW P, NEW Q, NEW R, Rewrites(P, S, Y), Rewrites(Q, Y, Z),
           \A x \in S : R[x] = Rewritten(P[x], Q), NEW t \in Seq(S)
    PROVE  Rewritten(Rewritten(t, P), Q) = Rewritten(t, R)
<1> DEFINE T == {u \in Seq(S) : Rewritten(Rewritten(u, P), Q) = Rewritten(u, R)}
<1>0. Rewrites(R, S, Z)
  <2>1. \A x \in S : Rewritten(P[x], Q) \in Seq(Z)
    BY RewrittenType DEF Rewrites
  <2> QED
    BY <2>1 DEF Rewrites
<1>1. <<>> \in T
  BY RewrittenNone
<1>2. ASSUME NEW u \in Seq(S), NEW x \in S, u \in T PROVE Append(u, x) \in T
  <2>1. Rewritten(Append(u, x), P) = Rewritten(u, P) \o P[x]
    BY RewrittenMore
  <2>2. Rewritten(u, P) \in Seq(Y) /\ P[x] \in Seq(Y)
    BY RewrittenType DEF Rewrites
  <2>3. Rewritten(Rewritten(u, P) \o P[x], Q) = Rewritten(Rewritten(u, P), Q) \o Rewritten(P[x], Q)
    BY <2>2, RewrittenJoin
  <2>4. Rewritten(Append(u, x), R) = Rewritten(u, R) \o R[x]
    BY <1>0, RewrittenMore
  <2>5. Append(u, x) \in Seq(S) /\ R[x] = Rewritten(P[x], Q)
    OBVIOUS
  <2>6. Rewritten(Rewritten(u, P), Q) = Rewritten(u, R)
    BY <1>2
  <2> QED
    BY <2>1, <2>3, <2>4, <2>5, <2>6, Zenon
<1>3. t \in T
  <2> HIDE DEF T
  <2> QED
    BY <1>1, <1>2, TextInduction
<1> QED
  BY <1>3

-----------------------------------------------------------------------------
(* Placeholders and what they stand for                                    *)

Labels      == Recognised \cup {"PERSON"} \cup ToSet(Pattern)
Placeholder == [kind : {"hole"}, label : Labels, n : Nat]
Element     == Atom \cup Placeholder
Entry       == [hole : Placeholder, value : Seq(Atom) \ {<<>>}]

\* No placeholder is in map twice.
Distinct(map) == \A i, j \in DOMAIN map : map[i].hole = map[j].hole => i = j

\* P replaces the placeholders of the first n entries of map, and leaves all else.
Fills(P, map, n) ==
    /\ \A m \in 1..n : P[map[m].hole] = map[m].value
    /\ \A x \in Element : (\A m \in 1..n : map[m].hole # x) => P[x] = <<x>>

LEMMA AtomsAreNoHoles == \A x \in Atom : x.kind # "hole"
BY MaskingAssumption

LEMMA HolesAreNoAtoms == \A x \in Placeholder : x.kind = "hole" /\ x \notin Atom
<1>1. \A x \in Placeholder : x.kind = "hole"
  BY DEF Placeholder
<1> QED
  BY <1>1, AtomsAreNoHoles

\* Map and what fills its first n placeholders.
Filling(P, map, n) ==
    /\ map \in Seq(Entry) /\ Distinct(map) /\ n \in 0..Len(map)
    /\ Fills(P, map, n)

LEMMA FillingExists ==
    ASSUME NEW map \in Seq(Entry), Distinct(map), NEW n \in 0..Len(map)
    PROVE  \E P : Filling(P, map, n)
<1> DEFINE P == [x \in Element |-> IF \E m \in 1..n : map[m].hole = x
                               THEN map[CHOOSE m \in 1..n : map[m].hole = x].value ELSE <<x>>]
<1>1. ASSUME NEW m \in 1..n PROVE P[map[m].hole] = map[m].value
  <2>1. PICK x : x = map[m].hole
    OBVIOUS
  <2>2. m \in 1..Len(map) /\ map[m] \in Entry /\ DOMAIN map = 1..Len(map)
    OBVIOUS
  <2>3. x \in Element
    BY <2>1, <2>2 DEF Entry, Element
  <2>4. PICK k : k = CHOOSE j \in 1..n : map[j].hole = x
    OBVIOUS
  <2>5. k \in 1..n /\ map[k].hole = x
    BY <2>1, <2>4, Zenon
  <2>6. k = m
    <3>1. k \in DOMAIN map /\ m \in DOMAIN map
      BY <2>2, <2>5
    <3> QED
      BY <2>1, <2>5, <3>1 DEF Distinct
  <2>7. P[x] = map[k].value
    <3>1. \E j \in 1..n : map[j].hole = x
      BY <2>1
    <3> QED
      BY <2>3, <2>4, <3>1, Zenon
  <2> QED
    BY <2>1, <2>6, <2>7
<1>2. ASSUME NEW x \in Element, \A m \in 1..n : map[m].hole # x PROVE P[x] = <<x>>
  BY <1>2, Zenon
<1> HIDE DEF P
<1>3. Filling(P, map, n)
  BY <1>1, <1>2 DEF Fills, Filling
<1> QED
  BY <1>3

\* An atom is left as it is, and nothing disappears.
KeepsAtoms(P) ==
    /\ Rewrites(P, Element, Element)
    /\ \A x \in Element : P[x] # <<>>
    /\ \A x \in Atom : P[x] = <<x>>
    /\ \A s \in Seq(Atom) : s \in Seq(Element) /\ Rewritten(s, P) = s

LEMMA FillingKeepsAtoms ==
    ASSUME NEW P, NEW map, NEW n, Filling(P, map, n)
    PROVE  KeepsAtoms(P)
<1>1. map \in Seq(Entry) /\ n \in 0..Len(map) /\ Fills(P, map, n)
  BY DEF Filling
<1>2. \A m \in 1..n : map[m] \in Entry
  BY <1>1
<1>3. \A m \in 1..n : map[m].hole \in Placeholder /\ map[m].value \in Seq(Atom) \ {<<>>}
  BY <1>2 DEF Entry
<1>4. \A x \in Atom : P[x] = <<x>>
  <2> SUFFICES ASSUME NEW x \in Atom PROVE P[x] = <<x>>
    OBVIOUS
  <2>1. \A m \in 1..n : map[m].hole # x
    BY <1>3, HolesAreNoAtoms
  <2> QED
    BY <1>1, <2>1 DEF Fills, Element
<1>5. ASSUME NEW x \in Element PROVE P[x] \in Seq(Element) /\ P[x] # <<>>
  <2>1. CASE \E m \in 1..n : map[m].hole = x
    <3>1. PICK m \in 1..n : map[m].hole = x
      BY <2>1
    <3>2. P[x] = map[m].value
      BY <1>1, <3>1 DEF Fills
    <3>3. Atom \subseteq Element
      BY DEF Element
    <3>4. map[m].value \in Seq(Atom) /\ map[m].value # <<>>
      BY <1>3
    <3>5. map[m].value \in Seq(Element)
      BY <3>3, <3>4, SeqMonotonic
    <3> QED
      BY <3>2, <3>4, <3>5
  <2>2. CASE \A m \in 1..n : map[m].hole # x
    <3>1. P[x] = <<x>>
      BY <1>1, <2>2 DEF Fills
    <3> QED
      BY <3>1
  <2> QED
    BY <2>1, <2>2
<1>6. ASSUME NEW s \in Seq(Atom) PROVE s \in Seq(Element) /\ Rewritten(s, P) = s
  <2>1. Atom \subseteq Element
    BY DEF Element
  <2> QED
    BY <1>4, <2>1, RewrittenSame, SeqMonotonic
<1> QED
  BY <1>4, <1>5, <1>6 DEF Rewrites, KeepsAtoms

-----------------------------------------------------------------------------
(* Unmask                                                                  *)

\* f[i] is what the first i entries of map make of text.
UnmaskedBy(f, text, map, n) ==
    DOMAIN f = 0..n /\ f[0] = text /\ \A i \in 1..n : f[i] = Filled(f[i - 1], map[i])

LEMMA UnmaskingExists == ASSUME NEW text, NEW map, NEW m \in Nat PROVE \E f : UnmaskedBy(f, text, map, m)
<1> DEFINE Bad == {n \in Nat : ~ \E f : UnmaskedBy(f, text, map, n)}
<1>1. SUFFICES ASSUME Bad # {} PROVE FALSE
  OBVIOUS
<1>2. PICK n \in Bad : \A k \in Bad : n <= k
  <2>1. Bad \in SUBSET Nat
    OBVIOUS
  <2> HIDE DEF Bad
  <2> QED
    BY <1>1, <2>1, LeastNatural
<1>3. n # 0
  <2>1. UnmaskedBy([i \in 0..0 |-> text], text, map, 0)
    BY DEF UnmaskedBy
  <2> QED
    BY <2>1
<1>4. PICK f : UnmaskedBy(f, text, map, n - 1)
  <2>1. n - 1 \in Nat /\ ~(n <= n - 1)
    BY <1>3
  <2> QED
    BY <1>2, <2>1
<1> DEFINE g == [i \in 0..n |-> IF i # n THEN f[i] ELSE Filled(f[n - 1], map[n])]
<1>5. DOMAIN g = 0..n
  OBVIOUS
<1>6. \A i \in 0..(n - 1) : g[i] = f[i]
  <2>1. \A i \in 0..(n - 1) : i \in 0..n /\ i # n
    OBVIOUS
  <2> QED
    BY <2>1
<1>7. g[n] = Filled(f[n - 1], map[n])
  OBVIOUS
<1> HIDE DEF g
<1>8. ASSUME NEW i \in 1..n PROVE g[i] = Filled(g[i - 1], map[i])
  <2>1. g[i - 1] = f[i - 1]
    BY <1>6
  <2>2. CASE i = n
    BY <1>7, <2>1, <2>2
  <2>3. CASE i # n
    <3>1. i \in 1..(n - 1) /\ i \in 0..(n - 1)
      BY <2>3
    <3> QED
      BY <1>4, <1>6, <2>1, <3>1 DEF UnmaskedBy
  <2> QED
    BY <2>2, <2>3
<1>9. g[0] = text
  <2>1. 0 \in 0..(n - 1)
    BY <1>3
  <2> QED
    BY <1>4, <1>6, <2>1 DEF UnmaskedBy
<1>10. UnmaskedBy(g, text, map, n)
  BY <1>5, <1>8, <1>9 DEF UnmaskedBy
<1> QED
  BY <1>10

LEMMA UnmaskIsLast ==
    ASSUME NEW text, NEW n \in Nat, NEW map, Len(map) = n
    PROVE  \E f : UnmaskedBy(f, text, map, n) /\ Unmask(text, map) = f[n]
<1>1. PICK g : UnmaskedBy(g, text, map, n)
  BY UnmaskingExists
<1>2. PICK h : h = [i \in 0..n |-> g[i]]
  OBVIOUS
<1>3. h = [i \in 0..n |-> IF i = 0 THEN text ELSE Filled(h[i - 1], map[i])]
  <2>1. \A i \in 0..n : g[i] = IF i = 0 THEN text ELSE Filled(h[i - 1], map[i])
    <3> SUFFICES ASSUME NEW i \in 0..n
                 PROVE  g[i] = IF i = 0 THEN text ELSE Filled(h[i - 1], map[i])
      OBVIOUS
    <3>1. i # 0 => i \in 1..n /\ i - 1 \in 0..n
      OBVIOUS
    <3> QED
      BY <1>1, <1>2, <3>1 DEF UnmaskedBy
  <2> QED
    BY <1>2, <2>1
<1> DEFINE f == CHOOSE x : x = [i \in 0..n |-> IF i = 0 THEN text ELSE Filled(x[i - 1], map[i])]
<1>4. Unmask(text, map) = f[n]
  BY DEF Unmask
<1>5. f = [i \in 0..n |-> IF i = 0 THEN text ELSE Filled(f[i - 1], map[i])]
  BY <1>3, Zenon
<1> HIDE DEF f
<1>6. UnmaskedBy(f, text, map, n)
  BY <1>5 DEF UnmaskedBy
<1> QED
  BY <1>4, <1>6

LEMMA FilledIsRewritten ==
    ASSUME NEW t \in Seq(Element), NEW e \in Entry, NEW Q, Q[e.hole] = e.value,
           \A x \in Element : x # e.hole => Q[x] = <<x>>
    PROVE  Filled(t, e) = Rewritten(t, Q)
<1>1. \A k \in DOMAIN t : (IF t[k] = e.hole THEN e.value ELSE <<t[k]>>) = Q[t[k]]
  <2> SUFFICES ASSUME NEW k \in DOMAIN t
               PROVE  (IF t[k] = e.hole THEN e.value ELSE <<t[k]>>) = Q[t[k]]
    OBVIOUS
  <2>1. t[k] \in Element
    OBVIOUS
  <2> QED
    BY <2>1
<1>2. [k \in DOMAIN t |-> IF t[k] = e.hole THEN e.value ELSE <<t[k]>>] = [k \in DOMAIN t |-> Q[t[k]]]
  BY <1>1
<1> QED
  BY <1>2 DEF Filled, Rewritten

\* Filling in one more entry after the first n - 1.
LEMMA OneMoreFilled ==
    ASSUME NEW text \in Seq(Element), NEW map, NEW n, n # 0, NEW P, NEW R,
           Filling(P, map, n - 1), Filling(R, map, n)
    PROVE  Filled(Rewritten(text, P), map[n]) = Rewritten(text, R)
<1>1. map \in Seq(Entry) /\ n \in 1..Len(map) /\ Distinct(map) /\ DOMAIN map = 1..Len(map)
  BY DEF Filling
<1>2. PICK e \in Entry : e = map[n]
  BY <1>1
<1>3. e.hole \in Placeholder /\ e.value \in Seq(Atom) /\ e.value # <<>>
  BY DEF Entry
<1>4. PICK Q : Q = [x \in Element |-> IF x = e.hole THEN e.value ELSE <<x>>]
  OBVIOUS
<1>5. Q[e.hole] = e.value /\ \A x \in Element : x # e.hole => Q[x] = <<x>>
  BY <1>3, <1>4 DEF Element
<1>6. PICK one : one = <<e>>
  OBVIOUS
<1>7. one \in Seq(Entry) /\ Len(one) = 1 /\ one[1] = e /\ DOMAIN one = {1} /\ 1..1 = {1}
  BY <1>6
<1>8. Filling(Q, one, 1)
  <2>1. Distinct(one)
    BY <1>7 DEF Distinct
  <2>2. Fills(Q, one, 1)
    BY <1>5, <1>7 DEF Fills
  <2>3. 1 \in 0..Len(one)
    BY <1>7
  <2> QED
    BY <1>7, <2>1, <2>2, <2>3 DEF Filling
<1>9. KeepsAtoms(Q)
  BY <1>8, FillingKeepsAtoms
<1>10. KeepsAtoms(P)
  BY FillingKeepsAtoms
<1>11. ASSUME NEW x \in Element PROVE R[x] = Rewritten(P[x], Q)
  <2>1. CASE x = e.hole
    <3>1. \A m \in 1..(n - 1) : map[m].hole # x
      <4> SUFFICES ASSUME NEW m \in 1..(n - 1) PROVE map[m].hole # map[n].hole
        BY <1>2, <2>1
      <4>1. m \in DOMAIN map /\ n \in DOMAIN map /\ m # n
        BY <1>1
      <4> QED
        BY <1>1, <4>1 DEF Distinct
    <3>2. P[x] = <<x>>
      BY <3>1 DEF Filling, Fills
    <3>3. Rewritten(<<x>>, Q) = Q[x]
      BY <1>9, RewrittenOne DEF KeepsAtoms
    <3>4. R[x] = e.value
      <4>1. n \in 1..n
        BY <1>1
      <4> QED
        BY <1>2, <2>1, <4>1 DEF Filling, Fills
    <3> QED
      BY <1>5, <2>1, <3>2, <3>3, <3>4
  <2>2. CASE x # e.hole /\ \E m \in 1..(n - 1) : map[m].hole = x
    <3>1. PICK m \in 1..(n - 1) : map[m].hole = x
      BY <2>2
    <3>2. P[x] = map[m].value
      BY <3>1 DEF Filling, Fills
    <3>3. R[x] = map[m].value
      <4>1. m \in 1..n
        BY <1>1
      <4> QED
        BY <3>1, <4>1 DEF Filling, Fills
    <3>4. map[m].value \in Seq(Atom)
      <4>1. map[m] \in Entry
        BY <1>1
      <4> QED
        BY <4>1 DEF Entry
    <3> QED
      BY <1>9, <3>2, <3>3, <3>4 DEF KeepsAtoms
  <2>3. CASE x # e.hole /\ \A m \in 1..(n - 1) : map[m].hole # x
    <3>1. P[x] = <<x>>
      BY <2>3 DEF Filling, Fills
    <3>2. R[x] = <<x>>
      <4>1. \A m \in 1..n : map[m].hole # x
        <5> SUFFICES ASSUME NEW m \in 1..n PROVE map[m].hole # x
          OBVIOUS
        <5>1. m = n \/ m \in 1..(n - 1)
          BY <1>1
        <5> QED
          BY <1>2, <2>3, <5>1
      <4> QED
        BY <4>1 DEF Filling, Fills
    <3>3. Rewritten(<<x>>, Q) = Q[x]
      BY <1>9, RewrittenOne DEF KeepsAtoms
    <3> QED
      BY <1>5, <2>3, <3>1, <3>2, <3>3
  <2> QED
    BY <2>1, <2>2, <2>3
<1>12. Rewritten(Rewritten(text, P), Q) = Rewritten(text, R)
  BY <1>9, <1>10, <1>11, RewrittenTwice DEF KeepsAtoms
<1>13. Rewritten(text, P) \in Seq(Element)
  BY <1>10, RewrittenType DEF KeepsAtoms
<1>14. Filled(Rewritten(text, P), e) = Rewritten(Rewritten(text, P), Q)
  BY <1>5, <1>13, FilledIsRewritten
<1> QED
  BY <1>2, <1>12, <1>14

\* Unmask replaces all placeholders of the map at once.
LEMMA UnmaskFills ==
    ASSUME NEW text \in Seq(Element), NEW map, NEW P, Filling(P, map, Len(map))
    PROVE  Unmask(text, map) = Rewritten(text, P)
<1>1. PICK n \in Nat : n = Len(map)
  BY DEF Filling
<1>2. map \in Seq(Entry) /\ Distinct(map)
  BY DEF Filling
<1>3. PICK f : UnmaskedBy(f, text, map, n) /\ Unmask(text, map) = f[n]
  BY <1>1, UnmaskIsLast
<1> DEFINE Bad == {i \in 0..n : \E R : Filling(R, map, i) /\ f[i] # Rewritten(text, R)}
<1>4. Bad = {}
  <2> SUFFICES ASSUME Bad # {} PROVE FALSE
    OBVIOUS
  <2>1. PICK i \in Bad : \A k \in Bad : i <= k
    <3>1. Bad \in SUBSET Nat
      OBVIOUS
    <3> HIDE DEF Bad
    <3> QED
      BY <3>1, LeastNatural
  <2>2. PICK R : Filling(R, map, i) /\ f[i] # Rewritten(text, R)
    OBVIOUS
  <2>3. CASE i = 0
    <3>1. \A x \in Element : R[x] = <<x>>
      BY <2>2, <2>3 DEF Filling, Fills
    <3>2. Rewritten(text, R) = text
      BY <3>1, RewrittenSame
    <3> QED
      BY <1>3, <2>2, <2>3, <3>2 DEF UnmaskedBy
  <2>4. CASE i # 0
    <3>1. i \in 1..n /\ i - 1 \in 0..n /\ i - 1 \in 0..Len(map) /\ ~(i <= i - 1)
      BY <1>1, <2>4
    <3>2. PICK Q : Filling(Q, map, i - 1)
      BY <1>2, <3>1, FillingExists
    <3>3. f[i - 1] = Rewritten(text, Q)
      BY <2>1, <3>1, <3>2
    <3>4. Filled(Rewritten(text, Q), map[i]) = Rewritten(text, R)
      BY <2>2, <2>4, <3>2, OneMoreFilled
    <3>5. f[i] = Filled(f[i - 1], map[i])
      BY <1>3, <3>1 DEF UnmaskedBy
    <3> QED
      BY <2>2, <3>3, <3>4, <3>5
  <2> QED
    BY <2>3, <2>4
<1>5. n \in 0..n
  OBVIOUS
<1>6. f[n] = Rewritten(text, P)
  BY <1>1, <1>4, <1>5
<1> QED
  BY <1>3, <1>6

-----------------------------------------------------------------------------
(* One match                                                               *)

\* The labels that the patterns may give to placeholders in text.
Fit(text) == {l \in ToSet(Pattern) :
                \A k \in DOMAIN text : text[k].kind = "hole" => text[k].label # l}

HolesIn(map) == {map[k].hole : k \in DOMAIN map}

\* What is masked of orig, and how to get it back.
Masked(st, orig) ==
    /\ st.text \in Seq(Element) /\ st.map \in Seq(Entry)
    /\ \A k \in DOMAIN st.map : st.map[k].hole.n = k - 1 /\ st.map[k].hole.label \in Fit(orig)
    /\ \A k \in DOMAIN st.text : st.text[k] \in ToSet(orig) \cup HolesIn(st.map)
    /\ \A P : Filling(P, st.map, Len(st.map)) => Rewritten(st.text, P) = orig

LEMMA MaskedDistinct == ASSUME NEW st, NEW orig, Masked(st, orig) PROVE Distinct(st.map)
<1> SUFFICES ASSUME NEW i \in DOMAIN st.map, NEW j \in DOMAIN st.map,
                    st.map[i].hole = st.map[j].hole
             PROVE  i = j
  BY DEF Distinct
<1>1. i \in Nat /\ j \in Nat
  BY DEF Masked
<1>2. st.map[i].hole.n = i - 1 /\ st.map[j].hole.n = j - 1
  BY DEF Masked
<1> QED
  BY <1>1, <1>2

\* u is t with the placeholder h for its atoms a to b.
PutIn(u, t, a, b, h) ==
    /\ u \in Seq(Element) /\ Len(u) = Len(t) - (b - a)
    /\ u[a] = h
    /\ \A k \in 1..(a - 1) : u[k] = t[k]
    /\ \A k \in (a + 1)..Len(u) : u[k] = t[k + (b - a)]

LEMMA PutPlaces ==
    ASSUME NEW t \in Seq(Element), NEW a \in Nat, NEW b \in Nat, 1 <= a, a <= b, b <= Len(t),
           NEW h \in Element
    PROVE  PutIn(SubSeq(t, 1, a - 1) \o <<h>> \o SubSeq(t, b + 1, Len(t)), t, a, b, h)
<1>1. PICK n \in Nat : n = Len(t)
  OBVIOUS
<1>2. PICK x : x = SubSeq(t, 1, a - 1)
  OBVIOUS
<1>3. PICK z : z = SubSeq(t, b + 1, n)
  OBVIOUS
<1>4. x \in Seq(Element) /\ Len(x) = a - 1 /\ \A k \in 1..(a - 1) : x[k] = t[k]
  BY <1>1, <1>2
<1>5. z \in Seq(Element) /\ Len(z) = n - b /\ \A k \in 1..(n - b) : z[k] = t[b + k]
  <2>1. \A k \in (b + 1)..n : t[k] \in Element
    BY <1>1
  <2>2. b + 1 \in Int /\ n \in Int
    BY <1>1
  <2>3. Len(z) = IF b + 1 <= n THEN n - (b + 1) + 1 ELSE 0
    BY <1>3, <2>1, <2>2, SubSeqProperties
  <2>4. \A k \in 1..(n - (b + 1) + 1) : z[k] = t[(b + 1) + k - 1]
    BY <1>3, <2>1, <2>2, SubSeqProperties
  <2>5. z \in Seq(Element)
    BY <1>3, <2>1, <2>2, SubSeqProperties
  <2>6. n - (b + 1) + 1 = n - b /\ \A k \in 1..(n - b) : (b + 1) + k - 1 = b + k
    BY <1>1
  <2>7. Len(z) = n - b
    BY <1>1, <2>3
  <2> QED
    BY <2>4, <2>5, <2>6, <2>7
<1>6. PICK y : y = x \o <<h>>
  OBVIOUS
<1>7. y \in Seq(Element) /\ Len(y) = a /\ y[a] = h /\ \A k \in 1..(a - 1) : y[k] = t[k]
  BY <1>4, <1>6
<1>8. PICK u : u = y \o z
  OBVIOUS
<1>9. u \in Seq(Element) /\ Len(u) = a + (n - b)
  BY <1>5, <1>7, <1>8, ConcatProperties
<1>10. \A k \in 1..(a + (n - b)) : u[k] = IF k <= a THEN y[k] ELSE z[k - a]
  BY <1>1, <1>5, <1>7, <1>8
<1>11. \A k \in (a + 1)..Len(u) : u[k] = t[k + (b - a)]
  <2> SUFFICES ASSUME NEW k \in (a + 1)..Len(u) PROVE u[k] = t[k + (b - a)]
    OBVIOUS
  <2>1. k - a \in 1..(n - b) /\ b + (k - a) = k + (b - a) /\ ~(k <= a) /\ k \in 1..(a + (n - b))
    BY <1>1, <1>9
  <2>2. u[k] = z[k - a]
    BY <1>10, <2>1
  <2>3. z[k - a] = t[b + (k - a)]
    BY <1>5, <2>1
  <2> QED
    BY <2>1, <2>2, <2>3
<1>12. u[a] = h /\ \A k \in 1..(a - 1) : u[k] = t[k]
  <2>1. a \in 1..(a + (n - b)) /\ \A k \in 1..(a - 1) : k \in 1..(a + (n - b)) /\ k <= a
    BY <1>1
  <2> QED
    BY <1>7, <1>10, <2>1
<1>13. Len(u) = n - (b - a)
  BY <1>1, <1>9
<1>14. PutIn(u, t, a, b, h)
  BY <1>1, <1>9, <1>11, <1>12, <1>13 DEF PutIn
<1> QED
  BY <1>1, <1>2, <1>3, <1>6, <1>8, <1>14

\* Texts x, v and z are rewritten each by itself.
Splits(P, x, v, z) ==
    Rewritten(x \o v \o z, P) = Rewritten(x, P) \o Rewritten(v, P) \o Rewritten(z, P)

LEMMA RewrittenThree ==
    ASSUME NEW S, NEW Y, NEW P, Rewrites(P, S, Y), NEW x \in Seq(S), NEW v \in Seq(S),
           NEW z \in Seq(S)
    PROVE  Splits(P, x, v, z)
<1>1. PICK w : w = x \o v
  OBVIOUS
<1>2. w \in Seq(S)
  BY <1>1, ConcatProperties
<1>3. Rewritten(w, P) = Rewritten(x, P) \o Rewritten(v, P)
  BY <1>1, RewrittenJoin
<1>4. Rewritten(w \o z, P) = Rewritten(w, P) \o Rewritten(z, P)
  BY <1>2, RewrittenJoin
<1> QED
  BY <1>1, <1>3, <1>4 DEF Splits

\* A match of a text: its atoms a to b, with no placeholder among them.
Whole(t, p) ==
    /\ p[1] \in Nat /\ p[2] \in Nat /\ 1 <= p[1] /\ p[1] <= p[2] /\ p[2] <= Len(t)
    /\ \A k \in p[1]..p[2] : t[k].kind # "hole"

LEMMA PutMasks ==
    ASSUME NEW orig, NEW st, Masked(st, orig), NEW p, Whole(st.text, p), NEW l \in Fit(orig)
    PROVE  /\ Masked(Put(st, p, l), orig)
           /\ \E h \in Placeholder : PutIn(Put(st, p, l).text, st.text, p[1], p[2], h)
<1>1. PICK t \in Seq(Element) : t = st.text
  BY DEF Masked
<1>2. PICK map \in Seq(Entry) : map = st.map
  BY DEF Masked
<1>3. PICK a \in Nat, b \in Nat : a = p[1] /\ b = p[2]
  BY DEF Whole
<1>4. 1 <= a /\ a <= b /\ b <= Len(t) /\ \A k \in a..b : t[k].kind # "hole"
  BY <1>1, <1>3 DEF Whole
<1>5. PICK n \in Nat : n = Len(map)
  OBVIOUS
<1>6. PICK h : h = Hole(l, n)
  OBVIOUS
<1>7. h \in Placeholder /\ h.n = n /\ h.label = l /\ h.kind = "hole"
  <2>1. l \in Labels
    BY DEF Fit, Labels
  <2> QED
    BY <1>6, <2>1 DEF Hole, Placeholder
<1>8. PICK x : x = SubSeq(t, 1, a - 1)
  OBVIOUS
<1>9. PICK v : v = SubSeq(t, a, b)
  OBVIOUS
<1>10. PICK z : z = SubSeq(t, b + 1, Len(t))
  OBVIOUS
<1>11. PICK u : u = x \o <<h>> \o z
  OBVIOUS
<1>12. PICK e : e = [hole |-> h, value |-> v]
  OBVIOUS
<1>13. PICK more : more = Append(map, e)
  OBVIOUS
<1>14. PICK new : new = Put(st, p, l)
  OBVIOUS
<1>15. new.text = u /\ new.map = more
  <2>1. Put(st, p, l) = [text |-> SubSeq(t, 1, a - 1) \o <<h>> \o SubSeq(t, b + 1, Len(t)),
                         map |-> Append(map, [hole |-> h, value |-> SubSeq(t, a, b)])]
    BY <1>1, <1>2, <1>3, <1>5, <1>6 DEF Put
  <2>2. Put(st, p, l) = [text |-> u, map |-> more]
    BY <1>8, <1>9, <1>10, <1>11, <1>12, <1>13, <2>1, Zenon
  <2> QED
    BY <1>14, <2>2
<1>16. PutIn(u, t, a, b, h)
  <2>1. h \in Element
    BY <1>7 DEF Element
  <2> QED
    BY <1>4, <1>8, <1>10, <1>11, <2>1, PutPlaces
<1>17. v \in Seq(Atom) /\ v # <<>>
  <2>1. \A k \in a..b : t[k] \in Atom
    <3> SUFFICES ASSUME NEW k \in a..b PROVE t[k] \in Atom
      OBVIOUS
    <3>1. k \in 1..Len(t)
      BY <1>4
    <3>2. t[k] \in Element /\ t[k].kind # "hole"
      BY <1>4, <3>1
    <3> QED
      BY <3>2, HolesAreNoAtoms DEF Element
  <2>2. a \in Int /\ b \in Int
    OBVIOUS
  <2>3. v \in Seq(Atom)
    BY <1>9, <2>1, <2>2, SubSeqProperties
  <2>4. Len(v) = b - a + 1
    BY <1>4, <1>9, <2>1, <2>2, SubSeqProperties
  <2>5. Len(v) # 0
    BY <1>4, <2>4
  <2> QED
    BY <2>3, <2>5, EmptySeq
<1>18. e \in Entry /\ e.hole = h /\ e.value = v
  BY <1>7, <1>12, <1>17 DEF Entry
<1>19. /\ more \in Seq(Entry) /\ Len(more) = n + 1 /\ more[n + 1] = e
       /\ \A k \in 1..n : more[k] = map[k]
  BY <1>5, <1>13, <1>18
<1>20. /\ \A k \in 1..n : map[k].hole.n = k - 1 /\ map[k].hole.label \in Fit(orig)
       /\ \A k \in 1..Len(t) : t[k] \in ToSet(orig) \cup HolesIn(map)
       /\ \A P : Filling(P, map, n) => Rewritten(t, P) = orig
  <2>1. DOMAIN map = 1..n /\ DOMAIN t = 1..Len(t)
    BY <1>5
  <2> QED
    BY <1>1, <1>2, <1>5, <2>1 DEF Masked
<1>21. ASSUME NEW k \in DOMAIN more
       PROVE  more[k].hole.n = k - 1 /\ more[k].hole.label \in Fit(orig)
  <2>1. k \in 1..n \/ k = n + 1
    BY <1>19
  <2> QED
    BY <1>7, <1>18, <1>19, <1>20, <2>1
<1>22. HolesIn(more) = HolesIn(map) \cup {h}
  <2>1. DOMAIN map = 1..n /\ DOMAIN more = 1..(n + 1)
    BY <1>5, <1>19
  <2>2. \A k \in 1..(n + 1) : k \in 1..n \/ k = n + 1
    OBVIOUS
  <2>3. \A k \in 1..n : k \in 1..(n + 1)
    OBVIOUS
  <2>4. n + 1 \in 1..(n + 1)
    OBVIOUS
  <2> QED
    BY <1>18, <1>19, <2>1, <2>2, <2>3, <2>4 DEF HolesIn
<1>23. ASSUME NEW k \in DOMAIN u PROVE u[k] \in ToSet(orig) \cup HolesIn(more)
  <2>1. k \in 1..Len(u) /\ Len(u) = Len(t) - (b - a)
    BY <1>16 DEF PutIn
  <2>2. CASE k < a
    <3>1. k \in 1..(a - 1) /\ k \in 1..Len(t)
      BY <1>4, <2>1, <2>2
    <3> QED
      BY <1>16, <1>20, <1>22, <3>1 DEF PutIn
  <2>3. CASE k = a
    BY <1>16, <1>22, <2>3 DEF PutIn
  <2>4. CASE k > a
    <3>1. k \in (a + 1)..Len(u) /\ k + (b - a) \in 1..Len(t)
      BY <1>4, <2>1, <2>4
    <3> QED
      BY <1>16, <1>20, <1>22, <3>1 DEF PutIn
  <2> QED
    BY <2>1, <2>2, <2>3, <2>4
\* The placeholder is new to the text.
<1>24. \A k \in 1..Len(t) : t[k] # h
  <2> SUFFICES ASSUME NEW k \in 1..Len(t), t[k] = h PROVE FALSE
    OBVIOUS
  <2>1. h \notin ToSet(orig)
    BY <1>7 DEF ToSet, Fit
  <2>2. h \notin HolesIn(map)
    <3> SUFFICES ASSUME NEW m \in DOMAIN map, map[m].hole = h PROVE FALSE
      BY DEF HolesIn
    <3>1. m \in 1..n
      BY <1>5
    <3>2. h.n = m - 1
      BY <1>20, <3>1
    <3> QED
      BY <1>7, <3>1, <3>2
  <2> QED
    BY <1>20, <2>1, <2>2
<1>25. ASSUME NEW P, Filling(P, more, n + 1) PROVE Rewritten(u, P) = orig
  <2>1. Distinct(map)
    BY <1>2, MaskedDistinct
  <2>2. PICK Q : Filling(Q, map, n)
    <3>1. n \in 0..Len(map)
      BY <1>5
    <3> QED
      BY <2>1, <3>1, FillingExists
  <2>3. KeepsAtoms(P) /\ KeepsAtoms(Q)
    BY <1>25, <2>2, FillingKeepsAtoms
  <2>4. Rewritten(t, Q) = orig
    BY <1>20, <2>2
  <2>5. P[h] = v
    <3>1. n + 1 \in 1..(n + 1)
      OBVIOUS
    <3> QED
      BY <1>18, <1>19, <1>25, <3>1 DEF Filling, Fills
  <2>6. ASSUME NEW y \in Element, y # h PROVE P[y] = Q[y]
    <3>1. CASE \E m \in 1..n : map[m].hole = y
      <4>1. PICK m \in 1..n : map[m].hole = y
        BY <3>1
      <4>2. m \in 1..(n + 1)
        OBVIOUS
      <4>3. Q[y] = map[m].value
        BY <2>2, <4>1 DEF Filling, Fills
      <4>4. P[y] = map[m].value
        BY <1>19, <1>25, <4>1, <4>2 DEF Filling, Fills
      <4> QED
        BY <4>3, <4>4
    <3>2. CASE \A m \in 1..n : map[m].hole # y
      <4>1. \A m \in 1..(n + 1) : more[m].hole # y
        <5> SUFFICES ASSUME NEW m \in 1..(n + 1) PROVE more[m].hole # y
          OBVIOUS
        <5>1. m \in 1..n \/ m = n + 1
          OBVIOUS
        <5> QED
          BY <1>18, <1>19, <2>6, <3>2, <5>1
      <4>2. Q[y] = <<y>>
        BY <2>2, <3>2 DEF Filling, Fills
      <4>3. P[y] = <<y>>
        BY <1>25, <4>1 DEF Filling, Fills
      <4> QED
        BY <4>2, <4>3
    <3> QED
      BY <3>1, <3>2
  <2> DEFINE Old == {y \in Element : y # h}
  <2>7. x \in Seq(Old) /\ z \in Seq(Old)
    <3>1. \A k \in 1..Len(t) : t[k] \in Old
      BY <1>24
    <3>2. \A k \in 1..(a - 1) : t[k] \in Old
      BY <1>4, <3>1
    <3>3. \A k \in (b + 1)..Len(t) : t[k] \in Old
      BY <1>4, <3>1
    <3>4. 1 \in Int /\ a - 1 \in Int /\ b + 1 \in Int /\ Len(t) \in Int
      OBVIOUS
    <3> HIDE DEF Old
    <3> QED
      BY <1>8, <1>10, <3>2, <3>3, <3>4, SubSeqProperties
  <2>8. Rewrites(P, Old, Element) /\ Rewrites(Q, Old, Element) /\ \A y \in Old : P[y] = Q[y]
    BY <2>3, <2>6 DEF KeepsAtoms, Rewrites
  <2>9. x \in Seq(Element) /\ z \in Seq(Element) /\ v \in Seq(Element) /\ <<h>> \in Seq(Element)
    <3>1. Old \subseteq Element
      OBVIOUS
    <3>2. x \in Seq(Element) /\ z \in Seq(Element)
      <4> HIDE DEF Old
      <4> QED
        BY <2>7, <3>1, SeqMonotonic
    <3>3. v \in Seq(Element)
      BY <1>17, <2>3 DEF KeepsAtoms
    <3>4. h \in Element
      BY <1>7 DEF Element
    <3> QED
      BY <3>2, <3>3, <3>4
  <2> HIDE DEF Old
  <2>10. Rewritten(x, P) = Rewritten(x, Q)
    BY <2>7, <2>8, RewrittenAlike, SMTT(30)
  <2>11. Rewritten(z, P) = Rewritten(z, Q)
    BY <2>7, <2>8, RewrittenAlike, SMTT(30)
  <2>12. Rewritten(<<h>>, P) = v
    <3>1. h \in Element /\ Rewrites(P, Element, Element)
      BY <1>7, <2>3 DEF Element, KeepsAtoms
    <3> QED
      BY <2>5, <3>1, RewrittenOne
  <2>13. Rewritten(v, Q) = v
    BY <1>17, <2>3 DEF KeepsAtoms
  <2>14. Rewritten(u, P) = Rewritten(x, P) \o v \o Rewritten(z, P)
    <3>1. PICK s \in Seq(Element) : s = <<h>>
      BY <2>9
    <3>2. Rewrites(P, Element, Element)
      BY <2>3 DEF KeepsAtoms
    <3>3. Splits(P, x, s, z)
      BY <2>9, <3>2, RewrittenThree
    <3> QED
      BY <1>11, <2>12, <3>1, <3>3 DEF Splits
  <2>15. t = x \o v \o z
    <3>1. x \o v = SubSeq(t, 1, b)
      <4>1. 1 \in 1..(Len(t) + 1) /\ a - 1 \in (1 - 1)..Len(t) /\ b \in (a - 1)..Len(t)
        BY <1>4
      <4>2. SubSeq(t, 1, a - 1) \o SubSeq(t, (a - 1) + 1, b) = SubSeq(t, 1, b)
        BY <4>1, ConcatAdjacentSubSeq
      <4>3. (a - 1) + 1 = a
        OBVIOUS
      <4> QED
        BY <1>8, <1>9, <4>2, <4>3
    <3>2. SubSeq(t, 1, b) \o z = SubSeq(t, 1, Len(t))
      <4>1. 1 \in 1..(Len(t) + 1) /\ b \in (1 - 1)..Len(t) /\ Len(t) \in b..Len(t)
        BY <1>4
      <4> QED
        BY <1>10, <4>1, ConcatAdjacentSubSeq
    <3>3. SubSeq(t, 1, Len(t)) = t
      BY SubSeqFull
    <3> QED
      BY <3>1, <3>2, <3>3
  <2>16. Rewritten(t, Q) = Rewritten(x, Q) \o v \o Rewritten(z, Q)
    <3>1. Rewrites(Q, Element, Element)
      BY <2>3 DEF KeepsAtoms
    <3>2. Splits(Q, x, v, z)
      BY <2>9, <3>1, RewrittenThree
    <3> QED
      BY <2>13, <2>15, <3>2 DEF Splits
  <2> QED
    BY <2>4, <2>10, <2>11, <2>14, <2>16
<1>26. Masked(new, orig)
  <2>1. u \in Seq(Element)
    BY <1>16 DEF PutIn
  <2>2. \A P : Filling(P, new.map, Len(new.map)) => Rewritten(new.text, P) = orig
    BY <1>15, <1>19, <1>25
  <2>3. new.text \in Seq(Element) /\ new.map \in Seq(Entry)
    BY <1>15, <1>19, <2>1
  <2> QED
    BY <1>15, <1>21, <1>23, <2>2, <2>3 DEF Masked
<1> QED
  BY <1>1, <1>3, <1>7, <1>14, <1>15, <1>16, <1>26

-----------------------------------------------------------------------------
(* All matches of a pattern                                                *)

\* What the pattern `label` looks for.
Attracts(x, label) ==
    \/ x.kind = "secret" /\ label \in x.labels
    \/ x.kind = "open" /\ x.label = label

\* From the i-th atom of t to the j-th is a match, without a placeholder in it:
\* a secret, or what is between two ends.
Bare(t, label, i, j) ==
    /\ i \in 1..Len(t) /\ j \in 1..Len(t) /\ i <= j
    /\ \A k \in i..j : t[k].kind # "hole"
    /\ \/ i = j /\ t[i].kind = "secret" /\ label \in t[i].labels
       \/ /\ i - 1 \in 1..Len(t) /\ j + 1 \in 1..Len(t)
          /\ t[i - 1] = [kind |-> "open", label |-> label]
          /\ t[j + 1] = [kind |-> "close", label |-> label]
          /\ \A k \in i..j : t[k].kind \notin {"open", "close"}

\* spans are stretches of t, with every bare match.
Spans(spans, t, label) ==
    /\ spans \in SUBSET ((1..Len(t)) \X (1..Len(t)))
    /\ \A p \in spans : p[1] <= p[2]
    /\ \A i, j \in 1..Len(t) : Bare(t, label, i, j) => <<i, j>> \in spans
    /\ spans # {} => \E k \in 1..Len(t) : Attracts(t[k], label)

LEMMA MatchedSpans ==
    ASSUME NEW t \in Seq(Element), NEW label
    PROVE  Spans(Matched(t, label), t, label)
<1> DEFINE one == {<<i, i>> : i \in {k \in DOMAIN t : t[k].kind = "secret" /\ label \in t[k].labels}}
           inner == {p \in (DOMAIN t) \X (DOMAIN t) :
                       /\ t[p[1]] = [kind |-> "open", label |-> label]
                       /\ t[p[2]] = [kind |-> "close", label |-> label]
                       /\ p[2] > p[1] + 1
                       /\ \A k \in (p[1] + 1)..(p[2] - 1) : t[k].kind \notin {"open", "close"}}
           between == {<<q[1] + 1, q[2] - 1>> : q \in inner}
<1>1. PICK n \in Nat : n = Len(t) /\ DOMAIN t = 1..n
  OBVIOUS
<1>2. Matched(t, label) = one \cup between
  BY DEF Matched
<1>3. ASSUME NEW p \in one
      PROVE  /\ p \in (1..n) \X (1..n) /\ p[1] <= p[2]
             /\ \E k \in 1..n : Attracts(t[k], label)
  <2>1. PICK k \in DOMAIN t : p = <<k, k>> /\ t[k].kind = "secret" /\ label \in t[k].labels
    OBVIOUS
  <2>2. k \in 1..n /\ p[1] = k /\ p[2] = k
    BY <1>1, <2>1
  <2> QED
    BY <2>1, <2>2 DEF Attracts
<1>4. ASSUME NEW p \in between
      PROVE  /\ p \in (1..n) \X (1..n) /\ p[1] <= p[2]
             /\ \E k \in 1..n : Attracts(t[k], label)
  <2>1. PICK q \in inner : p = <<q[1] + 1, q[2] - 1>>
    OBVIOUS
  <2>2. q[1] \in 1..n /\ q[2] \in 1..n /\ q[2] > q[1] + 1
    BY <1>1
  <2>3. t[q[1]] = [kind |-> "open", label |-> label]
    OBVIOUS
  <2>4. Attracts(t[q[1]], label)
    BY <2>3 DEF Attracts
  <2>5. q[1] + 1 \in 1..n /\ q[2] - 1 \in 1..n /\ q[1] + 1 <= q[2] - 1
    BY <2>2
  <2>6. p[1] = q[1] + 1 /\ p[2] = q[2] - 1
    BY <2>1
  <2> QED
    BY <2>1, <2>2, <2>4, <2>5, <2>6
<1>5. ASSUME NEW i \in 1..n, NEW j \in 1..n, Bare(t, label, i, j)
      PROVE  <<i, j>> \in one \cup between
  <2>1. CASE i = j /\ t[i].kind = "secret" /\ label \in t[i].labels
    BY <1>1, <2>1
  <2>2. CASE /\ i - 1 \in 1..n /\ j + 1 \in 1..n
             /\ t[i - 1] = [kind |-> "open", label |-> label]
             /\ t[j + 1] = [kind |-> "close", label |-> label]
             /\ \A k \in i..j : t[k].kind \notin {"open", "close"}
    <3>1. PICK q \in (DOMAIN t) \X (DOMAIN t) : q = <<i - 1, j + 1>>
      BY <1>1, <2>2
    <3>2. q[1] = i - 1 /\ q[2] = j + 1
      BY <3>1
    <3>3. q[1] + 1 = i /\ q[2] - 1 = j /\ q[2] > q[1] + 1
      BY <1>5, <3>2 DEF Bare
    <3>4. q \in inner
      BY <2>2, <3>2, <3>3
    <3>5. <<q[1] + 1, q[2] - 1>> \in between
      BY <3>4
    <3> QED
      BY <3>3, <3>5
  <2> QED
    BY <1>1, <1>5, <2>1, <2>2 DEF Bare
<1> HIDE DEF one, between
<1> QED
  BY <1>1, <1>2, <1>3, <1>4, <1>5 DEF Spans

\* All of spans, from the last to the first.
LastFirst(order, spans, n) ==
    /\ n \in Nat /\ order \in [1..n -> spans]
    /\ \A p \in spans : \E k \in 1..n : order[k] = p
    /\ \A k, l \in 1..n : k < l =>
         \/ order[l][1] < order[k][1]
         \/ order[l][1] = order[k][1] /\ order[l][2] < order[k][2]

LEMMA SpansInOrder ==
    ASSUME NEW t \in Seq(Element), NEW label, NEW spans, Spans(spans, t, label)
    PROVE  LastFirst(SortedBy(spans, [p \in spans |-> <<-p[1], -p[2]>>]), spans, Cardinality(spans))
<1> DEFINE key == [p \in spans |-> <<-p[1], -p[2]>>]
<1>1. PICK D : D = 1..Len(t)
  OBVIOUS
<1>2. IsFiniteSet(D)
  BY <1>1, FS_Interval
<1>3. IsFiniteSet(D \X D)
  BY <1>2, FS_Product
<1>4. spans \in SUBSET (D \X D)
  BY <1>1 DEF Spans
<1>5. IsFiniteSet(spans)
  BY <1>3, <1>4, FS_Subset
<1>6. \A p \in spans : p[1] \in Int /\ p[2] \in Int /\ p = <<p[1], p[2]>>
  BY <1>1, <1>4
<1>7. \A p \in spans : -p[1] \in Int /\ -p[2] \in Int
  BY <1>6
<1>8. \A p \in spans : key[p] \in [1..2 -> Int]
  BY <1>7, KeysOfNumbers
<1>9. \A p, q \in spans : key[p] = key[q] => p = q
  <2> SUFFICES ASSUME NEW p \in spans, NEW q \in spans, key[p] = key[q] PROVE p = q
    OBVIOUS
  <2>1. -p[1] = -q[1] /\ -p[2] = -q[2]
    OBVIOUS
  <2>2. p[1] = q[1] /\ p[2] = q[2]
    BY <1>6, <2>1
  <2> QED
    BY <1>6, <2>2, Zenon
<1>10. \A p, q \in spans : Precedes(key[p], key[q])
                           <=> q[1] < p[1] \/ (q[1] = p[1] /\ q[2] < p[2])
  <2> SUFFICES ASSUME NEW p \in spans, NEW q \in spans
               PROVE  Precedes(key[p], key[q]) <=> q[1] < p[1] \/ (q[1] = p[1] /\ q[2] < p[2])
    OBVIOUS
  <2>1. PICK a \in Int, b \in Int, c \in Int, d \in Int : a = -p[1] /\ b = -p[2] /\ c = -q[1] /\ d = -q[2]
    BY <1>7
  <2>2. Precedes(<<a, b>>, <<c, d>>) <=> a < c \/ (a = c /\ b < d)
    BY PrecedesTwo
  <2>3. key[p] = <<a, b>> /\ key[q] = <<c, d>>
    BY <2>1
  <2>4. (a < c <=> q[1] < p[1]) /\ (a = c <=> q[1] = p[1]) /\ (b < d <=> q[2] < p[2])
    BY <1>6, <2>1
  <2> HIDE DEF key
  <2> QED
    BY <2>2, <2>3, <2>4
<1> HIDE DEF key
<1> DEFINE f == SortedBy(spans, key)
<1>11. 2 \in Nat
  OBVIOUS
<1>12. Sorts(f, spans, key)
  BY <1>5, <1>8, <1>9, <1>11, Sorted, Zenon
<1> HIDE DEF f
<1>13. LastFirst(f, spans, Cardinality(spans))
  <2>1. ASSUME NEW k \in 1..Cardinality(spans), NEW l \in 1..Cardinality(spans), k < l
        PROVE  f[l][1] < f[k][1] \/ (f[l][1] = f[k][1] /\ f[l][2] < f[k][2])
    <3>1. f[k] \in spans /\ f[l] \in spans /\ Precedes(key[f[k]], key[f[l]])
      BY <1>12, <2>1 DEF Sorts
    <3> QED
      BY <1>10, <3>1
  <2> QED
    BY <1>12, <2>1 DEF Sorts, LastFirst
<1> QED
  BY <1>13 DEF f, key

\* f[i] is what comes of st after the first i of the matches.
AppliedBy(f, st, order, label, n) ==
    DOMAIN f = 0..n /\ f[0] = st /\ \A i \in 1..n : f[i] = Replace(f[i - 1], order[i], label)

LEMMA ApplyingExists ==
    ASSUME NEW st, NEW order, NEW label, NEW m \in Nat
    PROVE  \E f : AppliedBy(f, st, order, label, m)
<1> DEFINE Bad == {n \in Nat : ~ \E f : AppliedBy(f, st, order, label, n)}
<1>1. SUFFICES ASSUME Bad # {} PROVE FALSE
  OBVIOUS
<1>2. PICK n \in Bad : \A k \in Bad : n <= k
  <2>1. Bad \in SUBSET Nat
    OBVIOUS
  <2> HIDE DEF Bad
  <2> QED
    BY <1>1, <2>1, LeastNatural
<1>3. n # 0
  <2>1. AppliedBy([i \in 0..0 |-> st], st, order, label, 0)
    BY DEF AppliedBy
  <2> QED
    BY <2>1
<1>4. PICK f : AppliedBy(f, st, order, label, n - 1)
  <2>1. n - 1 \in Nat /\ ~(n <= n - 1)
    BY <1>3
  <2> QED
    BY <1>2, <2>1
<1> DEFINE g == [i \in 0..n |-> IF i # n THEN f[i] ELSE Replace(f[n - 1], order[n], label)]
<1>5. DOMAIN g = 0..n
  OBVIOUS
<1>6. \A i \in 0..(n - 1) : g[i] = f[i]
  <2>1. \A i \in 0..(n - 1) : i \in 0..n /\ i # n
    OBVIOUS
  <2> QED
    BY <2>1
<1>7. g[n] = Replace(f[n - 1], order[n], label)
  OBVIOUS
<1> HIDE DEF g
<1>8. ASSUME NEW i \in 1..n PROVE g[i] = Replace(g[i - 1], order[i], label)
  <2>1. g[i - 1] = f[i - 1]
    BY <1>6
  <2>2. CASE i = n
    BY <1>7, <2>1, <2>2
  <2>3. CASE i # n
    <3>1. i \in 1..(n - 1) /\ i \in 0..(n - 1)
      BY <2>3
    <3> QED
      BY <1>4, <1>6, <2>1, <3>1 DEF AppliedBy
  <2> QED
    BY <2>2, <2>3
<1>9. g[0] = st
  <2>1. 0 \in 0..(n - 1)
    BY <1>3
  <2> QED
    BY <1>4, <1>6, <2>1 DEF AppliedBy
<1>10. AppliedBy(g, st, order, label, n)
  BY <1>5, <1>8, <1>9 DEF AppliedBy
<1> QED
  BY <1>10

LEMMA ApplyIsLast ==
    ASSUME NEW st, st.text \in Seq(Element), NEW label
    PROVE  \E f, order, n : /\ LastFirst(order, Matched(st.text, label), n)
                            /\ AppliedBy(f, st, order, label, n)
                            /\ ApplyPattern(st, label) = f[n]
<1>1. PICK spans : spans = Matched(st.text, label)
  OBVIOUS
<1>2. PICK order : order = SortedBy(spans, [p \in spans |-> <<-p[1], -p[2]>>])
  OBVIOUS
<1>3. PICK n : n = Cardinality(spans)
  OBVIOUS
<1>4. LastFirst(order, spans, n)
  <2>1. PICK t \in Seq(Element) : t = st.text
    OBVIOUS
  <2> QED
    BY <1>1, <1>2, <1>3, <2>1, MatchedSpans, SpansInOrder
<1>5. n \in Nat /\ Len(order) = n
  BY <1>4 DEF LastFirst
<1>6. PICK g : AppliedBy(g, st, order, label, n)
  BY <1>5, ApplyingExists
<1>7. PICK h : h = [i \in 0..n |-> g[i]]
  OBVIOUS
<1>8. h = [i \in 0..n |-> IF i = 0 THEN st ELSE Replace(h[i - 1], order[i], label)]
  <2>1. \A i \in 0..n : g[i] = IF i = 0 THEN st ELSE Replace(h[i - 1], order[i], label)
    <3> SUFFICES ASSUME NEW i \in 0..n
                 PROVE  g[i] = IF i = 0 THEN st ELSE Replace(h[i - 1], order[i], label)
      OBVIOUS
    <3>1. i # 0 => i \in 1..n /\ i - 1 \in 0..n
      BY <1>5
    <3> QED
      BY <1>6, <1>7, <3>1 DEF AppliedBy
  <2> QED
    BY <1>7, <2>1
<1> DEFINE f == CHOOSE x : x = [i \in 0..n |-> IF i = 0 THEN st ELSE Replace(x[i - 1], order[i], label)]
<1>9. ApplyPattern(st, label) = f[n]
  <2>1. ApplyPattern(st, label) =
          (CHOOSE x : x = [i \in 0..Len(order) |->
                             IF i = 0 THEN st ELSE Replace(x[i - 1], order[i], label)])[Len(order)]
    BY <1>1, <1>2 DEF ApplyPattern
  <2> QED
    BY <1>5, <2>1
<1>10. f = [i \in 0..n |-> IF i = 0 THEN st ELSE Replace(f[i - 1], order[i], label)]
  BY <1>8, Zenon
<1> HIDE DEF f
<1>11. AppliedBy(f, st, order, label, n)
  BY <1>5, <1>10 DEF AppliedBy
<1> QED
  BY <1>1, <1>4, <1>9, <1>11

-----------------------------------------------------------------------------

HasHole(t, p) == \E k \in p[1]..p[2] : k \in 1..Len(t) /\ t[k].kind = "hole"

NoneBare(t, label) == \A c, d \in 1..Len(t) : ~Bare(t, label, c, d)

\* What was masked for a pattern stays masked.
StaysMasked(first, t) == \A l : NoneBare(first, l) => NoneBare(t, l)

\* st is what the matches before the i-th make of the text `first`: those from
\* the i-th on are still within the text unless they have a placeholder in them,
\* and are all that is bare.
BeforeMatch(st, first, orig, order, n, i, label) ==
    /\ Masked(st, orig) /\ StaysMasked(first, st.text)
    /\ \A m \in i..n : HasHole(st.text, order[m]) \/ order[m][2] <= Len(st.text)
    /\ \A c, d \in 1..Len(st.text) : Bare(st.text, label, c, d) =>
         \E m \in i..n : order[m] = <<c, d>>

\* What goes from c to d, after the atoms a to b became one, was bare in t.
WasBare(t, label, a, b, c, d) ==
    \/ d < a /\ d \in 1..Len(t) /\ Bare(t, label, c, d)
    \/ \E x, y \in 1..Len(t) : /\ c > a /\ x = c + (b - a) /\ y = d + (b - a)
                               /\ Bare(t, label, x, y)

\* What is bare after a placeholder was put in was bare before.
LEMMA BareBefore ==
    ASSUME NEW t \in Seq(Element), NEW u \in Seq(Element), NEW h, h.kind = "hole",
           NEW a \in Nat, NEW b \in Nat, 1 <= a, a <= b, b <= Len(t), PutIn(u, t, a, b, h),
           NEW label, NEW c \in 1..Len(u), NEW d \in 1..Len(u), Bare(u, label, c, d)
    PROVE  WasBare(t, label, a, b, c, d)
<1>1. PICK x \in Nat, y \in Nat : x = Len(t) /\ y = Len(u)
  OBVIOUS
<1>2. PICK w \in Nat : w = b - a
  OBVIOUS
<1>3. y = x - w /\ a <= y /\ b <= x
  BY <1>1, <1>2 DEF PutIn
<1>4. /\ u[a].kind = "hole"
      /\ \A k \in 1..(a - 1) : u[k] = t[k]
      /\ \A k \in (a + 1)..y : u[k] = t[k + w]
  BY <1>1, <1>2 DEF PutIn
<1>5. c \in 1..y /\ d \in 1..y /\ c <= d /\ \A k \in c..d : u[k].kind # "hole"
  BY <1>1 DEF Bare
<1>6. a \notin c..d
  BY <1>4, <1>5
<1>7. d < a \/ c > a
  BY <1>5, <1>6
<1>8. \/ c = d /\ u[c].kind = "secret" /\ label \in u[c].labels
      \/ /\ c - 1 \in 1..y /\ d + 1 \in 1..y
         /\ u[c - 1] = [kind |-> "open", label |-> label]
         /\ u[d + 1] = [kind |-> "close", label |-> label]
         /\ \A k \in c..d : u[k].kind \notin {"open", "close"}
  BY <1>1 DEF Bare
<1>9. ([kind |-> "open", label |-> label]).kind = "open" /\ ([kind |-> "close", label |-> label]).kind = "close"
  OBVIOUS
<1>10. CASE d < a
  <2>1. d \in 1..x /\ c \in 1..x
    BY <1>3, <1>5, <1>10
  <2>2. \A k \in c..d : u[k] = t[k]
    BY <1>4, <1>5, <1>10
  <2>3. \A k \in c..d : t[k].kind # "hole"
    BY <1>5, <2>2
  <2>4. CASE c = d /\ u[c].kind = "secret" /\ label \in u[c].labels
    <3>1. t[c] = u[c]
      BY <1>5, <2>2
    <3> QED
      BY <1>1, <1>5, <1>10, <2>1, <2>3, <2>4, <3>1 DEF Bare, WasBare
  <2>5. CASE /\ c - 1 \in 1..y /\ d + 1 \in 1..y
             /\ u[c - 1] = [kind |-> "open", label |-> label]
             /\ u[d + 1] = [kind |-> "close", label |-> label]
             /\ \A k \in c..d : u[k].kind \notin {"open", "close"}
    <3>1. d + 1 # a
      BY <1>4, <1>9, <2>5
    <3>2. c - 1 \in 1..(a - 1) /\ d + 1 \in 1..(a - 1)
      BY <1>5, <1>10, <2>5, <3>1
    <3>3. t[c - 1] = u[c - 1] /\ t[d + 1] = u[d + 1]
      BY <1>4, <3>2
    <3>4. \A k \in c..d : t[k].kind \notin {"open", "close"}
      BY <2>2, <2>5
    <3>5. c - 1 \in 1..x /\ d + 1 \in 1..x
      BY <1>3, <3>2
    <3> QED
      BY <1>1, <1>5, <1>10, <2>1, <2>3, <2>5, <3>3, <3>4, <3>5 DEF Bare, WasBare
  <2> QED
    BY <1>8, <2>4, <2>5
<1>11. CASE c > a
  <2>1. PICK i \in 1..x, j \in 1..x : i = c + w /\ j = d + w /\ i <= j
    BY <1>3, <1>5, <1>11
  <2>2. \A k \in i..j : k - w \in c..d /\ t[k] = u[k - w]
    <3> SUFFICES ASSUME NEW k \in i..j PROVE k - w \in c..d /\ t[k] = u[k - w]
      OBVIOUS
    <3>1. k - w \in c..d /\ k - w \in (a + 1)..y /\ (k - w) + w = k
      BY <1>5, <1>11, <2>1
    <3> QED
      BY <1>4, <3>1
  <2>3. \A k \in i..j : t[k].kind # "hole"
    BY <1>5, <2>2
  <2>4. CASE c = d /\ u[c].kind = "secret" /\ label \in u[c].labels
    <3>1. i = j /\ t[i] = u[c]
      BY <2>1, <2>2, <2>4
    <3>2. Bare(t, label, i, j)
      BY <1>1, <2>1, <2>3, <2>4, <3>1 DEF Bare
    <3> QED
      BY <1>1, <1>2, <1>11, <2>1, <3>2 DEF WasBare
  <2>5. CASE /\ c - 1 \in 1..y /\ d + 1 \in 1..y
             /\ u[c - 1] = [kind |-> "open", label |-> label]
             /\ u[d + 1] = [kind |-> "close", label |-> label]
             /\ \A k \in c..d : u[k].kind \notin {"open", "close"}
    <3>1. c - 1 # a
      BY <1>4, <1>9, <2>5
    <3>2. c - 1 \in (a + 1)..y /\ d + 1 \in (a + 1)..y
      BY <1>5, <1>11, <2>5, <3>1
    <3>3. t[i - 1] = u[c - 1] /\ t[j + 1] = u[d + 1]
      <4>1. (c - 1) + w = i - 1 /\ (d + 1) + w = j + 1
        BY <2>1
      <4>2. \A k \in {c - 1, d + 1} : u[k] = t[k + w]
        BY <1>4, <3>2
      <4> QED
        BY <4>1, <4>2
    <3>4. \A k \in i..j : t[k].kind \notin {"open", "close"}
      BY <2>2, <2>5
    <3>5. i - 1 \in 1..x /\ j + 1 \in 1..x
      BY <1>3, <2>1, <3>2
    <3>6. Bare(t, label, i, j)
      BY <1>1, <2>1, <2>3, <2>5, <3>3, <3>4, <3>5 DEF Bare
    <3> QED
      BY <1>1, <1>2, <1>11, <2>1, <3>6 DEF WasBare
  <2> QED
    BY <1>8, <2>4, <2>5
<1> QED
  BY <1>7, <1>10, <1>11

LEMMA OneMatch ==
    ASSUME NEW first \in Seq(Element), NEW label, NEW spans, Spans(spans, first, label),
           NEW order, NEW n, LastFirst(order, spans, n), NEW i \in 1..n,
           NEW orig, label \in Fit(orig), NEW st, BeforeMatch(st, first, orig, order, n, i, label)
    PROVE  BeforeMatch(Replace(st, order[i], label), first, orig, order, n, i + 1, label)
<1>1. PICK p : p = order[i]
  OBVIOUS
<1>2. n \in Nat /\ \A m \in 1..n : order[m] \in spans
  BY DEF LastFirst
<1>3. \A q \in spans : q[1] \in 1..Len(first) /\ q[2] \in 1..Len(first) /\ q[1] <= q[2]
  BY DEF Spans
<1>4. PICK a \in Nat, b \in Nat : a = p[1] /\ b = p[2] /\ 1 <= a /\ a <= b
  <2>1. p \in spans
    BY <1>1, <1>2
  <2> QED
    BY <1>3, <2>1
<1>5. PICK t \in Seq(Element) : t = st.text
  BY DEF BeforeMatch, Masked
<1>6. DOMAIN t = 1..Len(t) /\ Len(t) \in Nat
  OBVIOUS
<1>7. HasHole(t, p) <=> \E k \in p[1]..p[2] : k \in Holes(st.text)
  BY <1>5, <1>6 DEF HasHole, Holes
<1>8. /\ Masked(st, orig) /\ StaysMasked(first, t)
      /\ \A m \in i..n : HasHole(t, order[m]) \/ order[m][2] <= Len(t)
      /\ \A c, d \in 1..Len(t) : Bare(t, label, c, d) => \E m \in i..n : order[m] = <<c, d>>
  BY <1>5 DEF BeforeMatch
<1>9. CASE HasHole(t, p)
  <2>1. Replace(st, p, label) = st
    BY <1>7, <1>9, Zenon DEF Replace
  <2>2. \A m \in (i + 1)..n : m \in i..n
    BY <1>2
  <2>3. ASSUME NEW c \in 1..Len(t), NEW d \in 1..Len(t), Bare(t, label, c, d)
        PROVE  \E m \in (i + 1)..n : order[m] = <<c, d>>
    <3>1. PICK m \in i..n : order[m] = <<c, d>>
      BY <1>8, <2>3
    <3>2. m # i
      <4> SUFFICES ASSUME m = i PROVE FALSE
        OBVIOUS
      <4>1. p[1] = c /\ p[2] = d
        BY <1>1, <3>1
      <4>2. PICK k \in c..d : t[k].kind = "hole"
        BY <1>9, <4>1 DEF HasHole
      <4> QED
        BY <2>3, <4>2 DEF Bare
    <3>3. m \in (i + 1)..n
      BY <1>2, <3>2
    <3> QED
      BY <3>1, <3>3
  <2> QED
    BY <1>1, <1>5, <1>8, <2>1, <2>2, <2>3 DEF BeforeMatch
<1>10. CASE ~HasHole(t, p)
  <2>1. Replace(st, p, label) = Put(st, p, label)
    BY <1>7, <1>10, Zenon DEF Replace
  <2>2. i \in i..n
    BY <1>2
  <2>3. b <= Len(t)
    BY <1>1, <1>4, <1>8, <1>10, <2>2
  <2>4. Whole(st.text, p)
    <3>1. \A k \in a..b : k \in 1..Len(t)
      BY <1>4, <2>3
    <3>2. \A k \in a..b : t[k].kind # "hole"
      BY <1>4, <1>10, <3>1 DEF HasHole
    <3> QED
      BY <1>4, <1>5, <2>3, <3>2 DEF Whole
  <2>5. PICK new : new = Put(st, p, label)
    OBVIOUS
  <2>6. Masked(new, orig)
    BY <1>8, <2>4, <2>5, PutMasks
  <2>7. PICK h \in Placeholder : PutIn(new.text, st.text, p[1], p[2], h)
    BY <1>8, <2>4, <2>5, PutMasks
  <2>8. PICK u : u = new.text
    OBVIOUS
  <2>9. PutIn(u, t, a, b, h)
    BY <1>4, <1>5, <2>7, <2>8
  <2>10. u \in Seq(Element) /\ Len(u) = Len(t) - (b - a) /\ Len(u) \in Nat /\ h.kind = "hole"
    BY <2>9, HolesAreNoAtoms DEF PutIn
  <2>11. ASSUME NEW k \in 1..Len(u)
         PROVE  \/ k < a /\ k \in 1..Len(t) /\ u[k] = t[k]
                \/ k = a /\ u[k] = h
                \/ k > a /\ k + (b - a) \in 1..Len(t) /\ u[k] = t[k + (b - a)]
    <3>1. CASE k < a
      <4>1. k \in 1..(a - 1) /\ k \in 1..Len(t)
        BY <1>4, <2>3, <3>1
      <4> QED
        BY <2>9, <3>1, <4>1 DEF PutIn
    <3>2. CASE k = a
      BY <2>9, <3>2 DEF PutIn
    <3>3. CASE k > a
      <4>1. PICK x \in Nat, y \in Nat : x = Len(t) /\ y = Len(u)
        BY <1>6, <2>10
      <4>2. y = x - (b - a) /\ k \in 1..y
        BY <2>10, <4>1
      <4>3. k \in (a + 1)..y /\ k + (b - a) \in 1..x
        <5>1. k \in Nat /\ k <= y
          BY <4>2
        <5>2. k + (b - a) <= x
          BY <4>2, <5>1
        <5>3. a + 1 <= k /\ 1 <= k + (b - a) /\ k + (b - a) \in Int
          BY <1>4, <3>3, <5>1, SMTT(30)
        <5> QED
          BY <5>1, <5>2, <5>3
      <4>4. k \in (a + 1)..Len(u) /\ k + (b - a) \in 1..Len(t)
        BY <4>1, <4>3
      <4> QED
        BY <2>9, <3>3, <4>4 DEF PutIn
    <3> QED
      BY <1>4, <3>1, <3>2, <3>3
  <2>12. StaysMasked(first, u)
    <3> SUFFICES ASSUME NEW l, NoneBare(first, l), NEW c \in 1..Len(u), NEW d \in 1..Len(u),
                        Bare(u, l, c, d)
                 PROVE  FALSE
      BY DEF StaysMasked, NoneBare
    <3>1. NoneBare(t, l)
      BY <1>8 DEF StaysMasked
    <3>2. WasBare(t, l, a, b, c, d)
      BY <1>4, <2>3, <2>9, <2>10, BareBefore
    <3> QED
      BY <3>1, <3>2 DEF NoneBare, Bare, WasBare
  <2>13. ASSUME NEW m \in (i + 1)..n PROVE HasHole(u, order[m]) \/ order[m][2] <= Len(u)
    <3>1. m \in i..n /\ m \in 1..n /\ i < m
      BY <1>2
    <3>2. PICK q : q = order[m]
      OBVIOUS
    <3>3. PICK c \in Nat, d \in Nat : c = q[1] /\ d = q[2] /\ 1 <= c /\ c <= d
      BY <1>2, <1>3, <3>1, <3>2
    <3>4. c <= a
      <4>1. q[1] < p[1] \/ (q[1] = p[1] /\ q[2] < p[2])
        BY <1>1, <3>1, <3>2 DEF LastFirst
      <4> QED
        BY <1>4, <3>3, <4>1
    <3>5. CASE d < a
      <4>1. d <= Len(u)
        BY <1>4, <2>3, <2>10, <3>5
      <4> QED
        BY <3>2, <3>3, <4>1
    <3>6. CASE ~(d < a)
      <4>1. a \in c..d /\ a \in 1..Len(u)
        <5>1. PICK x \in Nat, y \in Nat : x = Len(t) /\ y = Len(u)
          BY <1>6, <2>10
        <5>2. y = x - (b - a) /\ b <= x
          BY <2>3, <2>10, <5>1
        <5>3. a \in 1..y
          BY <1>4, <5>1, <5>2
        <5>4. a \in c..d
          BY <1>4, <3>3, <3>4, <3>6
        <5> QED
          BY <5>1, <5>3, <5>4
      <4>2. u[a].kind = "hole"
        BY <2>9, <2>10 DEF PutIn
      <4> QED
        BY <3>2, <3>3, <4>1, <4>2 DEF HasHole
    <3> QED
      BY <3>5, <3>6
  <2>14. ASSUME NEW c \in 1..Len(u), NEW d \in 1..Len(u), Bare(u, label, c, d)
         PROVE  \E m \in (i + 1)..n : order[m] = <<c, d>>
    <3>1. WasBare(t, label, a, b, c, d)
      BY <1>4, <2>3, <2>9, <2>10, <2>14, BareBefore
    <3>2. CASE d < a /\ d \in 1..Len(t) /\ Bare(t, label, c, d)
      <4>1. c \in 1..Len(t) /\ c <= d
        BY <3>2 DEF Bare
      <4>2. PICK m \in i..n : order[m] = <<c, d>>
        BY <1>8, <3>2, <4>1
      <4>3. m # i
        BY <1>1, <1>4, <3>2, <4>1, <4>2
      <4>4. m \in (i + 1)..n
        BY <1>2, <4>3
      <4> QED
        BY <4>2, <4>4
    <3>3. CASE \E x, y \in 1..Len(t) : /\ c > a /\ x = c + (b - a) /\ y = d + (b - a)
                                       /\ Bare(t, label, x, y)
      <4>1. PICK x \in 1..Len(t), y \in 1..Len(t) :
               c > a /\ x = c + (b - a) /\ y = d + (b - a) /\ Bare(t, label, x, y)
        BY <3>3
      <4>2. x > a
        <5>1. c > a /\ x = c + (b - a) /\ c \in Int
          BY <2>10, <4>1
        <5> QED
          BY <1>4, <5>1, SMTT(30)
      <4>3. PICK m \in i..n : order[m] = <<x, y>>
        BY <1>8, <4>1
      <4>4. m \in 1..n /\ (m = i \/ i < m)
        BY <1>2
      <4>5. order[m][1] = x
        BY <4>3
      <4>6. m = i => x = a
        BY <1>1, <1>4, <4>5
      <4>7. i < m => x <= a
        <5> SUFFICES ASSUME i < m PROVE x <= a
          OBVIOUS
        <5>1. order[m][1] < order[i][1] \/ order[m][1] = order[i][1]
          BY <4>4 DEF LastFirst
        <5> QED
          BY <1>1, <1>4, <4>5, <5>1
      <4> QED
        BY <1>4, <4>2, <4>4, <4>6, <4>7
    <3> QED
      BY <3>1, <3>2, <3>3 DEF WasBare
  <2> QED
    BY <1>1, <2>1, <2>5, <2>6, <2>8, <2>12, <2>13, <2>14 DEF BeforeMatch
<1> QED
  BY <1>9, <1>10

\* What a pattern makes of st: it is masked, and has no bare match of the pattern.
Applied(new, st, orig, label) ==
    /\ Masked(new, orig) /\ StaysMasked(st.text, new.text)
    /\ NoneBare(new.text, label)

\* A pattern that attracts something in text has a label of its own in it.
Maskable(text) ==
    /\ text \in Seq(Element)
    /\ \A l \in ToSet(Pattern) : (\E k \in 1..Len(text) : Attracts(text[k], l)) => l \in Fit(text)

LEMMA PatternMasks ==
    ASSUME NEW orig, Maskable(orig), NEW st, Masked(st, orig), NEW label \in ToSet(Pattern)
    PROVE  Applied(ApplyPattern(st, label), st, orig, label)
<1>1. PICK first \in Seq(Element) : first = st.text
  BY DEF Masked
<1>2. PICK f, order, n : /\ LastFirst(order, Matched(st.text, label), n)
                         /\ AppliedBy(f, st, order, label, n)
                         /\ ApplyPattern(st, label) = f[n]
  <2>1. st.text \in Seq(Element)
    BY <1>1
  <2> QED
    BY <2>1, ApplyIsLast
<1>3. PICK spans : spans = Matched(first, label)
  OBVIOUS
<1>4. Spans(spans, first, label) /\ LastFirst(order, spans, n)
  BY <1>1, <1>2, <1>3, MatchedSpans
<1>5. n \in Nat /\ \A m \in 1..n : order[m] \in spans
  BY <1>4 DEF LastFirst
<1>6. DOMAIN first = 1..Len(first) /\ Len(first) \in Nat
  OBVIOUS
<1>7. n # 0 => label \in Fit(orig)
  <2> SUFFICES ASSUME n # 0 PROVE label \in Fit(orig)
    OBVIOUS
  <2>1. 1 \in 1..n
    BY <1>5
  <2>2. PICK k \in 1..Len(first) : Attracts(first[k], label)
    BY <1>4, <1>5, <2>1 DEF Spans
  <2>3. first[k].kind # "hole"
    BY <2>2 DEF Attracts
  <2>4. first[k] \in ToSet(orig)
    <3>1. first[k] \in ToSet(orig) \cup HolesIn(st.map)
      BY <1>1, <1>6 DEF Masked
    <3>2. first[k] \notin HolesIn(st.map)
      <4> SUFFICES ASSUME NEW m \in DOMAIN st.map, first[k] = st.map[m].hole PROVE FALSE
        BY DEF HolesIn
      <4>1. st.map[m] \in Entry
        BY DEF Masked
      <4>2. st.map[m].hole \in Placeholder
        BY <4>1 DEF Entry
      <4> QED
        BY <2>3, <4>2, HolesAreNoAtoms
    <3> QED
      BY <3>1, <3>2
  <2>5. PICK j \in DOMAIN orig : orig[j] = first[k]
    BY <2>4 DEF ToSet
  <2>6. j \in 1..Len(orig)
    BY DEF Maskable
  <2> QED
    BY <2>2, <2>5, <2>6 DEF Maskable
<1>8. BeforeMatch(st, first, orig, order, n, 1, label)
  <2>1. StaysMasked(first, first)
    BY DEF StaysMasked
  <2>2. \A m \in 1..n : order[m][2] <= Len(first)
    BY <1>4, <1>5 DEF Spans
  <2>3. ASSUME NEW c \in 1..Len(first), NEW d \in 1..Len(first), Bare(first, label, c, d)
        PROVE  \E m \in 1..n : order[m] = <<c, d>>
    <3>1. <<c, d>> \in spans
      BY <1>4, <2>3 DEF Spans
    <3> QED
      BY <1>4, <3>1 DEF LastFirst
  <2> QED
    BY <1>1, <2>1, <2>2, <2>3 DEF BeforeMatch
<1> DEFINE Bad == {i \in 0..n : ~BeforeMatch(f[i], first, orig, order, n, i + 1, label)}
<1>9. Bad = {}
  <2> SUFFICES ASSUME Bad # {} PROVE FALSE
    OBVIOUS
  <2>1. PICK i \in Bad : \A k \in Bad : i <= k
    <3>1. Bad \in SUBSET Nat
      BY <1>5
    <3> HIDE DEF Bad
    <3> QED
      BY <3>1, LeastNatural
  <2>2. CASE i = 0
    <3>1. f[0] = st /\ 0 + 1 = 1
      BY <1>2 DEF AppliedBy
    <3> QED
      BY <1>8, <2>2, <3>1
  <2>3. CASE i # 0
    <3>1. i \in 1..n /\ i - 1 \in 0..n /\ ~(i <= i - 1) /\ (i - 1) + 1 = i /\ n # 0
      BY <1>5, <2>3
    <3>2. i - 1 \notin Bad
      BY <2>1, <3>1
    <3>3. BeforeMatch(f[i - 1], first, orig, order, n, i, label)
      BY <3>1, <3>2
    <3>4. f[i] = Replace(f[i - 1], order[i], label)
      BY <1>2, <3>1 DEF AppliedBy
    <3>5. BeforeMatch(Replace(f[i - 1], order[i], label), first, orig, order, n, i + 1, label)
      BY <1>4, <1>7, <3>1, <3>3, OneMatch
    <3> QED
      BY <3>4, <3>5
  <2> QED
    BY <2>2, <2>3
<1>10. BeforeMatch(f[n], first, orig, order, n, n + 1, label)
  <2>1. n \in 0..n
    BY <1>5
  <2> QED
    BY <1>9, <2>1
<1>11. (n + 1)..n = {}
  BY <1>5
<1> QED
  BY <1>1, <1>2, <1>10, <1>11 DEF BeforeMatch, Applied, NoneBare

-----------------------------------------------------------------------------
(* All patterns                                                            *)

\* f[i] is what the first i patterns make of text.
MaskedSoFar(f, text, n) ==
    /\ DOMAIN f = 0..n /\ f[0] = [text |-> text, map |-> <<>>]
    /\ \A i \in 1..n : f[i] = ApplyPattern(f[i - 1], Pattern[i])

LEMMA MaskingExists == ASSUME NEW text, NEW m \in Nat PROVE \E f : MaskedSoFar(f, text, m)
<1> DEFINE Bad == {n \in Nat : ~ \E f : MaskedSoFar(f, text, n)}
           start == [text |-> text, map |-> <<>>]
<1>1. SUFFICES ASSUME Bad # {} PROVE FALSE
  OBVIOUS
<1>2. PICK n \in Bad : \A k \in Bad : n <= k
  <2>1. Bad \in SUBSET Nat
    OBVIOUS
  <2> HIDE DEF Bad
  <2> QED
    BY <1>1, <2>1, LeastNatural
<1>3. n # 0
  <2>1. MaskedSoFar([i \in 0..0 |-> start], text, 0)
    BY DEF MaskedSoFar
  <2> QED
    BY <2>1
<1>4. PICK f : MaskedSoFar(f, text, n - 1)
  <2>1. n - 1 \in Nat /\ ~(n <= n - 1)
    BY <1>3
  <2> QED
    BY <1>2, <2>1
<1> DEFINE g == [i \in 0..n |-> IF i # n THEN f[i] ELSE ApplyPattern(f[n - 1], Pattern[n])]
<1>5. DOMAIN g = 0..n
  OBVIOUS
<1>6. \A i \in 0..(n - 1) : g[i] = f[i]
  <2>1. \A i \in 0..(n - 1) : i \in 0..n /\ i # n
    OBVIOUS
  <2> QED
    BY <2>1
<1>7. g[n] = ApplyPattern(f[n - 1], Pattern[n])
  OBVIOUS
<1> HIDE DEF g
<1>8. ASSUME NEW i \in 1..n PROVE g[i] = ApplyPattern(g[i - 1], Pattern[i])
  <2>1. g[i - 1] = f[i - 1]
    BY <1>6
  <2>2. CASE i = n
    BY <1>7, <2>1, <2>2
  <2>3. CASE i # n
    <3>1. i \in 1..(n - 1) /\ i \in 0..(n - 1)
      BY <2>3
    <3> QED
      BY <1>4, <1>6, <2>1, <3>1 DEF MaskedSoFar
  <2> QED
    BY <2>2, <2>3
<1>9. g[0] = start
  <2>1. 0 \in 0..(n - 1)
    BY <1>3
  <2> QED
    BY <1>4, <1>6, <2>1 DEF MaskedSoFar
<1>10. MaskedSoFar(g, text, n)
  BY <1>5, <1>8, <1>9 DEF MaskedSoFar
<1> QED
  BY <1>10

LEMMA RegexMaskIsLast ==
    ASSUME NEW text
    PROVE  \E f : MaskedSoFar(f, text, Len(Pattern)) /\ RegexMask(text) = f[Len(Pattern)]
<1>1. PICK n \in Nat : n = Len(Pattern)
  BY MaskingAssumption
<1>2. PICK start : start = [text |-> text, map |-> <<>>]
  OBVIOUS
<1>3. PICK g : MaskedSoFar(g, text, n)
  BY MaskingExists
<1>4. PICK h : h = [i \in 0..n |-> g[i]]
  OBVIOUS
<1>5. h = [i \in 0..n |-> IF i = 0 THEN start ELSE ApplyPattern(h[i - 1], Pattern[i])]
  <2>1. \A i \in 0..n : g[i] = IF i = 0 THEN start ELSE ApplyPattern(h[i - 1], Pattern[i])
    <3> SUFFICES ASSUME NEW i \in 0..n
                 PROVE  g[i] = IF i = 0 THEN start ELSE ApplyPattern(h[i - 1], Pattern[i])
      OBVIOUS
    <3>1. i # 0 => i \in 1..n /\ i - 1 \in 0..n
      BY <1>1
    <3> QED
      BY <1>2, <1>3, <1>4, <3>1 DEF MaskedSoFar
  <2> QED
    BY <1>4, <2>1
<1> DEFINE f == CHOOSE x : x = [i \in 0..n |-> IF i = 0 THEN start ELSE ApplyPattern(x[i - 1], Pattern[i])]
<1>6. RegexMask(text) = f[n]
  BY <1>1, <1>2 DEF RegexMask
<1>7. f = [i \in 0..n |-> IF i = 0 THEN start ELSE ApplyPattern(f[i - 1], Pattern[i])]
  BY <1>5, Zenon
<1> HIDE DEF f
<1>8. MaskedSoFar(f, text, n)
  BY <1>1, <1>2, <1>7 DEF MaskedSoFar
<1> QED
  BY <1>1, <1>6, <1>8

\* The patterns up to the n-th have no bare match left.
NoneBareUpto(t, n) == \A m \in 1..n : NoneBare(t, Pattern[m])

LEMMA FirstMasked ==
    ASSUME NEW text \in Seq(Element)
    PROVE  Masked([text |-> text, map |-> <<>>], text)
<1>1. PICK st : st = [text |-> text, map |-> <<>>]
  OBVIOUS
<1>2. st.text = text /\ st.map = <<>> /\ <<>> \in Seq(Entry) /\ Len(<<>>) = 0 /\ DOMAIN <<>> = {}
  BY <1>1
<1>3. ASSUME NEW P, Filling(P, <<>>, 0) PROVE Rewritten(text, P) = text
  <2>1. \A x \in Element : P[x] = <<x>>
    BY <1>3 DEF Filling, Fills
  <2> QED
    BY <2>1, RewrittenSame
<1>4. \A k \in DOMAIN text : text[k] \in ToSet(text)
  BY DEF ToSet
<1>5. Masked(st, text)
  BY <1>2, <1>3, <1>4 DEF Masked
<1> QED
  BY <1>1, <1>5

\* What the patterns make of a text, with the map to get it back.
RegexMasked(m, text) == Masked(m, text) /\ NoneBareUpto(m.text, Len(Pattern))

LEMMA RegexMasks == ASSUME NEW text, Maskable(text) PROVE RegexMasked(RegexMask(text), text)
<1>1. PICK n \in Nat : n = Len(Pattern) /\ DOMAIN Pattern = 1..n
  BY MaskingAssumption
<1>2. PICK f : MaskedSoFar(f, text, n) /\ RegexMask(text) = f[n]
  BY <1>1, RegexMaskIsLast
<1> DEFINE Bad == {i \in 0..n : ~(Masked(f[i], text) /\ NoneBareUpto(f[i].text, i))}
<1>3. Bad = {}
  <2> SUFFICES ASSUME Bad # {} PROVE FALSE
    OBVIOUS
  <2>1. PICK i \in Bad : \A k \in Bad : i <= k
    <3>1. Bad \in SUBSET Nat
      OBVIOUS
    <3> HIDE DEF Bad
    <3> QED
      BY <3>1, LeastNatural
  <2>2. CASE i = 0
    <3>1. Masked(f[0], text)
      BY <1>2, FirstMasked DEF MaskedSoFar, Maskable
    <3>2. NoneBareUpto(f[0].text, 0)
      BY DEF NoneBareUpto
    <3> QED
      BY <2>2, <3>1, <3>2
  <2>3. CASE i # 0
    <3>1. i \in 1..n /\ i - 1 \in 0..n /\ ~(i <= i - 1)
      BY <2>3
    <3>2. i - 1 \notin Bad
      BY <2>1, <3>1
    <3>3. Masked(f[i - 1], text) /\ NoneBareUpto(f[i - 1].text, i - 1)
      BY <3>1, <3>2
    <3>4. PICK old : old = f[i - 1]
      OBVIOUS
    <3>5. PICK new : new = f[i]
      OBVIOUS
    <3>6. Pattern[i] \in ToSet(Pattern)
      BY <1>1, <3>1 DEF ToSet
    <3>7. new = ApplyPattern(old, Pattern[i])
      BY <1>2, <3>1, <3>4, <3>5 DEF MaskedSoFar
    <3>8. Applied(new, old, text, Pattern[i])
      BY <3>3, <3>4, <3>6, <3>7, PatternMasks
    <3>9. NoneBareUpto(new.text, i)
      <4> SUFFICES ASSUME NEW m \in 1..i PROVE NoneBare(new.text, Pattern[m])
        BY DEF NoneBareUpto
      <4>1. CASE m = i
        BY <3>8, <4>1 DEF Applied
      <4>2. CASE m # i
        <5>1. m \in 1..(i - 1)
          BY <4>2
        <5>2. NoneBare(old.text, Pattern[m])
          BY <3>3, <3>4, <5>1 DEF NoneBareUpto
        <5> QED
          BY <3>8, <5>2 DEF Applied, StaysMasked
      <4> QED
        BY <4>1, <4>2
    <3> QED
      BY <3>5, <3>8, <3>9 DEF Applied
  <2> QED
    BY <2>2, <2>3
<1>4. PICK m : m = f[n]
  OBVIOUS
<1>5. Masked(m, text) /\ NoneBareUpto(m.text, n)
  <2>1. n \in 0..n
    OBVIOUS
  <2> QED
    BY <1>3, <1>4, <2>1
<1> QED
  BY <1>1, <1>2, <1>4, <1>5 DEF RegexMasked

-----------------------------------------------------------------------------
(* What DataMasker.mask returns                                            *)

\* m.text has no bare match, and becomes `text` when the placeholders of m.map are
\* replaced, of which it has no other.
Returns(m, text) ==
    /\ m.text \in Seq(Element) /\ m.map \in Seq(Entry) /\ Distinct(m.map)
    /\ \A k \in 1..Len(m.text) : m.text[k] \in Atom \cup HolesIn(m.map)
    /\ \A P : Filling(P, m.map, Len(m.map)) => Rewritten(m.text, P) = text
    /\ NoneBareUpto(m.text, Len(Pattern))

LEMMA RegexReturns ==
    ASSUME NEW text \in Seq(Atom)
    PROVE  Returns(RegexMask(text), text)
<1>1. Maskable(text)
  <2>1. text \in Seq(Element)
    <3>1. Atom \subseteq Element
      BY DEF Element
    <3> QED
      BY <3>1, SeqMonotonic
  <2>2. \A k \in DOMAIN text : text[k].kind # "hole"
    <3>1. \A k \in DOMAIN text : text[k] \in Atom
      OBVIOUS
    <3> QED
      BY <3>1, AtomsAreNoHoles
  <2>3. \A l \in ToSet(Pattern) : l \in Fit(text)
    BY <2>2 DEF Fit
  <2> QED
    BY <2>1, <2>3 DEF Maskable
<1>2. PICK m : m = RegexMask(text)
  OBVIOUS
<1>3. Masked(m, text) /\ NoneBareUpto(m.text, Len(Pattern))
  BY <1>1, <1>2, RegexMasks DEF RegexMasked
<1>4. Distinct(m.map)
  BY <1>3, MaskedDistinct
<1>5. \A k \in 1..Len(m.text) : m.text[k] \in Atom \cup HolesIn(m.map)
  <2>1. ToSet(text) \subseteq Atom
    BY DEF ToSet
  <2>2. DOMAIN m.text = 1..Len(m.text)
    BY <1>3 DEF Masked
  <2> QED
    BY <1>3, <2>1, <2>2 DEF Masked
<1>6. Returns(m, text)
  BY <1>3, <1>4, <1>5 DEF Masked, Returns
<1> QED
  BY <1>2, <1>6

-----------------------------------------------------------------------------
(* Presidio                                                                *)

\* c is `text` with its atoms at D covered by placeholders, the one at i under a
\* label that Fits(i) has.
CoveredAt(c, text, found) ==
    /\ c.text \in Seq(Element) /\ Len(c.text) = Len(text)
    /\ c.map \in Seq(Entry) /\ Distinct(c.map)
    /\ \A i \in 1..Len(text) : i \notin DOMAIN found => c.text[i] = text[i]
    /\ \A i \in DOMAIN found : \E k \in 1..Len(c.map) :
         /\ c.text[i] = c.map[k].hole /\ c.map[k].hole.label = found[i]
         /\ c.map[k].value = <<text[i]>>
    /\ \A k \in 1..Len(c.map) : \E i \in DOMAIN found : c.text[i] = c.map[k].hole

LEMMA CoveredPlaces ==
    ASSUME NEW text \in Seq(Atom), NEW found \in Analyses(text)
    PROVE  CoveredAt(Covered(text, found), text, found)
<1> DEFINE D == DOMAIN found
           key == [i \in D |-> <<-i>>]
           order == SortedBy(D, key)
           HoleOf(k) == Hole(found[order[k]], k - 1)
           text2 == [i \in DOMAIN text |->
                       IF i \in D THEN HoleOf(CHOOSE k \in DOMAIN order : order[k] = i) ELSE text[i]]
           map == [k \in DOMAIN order |-> [hole |-> HoleOf(k), value |-> <<text[order[k]]>>]]
<1>1. Covered(text, found) = [text |-> text2, map |-> map]
  BY DEF Covered
<1>2. PICK n \in Nat : n = Len(text) /\ DOMAIN text = 1..n
  OBVIOUS
<1>3. D \in SUBSET (1..n) /\ \A i \in D : found[i] \in Recognised \cup {"PERSON"}
  BY <1>2 DEF Analyses
<1>5. key = [i \in D |-> <<-i>>]
  OBVIOUS
<1>6. order = SortedBy(D, key)
  OBVIOUS
<1>10. text2 = [i \in DOMAIN text |->
                  IF i \in D THEN HoleOf(CHOOSE k \in DOMAIN order : order[k] = i) ELSE text[i]]
  OBVIOUS
<1>11. map = [k \in DOMAIN order |-> [hole |-> HoleOf(k), value |-> <<text[order[k]]>>]]
  OBVIOUS
<1>12. PICK new : new = Covered(text, found)
  OBVIOUS
<1>13. new.text = text2 /\ new.map = map
  <2> HIDE DEF text2, map
  <2> QED
    BY <1>1, <1>12
<1>a. D = DOMAIN found
  OBVIOUS
<1> HIDE DEF D, key, order, HoleOf, text2, map
<1>4. D \in SUBSET Int /\ IsFiniteSet(D)
  BY <1>3, FiniteNumbers
<1>7. Sorts(order, D, key)
  <2>1. \A i \in D : -i \in Int
    BY <1>4
  <2>2. \A i \in D : key[i] \in [1..1 -> Int]
    BY <1>5, <2>1, KeysOfNumbers
  <2>3. \A i, j \in D : key[i] = key[j] => i = j
    <3> SUFFICES ASSUME NEW i \in D, NEW j \in D, key[i] = key[j] PROVE i = j
      OBVIOUS
    <3>1. -i = -j /\ i \in Int /\ j \in Int
      BY <1>4, <1>5
    <3> QED
      BY <3>1
  <2>4. 1 \in Nat
    OBVIOUS
  <2> QED
    BY <1>4, <1>6, <2>2, <2>3, <2>4, Sorted, Zenon
<1>8. PICK c \in Nat : c = Cardinality(D)
  BY <1>7 DEF Sorts
<1>9. DOMAIN order = 1..c /\ Len(order) = c
      /\ (\A k \in 1..c : order[k] \in D) /\ (\A i \in D : \E k \in 1..c : order[k] = i)
  BY <1>7, <1>8 DEF Sorts
<1>14. ASSUME NEW k \in 1..c
       PROVE  /\ HoleOf(k) \in Placeholder /\ HoleOf(k).n = k - 1
              /\ HoleOf(k).label = found[order[k]]
  <2>1. found[order[k]] \in Labels /\ k - 1 \in Nat
    <3>1. order[k] \in D
      BY <1>9
    <3>2. found[order[k]] \in Recognised \cup {"PERSON"}
      BY <1>3, <3>1
    <3> QED
      BY <3>2 DEF Labels
  <2> QED
    BY <2>1 DEF HoleOf, Hole, Placeholder
<1>15. ASSUME NEW i \in D
       PROVE  \E k \in 1..c : order[k] = i /\ text2[i] = HoleOf(k)
  <2>1. PICK k : k = CHOOSE j \in DOMAIN order : order[j] = i
    OBVIOUS
  <2>2. k \in 1..c /\ order[k] = i
    BY <1>9, <2>1, Zenon
  <2>3. text2[i] = HoleOf(k)
    BY <1>2, <1>3, <1>10, <2>1
  <2> QED
    BY <2>2, <2>3
<1>16. ASSUME NEW k \in 1..c
       PROVE  map[k].hole = HoleOf(k) /\ map[k].value = <<text[order[k]]>>
  BY <1>9, <1>11
<1>17. ASSUME NEW k \in 1..c PROVE text[order[k]] \in Atom /\ order[k] \in 1..n
  <2>1. order[k] \in D
    BY <1>9
  <2>2. order[k] \in 1..n
    BY <1>3, <2>1
  <2> QED
    BY <1>2, <2>2
<1>18. map \in Seq(Entry) /\ Len(map) = c /\ DOMAIN map = 1..c
  <2>1. \A k \in 1..c : [hole |-> HoleOf(k), value |-> <<text[order[k]]>>] \in Entry
    <3> SUFFICES ASSUME NEW k \in 1..c
                 PROVE  [hole |-> HoleOf(k), value |-> <<text[order[k]]>>] \in Entry
      OBVIOUS
    <3>1. <<text[order[k]]>> \in Seq(Atom) /\ <<text[order[k]]>> # <<>>
      BY <1>17
    <3> QED
      BY <1>14, <3>1 DEF Entry
  <2> QED
    BY <1>9, <1>11, <2>1
<1>19. Distinct(map)
  <2> SUFFICES ASSUME NEW i \in 1..c, NEW j \in 1..c, map[i].hole = map[j].hole PROVE i = j
    BY <1>18 DEF Distinct
  <2>1. HoleOf(i).n = HoleOf(j).n
    BY <1>16
  <2>2. i - 1 = j - 1
    BY <1>14, <2>1
  <2> QED
    BY <2>2
<1>20. ASSUME NEW i \in 1..n, i \notin D PROVE text2[i] = text[i]
  BY <1>2, <1>10, <1>20
<1>21. ASSUME NEW i \in D
       PROVE  \E k \in 1..c : /\ text2[i] = map[k].hole /\ map[k].hole.label = found[i]
                              /\ map[k].value = <<text[i]>>
  <2>1. PICK k \in 1..c : order[k] = i /\ text2[i] = HoleOf(k)
    BY <1>15
  <2> QED
    BY <1>14, <1>16, <2>1
<1>22. ASSUME NEW k \in 1..c PROVE \E i \in D : text2[i] = map[k].hole
  <2>1. order[k] \in D
    BY <1>9
  <2>2. PICK j \in 1..c : order[j] = order[k] /\ text2[order[k]] = HoleOf(j)
    BY <1>15, <2>1
  <2>3. j = k
    <3>1. \A x \in 1..c, i \in D : order[x] = i <=> Cardinality(Before(D, key, i)) = x - 1
      BY <1>7, <1>8 DEF Sorts
    <3>2. j - 1 = k - 1
      BY <2>1, <2>2, <3>1
    <3> QED
      BY <3>2
  <2> QED
    BY <1>16, <2>1, <2>2, <2>3
<1>23. text2 \in Seq(Element) /\ Len(text2) = n
  <2>1. \A i \in 1..n : text2[i] \in Element
    <3> SUFFICES ASSUME NEW i \in 1..n PROVE text2[i] \in Element
      OBVIOUS
    <3>1. CASE i \in D
      BY <1>14, <1>15, <3>1 DEF Element
    <3>2. CASE i \notin D
      BY <1>2, <1>20, <3>2 DEF Element
    <3> QED
      BY <3>1, <3>2
  <2>2. DOMAIN text2 = 1..n /\ text2 = [i \in 1..n |-> text2[i]]
    BY <1>2, <1>10
  <2> QED
    BY <2>1, <2>2
<1>24. CoveredAt(new, text, found)
  BY <1>a, <1>2, <1>13, <1>18, <1>19, <1>20, <1>21, <1>22, <1>23 DEF CoveredAt
<1> QED
  BY <1>12, <1>24

LEMMA CoveredReturns ==
    ASSUME NEW text \in Seq(Atom), NEW found, NEW c, CoveredAt(c, text, found),
           NEW P, Filling(P, c.map, Len(c.map))
    PROVE  Rewritten(c.text, P) = text
<1>1. KeepsAtoms(P)
  BY FillingKeepsAtoms
<1>2. c.text \in Seq(Element) /\ Len(c.text) = Len(text)
  BY DEF CoveredAt
<1>3. ASSUME NEW k \in 1..Len(text) PROVE P[c.text[k]] = <<text[k]>>
  <2>1. text[k] \in Atom
    OBVIOUS
  <2>2. CASE k \in DOMAIN found
    <3>1. PICK m \in 1..Len(c.map) : c.text[k] = c.map[m].hole /\ c.map[m].value = <<text[k]>>
      BY <2>2 DEF CoveredAt
    <3> QED
      BY <3>1 DEF Filling, Fills
  <2>3. CASE k \notin DOMAIN found
    <3>1. c.text[k] = text[k]
      BY <2>3 DEF CoveredAt
    <3> QED
      BY <1>1, <2>1, <3>1 DEF KeepsAtoms
  <2> QED
    BY <2>2, <2>3
<1>4. text \in Seq(Element)
  BY <1>1 DEF KeepsAtoms
<1>5. Rewrites(P, Element, Element)
  BY <1>1 DEF KeepsAtoms
<1>6. PICK s \in Seq(Element) : s = c.text
  BY <1>2
<1>7. Len(s) = Len(text) /\ \A k \in 1..Len(s) : P[s[k]] = <<text[k]>>
  BY <1>2, <1>3, <1>6
<1>8. PICK t \in Seq(Element) : t = text
  BY <1>4
<1>9. AtomByAtom(P, s, t)
  BY <1>7, <1>8 DEF AtomByAtom
<1>10. Rewritten(s, P) = t
  BY <1>5, <1>9, RewrittenByAtom
<1> QED
  BY <1>6, <1>8, <1>10

\* The patterns have other labels for what Presidio leaves.
LEMMA CoveredMaskable ==
    ASSUME NEW text \in Seq(Atom), NEW found \in Analyses(text), NEW c, CoveredAt(c, text, found)
    PROVE  Maskable(c.text)
<1>1. c.text \in Seq(Element) /\ Len(c.text) = Len(text) /\ DOMAIN c.text = 1..Len(text)
  BY DEF CoveredAt
<1>2. DOMAIN text = 1..Len(text)
  OBVIOUS
<1> DEFINE Known(i) == text[i].kind = "secret" /\ text[i].labels \cap Recognised # {}
<1>3. \A i \in 1..Len(text) : Known(i) => i \in DOMAIN found
  BY <1>2 DEF Analyses
<1>4. \A i \in DOMAIN found : i \in 1..Len(text) /\ found[i] \in Recognised \cup {"PERSON"}
  BY <1>2 DEF Analyses
<1> SUFFICES ASSUME NEW l \in ToSet(Pattern), NEW k \in 1..Len(text), Attracts(c.text[k], l),
                    NEW i \in 1..Len(text), c.text[i].kind = "hole", c.text[i].label = l
             PROVE  FALSE
  BY <1>1 DEF Maskable, Fit
<1>5. k \notin DOMAIN found /\ c.text[k] = text[k] /\ text[k] \in Atom
  <2>1. k \notin DOMAIN found
    <3> SUFFICES ASSUME k \in DOMAIN found PROVE FALSE
      OBVIOUS
    <3>1. PICK m \in 1..Len(c.map) : c.text[k] = c.map[m].hole
      BY DEF CoveredAt
    <3>2. c.map[m] \in Entry
      BY <3>1 DEF CoveredAt
    <3>3. c.text[k].kind = "hole"
      BY <3>1, <3>2, HolesAreNoAtoms DEF Entry
    <3> QED
      BY <3>3 DEF Attracts
  <2> QED
    BY <2>1 DEF CoveredAt
<1>6. i \in DOMAIN found
  <2> SUFFICES ASSUME i \notin DOMAIN found PROVE FALSE
    OBVIOUS
  <2>1. c.text[i] \in Atom
    BY DEF CoveredAt
  <2> QED
    BY <2>1, AtomsAreNoHoles
<1>7. found[i] = l
  BY <1>6 DEF CoveredAt
<1>8. l \in Recognised
  BY <1>4, <1>6, <1>7, MaskingAssumption
<1>9. CASE text[k].kind = "secret" /\ l \in text[k].labels
  <2>1. text[k].labels \cap Recognised # {}
    BY <1>8, <1>9
  <2> QED
    BY <1>3, <1>5, <1>9, <2>1
<1>10. CASE text[k].kind = "open" /\ text[k].label = l
  BY <1>5, <1>8, <1>10, MaskingAssumption
<1> QED
  BY <1>5, <1>9, <1>10 DEF Attracts

\* Maps without a placeholder in common are put after each other.
LEMMA MergedMaps ==
    ASSUME NEW a \in Seq(Entry), NEW b \in Seq(Entry),
           \A k \in DOMAIN a, m \in DOMAIN b : a[k].hole # b[m].hole
    PROVE  MergeMaps(a, b) = a \o b
<1>1. PICK n \in Nat : n = Len(b) /\ DOMAIN b = 1..n
  OBVIOUS
<1>2. {m \in DOMAIN b : \A k \in DOMAIN a : a[k].hole # b[m].hole} = 1..n
  BY <1>1
<1>3. \A k \in DOMAIN a : {m \in DOMAIN b : b[m].hole = a[k].hole} = {}
  OBVIOUS
<1>4. PICK new : new = Ascending(1..n)
  OBVIOUS
<1>5. DOMAIN new = 1..n /\ \A k \in 1..n : new[k] = k
  <2>1. \A k \in 1..n : new[k] = k
    BY <1>4, AscendingInterval
  <2>2. CountsOff(new, 1..n)
    <3>1. IsFiniteSet(1..n) /\ 1..n \in SUBSET Int
      BY AscendingInterval
    <3> QED
      BY <1>4, <3>1, AscendingSet
  <2>3. DOMAIN new = 1..Cardinality(1..n)
    BY <2>2 DEF CountsOff
  <2> QED
    BY <2>1, <2>3, AscendingInterval
<1>6. a = [k \in DOMAIN a |-> a[k]]
  OBVIOUS
<1>7. b = [k \in DOMAIN new |-> b[new[k]]]
  <2>1. b = [k \in 1..n |-> b[k]]
    BY <1>1
  <2> QED
    BY <1>5, <2>1
<1> DEFINE Later(k) == {m \in DOMAIN b : b[m].hole = a[k].hole}
           first == [k \in DOMAIN a |-> IF Later(k) = {} THEN a[k] ELSE b[CHOOSE m \in Later(k) : TRUE]]
<1>8. first = a
  <2>1. \A k \in DOMAIN a : Later(k) = {}
    BY <1>3
  <2> HIDE DEF Later
  <2>2. first = [k \in DOMAIN a |-> a[k]]
    BY <2>1
  <2> QED
    BY <1>6, <2>2
<1>9. MergeMaps(a, b) = first \o [k \in DOMAIN new |-> b[new[k]]]
  BY <1>2, <1>4 DEF MergeMaps
<1> HIDE DEF first
<1> QED
  BY <1>7, <1>8, <1>9

LEMMA PresidioReturns ==
    ASSUME NEW text \in Seq(Atom), NEW found \in Analyses(text)
    PROVE  Returns(PresidioMask(text, found), text)
<1>1. PICK c : c = Covered(text, found)
  OBVIOUS
<1>2. CoveredAt(c, text, found)
  BY <1>1, CoveredPlaces
<1>3. PICK r : r = RegexMask(c.text)
  OBVIOUS
<1>4. Masked(r, c.text) /\ NoneBareUpto(r.text, Len(Pattern))
  BY <1>2, <1>3, CoveredMaskable, RegexMasks DEF RegexMasked
<1>5. PICK a \in Seq(Entry) : a = c.map
  BY <1>2 DEF CoveredAt
<1>6. PICK b \in Seq(Entry) : b = r.map
  BY <1>4 DEF Masked
<1>7. Distinct(a) /\ Distinct(b)
  BY <1>2, <1>4, <1>5, <1>6, MaskedDistinct DEF CoveredAt
<1>8. PICK p \in Nat, q \in Nat : p = Len(a) /\ q = Len(b) /\ DOMAIN a = 1..p /\ DOMAIN b = 1..q
  OBVIOUS
<1>9. \A k \in 1..p, m \in 1..q : a[k].hole # b[m].hole
  <2> SUFFICES ASSUME NEW k \in 1..p, NEW m \in 1..q, a[k].hole = b[m].hole PROVE FALSE
    OBVIOUS
  <2>1. PICK i \in DOMAIN found : c.text[i] = a[k].hole
    BY <1>2, <1>5, <1>8 DEF CoveredAt
  <2>2. i \in DOMAIN c.text
    <3>1. i \in 1..Len(text)
      BY DEF Analyses
    <3> QED
      BY <1>2, <3>1 DEF CoveredAt
  <2>3. b[m].hole.label \in Fit(c.text)
    BY <1>4, <1>6, <1>8 DEF Masked
  <2>4. c.text[i].kind = "hole"
    <3>1. a[k] \in Entry
      BY <1>8
    <3>2. a[k].hole \in Placeholder
      BY <3>1 DEF Entry
    <3> QED
      BY <2>1, <3>2, HolesAreNoAtoms
  <2> QED
    BY <2>1, <2>2, <2>3, <2>4 DEF Fit
<1>10. PICK all : all = a \o b
  OBVIOUS
<1>11. all \in Seq(Entry) /\ Len(all) = p + q /\ DOMAIN all = 1..(p + q)
       /\ \A k \in 1..(p + q) : all[k] = IF k <= p THEN a[k] ELSE b[k - p]
  BY <1>8, <1>10
<1>12. PICK m : m = PresidioMask(text, found)
  OBVIOUS
<1>13. m.text = r.text /\ m.map = all
  <2>1. MergeMaps(a, b) = all
    BY <1>8, <1>9, <1>10, MergedMaps
  <2>2. PresidioMask(text, found) = [text |-> r.text, map |-> MergeMaps(c.map, r.map)]
    BY <1>1, <1>3 DEF PresidioMask
  <2> QED
    BY <1>5, <1>6, <1>12, <2>1, <2>2
<1>14. ASSUME NEW k \in 1..(p + q)
       PROVE  \/ k \in 1..p /\ all[k] = a[k]
              \/ k - p \in 1..q /\ all[k] = b[k - p]
  <2>1. CASE k <= p
    <3>1. k \in 1..p
      BY <2>1
    <3> QED
      BY <1>11, <2>1, <3>1
  <2>2. CASE ~(k <= p)
    <3>1. k - p \in 1..q
      BY <2>2
    <3> QED
      BY <1>11, <2>2, <3>1
  <2> QED
    BY <2>1, <2>2
<1>15. /\ \A k \in 1..p : k \in 1..(p + q) /\ all[k] = a[k]
       /\ \A k \in 1..q : k + p \in 1..(p + q) /\ all[k + p] = b[k]
  <2>1. ASSUME NEW k \in 1..p PROVE k \in 1..(p + q) /\ all[k] = a[k]
    <3>1. k \in 1..(p + q) /\ k <= p
      OBVIOUS
    <3> QED
      BY <1>11, <3>1
  <2>2. ASSUME NEW k \in 1..q PROVE k + p \in 1..(p + q) /\ all[k + p] = b[k]
    <3>1. k + p \in 1..(p + q) /\ ~(k + p <= p) /\ (k + p) - p = k
      OBVIOUS
    <3> QED
      BY <1>11, <3>1
  <2> QED
    BY <2>1, <2>2
<1>16. Distinct(all)
  <2> SUFFICES ASSUME NEW i \in 1..(p + q), NEW j \in 1..(p + q), all[i].hole = all[j].hole
               PROVE  i = j
    BY <1>11 DEF Distinct
  <2>1. CASE i \in 1..p /\ all[i] = a[i]
    <3>1. j \in 1..p /\ all[j] = a[j]
      BY <1>9, <1>14, <2>1
    <3> QED
      BY <1>7, <1>8, <2>1, <3>1 DEF Distinct
  <2>2. CASE i - p \in 1..q /\ all[i] = b[i - p]
    <3>1. j - p \in 1..q /\ all[j] = b[j - p]
      BY <1>9, <1>14, <2>2
    <3>2. i - p = j - p
      BY <1>7, <1>8, <2>2, <3>1 DEF Distinct
    <3> QED
      BY <3>2
  <2> QED
    BY <1>14, <2>1, <2>2
<1>17. HolesIn(a) \subseteq HolesIn(all) /\ HolesIn(b) \subseteq HolesIn(all)
  <2>1. ASSUME NEW x \in HolesIn(a) PROVE x \in HolesIn(all)
    <3>1. PICK k \in 1..p : x = a[k].hole
      BY <1>8 DEF HolesIn
    <3> QED
      BY <1>11, <1>15, <3>1 DEF HolesIn
  <2>2. ASSUME NEW x \in HolesIn(b) PROVE x \in HolesIn(all)
    <3>1. PICK k \in 1..q : x = b[k].hole
      BY <1>8 DEF HolesIn
    <3> QED
      BY <1>11, <1>15, <3>1 DEF HolesIn
  <2> QED
    BY <2>1, <2>2
<1>18. ASSUME NEW k \in 1..Len(m.text) PROVE m.text[k] \in Atom \cup HolesIn(all)
  <2>1. m.text[k] \in ToSet(c.text) \cup HolesIn(b)
    <3>1. k \in DOMAIN r.text
      BY <1>4, <1>13 DEF Masked
    <3> QED
      BY <1>4, <1>6, <1>13, <3>1 DEF Masked
  <2>2. ASSUME NEW x \in ToSet(c.text) PROVE x \in Atom \cup HolesIn(a)
    <3>1. PICK i \in 1..Len(text) : x = c.text[i]
      <4>1. DOMAIN c.text = 1..Len(text)
        BY <1>2 DEF CoveredAt
      <4> QED
        BY <4>1 DEF ToSet
    <3>2. CASE i \in DOMAIN found
      <4>1. PICK j \in 1..p : c.text[i] = a[j].hole
        BY <1>2, <1>5, <1>8, <3>2 DEF CoveredAt
      <4> QED
        BY <1>8, <3>1, <4>1 DEF HolesIn
    <3>3. CASE i \notin DOMAIN found
      BY <1>2, <3>1, <3>3 DEF CoveredAt
    <3> QED
      BY <3>2, <3>3
  <2> QED
    BY <1>17, <2>1, <2>2
<1>19. ASSUME NEW P, Filling(P, all, p + q) PROVE Rewritten(r.text, P) = text
  <2>1. PICK A : Filling(A, a, p)
    <3>1. p \in 0..Len(a)
      BY <1>8
    <3> QED
      BY <1>7, <3>1, FillingExists
  <2>2. PICK B : Filling(B, b, q)
    <3>1. q \in 0..Len(b)
      BY <1>8
    <3> QED
      BY <1>7, <3>1, FillingExists
  <2>3. KeepsAtoms(A) /\ KeepsAtoms(B)
    BY <2>1, <2>2, FillingKeepsAtoms
  <2>4. Rewritten(r.text, B) = c.text
    BY <1>4, <1>6, <1>8, <2>2 DEF Masked
  <2>5. Rewritten(c.text, A) = text
    BY <1>2, <1>5, <1>8, <2>1, CoveredReturns
  <2>6. ASSUME NEW x \in Element PROVE P[x] = Rewritten(B[x], A)
    <3>1. CASE \E k \in 1..q : b[k].hole = x
      <4>1. PICK k \in 1..q : b[k].hole = x
        BY <3>1
      <4>2. B[x] = b[k].value
        BY <2>2, <4>1 DEF Filling, Fills
      <4>3. P[x] = b[k].value
        <5>1. p + k \in 1..(p + q) /\ all[p + k] = b[k]
          BY <1>15, <4>1
        <5>2. P[all[p + k].hole] = all[p + k].value
          BY <1>19, <5>1 DEF Filling, Fills
        <5> QED
          BY <4>1, <5>1, <5>2
      <4>4. b[k].value \in Seq(Atom)
        <5>1. b[k] \in Entry
          BY <1>8
        <5> QED
          BY <5>1 DEF Entry
      <4> QED
        BY <2>3, <4>2, <4>3, <4>4 DEF KeepsAtoms
    <3>2. CASE \A k \in 1..q : b[k].hole # x
      <4>1. B[x] = <<x>>
        BY <2>2, <3>2 DEF Filling, Fills
      <4>2. Rewritten(<<x>>, A) = A[x]
        BY <2>3, RewrittenOne DEF KeepsAtoms
      <4>3. P[x] = A[x]
        <5>1. CASE \E k \in 1..p : a[k].hole = x
          <6>1. PICK k \in 1..p : a[k].hole = x
            BY <5>1
          <6>2. A[x] = a[k].value
            BY <2>1, <6>1 DEF Filling, Fills
          <6>3. P[x] = a[k].value
            BY <1>15, <1>19, <6>1 DEF Filling, Fills
          <6> QED
            BY <6>2, <6>3
        <5>2. CASE \A k \in 1..p : a[k].hole # x
          <6>1. \A k \in 1..(p + q) : all[k].hole # x
            BY <1>14, <3>2, <5>2
          <6>2. A[x] = <<x>>
            BY <2>1, <5>2 DEF Filling, Fills
          <6>3. P[x] = <<x>>
            BY <1>19, <6>1 DEF Filling, Fills
          <6> QED
            BY <6>2, <6>3
        <5> QED
          BY <5>1, <5>2
      <4> QED
        BY <4>1, <4>2, <4>3
    <3> QED
      BY <3>1, <3>2
  <2>7. r.text \in Seq(Element)
    BY <1>4 DEF Masked
  <2>8. Rewritten(Rewritten(r.text, B), A) = Rewritten(r.text, P)
    <3>1. PICK t \in Seq(Element) : t = r.text
      BY <2>7
    <3>2. Rewrites(A, Element, Element) /\ Rewrites(B, Element, Element)
      BY <2>3 DEF KeepsAtoms
    <3>3. Rewritten(Rewritten(t, B), A) = Rewritten(t, P)
      BY <2>6, <3>2, RewrittenTwice, SMTT(30)
    <3> QED
      BY <3>1, <3>3
  <2> QED
    BY <2>4, <2>5, <2>8
<1>20. Returns(m, text)
  <2>1. m.text \in Seq(Element) /\ NoneBareUpto(m.text, Len(Pattern))
    BY <1>4, <1>13 DEF Masked
  <2>2. \A P : Filling(P, m.map, Len(m.map)) => Rewritten(m.text, P) = text
    BY <1>11, <1>13, <1>19
  <2> QED
    BY <1>11, <1>13, <1>16, <1>18, <2>1, <2>2 DEF Returns
<1> QED
  BY <1>12, <1>20

\* Whichever masker is first.
LEMMA MasksReturn ==
    ASSUME NEW text \in Seq(Atom), NEW m \in Masks(text)
    PROVE  Returns(m, text)
BY RegexReturns, PresidioReturns DEF Masks

-----------------------------------------------------------------------------
(* There and back                                                          *)

Unnumbered == [x \in Element |-> IF x.kind = "number" THEN <<>> ELSE <<x>>]

LEMMA StrippedIsRewritten ==
    ASSUME NEW t \in Seq(Element)
    PROVE  Stripped(t) = Rewritten(t, Unnumbered)
<1>1. \A k \in DOMAIN t : t[k] \in Element
  OBVIOUS
<1>2. [k \in DOMAIN t |-> IF t[k].kind = "number" THEN <<>> ELSE <<t[k]>>]
        = [k \in DOMAIN t |-> Unnumbered[t[k]]]
  BY <1>1 DEF Unnumbered
<1> QED
  BY <1>2 DEF Stripped, Rewritten

LEMMA StrippedOf ==
    ASSUME NEW S \in SUBSET Element, NEW t \in Seq(S)
    PROVE  Rewrites(Unnumbered, S, S) /\ Rewritten(t, Unnumbered) \in Seq(S)
<1>1. \A x \in S : Unnumbered[x] \in Seq(S)
  <2> SUFFICES ASSUME NEW x \in S PROVE Unnumbered[x] \in Seq(S)
    OBVIOUS
  <2>1. x \in Element /\ <<>> \in Seq(S) /\ <<x>> \in Seq(S)
    BY EmptySeq
  <2>2. Unnumbered[x] = IF x.kind = "number" THEN <<>> ELSE <<x>>
    BY <2>1 DEF Unnumbered
  <2> QED
    BY <2>1, <2>2
<1>2. Rewrites(Unnumbered, S, S)
  BY <1>1 DEF Rewrites
<1> QED
  BY <1>2, RewrittenType

\* e leads from each atom of s to where it is in t, and leaves only line numbers out.
Embeds(e, s, t) ==
    /\ e \in [1..Len(s) -> 1..Len(t)]
    /\ \A k, l \in 1..Len(s) : k < l => e[k] < e[l]
    /\ \A k \in 1..Len(s) : s[k] = t[e[k]]
    /\ \A j \in 1..Len(t) : t[j].kind = "number" \/ \E k \in 1..Len(s) : e[k] = j

\* t without its line numbers is t in places.
Embedded(t) == \E e : Embeds(e, Rewritten(t, Unnumbered), t)

LEMMA EmbedMore ==
    ASSUME NEW t \in Seq(Element), Embedded(t), NEW x \in Element
    PROVE  Embedded(Append(t, x))
<1>1. PICK s : s = Rewritten(t, Unnumbered)
  OBVIOUS
<1>2. PICK e : Embeds(e, s, t)
  BY <1>1 DEF Embedded
<1>3. Rewrites(Unnumbered, Element, Element) /\ s \in Seq(Element)
  BY <1>1, StrippedOf
<1>4. Rewritten(Append(t, x), Unnumbered) = s \o Unnumbered[x]
  BY <1>1, <1>3, RewrittenMore, SMTT(30)
<1>5. PICK u \in Seq(Element) : u = Append(t, x)
  BY AppendProperties
<1>6. PICK m \in Nat, n \in Nat : m = Len(s) /\ n = Len(t)
  BY <1>3
<1>7. Len(u) = n + 1 /\ u[n + 1] = x /\ \A k \in 1..n : u[k] = t[k]
  BY <1>5, <1>6
<1>8. /\ e \in [1..m -> 1..n]
      /\ \A k, l \in 1..m : k < l => e[k] < e[l]
      /\ \A k \in 1..m : s[k] = t[e[k]]
      /\ \A j \in 1..n : t[j].kind = "number" \/ \E k \in 1..m : e[k] = j
  BY <1>2, <1>6 DEF Embeds
<1>9. CASE x.kind = "number"
  <2>1. s \o Unnumbered[x] = s
    BY <1>3, <1>9 DEF Unnumbered
  <2>2. e \in [1..m -> 1..(n + 1)]
    BY <1>8
  <2>3. \A k \in 1..m : s[k] = u[e[k]]
    BY <1>7, <1>8
  <2>4. ASSUME NEW j \in 1..(n + 1) PROVE u[j].kind = "number" \/ \E k \in 1..m : e[k] = j
    <3>1. CASE j = n + 1
      BY <1>7, <1>9, <3>1
    <3>2. CASE j # n + 1
      <4>1. j \in 1..n
        BY <3>2
      <4> QED
        BY <1>7, <1>8, <4>1
    <3> QED
      BY <3>1, <3>2
  <2>5. Embeds(e, s, u)
    BY <1>6, <1>7, <1>8, <2>2, <2>3, <2>4 DEF Embeds
  <2> QED
    BY <1>4, <1>5, <2>1, <2>5 DEF Embedded
<1>10. CASE x.kind # "number"
  <2>1. PICK v \in Seq(Element) : v = Append(s, x)
    BY <1>3, AppendProperties
  <2>2. s \o Unnumbered[x] = v
    <3>1. Unnumbered[x] = <<x>>
      BY <1>10 DEF Unnumbered
    <3>2. s \o <<x>> = Append(s, x)
      BY <1>3
    <3> QED
      BY <2>1, <3>1, <3>2
  <2>3. Len(v) = m + 1 /\ v[m + 1] = x /\ \A k \in 1..m : v[k] = s[k]
    BY <1>3, <1>6, <2>1
  <2> DEFINE f == [k \in 1..(m + 1) |-> IF k = m + 1 THEN n + 1 ELSE e[k]]
  <2>4. f[m + 1] = n + 1 /\ \A k \in 1..m : f[k] = e[k]
    OBVIOUS
  <2>5. f \in [1..(m + 1) -> 1..(n + 1)]
    BY <1>8
  <2> HIDE DEF f
  <2>6. ASSUME NEW k \in 1..(m + 1), NEW l \in 1..(m + 1), k < l PROVE f[k] < f[l]
    <3>1. k \in 1..m /\ f[k] = e[k] /\ e[k] \in 1..n
      BY <1>8, <2>4, <2>6
    <3>2. CASE l = m + 1
      BY <2>4, <3>1, <3>2
    <3>3. CASE l # m + 1
      <4>1. l \in 1..m
        BY <3>3
      <4> QED
        BY <1>8, <2>4, <2>6, <3>1, <4>1
    <3> QED
      BY <3>2, <3>3
  <2>7. ASSUME NEW k \in 1..(m + 1) PROVE v[k] = u[f[k]]
    <3>1. CASE k = m + 1
      BY <1>7, <2>3, <2>4, <3>1
    <3>2. CASE k # m + 1
      <4>1. k \in 1..m
        BY <3>2
      <4>2. f[k] = e[k] /\ e[k] \in 1..n /\ v[k] = t[e[k]]
        BY <1>8, <2>3, <2>4, <4>1
      <4> QED
        BY <1>7, <4>2
    <3> QED
      BY <3>1, <3>2
  <2>8. ASSUME NEW j \in 1..(n + 1) PROVE u[j].kind = "number" \/ \E k \in 1..(m + 1) : f[k] = j
    <3>1. CASE j = n + 1
      <4>1. m + 1 \in 1..(m + 1)
        OBVIOUS
      <4> QED
        BY <2>4, <3>1, <4>1
    <3>2. CASE j # n + 1
      <4>1. j \in 1..n
        BY <3>2
      <4>2. CASE \E k \in 1..m : e[k] = j
        <5>1. PICK k \in 1..m : e[k] = j
          BY <4>2
        <5>2. k \in 1..(m + 1)
          OBVIOUS
        <5> QED
          BY <2>4, <5>1, <5>2
      <4> QED
        BY <1>7, <1>8, <4>1, <4>2
    <3> QED
      BY <3>1, <3>2
  <2>9. Embeds(f, v, u)
    BY <1>7, <2>3, <2>5, <2>6, <2>7, <2>8 DEF Embeds
  <2> QED
    BY <1>4, <1>5, <2>2, <2>9 DEF Embedded
<1> QED
  BY <1>9, <1>10

LEMMA StrippedEmbeds == ASSUME NEW t \in Seq(Element) PROVE Embedded(t)
<1> DEFINE T == {s \in Seq(Element) : Embedded(s)}
<1>1. <<>> \in T
  <2>1. Embeds(<<>>, <<>>, <<>>)
    BY DEF Embeds
  <2>2. Rewritten(<<>>, Unnumbered) = <<>> /\ <<>> \in Seq(Element)
    BY RewrittenNone, EmptySeq
  <2> QED
    BY <2>1, <2>2 DEF Embedded
<1>2. ASSUME NEW s \in Seq(Element), NEW x \in Element, s \in T PROVE Append(s, x) \in T
  BY <1>2, EmbedMore, AppendProperties
<1>3. t \in T
  <2> HIDE DEF T
  <2> QED
    BY <1>1, <1>2, TextInduction
<1> QED
  BY <1>3

\* What is bare without the line numbers is bare with them.
LEMMA BareWithNumbers ==
    ASSUME NEW t \in Seq(Element), NEW s \in Seq(Element), NEW e, Embeds(e, s, t),
           NEW label, NEW c \in 1..Len(s), NEW d \in 1..Len(s), Bare(s, label, c, d)
    PROVE  ~NoneBare(t, label)
<1>1. PICK m \in Nat, n \in Nat : m = Len(s) /\ n = Len(t)
  OBVIOUS
<1>2. /\ \A k \in 1..m : e[k] \in 1..n /\ s[k] = t[e[k]]
      /\ \A k, l \in 1..m : k < l => e[k] < e[l]
      /\ \A j \in 1..n : t[j].kind = "number" \/ \E k \in 1..m : e[k] = j
  BY <1>1 DEF Embeds
<1>3. c \in 1..m /\ d \in 1..m /\ c <= d /\ \A k \in c..d : s[k].kind # "hole"
  BY <1>1 DEF Bare
<1>4. CASE c = d /\ s[c].kind = "secret" /\ label \in s[c].labels
  <2>1. PICK i \in 1..n : i = e[c] /\ t[i] = s[c]
    BY <1>2, <1>3
  <2>2. Bare(t, label, i, i)
    <3>1. \A k \in i..i : k = i
      OBVIOUS
    <3> QED
      BY <1>1, <1>4, <2>1, <3>1 DEF Bare
  <2> QED
    BY <1>1, <2>2 DEF NoneBare
<1>5. CASE /\ c - 1 \in 1..m /\ d + 1 \in 1..m
           /\ s[c - 1] = [kind |-> "open", label |-> label]
           /\ s[d + 1] = [kind |-> "close", label |-> label]
           /\ \A k \in c..d : s[k].kind \notin {"open", "close"}
  <2>1. PICK x \in 1..n, y \in 1..n, z \in 1..n, w \in 1..n :
           x = e[c - 1] /\ y = e[d + 1] /\ z = e[c] /\ w = e[d]
    BY <1>2, <1>3, <1>5
  <2>2. x < z /\ z <= w /\ w < y
    <3>1. x < z
      BY <1>2, <1>3, <1>5, <2>1
    <3>2. w < y
      BY <1>2, <1>3, <1>5, <2>1
    <3>3. z <= w
      BY <1>2, <1>3, <2>1
    <3> QED
      BY <3>1, <3>2, <3>3
  <2>3. t[x] = [kind |-> "open", label |-> label] /\ t[y] = [kind |-> "close", label |-> label]
    BY <1>2, <1>5, <2>1
  <2>4. ASSUME NEW j \in (x + 1)..(y - 1)
        PROVE  t[j].kind # "hole" /\ t[j].kind \notin {"open", "close"}
    <3>1. j \in 1..n
      OBVIOUS
    <3>2. CASE t[j].kind = "number"
      BY <3>2
    <3>3. CASE \E k \in 1..m : e[k] = j
      <4>1. PICK k \in 1..m : e[k] = j
        BY <3>3
      <4>2. c - 1 < k
        <5> SUFFICES ASSUME k <= c - 1 PROVE FALSE
          BY <1>3
        <5>1. k = c - 1 \/ k < c - 1
          BY <1>3
        <5>2. k < c - 1 => e[k] < x
          BY <1>2, <1>5, <2>1
        <5>3. k = c - 1 => e[k] = x
          BY <2>1
        <5> QED
          BY <4>1, <5>1, <5>2, <5>3
      <4>3. k < d + 1
        <5> SUFFICES ASSUME d + 1 <= k PROVE FALSE
          BY <1>3
        <5>1. k = d + 1 \/ d + 1 < k
          BY <1>3
        <5>2. d + 1 < k => y < e[k]
          BY <1>2, <1>5, <2>1
        <5>3. k = d + 1 => e[k] = y
          BY <2>1
        <5> QED
          BY <4>1, <5>1, <5>2, <5>3
      <4>4. k \in c..d
        BY <1>3, <4>2, <4>3
      <4>5. s[k] = t[j]
        BY <1>2, <4>1
      <4>6. s[k].kind # "hole" /\ s[k].kind \notin {"open", "close"}
        BY <1>3, <1>5, <4>4
      <4> QED
        BY <4>5, <4>6
    <3> QED
      BY <1>2, <3>1, <3>2, <3>3
  <2>5. PICK i \in 1..n, j \in 1..n : i = x + 1 /\ j = y - 1 /\ i <= j
    BY <2>2
  <2>6. i - 1 = x /\ j + 1 = y
    BY <2>5
  <2>7. Bare(t, label, i, j)
    BY <1>1, <2>3, <2>4, <2>5, <2>6 DEF Bare
  <2> QED
    BY <1>1, <2>7 DEF NoneBare
<1> QED
  BY <1>1, <1>4, <1>5 DEF Bare

\* Nothing bare is no match without a placeholder.
LEMMA NoneBareIsNothing ==
    ASSUME NEW s \in Seq(Element), NoneBareUpto(s, Len(Pattern))
    PROVE  NothingBare(s)
<1> SUFFICES ASSUME NEW r \in DOMAIN Pattern, NEW p \in Matched(s, Pattern[r]),
                    \A k \in p[1]..p[2] : k \notin Holes(s)
             PROVE  FALSE
  BY DEF NothingBare
<1>1. PICK label : label = Pattern[r]
  OBVIOUS
<1>2. NoneBare(s, label)
  <2>1. DOMAIN Pattern = 1..Len(Pattern)
    BY MaskingAssumption
  <2> QED
    BY <1>1, <2>1 DEF NoneBareUpto
<1>3. PICK n \in Nat : n = Len(s) /\ DOMAIN s = 1..n
  OBVIOUS
<1>4. CASE \E i \in 1..n : p = <<i, i>> /\ s[i].kind = "secret" /\ label \in s[i].labels
  <2>1. PICK i \in 1..n : s[i].kind = "secret" /\ label \in s[i].labels
    BY <1>4
  <2>2. Bare(s, label, i, i)
    <3>1. \A k \in i..i : k = i
      OBVIOUS
    <3> QED
      BY <1>3, <2>1, <3>1 DEF Bare
  <2> QED
    BY <1>2, <1>3, <2>2 DEF NoneBare
<1>5. CASE \E q \in (1..n) \X (1..n) :
             /\ p = <<q[1] + 1, q[2] - 1>>
             /\ s[q[1]] = [kind |-> "open", label |-> label]
             /\ s[q[2]] = [kind |-> "close", label |-> label]
             /\ q[2] > q[1] + 1
             /\ \A k \in (q[1] + 1)..(q[2] - 1) : s[k].kind \notin {"open", "close"}
  <2>1. PICK x \in 1..n, y \in 1..n :
           /\ p = <<x + 1, y - 1>> /\ y > x + 1
           /\ s[x] = [kind |-> "open", label |-> label]
           /\ s[y] = [kind |-> "close", label |-> label]
           /\ \A k \in (x + 1)..(y - 1) : s[k].kind \notin {"open", "close"}
    BY <1>5
  <2>2. PICK i \in 1..n, j \in 1..n : i = x + 1 /\ j = y - 1 /\ i <= j
    BY <2>1
  <2>3. i - 1 = x /\ j + 1 = y /\ p[1] = i /\ p[2] = j
    BY <2>1, <2>2
  <2>4. \A k \in i..j : s[k].kind # "hole"
    <3>1. \A k \in i..j : k \in 1..n
      OBVIOUS
    <3> QED
      BY <1>3, <2>3, <3>1 DEF Holes
  <2>5. Bare(s, label, i, j)
    BY <1>3, <2>1, <2>2, <2>3, <2>4 DEF Bare
  <2> QED
    BY <1>2, <1>3, <2>5 DEF NoneBare
<1> QED
  BY <1>1, <1>3, <1>4, <1>5 DEF Matched

LEMMA StrippedBare ==
    ASSUME NEW t \in Seq(Element), NoneBareUpto(t, Len(Pattern))
    PROVE  NothingBare(Rewritten(t, Unnumbered))
<1>1. PICK s \in Seq(Element) : s = Rewritten(t, Unnumbered)
  BY StrippedOf
<1>2. PICK e : Embeds(e, s, t)
  BY <1>1, StrippedEmbeds DEF Embedded
<1>3. NoneBareUpto(s, Len(Pattern))
  <2> SUFFICES ASSUME NEW m \in 1..Len(Pattern), NEW c \in 1..Len(s), NEW d \in 1..Len(s),
                      Bare(s, Pattern[m], c, d)
               PROVE  FALSE
    BY DEF NoneBareUpto, NoneBare
  <2>1. ~NoneBare(t, Pattern[m])
    BY <1>2, BareWithNumbers
  <2> QED
    BY <2>1 DEF NoneBareUpto
<1> QED
  BY <1>1, <1>3, NoneBareIsNothing

\* An offer of code that fits the promise.
Restored(code, map, original) ==
    /\ code # <<>> /\ Holes(code) = {}
    /\ (\A m \in DOMAIN map : Stripped(map[m].value) = map[m].value) =>
         code \in {original, <<Fix>> \o original}

LEMMA NoHoles == ASSUME NEW t \in Seq(Atom) PROVE Holes(t) = {}
<1>1. \A k \in DOMAIN t : t[k] \in Atom
  OBVIOUS
<1> QED
  BY <1>1, AtomsAreNoHoles DEF Holes

\* What p and map are when text has been masked for a prompt.
Shown(p, map, text) == \E m \in Masks(text) : p = Stripped(m.text) /\ map = m.map

\* There is nothing bare in p, and what is made of p, or of p after a fix, is right.
GoodPrompt(p, map, text) ==
    /\ NothingBare(p)
    /\ \A c \in {p, <<Fix>> \o p} : c # <<>> => Restored(Unmask(c, map), map, Stripped(text))

LEMMA ShownIsGood ==
    ASSUME NEW text \in Seq(Atom), NEW p, NEW map, Shown(p, map, text)
    PROVE  GoodPrompt(p, map, text)
<1>1. PICK m \in Masks(text) : p = Stripped(m.text) /\ map = m.map
  BY DEF Shown
<1>2. Returns(m, text)
  BY MasksReturn
<1>3. map \in Seq(Entry) /\ Distinct(map)
  BY <1>1, <1>2 DEF Returns
<1>4. PICK n \in Nat : n = Len(map) /\ DOMAIN map = 1..n
  BY <1>3
<1>5. PICK P : Filling(P, map, n)
  <2>1. n \in 0..Len(map)
    BY <1>4
  <2> QED
    BY <1>3, <2>1, FillingExists
<1>6. PICK t \in Seq(Element) : t = m.text
  BY <1>2 DEF Returns
<1>7. Rewritten(t, P) = text
  BY <1>1, <1>2, <1>4, <1>5, <1>6 DEF Returns
<1>8. KeepsAtoms(P)
  BY <1>5, FillingKeepsAtoms
<1>9. p = Rewritten(t, Unnumbered)
  BY <1>1, <1>6, StrippedIsRewritten
<1> DEFINE Good == {x \in Element : x \in Atom \cup HolesIn(map)}
<1>10. t \in Seq(Good)
  <2>1. \A k \in 1..Len(t) : t[k] \in Good
    BY <1>1, <1>2, <1>6 DEF Returns
  <2> HIDE DEF Good
  <2> QED
    BY <2>1
<1>11. Good \in SUBSET Element
  OBVIOUS
<1>12. NothingBare(p)
  <2>1. NoneBareUpto(t, Len(Pattern))
    BY <1>1, <1>2, <1>6 DEF Returns
  <2> QED
    BY <1>9, <2>1, StrippedBare
\* Of the atoms of p, and of a fix, only atoms come.
<1>13. Rewrites(P, Good \cup {Fix}, Atom)
  <2>1. ASSUME NEW x \in Atom PROVE P[x] \in Seq(Atom)
    <3>1. P[x] = <<x>>
      BY <1>8 DEF KeepsAtoms
    <3> QED
      BY <3>1
  <2>2. ASSUME NEW x \in HolesIn(map) PROVE P[x] \in Seq(Atom)
    <3>1. PICK k \in 1..n : x = map[k].hole
      BY <1>4 DEF HolesIn
    <3>2. P[x] = map[k].value
      BY <1>5, <3>1 DEF Filling, Fills
    <3>3. map[k] \in Entry
      BY <1>3, <1>4
    <3> QED
      BY <3>2, <3>3 DEF Entry
  <2> QED
    BY <2>1, <2>2, ReportAssumption DEF Rewrites
<1> HIDE DEF Good
<1>14. p \in Seq(Good)
  BY <1>9, <1>10, <1>11, StrippedOf
<1>16. Fix \in Atom /\ Fix \in Element
  BY ReportAssumption DEF Element
<1>17. PICK fix \in Seq(Element) : fix = <<Fix>>
  <2>1. \A x \in Element : <<x>> \in Seq(Element)
    OBVIOUS
  <2> QED
    BY <1>16, <2>1
<1>18. p \in Seq(Element)
  BY <1>11, <1>14, SeqMonotonic
<1>19. fix \o p \in Seq(Element)
  BY <1>18, ConcatProperties
<1>20. ASSUME NEW c \in Seq(Element) PROVE Unmask(c, map) = Rewritten(c, P)
  BY <1>4, <1>5, UnmaskFills
<1>21. Rewrites(P, Element, Element)
  BY <1>8 DEF KeepsAtoms
\* p becomes the text without its line numbers.
<1>22. ASSUME \A k \in DOMAIN map : Stripped(map[k].value) = map[k].value
       PROVE  Rewritten(p, P) = Stripped(text)
  <2> DEFINE R == [x \in Element |-> IF x.kind = "number" THEN <<>> ELSE P[x]]
  <2>1. Rewrites(Unnumbered, Element, Element)
    BY <1>11, StrippedOf
  <2>2. \A x \in Element : R[x] = IF x.kind = "number" THEN <<>> ELSE P[x]
    OBVIOUS
  <2>3. \A x \in Element : Unnumbered[x] = IF x.kind = "number" THEN <<>> ELSE <<x>>
    BY DEF Unnumbered
  <2> HIDE DEF R
  <2>4. ASSUME NEW x \in Element PROVE R[x] = Rewritten(Unnumbered[x], P)
    <3>1. CASE x.kind = "number"
      BY <2>2, <2>3, <3>1, RewrittenNone
    <3>2. CASE x.kind # "number"
      <4>1. Rewritten(<<x>>, P) = P[x]
        BY <1>21, RewrittenOne
      <4> QED
        BY <2>2, <2>3, <3>2, <4>1
    <3> QED
      BY <3>1, <3>2
  <2>5. ASSUME NEW x \in Element PROVE R[x] = Rewritten(P[x], Unnumbered)
    <3>1. CASE \E k \in 1..n : map[k].hole = x
      <4>1. PICK k \in 1..n : map[k].hole = x
        BY <3>1
      <4>2. P[x] = map[k].value
        BY <1>5, <4>1 DEF Filling, Fills
      <4>3. map[k] \in Entry
        BY <1>3, <1>4
      <4>4. map[k].hole \in Placeholder /\ map[k].value \in Seq(Atom)
        BY <4>3 DEF Entry
      <4>5. x.kind # "number"
        BY <4>1, <4>4, HolesAreNoAtoms
      <4>6. map[k].value \in Seq(Element)
        BY <1>8, <4>4 DEF KeepsAtoms
      <4>7. Stripped(map[k].value) = Rewritten(map[k].value, Unnumbered)
        BY <4>6, StrippedIsRewritten
      <4>8. Stripped(map[k].value) = map[k].value
        BY <1>4, <1>22
      <4> QED
        BY <2>2, <4>2, <4>5, <4>7, <4>8
    <3>2. CASE \A k \in 1..n : map[k].hole # x
      <4>1. P[x] = <<x>>
        BY <1>5, <3>2 DEF Filling, Fills
      <4>2. Rewritten(<<x>>, Unnumbered) = Unnumbered[x]
        BY <2>1, RewrittenOne
      <4> QED
        BY <2>2, <2>3, <4>1, <4>2
    <3> QED
      BY <3>1, <3>2
  <2>6. Rewritten(Rewritten(t, Unnumbered), P) = Rewritten(t, R)
    BY <1>21, <2>1, <2>4, RewrittenTwice
  <2>7. Rewritten(Rewritten(t, P), Unnumbered) = Rewritten(t, R)
    BY <1>21, <2>1, <2>5, RewrittenTwice
  <2>8. text \in Seq(Element)
    BY <1>8 DEF KeepsAtoms
  <2>9. Stripped(text) = Rewritten(text, Unnumbered)
    BY <2>8, StrippedIsRewritten
  <2> QED
    BY <1>7, <1>9, <2>6, <2>7, <2>9
<1>23. Rewritten(fix \o p, P) = <<Fix>> \o Rewritten(p, P)
  <2>1. Rewritten(fix \o p, P) = Rewritten(fix, P) \o Rewritten(p, P)
    BY <1>18, <1>21, RewrittenJoin
  <2>2. Rewritten(<<Fix>>, P) = P[Fix]
    BY <1>16, <1>21, RewrittenOne
  <2>3. P[Fix] = <<Fix>>
    BY <1>8, <1>16 DEF KeepsAtoms
  <2> QED
    BY <1>17, <2>1, <2>2, <2>3
<1>24. ASSUME NEW c \in {p, fix \o p}, c # <<>>
       PROVE  Restored(Unmask(c, map), map, Stripped(text))
  <2>1. c \in Seq(Element)
    BY <1>18, <1>19
  <2>2. c \in Seq(Good \cup {Fix})
    <3>1. p \in Seq(Good \cup {Fix})
      BY <1>14, SeqMonotonic
    <3>2. fix \in Seq(Good \cup {Fix})
      BY <1>17
    <3>3. fix \o p \in Seq(Good \cup {Fix})
      BY <3>1, <3>2, ConcatProperties
    <3> QED
      BY <3>1, <3>3
  <2>3. PICK code : code = Rewritten(c, P)
    OBVIOUS
  <2>4. code \in Seq(Atom)
    BY <1>13, <2>2, <2>3, RewrittenType
  <2>5. Holes(code) = {}
    BY <2>4, NoHoles
  <2>6. code # <<>>
    <3>1. \A x \in Element : P[x] # <<>>
      BY <1>8 DEF KeepsAtoms
    <3> QED
      BY <1>21, <1>24, <2>1, <2>3, <3>1, RewrittenSome
  <2>7. Unmask(c, map) = code
    BY <1>20, <2>1, <2>3
  <2>8. ASSUME \A k \in DOMAIN map : Stripped(map[k].value) = map[k].value
        PROVE  code \in {Stripped(text), <<Fix>> \o Stripped(text)}
    <3>1. Rewritten(p, P) = Stripped(text)
      BY <1>22, <2>8
    <3> QED
      BY <1>23, <2>3, <3>1
  <2> QED
    BY <2>5, <2>6, <2>7, <2>8 DEF Restored
<1>25. GoodPrompt(p, map, text)
  BY <1>12, <1>17, <1>24 DEF GoodPrompt
<1> QED
  BY <1>25

\* A prompt that is not masked is right as it is.
LEMMA PlainIsGood ==
    ASSUME NEW text \in Seq(Atom), NEW p, p = Stripped(text),
           NEW c \in {p, <<Fix>> \o p}, c # <<>>
    PROVE  Restored(c, <<>>, p)
<1>1. Atom \in SUBSET Element /\ Fix \in Atom
  BY ReportAssumption DEF Element
<1>2. text \in Seq(Element)
  BY <1>1, SeqMonotonic
<1>3. p \in Seq(Atom)
  BY <1>1, <1>2, StrippedIsRewritten, StrippedOf
<1>4. <<Fix>> \in Seq(Atom)
  BY <1>1
<1>5. <<Fix>> \o p \in Seq(Atom)
  BY <1>3, <1>4, ConcatProperties
<1>6. c \in Seq(Atom)
  BY <1>3, <1>5
<1>7. Holes(c) = {}
  BY <1>6, NoHoles
<1> QED
  BY <1>7 DEF Restored

-----------------------------------------------------------------------------
(* What is parsed from an answer                                           *)

LEMMA FlattenType ==
    ASSUME NEW Y, NEW n \in Nat, NEW p \in [1..n -> Seq(Y)]
    PROVE  FlattenSeq(p) \in Seq(Y)
<1> DEFINE I == [x \in Seq(Y) |-> x]
<1>1. p \in Seq(Seq(Y))
  OBVIOUS
<1>2. p = [k \in DOMAIN p |-> I[p[k]]]
  <2>1. \A k \in DOMAIN p : I[p[k]] = p[k]
    OBVIOUS
  <2>2. p = [k \in DOMAIN p |-> p[k]]
    OBVIOUS
  <2> QED
    BY <2>1, <2>2
<1>3. Rewrites(I, Seq(Y), Y)
  BY DEF Rewrites
<1> HIDE DEF I
<1>4. FlattenSeq(p) = Rewritten(p, I)
  BY <1>2 DEF Rewritten
<1> QED
  BY <1>1, <1>3, <1>4, RewrittenType

\* A model that writes what it was shown.
Written(p) == {p, <<Fix>> \o p, <<>>}

LEMMA BlocksWritten ==
    ASSUME NEW a \in Answers(HeadingsFor(ask))
    PROVE  \E n \in Nat : /\ a.options \in [1..n -> Seq(Written(prompt))]
                          /\ AllBlocks(a) \in Seq(Written(prompt))
<1>1. PICK n \in Nat : a.options \in [1..n -> Blocks]
  BY OptionsOfAnswer
<1>2. a.before \in Blocks
  BY DEF Answers
<1>3. PICK Y : Y = Written(prompt)
  OBVIOUS
<1>4. Blocks \subseteq Seq(Y)
  <2>1. \A b \in Y : <<b>> \in Seq(Y)
    OBVIOUS
  <2>2. <<>> \in Seq(Y)
    BY EmptySeq
  <2> QED
    BY <1>3, <2>1, <2>2 DEF Blocks, Written
<1>5. a.before \in Seq(Y) /\ a.options \in [1..n -> Seq(Y)]
  BY <1>1, <1>2, <1>4
<1>6. PICK b \in Seq(Y), p \in [1..n -> Seq(Y)] : b = a.before /\ p = a.options
  BY <1>5
<1>7. FlattenSeq(p) \in Seq(Y)
  BY FlattenType
<1>8. b \o FlattenSeq(p) \in Seq(Y)
  BY <1>7, ConcatProperties
<1> QED
  BY <1>3, <1>5, <1>6, <1>8 DEF AllBlocks

LEMMA ResponseWritten ==
    ASSUME NEW a, NEW Y, AllBlocks(a) \in Seq(Y), <<>> \in Y, a.heading \in 1..2
    PROVE  ParseResponse(a) \in Y
<1>1. PICK blocks \in Seq(Y) : blocks = AllBlocks(a)
  OBVIOUS
<1>2. ParseResponse(a) =
        IF a.heading <= Len(blocks) /\ blocks[a.heading] # <<>> THEN blocks[a.heading]
        ELSE IF blocks = <<>> THEN <<>> ELSE Last(blocks)
  BY <1>1 DEF ParseResponse
<1>3. a.heading <= Len(blocks) => blocks[a.heading] \in Y
  OBVIOUS
<1>4. blocks # <<>> => Last(blocks) \in Y
  BY DEF Last
<1> QED
  BY <1>2, <1>3, <1>4

LEMMA WithCodeKeeps ==
    ASSUME NEW n \in Nat, NEW offers, DOMAIN offers = 1..n
    PROVE  \A k \in DOMAIN WithCode(offers) :
             \E j \in 1..n : WithCode(offers)[k] = offers[j] /\ offers[j].code # <<>>
<1>1. PICK kept \in SUBSET (1..n) : kept = {k \in DOMAIN offers : offers[k].code # <<>>}
  OBVIOUS
<1>2. PICK g : g = Ascending(kept)
  OBVIOUS
<1>3. CountsOff(g, kept)
  <2>1. kept \in SUBSET Int /\ IsFiniteSet(kept)
    BY FiniteNumbers
  <2> QED
    BY <1>2, <2>1, AscendingSet
<1>4. WithCode(offers) = [k \in DOMAIN g |-> offers[g[k]]]
  BY <1>1, <1>2 DEF WithCode
<1>5. \A k \in DOMAIN g : g[k] \in kept
  BY <1>3 DEF CountsOff
<1> QED
  BY <1>1, <1>4, <1>5

\* The code of an offer is what the model was shown, or more, and unmasked if
\* it was masked.
FromPrompt(offer) ==
    \E c \in {prompt, <<Fix>> \o prompt} :
        c # <<>> /\ offer.code = IF ask = "options" THEN c ELSE Unmask(c, maskMap)

LEMMA OptionsFromPrompt ==
    ASSUME ask = "options", NEW n \in Nat, NEW a,
           a.options \in [1..n -> Seq(Written(prompt))]
    PROVE  \A k \in DOMAIN Options(a) : FromPrompt(Options(a)[k])
<1> DEFINE offers == [k \in DOMAIN a.options \cap DOMAIN FixType |->
                        Offer(FirstBlock(a.options[k]), FixType[k])]
<1>1. PICK l \in Nat : DOMAIN offers = 1..l /\ l <= n
  <2>1. DOMAIN FixType = 1..3 /\ DOMAIN a.options = 1..n
    BY DEF FixType
  <2>2. DOMAIN offers = (1..n) \cap (1..3)
    BY <2>1
  <2>3. CASE n <= 3
    <3>1. (1..n) \cap (1..3) = 1..n
      BY <2>3
    <3> QED
      BY <2>2, <3>1
  <2>4. CASE ~(n <= 3)
    <3>1. (1..n) \cap (1..3) = 1..3
      BY <2>4
    <3>2. 3 \in Nat /\ 3 <= n
      BY <2>4
    <3> QED
      BY <2>2, <3>1, <3>2
  <2> QED
    BY <2>3, <2>4
<1>2. ASSUME NEW k \in 1..l PROVE offers[k].code \in Written(prompt)
  <2>1. PICK Y : Y = Written(prompt)
    OBVIOUS
  <2>2. PICK blocks \in Seq(Y) : blocks = a.options[k]
    BY <1>1, <2>1
  <2>3. offers[k].code = FirstBlock(blocks)
    BY <1>1, <2>2 DEF Offer
  <2>4. blocks # <<>> => blocks[1] \in Y
    OBVIOUS
  <2>5. <<>> \in Y
    BY <2>1 DEF Written
  <2>6. FirstBlock(blocks) \in Y
    BY <2>4, <2>5 DEF FirstBlock
  <2> QED
    BY <2>1, <2>3, <2>6
<1>3. Options(a) = WithCode(offers)
  BY DEF Options
<1> HIDE DEF offers
<1>4. ASSUME NEW k \in DOMAIN Options(a) PROVE FromPrompt(Options(a)[k])
  <2>1. PICK j \in 1..l : Options(a)[k] = offers[j] /\ offers[j].code # <<>>
    BY <1>1, <1>3, WithCodeKeeps, SMTT(30)
  <2> QED
    BY <1>2, <2>1 DEF FromPrompt, Written
<1> QED
  BY <1>4

LEMMA ParsedFromPrompt ==
    ASSUME NEW a \in Answers(HeadingsFor(ask))
    PROVE  \A k \in DOMAIN Parsed(a) : FromPrompt(Parsed(a)[k])
<1>1. PICK n \in Nat : /\ a.options \in [1..n -> Seq(Written(prompt))]
                       /\ AllBlocks(a) \in Seq(Written(prompt))
  BY BlocksWritten
<1>2. PICK code : code = ParseResponse(a)
  OBVIOUS
<1>3. code \in Written(prompt)
  <2>1. a.heading \in 1..2
    BY DEF Answers
  <2>2. <<>> \in Written(prompt)
    BY DEF Written
  <2> QED
    BY <1>1, <1>2, <2>1, <2>2, ResponseWritten
<1>4. \A c : LET one == <<Offer(c, "recommended")>>
             IN  \A k \in DOMAIN one : one[k].code = c
  BY DEF Offer
<1>5. \A k \in DOMAIN <<>> : FromPrompt(<<>>[k])
  OBVIOUS
<1>6. CASE ask = "options"
  <2>1. \A k \in DOMAIN Options(a) : FromPrompt(Options(a)[k])
    BY <1>1, <1>6, OptionsFromPrompt
  <2>2. \/ Parsed(a) = Options(a) \/ Parsed(a) = <<>>
        \/ Parsed(a) = <<Offer(code, "recommended")>> /\ code # <<>>
    BY <1>2, <1>6 DEF Parsed, ParseMultiResponse
  <2>3. CASE Parsed(a) = <<Offer(code, "recommended")>> /\ code # <<>>
    <3>1. \A k \in DOMAIN Parsed(a) : Parsed(a)[k].code = code
      BY <1>4, <2>3
    <3> QED
      BY <1>3, <1>6, <2>3, <3>1 DEF FromPrompt, Written
  <2> QED
    BY <1>5, <2>1, <2>2, <2>3
<1>7. CASE ask # "options"
  <2>1. \/ Parsed(a) = <<>>
        \/ Parsed(a) = <<Offer(Unmask(code, maskMap), "recommended")>> /\ code # <<>>
    BY <1>2, <1>7 DEF Parsed
  <2>2. CASE Parsed(a) = <<Offer(Unmask(code, maskMap), "recommended")>> /\ code # <<>>
    <3>1. \A k \in DOMAIN Parsed(a) : Parsed(a)[k].code = Unmask(code, maskMap)
      BY <1>4, <2>2
    <3> QED
      BY <1>3, <1>7, <2>2, <3>1 DEF FromPrompt, Written
  <2> QED
    BY <1>5, <2>1, <2>2
<1> QED
  BY <1>6, <1>7

-----------------------------------------------------------------------------
(* Masked for a prompt, and unmasked from an answer                        *)

\* There is a mask map only once a prompt is masked, and patches only at the end.
\* What the prompt is when it is sent decides what the patches can be.
RoundInv ==
    /\ report \in Report
    /\ ask \in {"patch", "options", "audit"}
    /\ ask # "patch" => maskMap = <<>>
    /\ phase # "done" => offered = <<>>
    /\ phase = "call" /\ ask = "patch" => Shown(prompt, maskMap, CodeOf(report))
    /\ phase = "call" /\ ask = "options" => prompt = Original
    /\ \A k \in DOMAIN offered :
         offered[k].status = "generated" => Restored(offered[k].code, maskMap, Original)

LEMMA CodeIsText == ASSUME NEW r \in Report PROVE CodeOf(r) \in Seq(Atom)
BY ReportAssumption DEF CodeOf

LEMMA OffersRestored ==
    ASSUME RoundInv, phase = "call", ask # "audit",
           NEW a \in Answers(HeadingsFor(ask))
    PROVE  \A k \in DOMAIN Parsed(a) : Restored(Parsed(a)[k].code, maskMap, Original)
<1> SUFFICES ASSUME NEW k \in DOMAIN Parsed(a)
             PROVE  Restored(Parsed(a)[k].code, maskMap, Original)
  OBVIOUS
<1>1. PICK c \in {prompt, <<Fix>> \o prompt} :
         c # <<>> /\ Parsed(a)[k].code = IF ask = "options" THEN c ELSE Unmask(c, maskMap)
  BY ParsedFromPrompt DEF FromPrompt
<1>2. PICK text \in Seq(Atom) : text = CodeOf(report)
  BY CodeIsText DEF RoundInv
<1>3. Original = Stripped(text)
  BY <1>2 DEF Original
<1>4. CASE ask = "options"
  <2>1. prompt = Stripped(text) /\ maskMap = <<>>
    BY <1>3, <1>4 DEF RoundInv
  <2>2. Restored(c, <<>>, prompt)
    BY <1>1, <2>1, PlainIsGood
  <2> QED
    BY <1>1, <1>3, <1>4, <2>1, <2>2
<1>5. CASE ask # "options"
  <2>1. Shown(prompt, maskMap, text)
    <3>1. ask = "patch"
      BY <1>5 DEF RoundInv
    <3> QED
      BY <1>2, <3>1 DEF RoundInv
  <2>2. GoodPrompt(prompt, maskMap, text)
    BY <2>1, ShownIsGood
  <2> QED
    BY <1>1, <1>3, <1>5, <2>2 DEF GoodPrompt
<1> QED
  BY <1>4, <1>5

LEMMA RoundStep == RoundInv /\ [DialogueNext]_dialogueVars => RoundInv'
<1> SUFFICES ASSUME RoundInv, [DialogueNext]_dialogueVars PROVE RoundInv'
  OBVIOUS
<1>1. CASE AskPatch
  <2>1. PICK m \in Masks(CodeOf(report)) : prompt' = Stripped(m.text) /\ maskMap' = m.map
    BY <1>1 DEF AskPatch
  <2>2. Shown(prompt', maskMap', CodeOf(report))
    BY <2>1 DEF Shown
  <2>3. /\ phase = "prompt" /\ ask = "patch" /\ phase' = "call"
        /\ UNCHANGED <<ask, report, offered>>
    BY <1>1 DEF AskPatch
  <2>4. CodeOf(report') = CodeOf(report) /\ offered' = <<>>
    BY <2>3 DEF RoundInv
  <2> QED
    BY <2>2, <2>3, <2>4 DEF RoundInv
<1>2. CASE AskOptions
  <2>1. prompt' = Original'
    BY <1>2 DEF AskOptions, Original
  <2>2. /\ phase = "prompt" /\ ask = "options" /\ phase' = "call"
        /\ UNCHANGED <<ask, report, maskMap, offered>>
    BY <1>2 DEF AskOptions
  <2>3. offered' = <<>>
    BY <2>2 DEF RoundInv
  <2> QED
    BY <2>1, <2>2, <2>3 DEF RoundInv
<1>3. CASE AskAudit
  <2>1. /\ phase = "prompt" /\ ask = "audit" /\ phase' = "call"
        /\ UNCHANGED <<ask, report, maskMap, offered>>
    BY <1>3 DEF AskAudit
  <2>2. offered' = <<>>
    BY <2>1 DEF RoundInv
  <2> QED
    BY <2>1, <2>2 DEF RoundInv
<1>4. CASE Receive
  <2>1. PICK a \in Answers(HeadingsFor(ask)) : offered' = Parsed(a)
    BY <1>4 DEF Receive, HeadingsFor
  <2>2. /\ phase = "call" /\ ask # "audit" /\ phase' = "done"
        /\ UNCHANGED <<ask, report, prompt, maskMap>>
    BY <1>4 DEF Receive
  <2>3. \A k \in DOMAIN Parsed(a) : Restored(Parsed(a)[k].code, maskMap, Original)
    BY <2>2, OffersRestored
  <2>4. Original' = Original
    BY <2>2 DEF Original
  <2>5. \A k \in DOMAIN offered' : Restored(offered'[k].code, maskMap', Original')
    BY <2>1, <2>2, <2>3, <2>4
  <2> QED
    BY <2>2, <2>5 DEF RoundInv
<1>5. CASE Miss
  <2>1. Original' = Original /\ CodeOf(report') = CodeOf(report)
    BY <1>5 DEF Miss, Original
  <2>2. CASE offered' = <<[Offer(<<>>, "recommended") EXCEPT !.status = "failed"]>>
                /\ phase' = "done" /\ UNCHANGED <<ask, tries>>
    <3>1. \A k \in DOMAIN offered' : offered'[k].status = "failed"
      BY <2>2 DEF Offer
    <3> QED
      BY <1>5, <2>2, <3>1 DEF Miss, RoundInv
  <2>3. CASE ask = "options" /\ ask' = "patch" /\ phase' = "prompt" /\ UNCHANGED offered
    BY <1>5, <2>1, <2>3 DEF Miss, RoundInv
  <2>4. CASE UNCHANGED <<ask, phase, offered>>
    BY <1>5, <2>1, <2>4 DEF Miss, RoundInv
  <2> QED
    BY <1>5, <2>2, <2>3, <2>4 DEF Miss
<1>6. CASE ReceiveAudit \/ FailAudit
  <2>1. /\ phase = "call" /\ ask = "audit" /\ phase' = "done"
        /\ UNCHANGED <<ask, report, prompt, maskMap, offered>>
    BY <1>6 DEF ReceiveAudit, FailAudit
  <2>2. Original' = Original
    BY <2>1 DEF Original
  <2> QED
    BY <2>1, <2>2 DEF RoundInv
<1>7. CASE UNCHANGED dialogueVars
  <2>1. Original' = Original /\ CodeOf(report') = CodeOf(report)
    BY <1>7 DEF dialogueVars, Original
  <2> QED
    BY <1>7, <2>1 DEF dialogueVars, RoundInv
<1> QED
  BY <1>1, <1>2, <1>3, <1>4, <1>5, <1>6, <1>7 DEF DialogueNext

LEMMA RoundAlways == Spec => []RoundInv
<1>1. Init => RoundInv
  BY DEF Init, DialogueInit, RoundInv
<1>2. RoundInv /\ [Next]_vars => RoundInv'
  <2>1. [Next]_vars => [DialogueNext]_dialogueVars
    BY DEF Next, vars
  <2> QED
    BY <2>1, RoundStep
<1> QED
  BY <1>1, <1>2, PTL DEF Spec

\* RoundTrip: however the patterns overlap, all that the maskers leave of what a
\* pattern looks for in the code of a report stands next to a placeholder, and what
\* a model gives back of it as it was shown becomes the code of the report again,
\* for all code and all answers that there are.
THEOREM RoundTripAlways == Spec => []RoundTrip
<1>1. RoundInv => RoundTrip
  <2> SUFFICES ASSUME RoundInv PROVE RoundTrip
    OBVIOUS
  <2>1. ASSUME phase = "call" /\ ask = "patch" PROVE NothingBare(prompt)
    <3>1. PICK text \in Seq(Atom) : text = CodeOf(report)
      BY CodeIsText DEF RoundInv
    <3>2. GoodPrompt(prompt, maskMap, text)
      BY <2>1, <3>1, ShownIsGood DEF RoundInv
    <3> QED
      BY <2>1, <3>2 DEF GoodPrompt
  <2> QED
    BY <2>1 DEF RoundInv, RoundTrip, Restored
<1> QED
  BY <1>1, RoundAlways, PTL

=============================================================================
