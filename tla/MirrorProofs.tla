---------------------------- MODULE MirrorProofs ----------------------------
(* Proofs about Mirror: what apply_group_sync, drop_group_local and
   gc_unreferenced leave in the tables, for every list of entries, and from it
   that a replica's clean groups answer as the authoritative node's do.

   effective_acl and the loop of upserts are folds over the list.  A fold is
   unfolded here to its run, the function from 0..n to the accumulators: it
   exists because the numbers it reaches are all those up to n, and every fact
   about a fold is carried along its run the same way.                      *)
EXTENDS Mirror, FiniteSetTheorems, WellFoundedInduction, TLAPS

-----------------------------------------------------------------------------
(* The two folds, unfolded *)

\* A set of natural numbers that is not empty has a least element.
LEMMA LeastExists ==
  ASSUME NEW T \in SUBSET Nat, T # {}
  PROVE  \E m \in T : \A n \in T : m <= n
<1> DEFINE R == OpToRel(<, Nat)
<1>1. IsWellFoundedOn(R, Nat)
  BY NatLessThanWellFounded, Zenon
<1>2. \A x, y \in Nat : <<x, y>> \in R <=> x < y
  BY DEF OpToRel
<1> HIDE DEF R
<1>3. PICK x \in T : \A y \in T : <<y, x>> \notin R
  BY <1>1, WFMin, Zenon
<1>4. \A y \in T : ~(y < x)
  BY <1>2, <1>3, Zenon
<1> QED BY <1>4

\* What holds of 0 and passes from every number below n to the next, holds of
\* all numbers up to n: the numbers it holds of are a set.
LEMMA UpTo ==
  ASSUME NEW n \in Nat, NEW H, 0 \in H,
         \A k \in 0..(n - 1) : k \in H => k + 1 \in H
  PROVE  \A k \in 0..n : k \in H
<1> SUFFICES ASSUME NEW k \in 0..n, k \notin H PROVE FALSE
  OBVIOUS
<1> DEFINE T == {i \in 0..n : i \notin H}
<1>1. k \in T /\ T \in SUBSET Nat
  OBVIOUS
<1>2. PICK m \in T : \A i \in T : m <= i
  BY <1>1, LeastExists, Zenon
<1>3. m \in 1..n /\ m - 1 \in 0..(n - 1) /\ m - 1 \notin T /\ (m - 1) + 1 = m
  BY <1>2
<1> QED BY <1>3

\* The greatest index of a part of a sequence is an index of that part.
LEMMA MaxIsIndex ==
  ASSUME NEW n \in Nat, NEW s \in SUBSET (1..n), s # {}
  PROVE  Max(s) \in s /\ \A y \in s : y <= Max(s)
<1> DEFINE T == {k \in Nat : \A x \in s : x <= k}
<1>1. n \in T /\ T \in SUBSET Nat
  OBVIOUS
<1>2. PICK m \in T : \A k \in T : m <= k
  BY <1>1, LeastExists, Zenon
<1>3. m \in s
  <2> SUFFICES ASSUME m \notin s PROVE FALSE
    OBVIOUS
  <2>1. \A x \in s : x \in Nat /\ x # m /\ x <= m
    BY <1>2
  <2>2. PICK y \in s : TRUE
    BY Zenon
  <2>3. m - 1 \in T
    BY <2>1, <2>2
  <2> QED BY <1>2, <2>3
<1>4. \E x \in s : \A y \in s : x >= y
  BY <1>2, <1>3
<1>5. Max(s) \in s /\ \A y \in s : Max(s) >= y
  BY <1>4, Zenon DEF Max
<1> QED BY <1>5

\* So is the least.
LEMMA MinIsIndex ==
  ASSUME NEW n \in Nat, NEW s \in SUBSET (1..n), s # {}
  PROVE  Min(s) \in s /\ \A y \in s : Min(s) <= y
<1>1. \E x \in s : \A y \in s : x <= y
  BY LeastExists, s \in SUBSET Nat
<1> QED BY <1>1, Zenon DEF Min

\* One unfolding of the recursive function behind FoldLeft.
UpsertStep(f, k, b, d) ==
  [s \in SUBSET (1..k) |-> IF s = {} THEN b
                           ELSE Upsert(f[s \ {Max(s)}], d[Max(s)])]

\* The recursive function behind the loop of rule 1 exists.
LEMMA UpsertIterExists ==
  ASSUME NEW n \in Nat, NEW b, NEW d
  PROVE  \E f : f = UpsertStep(f, n, b, d)
<1> DEFINE H == {k \in 0..n : \E f : f = UpsertStep(f, k, b, d)}
<1>1. 0 \in H
  <2> DEFINE f0 == [s \in SUBSET (1..0) |-> b]
  <2>1. f0 = UpsertStep(f0, 0, b, d)
    <3>1. \A s \in SUBSET (1..0) : s = {}
      OBVIOUS
    <3> QED BY <3>1, Zenon DEF UpsertStep
  <2> QED BY <2>1
<1>2. ASSUME NEW k \in 0..(n - 1), k \in H PROVE k + 1 \in H
  <2>1. PICK f : f = UpsertStep(f, k, b, d)
    BY <1>2
  <2> DEFINE h == UpsertStep(f, k + 1, b, d)
  <2>2. \A s \in SUBSET (1..k) : h[s] = f[s]
    <3>1. \A s \in SUBSET (1..k) : s \in SUBSET (1..(k + 1))
      OBVIOUS
    <3>2. \A s \in SUBSET (1..k) : UpsertStep(f, k, b, d)[s] = UpsertStep(f, k + 1, b, d)[s]
      BY <3>1, Zenon DEF UpsertStep
    <3> QED BY <2>1, <3>2, Zenon
  <2>3. \A s \in SUBSET (1..(k + 1)) : s # {} => s \ {Max(s)} \in SUBSET (1..k)
    <3> SUFFICES ASSUME NEW s \in SUBSET (1..(k + 1)), s # {}
                 PROVE  s \ {Max(s)} \in SUBSET (1..k)
      OBVIOUS
    <3>1. Max(s) \in s /\ \A y \in s : y <= Max(s)
      BY MaxIsIndex, k + 1 \in Nat, Zenon
    <3>2. \A m \in 1..(k + 1), y \in 1..(k + 1) : y <= m /\ y # m => y \in 1..k
      OBVIOUS
    <3> QED BY <3>1, <3>2, Zenon
  <2> HIDE DEF h
  <2>4. \A s \in SUBSET (1..(k + 1)) : s # {} => h[s \ {Max(s)}] = f[s \ {Max(s)}]
    BY <2>2, <2>3, Zenon
  <2>5. UpsertStep(h, k + 1, b, d) = UpsertStep(f, k + 1, b, d)
    BY <2>4, Zenon DEF UpsertStep
  <2>6. h = UpsertStep(h, k + 1, b, d)
    BY <2>5 DEF h
  <2>7. k + 1 \in 0..n
    OBVIOUS
  <2> QED BY <2>6, <2>7
<1>3. n \in H
  <2> HIDE DEF H
  <2> QED BY <1>1, <1>2, UpTo
<1> QED BY <1>3

\* The loop of rule 1.
UpsertAll(b, d) == FoldLeft(Upsert, b, d)

\* c is its run: the tables after each entry.
UpsertRun(c, n, b, d) ==
  /\ c[0] = b /\ c[n] = UpsertAll(b, d)
  /\ \A i \in 1..n : c[i] = Upsert(c[i - 1], d[i])

\* The loop of rule 1 goes through the states c: it starts with the table it
\* is given and every entry is upserted into what the entries before it left.
LEMMA UpsertLoop ==
  ASSUME NEW n \in Nat, NEW b, NEW d, DOMAIN d = 1..n
  PROVE  \E c : UpsertRun(c, n, b, d)
<1> DEFINE it == CHOOSE f : f = UpsertStep(f, n, b, d)
           c == [i \in 0..n |-> it[1..i]]
<1>1. it = UpsertStep(it, n, b, d)
  BY UpsertIterExists
<1>2. UpsertAll(b, d) = it[1..n]
  BY DEF UpsertAll, FoldLeft, MapThenFoldSet, UpsertStep
<1> HIDE DEF it
<1>3. it[{}] = b
  BY <1>1 DEF UpsertStep
<1>4. ASSUME NEW i \in 1..n PROVE it[1..i] = Upsert(it[1..(i - 1)], d[i])
  <2>1. 1..i \in SUBSET (1..n) /\ 1..i # {}
    OBVIOUS
  <2>2. Max(1..i) \in 1..i /\ \A y \in 1..i : y <= Max(1..i)
    BY <2>1, MaxIsIndex, Zenon
  <2>3. Max(1..i) = i
    BY <2>2
  <2>4. (1..i) \ {i} = 1..(i - 1)
    OBVIOUS
  <2>5. it[1..i] = Upsert(it[(1..i) \ {Max(1..i)}], d[Max(1..i)])
    BY <1>1, <2>1, Zenon DEF UpsertStep
  <2> QED BY <2>3, <2>4, <2>5, Zenon
<1>5. c[0] = b /\ c[n] = it[1..n]
  <2>1. 1..0 = {} /\ 0 \in 0..n /\ n \in 0..n
    OBVIOUS
  <2> QED BY <1>3, <2>1, Zenon
<1>6. \A i \in 1..n : c[i] = Upsert(c[i - 1], d[i])
  BY <1>4
<1> QED BY <1>2, <1>5, <1>6, Zenon DEF UpsertRun

\* One unfolding of the recursive function behind FoldRight.
SeeStep(f, k, n, b, d) ==
  [s \in SUBSET (k..n) |-> IF s = {} THEN b
                           ELSE See(d[Min(s)], f[s \ {Min(s)}])]

\* The recursive function behind the scan of effective_acl exists.
LEMMA SeeIterExists ==
  ASSUME NEW n \in Nat, NEW b, NEW d
  PROVE  \E f : f = SeeStep(f, 1, n, b, d)
<1> DEFINE H == {k \in 0..n : \E f : f = SeeStep(f, n + 1 - k, n, b, d)}
<1>1. 0 \in H
  <2> DEFINE f0 == [s \in SUBSET ((n + 1)..n) |-> b]
  <2>1. f0 = SeeStep(f0, n + 1, n, b, d)
    <3>1. \A s \in SUBSET ((n + 1)..n) : s = {}
      OBVIOUS
    <3> QED BY <3>1, Zenon DEF SeeStep
  <2>2. n + 1 - 0 = n + 1 /\ 0 \in 0..n
    OBVIOUS
  <2> HIDE DEF f0
  <2> QED BY <2>1, <2>2
<1>2. ASSUME NEW k \in 0..(n - 1), k \in H PROVE k + 1 \in H
  <2>1. PICK f : f = SeeStep(f, n + 1 - k, n, b, d)
    BY <1>2
  <2> DEFINE m == n - k
  <2>2. m \in 1..n /\ n + 1 - k = m + 1 /\ n + 1 - (k + 1) = m /\ k + 1 \in 0..n
    OBVIOUS
  <2> HIDE DEF m
  <2> DEFINE h == SeeStep(f, m, n, b, d)
  <2>3. \A s \in SUBSET ((m + 1)..n) : h[s] = f[s]
    <3>1. \A s \in SUBSET ((m + 1)..n) : s \in SUBSET (m..n)
      BY <2>2
    <3>2. \A s \in SUBSET ((m + 1)..n) : SeeStep(f, m + 1, n, b, d)[s] = SeeStep(f, m, n, b, d)[s]
      BY <3>1, Zenon DEF SeeStep
    <3> QED BY <2>1, <2>2, <3>2, Zenon
  <2>4. \A s \in SUBSET (m..n) : s # {} => s \ {Min(s)} \in SUBSET ((m + 1)..n)
    <3> SUFFICES ASSUME NEW s \in SUBSET (m..n), s # {}
                 PROVE  s \ {Min(s)} \in SUBSET ((m + 1)..n)
      OBVIOUS
    <3>1. s \in SUBSET (1..n)
      BY <2>2
    <3>2. Min(s) \in s /\ \A y \in s : Min(s) <= y
      BY <3>1, MinIsIndex, Zenon
    <3>3. \A x, y \in m..n : x <= y /\ y # x => y \in (m + 1)..n
      BY <2>2
    <3> QED BY <3>2, <3>3, Zenon
  <2> HIDE DEF h
  <2>5. \A s \in SUBSET (m..n) : s # {} => h[s \ {Min(s)}] = f[s \ {Min(s)}]
    BY <2>3, <2>4, Zenon
  <2>6. SeeStep(h, m, n, b, d) = SeeStep(f, m, n, b, d)
    BY <2>5, Zenon DEF SeeStep
  <2>7. h = SeeStep(h, m, n, b, d)
    BY <2>6, Zenon DEF h
  <2> QED BY <2>2, <2>7, Zenon
<1>3. n \in H
  <2> HIDE DEF H
  <2> QED BY <1>1, <1>2, UpTo
<1>4. n + 1 - n = 1
  OBVIOUS
<1> QED BY <1>3, <1>4, Zenon

\* The scan of effective_acl.
SeeAll(d, b) == FoldRight(See, d, b)

\* c is its run, from the end of the list.
SeeRun(c, n, b, d) ==
  /\ c[n + 1] = b /\ c[1] = SeeAll(d, b)
  /\ \A i \in 1..n : c[i] = See(d[i], c[i + 1])

\* The scan of effective_acl goes through the states c, from the last entry to
\* the first.
LEMMA SeeLoop ==
  ASSUME NEW n \in Nat, NEW b, NEW d, DOMAIN d = 1..n
  PROVE  \E c : SeeRun(c, n, b, d)
<1> DEFINE it == CHOOSE f : f = SeeStep(f, 1, n, b, d)
           c == [i \in 1..(n + 1) |-> it[i..n]]
<1>1. it = SeeStep(it, 1, n, b, d)
  BY SeeIterExists
<1>2. SeeAll(d, b) = it[1..n]
  BY DEF SeeAll, FoldRight, MapThenFoldSet, SeeStep
<1> HIDE DEF it
<1>3. it[{}] = b
  BY <1>1 DEF SeeStep
<1>4. ASSUME NEW i \in 1..n PROVE it[i..n] = See(d[i], it[(i + 1)..n])
  <2>1. i..n \in SUBSET (1..n) /\ i \in i..n
    OBVIOUS
  <2>2. Min(i..n) \in i..n /\ \A y \in i..n : Min(i..n) <= y
    BY <2>1, MinIsIndex, Zenon
  <2>3. \A x \in i..n : x <= i => x = i
    OBVIOUS
  <2>4. Min(i..n) = i
    BY <2>1, <2>2, <2>3, Zenon
  <2>5. (i..n) \ {i} = (i + 1)..n
    OBVIOUS
  <2>6. it[i..n] = See(d[Min(i..n)], it[(i..n) \ {Min(i..n)}])
    BY <1>1, <2>1, Zenon DEF SeeStep
  <2> QED BY <2>4, <2>5, <2>6, Zenon
<1>5. c[n + 1] = b /\ c[1] = it[1..n]
  <2>1. (n + 1)..n = {} /\ n + 1 \in 1..(n + 1) /\ 1 \in 1..(n + 1)
    OBVIOUS
  <2> QED BY <1>3, <2>1, Zenon
<1>6. \A i \in 1..n : c[i] = See(d[i], c[i + 1])
  <2>1. \A i \in 1..n : i \in 1..(n + 1) /\ i + 1 \in 1..(n + 1)
    OBVIOUS
  <2> QED BY <1>4, <2>1, Zenon
<1> QED BY <1>2, <1>5, <1>6, Zenon DEF SeeRun

-----------------------------------------------------------------------------
(* effective_acl *)

\* what the scan carries
Seen == [names : SUBSET Name, endpoints : SUBSET Endpoint, kept : Seq(Entry)]

\* no name and no endpoint twice
Distinct(q) ==
  \A j, k \in DOMAIN q : j # k => q[j].name # q[k].name /\ q[j].endpoint # q[k].endpoint

\* what the scan knows when it has been through the entries from i on
Knows(acl, i, names, endpoints, kept) ==
  /\ \A v : v \in names <=> \E j \in i..Len(acl) : v = acl[j].name
  /\ \A v : v \in endpoints <=>
            \E j \in i..Len(acl) : LastOfName(acl, j) /\ v = acl[j].endpoint
  /\ \A x : (\E j \in DOMAIN kept : x = kept[j]) <=>
            \E j \in i..Len(acl) : Wins(acl, j) /\ x = acl[j]
  /\ Distinct(kept)

\* the same of the record the scan carries
Scanned(acl, i, s) == Knows(acl, i, s.names, s.endpoints, s.kept)

\* A list with one entry more in front.
LEMMA ConsFacts ==
  ASSUME NEW x \in Entry, NEW q \in Seq(Entry)
  PROVE  /\ <<x>> \o q \in Seq(Entry)
         /\ DOMAIN (<<x>> \o q) = 1..(Len(q) + 1)
         /\ (<<x>> \o q)[1] = x
         /\ \A j \in 2..(Len(q) + 1) : (<<x>> \o q)[j] = q[j - 1]
OBVIOUS

\* One entry more keeps the scan's knowledge: the entry is dropped exactly when
\* a later one wins over it.
LEMMA ScanStep ==
  ASSUME NEW acl \in Seq(Entry), NEW i \in 1..Len(acl), NEW s \in Seen,
         Scanned(acl, i + 1, s)
  PROVE  See(acl[i], s) \in Seen /\ Scanned(acl, i, See(acl[i], s))
<1> DEFINE x == acl[i]
           n == Len(acl)
<1>1. n \in Nat /\ DOMAIN acl = 1..n /\ x \in Entry /\ x.name \in Name /\ x.endpoint \in Endpoint
  <2>1. n \in Nat /\ DOMAIN acl = 1..n /\ x \in Entry
    OBVIOUS
  <2> HIDE DEF x
  <2> QED BY <2>1 DEF Entry
<1>2. \A j : j \in i..n <=> j = i \/ j \in (i + 1)..n
  BY <1>1
<1>3. \A j : j \in (i + 1)..n <=> j \in DOMAIN acl /\ j > i
  BY <1>1
<1>4. LastOfName(acl, i) <=> x.name \notin s.names
  BY <1>3, Zenon DEF LastOfName, Scanned, Knows
<1>5. Wins(acl, i) <=> x.name \notin s.names /\ x.endpoint \notin s.endpoints
  BY <1>3, <1>4, Zenon DEF Wins, Scanned, Knows
<1>6. Distinct(s.kept)
  BY Zenon DEF Scanned, Knows
<1>61. \A v : (\E j \in i..n : v = acl[j].name) <=> v = x.name \/ v \in s.names
  <2>1. \A v : v \in s.names <=> \E j \in (i + 1)..n : v = acl[j].name
    BY Zenon DEF Scanned, Knows
  <2> HIDE DEF n
  <2> QED BY <1>2, <2>1, Zenon
<1>62. \A v : (\E j \in i..n : LastOfName(acl, j) /\ v = acl[j].endpoint) <=>
             (LastOfName(acl, i) /\ v = x.endpoint) \/ v \in s.endpoints
  <2>1. \A v : v \in s.endpoints <=>
              \E j \in (i + 1)..n : LastOfName(acl, j) /\ v = acl[j].endpoint
    BY Zenon DEF Scanned, Knows
  <2> HIDE DEF n
  <2> QED BY <1>2, <2>1, Zenon
<1>63. \A y : (\E j \in i..n : Wins(acl, j) /\ y = acl[j]) <=>
             (Wins(acl, i) /\ y = x) \/ \E j \in DOMAIN s.kept : y = s.kept[j]
  <2>1. \A y : (\E j \in DOMAIN s.kept : y = s.kept[j]) <=>
              \E j \in (i + 1)..n : Wins(acl, j) /\ y = acl[j]
    BY Zenon DEF Scanned, Knows
  <2> HIDE DEF n
  <2> QED BY <1>2, <2>1, Zenon
<1>64. \A j \in DOMAIN s.kept : s.kept[j].name \in s.names /\ s.kept[j].endpoint \in s.endpoints
  <2> SUFFICES ASSUME NEW j \in DOMAIN s.kept
               PROVE  s.kept[j].name \in s.names /\ s.kept[j].endpoint \in s.endpoints
    BY Zenon
  <2>1. PICK k \in (i + 1)..n : Wins(acl, k) /\ s.kept[j] = acl[k]
    BY Zenon DEF Scanned, Knows
  <2>2. LastOfName(acl, k)
    BY <2>1, Zenon DEF Wins
  <2> QED BY <2>1, <2>2, Zenon DEF Scanned, Knows
<1>7. s = [names |-> s.names, endpoints |-> s.endpoints, kept |-> s.kept]
      /\ s.names \in SUBSET Name /\ s.endpoints \in SUBSET Endpoint /\ s.kept \in Seq(Entry)
  BY DEF Seen
<1> HIDE DEF x, n
<1>8. CASE x.name \in s.names
  <2>1. See(x, s) = s
    BY <1>8, Zenon DEF See
  <2>2. Knows(acl, i, s.names, s.endpoints, s.kept)
    <3>1. \A v : v \in s.names <=> \E j \in i..n : v = acl[j].name
      BY <1>61, <1>8, Zenon
    <3>2. \A v : v \in s.endpoints <=>
                \E j \in i..n : LastOfName(acl, j) /\ v = acl[j].endpoint
      BY <1>4, <1>62, <1>8, Zenon
    <3>3. \A y : (\E j \in DOMAIN s.kept : y = s.kept[j]) <=>
                \E j \in i..n : Wins(acl, j) /\ y = acl[j]
      BY <1>5, <1>63, <1>8, Zenon
    <3> QED BY <1>6, <3>1, <3>2, <3>3, Zenon DEF Knows, n
  <2> QED BY <2>1, <2>2, Zenon DEF Scanned, x
<1>9. CASE x.name \notin s.names /\ x.endpoint \in s.endpoints
  <2> DEFINE r == [names |-> s.names \cup {x.name}, endpoints |-> s.endpoints, kept |-> s.kept]
  <2>1. See(x, s) = r
    <3>1. See(x, s) = [s EXCEPT !.names = s.names \cup {x.name}]
      BY <1>9, Zenon DEF See
    <3> QED BY <1>7, <3>1, ZenonT(30)
  <2>2. r \in Seen
    BY <1>1, <1>7 DEF Seen
  <2>3. Knows(acl, i, s.names \cup {x.name}, s.endpoints, s.kept)
    <3>1. \A v : v \in s.names \cup {x.name} <=> \E j \in i..n : v = acl[j].name
      BY <1>61, Zenon
    <3>2. \A v : v \in s.endpoints <=>
                \E j \in i..n : LastOfName(acl, j) /\ v = acl[j].endpoint
      BY <1>62, <1>9, Zenon
    <3>3. \A y : (\E j \in DOMAIN s.kept : y = s.kept[j]) <=>
                \E j \in i..n : Wins(acl, j) /\ y = acl[j]
      BY <1>5, <1>63, <1>9, Zenon
    <3> QED BY <1>6, <3>1, <3>2, <3>3, Zenon DEF Knows, n
  <2>4. Scanned(acl, i, r)
    BY <2>3, Zenon DEF Scanned
  <2> QED BY <2>1, <2>2, <2>4, Zenon DEF x
<1>10. CASE x.name \notin s.names /\ x.endpoint \notin s.endpoints
  <2> DEFINE q == <<x>> \o s.kept
             r == [names |-> s.names \cup {x.name},
                   endpoints |-> s.endpoints \cup {x.endpoint}, kept |-> q]
  <2>1. See(x, s) = r
    BY <1>10, Zenon DEF See
  <2>2. /\ q \in Seq(Entry) /\ DOMAIN q = 1..(Len(s.kept) + 1) /\ q[1] = x
        /\ \A j \in 2..(Len(s.kept) + 1) : q[j] = s.kept[j - 1]
    BY <1>1, <1>7, ConsFacts, Zenon
  <2> HIDE DEF q
  <2>3. r \in Seen
    BY <1>1, <1>7, <2>2 DEF Seen
  <2>4. /\ \A j \in DOMAIN q : j = 1 \/ (j - 1 \in DOMAIN s.kept /\ q[j] = s.kept[j - 1])
        /\ \A j \in DOMAIN s.kept : j + 1 \in DOMAIN q /\ q[j + 1] = s.kept[j]
        /\ 1 \in DOMAIN q
    BY <1>7, <2>2, SMTT(20)
  <2>5. \A y : (\E j \in DOMAIN q : y = q[j]) <=> y = x \/ \E j \in DOMAIN s.kept : y = s.kept[j]
    BY <2>2, <2>4, ZenonT(30)
  <2>6. Distinct(q)
    <3>1. \A j, k \in DOMAIN q : j # k /\ j # 1 /\ k # 1 => j - 1 # k - 1
      BY <1>7, <2>2
    <3>2. ASSUME NEW j \in DOMAIN q, NEW k \in DOMAIN q, j # k, j # 1, k # 1
          PROVE  q[j].name # q[k].name /\ q[j].endpoint # q[k].endpoint
      <4>1. j - 1 \in DOMAIN s.kept /\ q[j] = s.kept[j - 1]
            /\ k - 1 \in DOMAIN s.kept /\ q[k] = s.kept[k - 1]
        BY <2>4, <3>2, Zenon
      <4>2. j - 1 # k - 1
        BY <3>1, <3>2, Zenon
      <4> QED BY <1>6, <4>1, <4>2, Zenon DEF Distinct
    <3>3. ASSUME NEW j \in DOMAIN q, j # 1
          PROVE  q[j].name # x.name /\ q[j].endpoint # x.endpoint
      <4>1. j - 1 \in DOMAIN s.kept /\ q[j] = s.kept[j - 1]
        BY <2>4, <3>3, Zenon
      <4> QED BY <1>10, <1>64, <4>1, Zenon
    <3> QED BY <2>2, <3>2, <3>3, Zenon DEF Distinct
  <2>7. Knows(acl, i, s.names \cup {x.name}, s.endpoints \cup {x.endpoint}, q)
    <3>1. \A v : v \in s.names \cup {x.name} <=> \E j \in i..n : v = acl[j].name
      BY <1>61, Zenon
    <3>2. \A v : v \in s.endpoints \cup {x.endpoint} <=>
                \E j \in i..n : LastOfName(acl, j) /\ v = acl[j].endpoint
      BY <1>4, <1>62, <1>10, Zenon
    <3>3. \A y : (\E j \in DOMAIN q : y = q[j]) <=>
                \E j \in i..n : Wins(acl, j) /\ y = acl[j]
      BY <1>5, <1>63, <1>10, <2>5, Zenon
    <3> QED BY <2>6, <3>1, <3>2, <3>3, Zenon DEF Knows, n
  <2>8. Scanned(acl, i, r)
    BY <2>7, Zenon DEF Scanned
  <2> QED BY <2>1, <2>3, <2>8, Zenon DEF x
<1> QED BY <1>8, <1>9, <1>10, Zenon

\* What effective_acl keeps: the entries that win, no name and no endpoint twice.
LEMMA Effective ==
  ASSUME NEW acl \in Seq(Entry)
  PROVE  /\ EffectiveAcl(acl) \in Seq(Entry)
         /\ Distinct(EffectiveAcl(acl))
         /\ \A x : (\E j \in DOMAIN EffectiveAcl(acl) : x = EffectiveAcl(acl)[j]) <=>
                   \E j \in DOMAIN acl : Wins(acl, j) /\ x = acl[j]
<1> DEFINE n == Len(acl)
<1>1. n \in Nat /\ DOMAIN acl = 1..n
  OBVIOUS
<1> HIDE DEF n
<1>0. PICK c : SeeRun(c, n, NothingSeen, acl)
  BY <1>1, SeeLoop, Zenon
<1>2. /\ c[n + 1] = NothingSeen /\ c[1] = SeeAll(acl, NothingSeen)
      /\ \A i \in 1..n : c[i] = See(acl[i], c[i + 1])
  BY <1>0, Zenon DEF SeeRun
<1> DEFINE H == {k \in 0..n : c[n + 1 - k] \in Seen /\ Scanned(acl, n + 1 - k, c[n + 1 - k])}
<1>3. 0 \in H
  <2>1. n + 1 - 0 = n + 1 /\ 0 \in 0..n /\ (n + 1)..n = {}
    BY <1>1
  <2>2. NothingSeen \in Seen
    <3>1. <<>> \in Seq(Entry)
      OBVIOUS
    <3> QED BY <3>1, Zenon DEF NothingSeen, Seen
  <2>3. Knows(acl, n + 1, {}, {}, <<>>)
    <3>1. DOMAIN <<>> = {}
      OBVIOUS
    <3> QED BY <2>1, <3>1, Zenon DEF Knows, Distinct, n
  <2>4. Scanned(acl, n + 1, NothingSeen)
    BY <2>3, Zenon DEF Scanned, NothingSeen
  <2> QED BY <1>2, <2>1, <2>2, <2>4, Zenon
<1>4. ASSUME NEW k \in 0..(n - 1), k \in H PROVE k + 1 \in H
  <2> DEFINE i == n - k
  <2>1. i \in 1..n /\ n + 1 - k = i + 1 /\ n + 1 - (k + 1) = i /\ k + 1 \in 0..n
    BY <1>1
  <2> HIDE DEF i
  <2>2. c[i + 1] \in Seen /\ Scanned(acl, i + 1, c[i + 1])
    BY <1>4, <2>1, Zenon
  <2>3. See(acl[i], c[i + 1]) \in Seen /\ Scanned(acl, i, See(acl[i], c[i + 1]))
    <3>1. i \in 1..Len(acl)
      BY <2>1, Zenon DEF n
    <3> QED BY <2>2, <3>1, ScanStep, Zenon
  <2> QED BY <1>2, <2>1, <2>3, Zenon
<1>5. n \in H
  <2> HIDE DEF H
  <2> QED BY <1>1, <1>3, <1>4, UpTo
<1>6. n + 1 - n = 1
  BY <1>1
<1>7. c[1] \in Seen /\ Knows(acl, 1, c[1].names, c[1].endpoints, c[1].kept)
  BY <1>5, <1>6, Zenon DEF Scanned
<1>8. EffectiveAcl(acl) = c[1].kept
  BY <1>2, Zenon DEF EffectiveAcl, SeeAll
<1>9. c[1].kept \in Seq(Entry)
  BY <1>7, Zenon DEF Seen
<1>10. /\ Distinct(c[1].kept)
       /\ \A x : (\E j \in DOMAIN c[1].kept : x = c[1].kept[j]) <=>
                 \E j \in 1..n : Wins(acl, j) /\ x = acl[j]
  BY <1>7, Zenon DEF Knows, n
<1> QED BY <1>1, <1>8, <1>9, <1>10, ZenonT(30)

-----------------------------------------------------------------------------
(* Rule 1: the identities *)

\* What upserting one entry does to the tables: the entry's endpoint gets its
\* name, another holder of the name goes with its rows in every group, and
\* nothing else changes; the tables stay well formed.
LEMMA UpsertFacts ==
  ASSUME NEW t \in Tables, NEW x \in Entry
  PROVE  /\ Upsert(t, x) \in Tables
         /\ Upsert(t, x).held = t.held
         /\ Upsert(t, x).name[x.endpoint] = x.name
         /\ \A e \in Endpoint : e # x.endpoint =>
              Upsert(t, x).name[e] = IF t.name[e] = x.name THEN None ELSE t.name[e]
         /\ \A g \in Group, e \in Endpoint :
              Upsert(t, x).acl[g][e] = IF e # x.endpoint /\ t.name[e] = x.name THEN None
                                       ELSE t.acl[g][e]
<1> DEFINE E == {e \in Endpoint \ {x.endpoint} : t.name[e] = x.name}
           nm == [e \in Endpoint |-> IF e \in E THEN None ELSE t.name[e]]
           ac == [g \in Group |-> [e \in Endpoint |-> IF e \in E THEN None ELSE t.acl[g][e]]]
           r == [name |-> [nm EXCEPT ![x.endpoint] = x.name], acl |-> ac, held |-> t.held]
<1>1. /\ t = [name |-> t.name, acl |-> t.acl, held |-> t.held]
      /\ t.name \in [Endpoint -> Name \cup {None}]
      /\ t.acl \in [Group -> Rows] /\ t.held \in SUBSET Group
      /\ Unique(t.name)
      /\ \A g \in Group, e \in Endpoint :
           t.acl[g][e] # None => t.name[e] # None /\ g \in t.held
  BY Zenon DEF Tables
<1>2. x.endpoint \in Endpoint /\ x.name \in Name /\ x.name # None
  BY MirrorValues DEF Entry
<1>3. WithoutIdentities(t, E) = [name |-> nm, acl |-> ac, held |-> t.held]
  <2> HIDE DEF E
  <2>1. WithoutIdentities(t, E) = [t EXCEPT !.name = nm, !.acl = ac]
    BY Zenon DEF WithoutIdentities
  <2> HIDE DEF nm, ac
  <2> QED BY <1>1, <2>1, ZenonT(30)
<1>4. Upsert(t, x) = r
  <2>1. Upsert(t, x) = [WithoutIdentities(t, E) EXCEPT !.name[x.endpoint] = x.name]
    BY Zenon DEF Upsert
  <2> HIDE DEF nm, ac, E
  <2>2. Upsert(t, x) = [[name |-> nm, acl |-> ac, held |-> t.held] EXCEPT !.name[x.endpoint] = x.name]
    BY <1>3, <2>1, Zenon
  <2>3. [[name |-> nm, acl |-> ac, held |-> t.held] EXCEPT !.name[x.endpoint] = x.name]
        = [name |-> [nm EXCEPT ![x.endpoint] = x.name], acl |-> ac, held |-> t.held]
    OBVIOUS
  <2> QED BY <2>2, <2>3, Zenon
<1>5. /\ \A e \in Endpoint : e \in E <=> e # x.endpoint /\ t.name[e] = x.name
      /\ x.endpoint \notin E
  BY Zenon
<1> HIDE DEF E
<1>6. /\ nm \in [Endpoint -> Name \cup {None}]
      /\ \A e \in Endpoint : nm[e] = IF e \in E THEN None ELSE t.name[e]
  BY <1>1, Zenon
<1>7. /\ ac \in [Group -> Rows]
      /\ \A g \in Group, e \in Endpoint : ac[g][e] = IF e \in E THEN None ELSE t.acl[g][e]
  BY <1>1, Zenon DEF Rows
<1> HIDE DEF nm, ac
<1> DEFINE nn == [nm EXCEPT ![x.endpoint] = x.name]
<1>8. /\ nn \in [Endpoint -> Name \cup {None}]
      /\ nn[x.endpoint] = x.name
      /\ \A e \in Endpoint : e # x.endpoint =>
           nn[e] = IF t.name[e] = x.name THEN None ELSE t.name[e]
  BY <1>2, <1>5, <1>6
<1> HIDE DEF nn
<1>9. Unique(nn)
  <2> SUFFICES ASSUME NEW d \in Endpoint, NEW e \in Endpoint, nn[d] = nn[e], nn[d] # None
               PROVE  d = e
    BY Zenon DEF Unique
  <2>1. CASE d = x.endpoint
    BY <1>8, <2>1
  <2>2. CASE e = x.endpoint
    BY <1>8, <2>2
  <2>3. CASE d # x.endpoint /\ e # x.endpoint
    <3>1. nn[d] = t.name[d] /\ nn[e] = t.name[e]
      BY <1>8, <2>3
    <3> QED BY <1>1, <3>1, Zenon DEF Unique
  <2> QED BY <2>1, <2>2, <2>3, Zenon
<1>10. \A g \in Group, e \in Endpoint : ac[g][e] # None => nn[e] # None /\ g \in t.held
  <2> SUFFICES ASSUME NEW g \in Group, NEW e \in Endpoint, ac[g][e] # None
               PROVE  nn[e] # None /\ g \in t.held
    BY Zenon
  <2>1. e \notin E /\ t.acl[g][e] # None
    BY <1>7
  <2>2. t.name[e] # None /\ g \in t.held
    BY <1>1, <2>1, Zenon
  <2> QED BY <1>2, <1>5, <1>8, <2>1, <2>2
<1>11. r = [name |-> nn, acl |-> ac, held |-> t.held]
  BY Zenon DEF nn
<1> HIDE DEF r
<1>12. r \in Tables /\ r.name = nn /\ r.acl = ac /\ r.held = t.held
  BY <1>1, <1>7, <1>8, <1>9, <1>10, <1>11, ZenonT(30) DEF Tables
<1> QED BY <1>4, <1>5, <1>7, <1>8, <1>12

\* An entry that agrees with the names nm on the endpoints with rows.
Fits(x, nm, rows) ==
  \A e \in Endpoint : rows[e] # None => (nm[e] = x.name <=> e = x.endpoint)

\* The tables have the rows for g, under the names nm.
Agree(t, g, nm, rows) ==
  t.acl[g] = rows /\ \A e \in Endpoint : rows[e] # None => t.name[e] = nm[e]

\* The names rule 1 has written after i entries stay: no later entry of an
\* effective ACL has the name or the endpoint.  A group whose rows agree with
\* the names the entries carry keeps them.
LEMMA UpsertAllFacts ==
  ASSUME NEW b \in Tables, NEW d \in Seq(Entry), Distinct(d)
  PROVE  /\ UpsertAll(b, d) \in Tables
         /\ UpsertAll(b, d).held = b.held
         /\ \A i \in DOMAIN d : UpsertAll(b, d).name[d[i].endpoint] = d[i].name
         /\ \A g \in Group : \A nm : \A rows \in Rows :
              /\ Agree(b, g, nm, rows)
              /\ \A i \in DOMAIN d : Fits(d[i], nm, rows)
              => Agree(UpsertAll(b, d), g, nm, rows)
<1> DEFINE n == Len(d)
           Fitting(nm, rows) == \A i \in DOMAIN d : Fits(d[i], nm, rows)
<1>1. n \in Nat /\ DOMAIN d = 1..n /\ \A i \in 1..n : d[i] \in Entry
  OBVIOUS
<1> HIDE DEF n
<1>2. PICK c : UpsertRun(c, n, b, d)
  BY <1>1, UpsertLoop, Zenon
<1>3. /\ c[0] = b /\ c[n] = UpsertAll(b, d)
      /\ \A i \in 1..n : c[i] = Upsert(c[i - 1], d[i])
  BY <1>2, Zenon DEF UpsertRun
<1> DEFINE Good(k, t) ==
             /\ t \in Tables /\ t.held = b.held
             /\ \A i \in 1..k : t.name[d[i].endpoint] = d[i].name
             /\ \A g \in Group : \A nm : \A rows \in Rows :
                  Agree(b, g, nm, rows) /\ Fitting(nm, rows) => Agree(t, g, nm, rows)
           H == {k \in 0..n : Good(k, c[k])}
<1>4. 0 \in H
  <2>1. 0 \in 0..n /\ 1..0 = {}
    BY <1>1
  <2> HIDE DEF Fitting
  <2>2. Good(0, b)
    BY <2>1, Zenon
  <2> HIDE DEF Good
  <2> QED BY <1>3, <2>1, <2>2, Zenon
<1>5. ASSUME NEW k \in 0..(n - 1), k \in H PROVE k + 1 \in H
  <2> DEFINE t == c[k]
             x == d[k + 1]
             u == Upsert(t, x)
  <2>1. /\ k + 1 \in 1..n /\ k + 1 \in 0..n /\ (k + 1) - 1 = k
        /\ \A i \in 1..(k + 1) : i = k + 1 \/ i \in 1..k
        /\ \A i \in 1..k : i \in 1..n /\ i # k + 1
    BY <1>1
  <2>2. Good(k, t)
    BY <1>5, Zenon
  <2>3. c[k + 1] = u
    BY <1>3, <2>1, Zenon
  <2>4. t \in Tables /\ x \in Entry
    BY <1>1, <2>1, <2>2, Zenon
  <2>5. x.endpoint \in Endpoint /\ \A i \in 1..n : d[i].endpoint \in Endpoint
    BY <1>1, <2>4, Zenon DEF Entry
  <2> HIDE DEF x, t
  <2>6. /\ u \in Tables
        /\ u.held = t.held
        /\ u.name[x.endpoint] = x.name
        /\ \A e \in Endpoint : e # x.endpoint =>
             u.name[e] = IF t.name[e] = x.name THEN None ELSE t.name[e]
        /\ \A g \in Group, e \in Endpoint :
             u.acl[g][e] = IF e # x.endpoint /\ t.name[e] = x.name THEN None
                           ELSE t.acl[g][e]
    BY <2>4, UpsertFacts, Zenon
  <2> HIDE DEF u
  <2>7. ASSUME NEW i \in 1..(k + 1) PROVE u.name[d[i].endpoint] = d[i].name
    <3>1. CASE i = k + 1
      BY <2>6, <3>1, Zenon DEF x
    <3>2. CASE i \in 1..k
      <4>1. t.name[d[i].endpoint] = d[i].name /\ d[i].endpoint \in Endpoint
        BY <2>1, <2>2, <2>5, <3>2, Zenon
      <4>2. d[i].name # x.name /\ d[i].endpoint # x.endpoint
        BY <1>1, <2>1, <3>2, Zenon DEF Distinct, x
      <4> QED BY <2>6, <4>1, <4>2
    <3> QED BY <2>1, <3>1, <3>2, Zenon
  <2>8. ASSUME NEW g \in Group, NEW nm, NEW rows \in Rows,
               Agree(b, g, nm, rows), Fitting(nm, rows)
        PROVE  Agree(u, g, nm, rows)
    <3>1. Agree(t, g, nm, rows)
      BY <2>2, <2>8, Zenon
    <3>2. Fits(x, nm, rows)
      BY <1>1, <2>1, <2>8, Zenon DEF x
    <3>3. \A e \in Endpoint : u.acl[g][e] = rows[e]
      <4> SUFFICES ASSUME NEW e \in Endpoint PROVE u.acl[g][e] = rows[e]
        BY Zenon
      <4>1. t.acl[g][e] = rows[e] /\ (rows[e] # None => t.name[e] = nm[e])
        BY <3>1, Zenon DEF Agree
      <4>2. rows[e] # None => (nm[e] = x.name <=> e = x.endpoint)
        BY <3>2, Zenon DEF Fits
      <4> QED BY <2>6, <4>1, <4>2
    <3>4. u.acl[g] \in Rows
      BY <2>6, Zenon DEF Tables
    <3>5. u.acl[g] = rows
      BY <3>3, <3>4 DEF Rows
    <3>6. \A e \in Endpoint : rows[e] # None => u.name[e] = nm[e]
      <4> SUFFICES ASSUME NEW e \in Endpoint, rows[e] # None PROVE u.name[e] = nm[e]
        BY Zenon
      <4>1. t.name[e] = nm[e]
        BY <3>1, Zenon DEF Agree
      <4>2. nm[e] = x.name <=> e = x.endpoint
        BY <3>2, Zenon DEF Fits
      <4> QED BY <2>6, <4>1, <4>2
    <3> QED BY <3>5, <3>6, Zenon DEF Agree
  <2>9. Good(k + 1, u)
    <3>1. u.held = b.held
      BY <2>2, <2>6, Zenon
    <3> HIDE DEF Fitting
    <3> QED BY <2>6, <2>7, <2>8, <3>1, Zenon
  <2> HIDE DEF Good
  <2> QED BY <2>1, <2>3, <2>9, Zenon
<1>6. n \in H
  <2> HIDE DEF H
  <2> QED BY <1>1, <1>4, <1>5, UpTo
<1>7. Good(n, UpsertAll(b, d))
  <2> HIDE DEF Good
  <2> QED BY <1>3, <1>6, Zenon
<1> QED BY <1>1, <1>7, Zenon

-----------------------------------------------------------------------------
(* apply_group_sync *)

\* what a GroupState carries
StateType == [group : Group, acl : Seq(Entry)]

\* Changes of a single column of the tables.
LEMMA Columns ==
  ASSUME NEW t \in Tables, NEW v
  PROVE  /\ [t EXCEPT !.held = v] = [name |-> t.name, acl |-> t.acl, held |-> v]
         /\ [t EXCEPT !.name = v] = [name |-> v, acl |-> t.acl, held |-> t.held]
         /\ \A g \in Group : [t EXCEPT !.acl[g] = v] =
              [name |-> t.name, acl |-> [t.acl EXCEPT ![g] = v], held |-> t.held]
<1>1. /\ t = [name |-> t.name, acl |-> t.acl, held |-> t.held]
  BY Zenon DEF Tables
<1> DEFINE a == t.name
           b == t.acl
           c == t.held
<1> HIDE DEF a, b, c
<1>2. t = [name |-> a, acl |-> b, held |-> c]
  BY <1>1, Zenon DEF a, b, c
<1>3. /\ [t EXCEPT !.held = v] = [name |-> a, acl |-> b, held |-> v]
      /\ [t EXCEPT !.name = v] = [name |-> v, acl |-> b, held |-> c]
  BY <1>2
<1>4. ASSUME NEW g \in Group
      PROVE  [t EXCEPT !.acl[g] = v] = [name |-> a, acl |-> [b EXCEPT ![g] = v], held |-> c]
  BY <1>2
<1> QED BY <1>3, <1>4, Zenon DEF a, b, c

\* What rule 2 writes for an endpoint, from an ACL without collisions.
Row(acl, e) ==
  IF \E i \in DOMAIN acl : acl[i].endpoint = e
  THEN (CHOOSE x \in Range(acl) : x.endpoint = e).perms ELSE None

\* It is the entry's permissions, or no row.
LEMMA RowFacts ==
  ASSUME NEW acl \in Seq(Entry), Distinct(acl)
  PROVE  /\ \A i \in DOMAIN acl : Row(acl, acl[i].endpoint) = acl[i].perms
         /\ \A e : (~\E i \in DOMAIN acl : acl[i].endpoint = e) => Row(acl, e) = None
         /\ [e \in Endpoint |-> Row(acl, e)] \in Rows
<1>1. \A i \in DOMAIN acl : acl[i] \in Entry /\ acl[i].perms \in Perms
  <2>1. \A i \in DOMAIN acl : acl[i] \in Entry
    OBVIOUS
  <2> QED BY <2>1, Zenon DEF Entry
<1>2. ASSUME NEW i \in DOMAIN acl PROVE Row(acl, acl[i].endpoint) = acl[i].perms
  <2>1. acl[i] \in Range(acl)
    BY Zenon DEF Range
  <2>2. \A y \in Range(acl) : y.endpoint = acl[i].endpoint => y = acl[i]
    BY Zenon DEF Range, Distinct
  <2>3. (CHOOSE x \in Range(acl) : x.endpoint = acl[i].endpoint) = acl[i]
    BY <2>1, <2>2, Zenon
  <2> QED BY <2>3, Zenon DEF Row
<1>3. \A e : (~\E i \in DOMAIN acl : acl[i].endpoint = e) => Row(acl, e) = None
  BY Zenon DEF Row
<1>4. \A e \in Endpoint : Row(acl, e) \in Perms \cup {None}
  BY <1>1, <1>2, <1>3, Zenon
<1> QED BY <1>2, <1>3, <1>4, Zenon DEF Rows

\* An apply of any state succeeds, whatever collisions its ACL has; it leaves
\* well-formed tables whose rows for the group are the effective ACL, and no
\* other group loses rows that agree with the names the state carries.
LEMMA ApplyFacts ==
  ASSUME local \in Tables, NEW st \in StateType
  PROVE  LET ea == EffectiveAcl(st.acl)
             r  == Applied(st)
         IN  /\ ApplySucceeds(st)
             /\ r \in Tables
             /\ \A i \in DOMAIN ea : /\ r.name[ea[i].endpoint] = ea[i].name
                                     /\ r.acl[st.group][ea[i].endpoint] = ea[i].perms
             /\ \A e \in Endpoint :
                  (~\E i \in DOMAIN ea : ea[i].endpoint = e) => r.acl[st.group][e] = None
             /\ \A h \in Group \ {st.group} : \A nm : \A rows \in Rows :
                  /\ Agree(local, h, nm, rows)
                  /\ \A i \in DOMAIN st.acl : Fits(st.acl[i], nm, rows)
                  => Agree(r, h, nm, rows)
<1> DEFINE g == st.group
           ea == EffectiveAcl(st.acl)
           b == [local EXCEPT !.held = local.held \cup {g}]
           u == UpsertAll(b, ea)
           rows0 == [e \in Endpoint |-> Row(ea, e)]
           r == Applied(st)
<1>1. g \in Group /\ st.acl \in Seq(Entry)
  BY Zenon DEF StateType
<1>2. /\ ea \in Seq(Entry) /\ Distinct(ea)
      /\ \A x : (\E j \in DOMAIN ea : x = ea[j]) <=>
                \E j \in DOMAIN st.acl : Wins(st.acl, j) /\ x = st.acl[j]
  BY <1>1, Effective, Zenon
<1>3. b = [name |-> local.name, acl |-> local.acl, held |-> local.held \cup {g}]
  BY Columns, Zenon
<1>4. Upserted(g, ea) = u
  BY Zenon DEF Upserted, UpsertAll
<1> HIDE DEF g, ea
<1>5. b \in Tables /\ b.name = local.name /\ b.acl = local.acl
  <2>1. b.name = local.name /\ b.acl = local.acl /\ b.held = local.held \cup {g}
    BY <1>3, Zenon
  <2>2. b \in [name : [Endpoint -> Name \cup {None}], acl : [Group -> Rows], held : SUBSET Group]
    BY <1>1, <1>3, Zenon DEF Tables
  <2> HIDE DEF b
  <2>3. /\ Unique(b.name)
        /\ \A h \in Group, e \in Endpoint :
             b.acl[h][e] # None => b.name[e] # None /\ h \in b.held
    <3>1. Unique(local.name) /\ \A h \in Group, e \in Endpoint :
             local.acl[h][e] # None => local.name[e] # None /\ h \in local.held
      BY Zenon DEF Tables
    <3> QED BY <2>1, <3>1, Zenon
  <2> QED BY <2>1, <2>2, <2>3, Zenon DEF Tables
<1>6. b.held = local.held \cup {g}
  BY <1>3, Zenon
<1> HIDE DEF b
<1>7. /\ u \in Tables /\ u.held = b.held
      /\ \A i \in DOMAIN ea : u.name[ea[i].endpoint] = ea[i].name
      /\ \A h \in Group : \A nm : \A rows \in Rows :
           /\ Agree(b, h, nm, rows)
           /\ \A i \in DOMAIN ea : Fits(ea[i], nm, rows)
           => Agree(u, h, nm, rows)
  BY <1>2, <1>5, UpsertAllFacts, Zenon
<1> HIDE DEF u
<1>8. \A i \in DOMAIN ea : ea[i].name # None /\ ea[i].endpoint \in Endpoint
  <2>1. \A i \in DOMAIN ea : ea[i] \in Entry
    BY <1>2
  <2> QED BY <2>1, MirrorValues, Zenon DEF Entry
<1>9. ApplySucceeds(st)
  <2>1. \A i \in DOMAIN ea : Upserted(g, ea).name[ea[i].endpoint] # None
    BY <1>4, <1>7, <1>8, Zenon
  <2> QED BY <2>1, Zenon DEF ApplySucceeds, g, ea
<1>10. r = AclReplaced(u, g, ea)
  BY <1>4, Zenon DEF Applied, g, ea
<1>11. r = [name |-> u.name, acl |-> [u.acl EXCEPT ![g] = rows0], held |-> u.held]
  <2>1. AclReplaced(u, g, ea) = [u EXCEPT !.acl[g] = rows0]
    BY Zenon DEF AclReplaced, Row
  <2> HIDE DEF rows0
  <2> QED BY <1>1, <1>7, <1>10, <2>1, Columns, Zenon
<1>12. /\ \A i \in DOMAIN ea : Row(ea, ea[i].endpoint) = ea[i].perms
       /\ \A e : (~\E i \in DOMAIN ea : ea[i].endpoint = e) => Row(ea, e) = None
       /\ rows0 \in Rows
  BY <1>2, RowFacts, Zenon
<1>13. \A e \in Endpoint : rows0[e] = Row(ea, e)
  BY Zenon
<1> HIDE DEF rows0, r
<1> DEFINE ac == [u.acl EXCEPT ![g] = rows0]
<1>14. u.acl \in [Group -> Rows] /\ u.name \in [Endpoint -> Name \cup {None}]
       /\ u.held \in SUBSET Group /\ Unique(u.name)
       /\ \A h \in Group, e \in Endpoint : u.acl[h][e] # None => u.name[e] # None /\ h \in u.held
  BY <1>7, Zenon DEF Tables
<1>15. ac \in [Group -> Rows] /\ ac[g] = rows0 /\ \A h \in Group \ {g} : ac[h] = u.acl[h]
  BY <1>1, <1>12, <1>14
<1>16. r.name = u.name /\ r.acl = ac /\ r.held = u.held
  BY <1>11, Zenon
<1> HIDE DEF ac
<1>17. \A h \in Group, e \in Endpoint : ac[h][e] # None => u.name[e] # None /\ h \in u.held
  <2> SUFFICES ASSUME NEW h \in Group, NEW e \in Endpoint, ac[h][e] # None
               PROVE  u.name[e] # None /\ h \in u.held
    BY Zenon
  <2>1. CASE h = g
    <3>1. PICK i \in DOMAIN ea : ea[i].endpoint = e
      BY <1>12, <1>13, <1>15, <2>1, Zenon
    <3> QED BY <1>6, <1>7, <1>8, <2>1, <3>1, Zenon
  <2>2. CASE h # g
    BY <1>14, <1>15, <2>2, Zenon
  <2> QED BY <2>1, <2>2, Zenon
<1>18. r \in Tables
  <2>1. r = [name |-> u.name, acl |-> ac, held |-> u.held]
    BY <1>11, Zenon DEF ac
  <2>2. r \in [name : [Endpoint -> Name \cup {None}], acl : [Group -> Rows], held : SUBSET Group]
    BY <1>14, <1>15, <2>1, Zenon
  <2>3. Unique(r.name) /\ \A h \in Group, e \in Endpoint :
           r.acl[h][e] # None => r.name[e] # None /\ h \in r.held
    BY <1>14, <1>16, <1>17, Zenon
  <2> QED BY <2>2, <2>3, Zenon DEF Tables
<1>19. \A i \in DOMAIN ea : r.name[ea[i].endpoint] = ea[i].name
                           /\ r.acl[g][ea[i].endpoint] = ea[i].perms
  BY <1>7, <1>8, <1>12, <1>13, <1>15, <1>16, Zenon
<1>20. \A e \in Endpoint : (~\E i \in DOMAIN ea : ea[i].endpoint = e) => r.acl[g][e] = None
  BY <1>12, <1>13, <1>15, <1>16, Zenon
<1>21. ASSUME NEW h \in Group \ {g}, NEW nm, NEW rows \in Rows, Agree(local, h, nm, rows),
              \A i \in DOMAIN st.acl : Fits(st.acl[i], nm, rows)
       PROVE  Agree(r, h, nm, rows)
  <2>1. Agree(b, h, nm, rows)
    BY <1>5, <1>21, Zenon DEF Agree
  <2>2. \A i \in DOMAIN ea : Fits(ea[i], nm, rows)
    BY <1>2, <1>21, Zenon
  <2>3. Agree(u, h, nm, rows)
    BY <1>7, <2>1, <2>2, Zenon
  <2> QED BY <1>15, <1>16, <2>3, Zenon DEF Agree
<1> QED BY <1>9, <1>18, <1>19, <1>20, <1>21, Zenon DEF g, ea, r

-----------------------------------------------------------------------------
(* acl_entries_full *)

\* A finite set as a list: each element once.
LEMMA ListOfSet ==
  ASSUME NEW S, IsFiniteSet(S)
  PROVE  /\ SetToSeq(S) \in Seq(S)
         /\ IsInjective(SetToSeq(S))
         /\ \A x : (\E j \in DOMAIN SetToSeq(S) : x = SetToSeq(S)[j]) <=> x \in S
<1> DEFINE c == Cardinality(S)
           f == SetToSeq(S)
<1>1. c \in Nat /\ ExistsBijection(1..c, S)
  BY FS_CardinalityType, Zenon
<1>2. \E h \in [1..c -> S] : IsInjective(h)
  BY <1>1, Zenon DEF ExistsBijection, Bijection, Injection
<1>3. f \in [1..c -> S] /\ IsInjective(f)
  BY <1>2, Zenon DEF SetToSeq
<1>4. Cardinality(1..c) = c
  BY <1>1, FS_Interval
<1> HIDE DEF f
<1>5. f \in Surjection(1..c, S)
  <2>1. f \in Injection(1..c, S)
    BY <1>3, Zenon DEF Injection
  <2> HIDE DEF c
  <2>2. Cardinality(1..c) = Cardinality(S)
    BY <1>4, Zenon DEF c
  <2> QED BY <2>1, <2>2, FS_Injection, Zenon
<1> HIDE DEF c
<1>6. \A x : (\E j \in DOMAIN f : x = f[j]) <=> x \in S
  BY <1>3, <1>5, Zenon DEF Surjection
<1>7. f \in Seq(S)
  BY <1>1, <1>3
<1> QED BY <1>3, <1>6, <1>7, Zenon DEF f

\* The entry x is a row of the group.
IsRow(g, x) ==
  x \in Entry /\ node.name[x.endpoint] = x.name /\ node.acl[g][x.endpoint] = x.perms

\* An entry is its three fields.
LEMMA EntryFields ==
  /\ \A x \in Entry : x.endpoint \in Endpoint /\ x.name \in Name /\ x.perms \in Perms
  /\ \A x, y \in Entry :
       x.endpoint = y.endpoint /\ x.name = y.name /\ x.perms = y.perms => x = y
BY DEF Entry

\* A snapshot's ACL lists the rows of the group, each once; the names in it are
\* the node's, so it collides neither with itself nor with another group's rows.
LEMMA EntriesFacts ==
  ASSUME node \in Tables, NEW g \in Group
  PROVE  /\ AclEntries(g) \in Seq(Entry)
         /\ Distinct(AclEntries(g))
         /\ \A x : (\E j \in DOMAIN AclEntries(g) : x = AclEntries(g)[j]) <=> IsRow(g, x)
         /\ \A h \in Group, j \in DOMAIN AclEntries(g) :
              Fits(AclEntries(g)[j], node.name, node.acl[h])
<1> DEFINE S == {x \in Entry : node.name[x.endpoint] = x.name /\ node.acl[g][x.endpoint] = x.perms}
           acl == AclEntries(g)
           f == [x \in S |-> x.endpoint]
<1>1. \A x, y \in S : x.endpoint = y.endpoint => x = y
  BY EntryFields, Zenon
<1>2. \A x \in S : x.endpoint \in Endpoint
  BY EntryFields, Zenon
<1>3. acl = SetToSeq(S)
  BY Zenon DEF AclEntries
<1>4. \A x : x \in S <=> IsRow(g, x)
  BY Zenon DEF IsRow
<1> HIDE DEF S, acl
<1>5. IsFiniteSet(S)
  <2>1. f \in [S -> Endpoint] /\ DOMAIN f = S /\ \A a, b \in S : f[a] = f[b] => a = b
    BY <1>1, <1>2, Zenon
  <2> HIDE DEF f
  <2>2. f \in Injection(S, Endpoint)
    BY <2>1, Zenon DEF Injection, IsInjective
  <2> QED BY <2>2, FS_Injection, MirrorValues, Zenon
<1>6. /\ acl \in Seq(S)
      /\ IsInjective(acl)
      /\ \A x : (\E j \in DOMAIN acl : x = acl[j]) <=> x \in S
  BY <1>3, <1>5, ListOfSet, Zenon
<1>7. \A x \in S : x \in Entry
  BY Zenon DEF S
<1>8. acl \in Seq(Entry)
  BY <1>6, <1>7
<1>9. \A j \in DOMAIN acl : IsRow(g, acl[j]) /\ acl[j] \in S
  BY <1>4, <1>6, Zenon
<1>10. \A d, e \in Endpoint : node.name[d] = node.name[e] /\ node.name[d] # None => d = e
  BY Zenon DEF Tables, Unique
<1>11. Distinct(acl)
  <2> SUFFICES ASSUME NEW j \in DOMAIN acl, NEW k \in DOMAIN acl, j # k
               PROVE  acl[j].name # acl[k].name /\ acl[j].endpoint # acl[k].endpoint
    BY Zenon DEF Distinct
  <2>1. acl[j] # acl[k]
    BY <1>6, Zenon DEF IsInjective
  <2>2. acl[j].endpoint # acl[k].endpoint
    BY <1>1, <1>9, <2>1, Zenon
  <2>3. acl[j].endpoint \in Endpoint /\ acl[k].endpoint \in Endpoint /\ acl[j].name # None
    BY <1>9, EntryFields, MirrorValues, ZenonT(30) DEF IsRow
  <2> QED BY <1>9, <1>10, <2>2, <2>3, Zenon DEF IsRow
<1>12. ASSUME NEW h \in Group, NEW j \in DOMAIN acl
       PROVE  Fits(acl[j], node.name, node.acl[h])
  <2>1. acl[j].endpoint \in Endpoint /\ acl[j].name # None /\ node.name[acl[j].endpoint] = acl[j].name
    BY <1>9, EntryFields, MirrorValues, Zenon DEF IsRow
  <2> QED BY <1>10, <2>1, Zenon DEF Fits
<1> QED BY <1>4, <1>6, <1>8, <1>11, <1>12, Zenon DEF acl

\* Applying the present state of a group makes the mirror agree on it.
LEMMA CurrentApply ==
  ASSUME node \in Tables, local \in Tables, NEW g \in Group
  PROVE  Agree(Applied(State(g)), g, node.name, node.acl[g])
<1> DEFINE acl == AclEntries(g)
           ea == EffectiveAcl(acl)
           r == Applied(State(g))
<1>1. /\ acl \in Seq(Entry) /\ Distinct(acl)
      /\ \A x : (\E j \in DOMAIN acl : x = acl[j]) <=> IsRow(g, x)
  BY EntriesFacts, Zenon
<1>2. State(g) \in StateType /\ State(g).group = g /\ State(g).acl = acl
  BY <1>1, Zenon DEF State, StateType
<1> HIDE DEF acl
<1>3. \A j \in DOMAIN acl : Wins(acl, j)
  <2>1. \A j, k \in DOMAIN acl : j > k => j # k
    BY <1>1
  <2> QED BY <1>1, <2>1, Zenon DEF Wins, LastOfName, Distinct
<1>4. \A x : (\E j \in DOMAIN ea : x = ea[j]) <=> \E j \in DOMAIN acl : Wins(acl, j) /\ x = acl[j]
  BY <1>1, Effective, Zenon
<1>5. /\ r \in Tables
      /\ \A i \in DOMAIN ea : r.name[ea[i].endpoint] = ea[i].name /\ r.acl[g][ea[i].endpoint] = ea[i].perms
      /\ \A e \in Endpoint :
           (~\E i \in DOMAIN ea : ea[i].endpoint = e) => r.acl[g][e] = None
  BY <1>2, ApplyFacts, Zenon
<1> HIDE DEF ea, r
<1>6. \A x : (\E j \in DOMAIN ea : x = ea[j]) <=> IsRow(g, x)
  BY <1>1, <1>3, <1>4, Zenon
<1>7. ASSUME NEW e \in Endpoint
      PROVE  r.acl[g][e] = node.acl[g][e] /\ (node.acl[g][e] # None => r.name[e] = node.name[e])
  <2>1. CASE node.acl[g][e] # None
    <3> DEFINE x == [endpoint |-> e, name |-> node.name[e], perms |-> node.acl[g][e]]
    <3>1. node.name[e] \in Name /\ node.acl[g][e] \in Perms
      <4>1. node.acl[g] \in Rows /\ node.name[e] # None /\ node.name[e] \in Name \cup {None}
        BY <2>1, Zenon DEF Tables
      <4> QED BY <2>1, <4>1, Zenon DEF Rows
    <3>2. IsRow(g, x) /\ x.endpoint = e /\ x.name = node.name[e] /\ x.perms = node.acl[g][e]
      BY <3>1, Zenon DEF IsRow, Entry
    <3> HIDE DEF x
    <3>3. PICK j \in DOMAIN ea : x = ea[j]
      BY <1>6, <3>2, Zenon
    <3> QED BY <1>5, <3>2, <3>3, Zenon
  <2>2. CASE node.acl[g][e] = None
    <3>1. ASSUME NEW j \in DOMAIN ea, ea[j].endpoint = e PROVE FALSE
      <4>1. IsRow(g, ea[j])
        BY <1>6, Zenon
      <4> QED BY <2>2, <3>1, <4>1, EntryFields, MirrorValues, Zenon DEF IsRow
    <3> QED BY <1>5, <2>2, <3>1, Zenon
  <2> QED BY <2>1, <2>2, Zenon
<1>8. r.acl[g] = node.acl[g]
  <2>1. r.acl[g] \in Rows /\ node.acl[g] \in Rows
    BY <1>5, Zenon DEF Tables
  <2> QED BY <1>7, <2>1 DEF Rows
<1> QED BY <1>7, <1>8, Zenon DEF Agree, r

-----------------------------------------------------------------------------
(* drop_group_local and gc_unreferenced_identities *)

\* Dropping a group leaves the others as they are.
LEMMA DropFacts ==
  ASSUME NEW t \in Tables, NEW g \in Group
  PROVE  /\ DropGroupLocal(t, g) \in Tables
         /\ \A h \in Group \ {g} : \A nm, rows :
              Agree(t, h, nm, rows) => Agree(DropGroupLocal(t, g), h, nm, rows)
<1> DEFINE ac == [t.acl EXCEPT ![g] = NoRows]
           hd == t.held \ {g}
           r == [name |-> t.name, acl |-> ac, held |-> hd]
<1>1. /\ t = [name |-> t.name, acl |-> t.acl, held |-> t.held]
      /\ t.name \in [Endpoint -> Name \cup {None}]
      /\ t.acl \in [Group -> Rows] /\ t.held \in SUBSET Group
      /\ Unique(t.name)
      /\ \A h \in Group, e \in Endpoint :
           t.acl[h][e] # None => t.name[e] # None /\ h \in t.held
  BY Zenon DEF Tables
<1>2. DropGroupLocal(t, g) = r
  <2> DEFINE a == t.name
             b == t.acl
             c == t.held
  <2>1. t = [name |-> a, acl |-> b, held |-> c]
    BY <1>1, Zenon
  <2>2. DropGroupLocal(t, g) = [t EXCEPT !.held = c \ {g}, !.acl[g] = NoRows]
    BY Zenon DEF DropGroupLocal
  <2> HIDE DEF a, b, c
  <2>3. DropGroupLocal(t, g) = [name |-> a, acl |-> [b EXCEPT ![g] = NoRows], held |-> c \ {g}]
    BY <2>1, <2>2, Zenon
  <2> QED BY <2>3, Zenon DEF a, b, c
<1>3. NoRows \in Rows /\ \A e \in Endpoint : NoRows[e] = None
  BY Zenon DEF NoRows, Rows
<1>4. ac \in [Group -> Rows] /\ ac[g] = NoRows /\ \A h \in Group \ {g} : ac[h] = t.acl[h]
  BY <1>1, <1>3
<1> HIDE DEF ac
<1>5. \A h \in Group, e \in Endpoint : ac[h][e] # None => t.name[e] # None /\ h \in hd
  BY <1>1, <1>3, <1>4, Zenon
<1>6. hd \in SUBSET Group
  BY <1>1, Zenon
<1>7. r.name = t.name /\ r.acl = ac /\ r.held = hd
  BY Zenon
<1>8. r \in [name : [Endpoint -> Name \cup {None}], acl : [Group -> Rows], held : SUBSET Group]
  <2> HIDE DEF hd
  <2> QED BY <1>1, <1>4, <1>6, Zenon
<1> HIDE DEF r, hd
<1>9. r \in Tables
  BY <1>1, <1>5, <1>7, <1>8, Zenon DEF Tables
<1>10. \A h \in Group \ {g} : \A nm, rows : Agree(t, h, nm, rows) => Agree(r, h, nm, rows)
  BY <1>4, <1>7, Zenon DEF Agree
<1> QED BY <1>2, <1>9, <1>10, Zenon

\* Collecting unreferenced identities takes no name that a row hangs on.
LEMMA GcFacts ==
  ASSUME NEW t \in Tables
  PROVE  /\ GcUnreferenced(t) \in Tables
         /\ \A h \in Group : \A nm, rows :
              Agree(t, h, nm, rows) => Agree(GcUnreferenced(t), h, nm, rows)
<1> DEFINE nn == [e \in Endpoint |-> IF GroupsOf(t, e) = {} THEN None ELSE t.name[e]]
           r == [name |-> nn, acl |-> t.acl, held |-> t.held]
<1>1. /\ t.name \in [Endpoint -> Name \cup {None}]
      /\ t.acl \in [Group -> Rows] /\ t.held \in SUBSET Group
      /\ Unique(t.name)
      /\ \A h \in Group, e \in Endpoint :
           t.acl[h][e] # None => t.name[e] # None /\ h \in t.held
  BY Zenon DEF Tables
<1>2. GcUnreferenced(t) = r
  <2>1. GcUnreferenced(t) = [t EXCEPT !.name = nn]
    BY Zenon DEF GcUnreferenced
  <2> HIDE DEF nn
  <2> QED BY <2>1, Columns, Zenon
<1>3. /\ nn \in [Endpoint -> Name \cup {None}]
      /\ \A e \in Endpoint : nn[e] = IF GroupsOf(t, e) = {} THEN None ELSE t.name[e]
  BY <1>1, Zenon
<1> HIDE DEF nn
<1>4. \A h \in Group, e \in Endpoint : t.acl[h][e] # None => nn[e] = t.name[e]
  BY <1>3, Zenon DEF GroupsOf
<1>5. Unique(nn)
  <2> SUFFICES ASSUME NEW d \in Endpoint, NEW e \in Endpoint, nn[d] = nn[e], nn[d] # None
               PROVE  d = e
    BY Zenon DEF Unique
  <2>1. nn[d] = t.name[d] /\ nn[e] = t.name[e]
    BY <1>3
  <2> QED BY <1>1, <2>1, Zenon DEF Unique
<1>6. r.name = nn /\ r.acl = t.acl /\ r.held = t.held
  BY Zenon
<1>7. r \in [name : [Endpoint -> Name \cup {None}], acl : [Group -> Rows], held : SUBSET Group]
  BY <1>1, <1>3, Zenon
<1> HIDE DEF r
<1>8. \A h \in Group, e \in Endpoint : r.acl[h][e] # None => r.name[e] # None /\ h \in r.held
  BY <1>1, <1>4, <1>6, Zenon
<1>9. r \in Tables
  BY <1>5, <1>6, <1>7, <1>8, Zenon DEF Tables
<1>10. \A h \in Group : \A nm, rows : Agree(t, h, nm, rows) => Agree(r, h, nm, rows)
  BY <1>4, <1>6, Zenon DEF Agree
<1> QED BY <1>2, <1>9, <1>10, Zenon

-----------------------------------------------------------------------------
(* The session: which states are in hand in which mode *)

\* The node holds every group; states are in hand only while they are applied.
Session ==
  /\ node.held = Group
  /\ stash \in Seq(StateType)
  /\ mode \in {"idle", "sweep", "live"} => stash = <<>>
  /\ IF mode = "manifest" THEN todo # {} ELSE todo = {}
  /\ mode = "apply" => Len(stash) = 1
  /\ again => stash # <<>>

\* A list of states without its first, and with another one in its place.
LEMMA ListFacts ==
  ASSUME NEW q \in Seq(StateType), q # <<>>, NEW s \in StateType
  PROVE  /\ Head(q) \in StateType /\ Head(q) = q[1]
         /\ Tail(q) \in Seq(StateType) /\ Len(Tail(q)) = Len(q) - 1
         /\ \A i \in DOMAIN Tail(q) : i + 1 \in DOMAIN q /\ Tail(q)[i] = q[i + 1]
         /\ \A i \in DOMAIN q : i = 1 \/ (i - 1 \in DOMAIN Tail(q) /\ Tail(q)[i - 1] = q[i])
         /\ <<s>> \o Tail(q) \in Seq(StateType) /\ Len(<<s>> \o Tail(q)) = Len(q)
         /\ \A i \in DOMAIN (<<s>> \o Tail(q)) :
              i \in DOMAIN q /\ (<<s>> \o Tail(q))[i] = IF i = 1 THEN s ELSE q[i]
         /\ DOMAIN (<<s>> \o Tail(q)) = DOMAIN q /\ 1 \in DOMAIN q
         /\ <<s>> \o Tail(q) # <<>>
<1>1. /\ Len(q) \in Nat /\ DOMAIN q = 1..Len(q) /\ Len(q) >= 1 /\ q[1] \in StateType
      /\ Head(q) = q[1]
  OBVIOUS
<1>2. /\ Tail(q) \in Seq(StateType) /\ Len(Tail(q)) = Len(q) - 1
      /\ \A i \in 1..(Len(q) - 1) : Tail(q)[i] = q[i + 1]
      /\ DOMAIN Tail(q) = 1..(Len(q) - 1)
  OBVIOUS
<1> DEFINE w == Tail(q)
<1> HIDE DEF w
<1>3. w \in Seq(StateType) => /\ <<s>> \o w \in Seq(StateType) /\ Len(<<s>> \o w) = Len(w) + 1
                              /\ (<<s>> \o w)[1] = s
                              /\ \A i \in 2..(Len(w) + 1) : (<<s>> \o w)[i] = w[i - 1]
                              /\ DOMAIN (<<s>> \o w) = 1..(Len(w) + 1)
                              /\ <<s>> \o w # <<>>
  OBVIOUS
<1> DEFINE v == <<s>> \o w
<1> HIDE DEF v
<1>4. /\ v \in Seq(StateType) /\ Len(v) = Len(q) /\ DOMAIN v = DOMAIN q /\ v # <<>>
      /\ v[1] = s /\ \A i \in 2..Len(q) : v[i] = w[i - 1]
  BY <1>1, <1>2, <1>3 DEF v, w
<1>5. \A i \in DOMAIN q : i # 1 => v[i] = q[i]
  BY <1>1, <1>2, <1>4 DEF w
<1>6. /\ \A i \in DOMAIN Tail(q) : i + 1 \in DOMAIN q /\ Tail(q)[i] = q[i + 1]
      /\ \A i \in DOMAIN q : i = 1 \/ (i - 1 \in DOMAIN Tail(q) /\ Tail(q)[i - 1] = q[i])
      /\ 1 \in DOMAIN q
  BY <1>1, <1>2
<1>7. \A i \in DOMAIN v : i \in DOMAIN q /\ v[i] = IF i = 1 THEN s ELSE q[i]
  BY <1>4, <1>5, Zenon
<1> QED BY <1>1, <1>2, <1>4, <1>6, <1>7, Zenon DEF v, w

\* A state of a well-formed node is a state.
LEMMA StateTyped ==
  ASSUME node \in Tables, NEW g \in Group
  PROVE  State(g) \in StateType /\ State(g).group = g /\ State(g).acl = AclEntries(g)
BY EntriesFacts, Zenon DEF State, StateType

\* The rows of g, and the names they hang on, are the same in n and m.
Same(n, m, g) ==
  /\ m.acl[g] = n.acl[g]
  /\ \A e \in Endpoint : n.acl[g][e] # None => m.name[e] = n.name[e]

\* Tables of a node, from their columns.
LEMMA NodeTables ==
  ASSUME NEW a \in [Endpoint -> Name \cup {None}], NEW b \in [Group -> Rows], Unique(a),
         \A g \in Group, e \in Endpoint : b[g][e] # None => a[e] # None
  PROVE  /\ [name |-> a, acl |-> b, held |-> Group] \in Tables
         /\ [name |-> a, acl |-> b, held |-> Group].held = Group
BY Zenon DEF Tables

\* What a step of the authoritative node does: the tables stay well formed, and
\* a group whose rows or names change is touched.
LEMMA UpstreamSteps ==
  ASSUME TypeOK, node.held = Group, Upstream
  PROVE  /\ node' \in Tables /\ node'.held = Group
         /\ dirty' \in SUBSET Group /\ dirty \subseteq dirty'
         /\ \A g \in Group \ dirty' : Same(node, node', g)
         /\ scope' \in SUBSET Group
         /\ \A g \in Group \ dirty' : g \in scope' <=> g \in scope
         /\ changes' \in 0..MaxChanges
         /\ UNCHANGED <<engineVars, local, collided, faults>>
<1> DEFINE Rec == [name : [Endpoint -> Name \cup {None}], acl : [Group -> Rows], held : SUBSET Group]
           nm == node.name
           ac == node.acl
<1>1. /\ node = [name |-> nm, acl |-> ac, held |-> Group]
      /\ nm \in [Endpoint -> Name \cup {None}]
      /\ ac \in [Group -> Rows]
      /\ Unique(nm)
      /\ \A g \in Group, e \in Endpoint : ac[g][e] # None => nm[e] # None
  BY Zenon DEF TypeOK, Tables
<1>3. \A S \in SUBSET Group : Change(S) =>
        /\ dirty' = dirty \cup S /\ dirty' \in SUBSET Group /\ dirty \subseteq dirty'
        /\ changes' \in 0..MaxChanges
        /\ UNCHANGED <<engineVars, local, collided, faults>>
  <2>1. changes < MaxChanges /\ changes' = changes + 1 => changes' \in 0..MaxChanges
    BY MirrorBounds DEF TypeOK
  <2> QED BY <2>1, Zenon DEF Change, TypeOK
<1>4. scope \in SUBSET Group /\ dirty \in SUBSET Group
  BY Zenon DEF TypeOK
<1> HIDE DEF nm, ac
<1>5. node.name = nm /\ node.acl = ac
  BY Zenon DEF nm, ac
<1>6. CASE Register
  <2>1. PICK e \in Endpoint, n \in Name :
          nm[e] = None /\ (\A d \in Endpoint : nm[d] # n) /\ node' = [node EXCEPT !.name[e] = n]
    BY <1>6, Zenon DEF Register, nm
  <2> DEFINE nn == [nm EXCEPT ![e] = n]
  <2>2. Change({}) /\ scope' = scope
    BY <1>6, Zenon DEF Register
  <2>3. node' = [name |-> nn, acl |-> ac, held |-> Group]
    <3>1. node' = [[name |-> nm, acl |-> ac, held |-> Group] EXCEPT !.name[e] = n]
      BY <1>1, <2>1, Zenon
    <3> QED BY <3>1
  <2>4. nn \in [Endpoint -> Name \cup {None}] /\ nn[e] = n /\ \A d \in Endpoint : d # e => nn[d] = nm[d]
    BY <1>1
  <2> HIDE DEF nn
  <2>5. Unique(nn)
    BY <1>1, <2>1, <2>4, Zenon DEF Unique
  <2>6. \A g \in Group, d \in Endpoint : ac[g][d] # None => nn[d] = nm[d]
    BY <1>1, <2>1, <2>4, Zenon
  <2>61. \A g \in Group, d \in Endpoint : ac[g][d] # None => nn[d] # None
    BY <1>1, <2>6, Zenon
  <2>7. node' \in Tables /\ node'.held = Group
    BY <1>1, <2>3, <2>4, <2>5, <2>61, NodeTables, Zenon
  <2>8. node'.acl = ac /\ node'.name = nn
    BY <2>3, Zenon
  <2>9. \A g \in Group : Same(node, node', g)
    BY <1>5, <2>6, <2>8, Zenon DEF Same
  <2> QED BY <1>3, <1>4, <2>2, <2>7, <2>9, Zenon
<1>7. CASE RemoveIdentity
  <2>1. PICK e \in Endpoint : node' = WithoutIdentities(node, {e}) /\ Change(GroupsOf(node, e))
    BY <1>7, Zenon DEF RemoveIdentity
  <2> DEFINE nn == [d \in Endpoint |-> IF d \in {e} THEN None ELSE nm[d]]
             na == [g \in Group |-> [d \in Endpoint |-> IF d \in {e} THEN None ELSE ac[g][d]]]
  <2>2. scope' = scope
    BY <1>7, Zenon DEF RemoveIdentity
  <2>3. node' = [name |-> nn, acl |-> na, held |-> Group]
    <3>1. node' = [node EXCEPT !.name = nn, !.acl = na]
      BY <2>1, <1>5, Zenon DEF WithoutIdentities
    <3> HIDE DEF nn, na
    <3> QED BY <1>1, <3>1, ZenonT(30)
  <2>4. nn \in [Endpoint -> Name \cup {None}] /\ nn[e] = None /\ \A d \in Endpoint : d # e => nn[d] = nm[d]
    BY <1>1, Zenon
  <2>5. na \in [Group -> Rows] /\ \A g \in Group, d \in Endpoint :
           na[g][d] = IF d = e THEN None ELSE ac[g][d]
    BY <1>1, Zenon DEF Rows
  <2> HIDE DEF nn, na
  <2>6. Unique(nn)
    BY <1>1, <2>4, Zenon DEF Unique
  <2>7. \A g \in Group, d \in Endpoint : na[g][d] # None => nn[d] # None
    BY <1>1, <2>4, <2>5
  <2>8. node' \in Tables /\ node'.held = Group
    BY <2>3, <2>4, <2>5, <2>6, <2>7, NodeTables, Zenon
  <2>9. node'.acl = na /\ node'.name = nn
    BY <2>3, Zenon
  <2>10. ASSUME NEW g \in Group \ GroupsOf(node, e) PROVE Same(node, node', g)
    <3>1. ac[g][e] = None
      BY <1>5, <2>10, Zenon DEF GroupsOf
    <3>2. \A d \in Endpoint : na[g][d] = ac[g][d]
      BY <2>5, <3>1
    <3>3. na[g] = ac[g]
      <4>1. na[g] \in Rows /\ ac[g] \in Rows
        BY <1>1, <2>5, <2>10, Zenon
      <4> QED BY <3>2, <4>1 DEF Rows
    <3>4. \A d \in Endpoint : ac[g][d] # None => nn[d] = nm[d]
      BY <2>4, <3>1, Zenon
    <3> QED BY <1>5, <2>9, <3>3, <3>4, Zenon DEF Same
  <2>11. GroupsOf(node, e) \in SUBSET Group
    BY Zenon DEF GroupsOf
  <2> QED BY <1>3, <1>4, <2>1, <2>2, <2>8, <2>10, <2>11, Zenon
<1>8. CASE Grant
  <2>1. PICK g \in Group, e \in Endpoint, p \in Perms \cup {None} :
          nm[e] # None /\ node' = [node EXCEPT !.acl[g][e] = p] /\ Change({g})
    BY <1>8, Zenon DEF Grant, nm
  <2> DEFINE na == [ac EXCEPT ![g][e] = p]
  <2>2. scope' = scope
    BY <1>8, Zenon DEF Grant
  <2>3. node' = [name |-> nm, acl |-> na, held |-> Group]
    <3>1. node' = [[name |-> nm, acl |-> ac, held |-> Group] EXCEPT !.acl[g][e] = p]
      BY <1>1, <2>1, Zenon
    <3> QED BY <3>1
  <2>4. /\ na \in [Group -> Rows]
        /\ \A h \in Group : h # g => na[h] = ac[h]
        /\ \A d \in Endpoint : d # e => na[g][d] = ac[g][d]
    BY <1>1 DEF Rows
  <2> HIDE DEF na
  <2>5. \A h \in Group, d \in Endpoint : na[h][d] # None => nm[d] # None
    BY <1>1, <2>1, <2>4, ZenonT(30)
  <2>6. node' \in Tables /\ node'.held = Group
    BY <1>1, <2>3, <2>4, <2>5, NodeTables, Zenon
  <2>7. node'.acl = na /\ node'.name = nm
    BY <2>3, Zenon
  <2>8. \A h \in Group \ {g} : Same(node, node', h)
    BY <1>5, <2>4, <2>7, Zenon DEF Same
  <2>9. {g} \in SUBSET Group
    BY Zenon
  <2>10. /\ dirty' = dirty \cup {g} /\ dirty' \in SUBSET Group /\ dirty \subseteq dirty'
         /\ changes' \in 0..MaxChanges
         /\ UNCHANGED <<engineVars, local, collided, faults>>
    BY <1>3, <2>1, <2>9, Zenon
  <2> QED BY <1>4, <2>2, <2>6, <2>8, <2>10, Zenon
<1>9. CASE GrantReplica
  <2>1. PICK g \in Group : (scope' = IF g \in scope THEN scope \ {g} ELSE scope \cup {g}) /\ Change({g})
    BY <1>9, Zenon DEF GrantReplica
  <2>2. node' = node
    BY <1>9, Zenon DEF GrantReplica
  <2>3. scope' \in SUBSET Group /\ \A h \in Group \ {g} : h \in scope' <=> h \in scope
    BY <1>4, <2>1
  <2>4. node \in Tables /\ \A h \in Group : Same(node, node', h)
    BY <2>2, Zenon DEF TypeOK, Same
  <2> QED BY <1>3, <1>4, <2>1, <2>2, <2>3, <2>4, Zenon
<1> QED BY <1>6, <1>7, <1>8, <1>9, Zenon DEF Upstream

\* Lists of states have the type TypeOK asks for.
LEMMA StatesTyped ==
  ASSUME NEW q \in Seq(StateType)
  PROVE  \A i \in DOMAIN q : q[i].group \in Group /\ \A j \in DOMAIN q[i].acl : q[i].acl[j] \in Entry
<1>1. \A i \in DOMAIN q : q[i] \in StateType
  OBVIOUS
<1>2. \A x \in StateType : x.group \in Group /\ x.acl \in Seq(Entry)
  BY Zenon DEF StateType
<1>3. \A a \in Seq(Entry) : \A j \in DOMAIN a : a[j] \in Entry
  OBVIOUS
<1> QED BY <1>1, <1>2, <1>3, Zenon

\* the phases of the engine
Modes == {"idle", "manifest", "resync", "sweep", "live", "apply"}

\* What a step of the engine has to show for the types.
Typed ==
  /\ UpstreamUnchanged
  /\ local' \in Tables /\ cached' \in SUBSET Group /\ dirty' \in SUBSET Group
  /\ todo' \in SUBSET Group /\ mode' \in Modes /\ stash' \in Seq(StateType)
  /\ again' \in BOOLEAN /\ collided' \in BOOLEAN /\ faults' \in 0..MaxFaults
  /\ (mode' \in {"idle", "sweep", "live"} => stash' = <<>>)
  /\ (mode' = "manifest" => todo' # {}) /\ (mode' # "manifest" => todo' = {})
  /\ (mode' = "apply" => Len(stash') = 1)
  /\ (again' => stash' # <<>>)

\* That is enough for the types and the session's structure.
LEMMA TypesKept ==
  ASSUME TypeOK, Session, Typed
  PROVE  TypeOK' /\ Session'
<1>1. node' = node /\ scope' = scope /\ changes' = changes
  BY Zenon DEF Typed, UpstreamUnchanged
<1>2. TypeOK'
  <2>1. \A i \in DOMAIN stash' : stash'[i].group \in Group
                                 /\ \A j \in DOMAIN stash'[i].acl : stash'[i].acl[j] \in Entry
    BY StatesTyped, Zenon DEF Typed
  <2> QED BY <1>1, <2>1, Zenon DEF TypeOK, Modes, Typed
<1>3. Session'
  BY <1>1, Zenon DEF Session, Typed
<1> QED BY <1>2, <1>3, Zenon

\* Every step keeps the types and the session's structure.
LEMMA TypesInductive ==
  ASSUME TypeOK, Session, [Next]_vars
  PROVE  TypeOK' /\ Session'
<1>1. /\ node \in Tables /\ local \in Tables /\ scope \in SUBSET Group /\ cached \in SUBSET Group
      /\ dirty \in SUBSET Group /\ todo \in SUBSET Group /\ mode \in Modes
      /\ again \in BOOLEAN /\ collided \in BOOLEAN /\ faults \in 0..MaxFaults
  BY Zenon DEF TypeOK, Modes
<1>2. /\ node.held = Group /\ stash \in Seq(StateType)
      /\ (mode \in {"idle", "sweep", "live"} => stash = <<>>)
      /\ (mode = "manifest" => todo # {}) /\ (mode # "manifest" => todo = {})
      /\ (mode = "apply" => Len(stash) = 1)
      /\ (again => stash # <<>>)
  BY Zenon DEF Session
<1>3. <<>> \in Seq(StateType) /\ {} \in SUBSET Group
  OBVIOUS
<1>4. faults < MaxFaults => faults + 1 \in 0..MaxFaults
  BY <1>1, MirrorBounds
<1>5. CASE Upstream
  <2>1. /\ node' \in Tables /\ node'.held = Group /\ dirty' \in SUBSET Group
        /\ scope' \in SUBSET Group /\ changes' \in 0..MaxChanges
        /\ UNCHANGED <<engineVars, local, collided, faults>>
    BY <1>2, <1>5, UpstreamSteps, Zenon
  <2>2. /\ mode' = mode /\ cached' = cached /\ todo' = todo /\ stash' = stash /\ again' = again
        /\ local' = local /\ collided' = collided /\ faults' = faults
    BY <2>1, Zenon DEF engineVars
  <2> QED BY <2>1, <2>2, Zenon DEF TypeOK, Session
<1>6. CASE Hello
  <2>1. mode' = "sweep" \/ mode' = "manifest"
    BY <1>6, Zenon DEF Hello
  <2>2. IF mode' = "manifest" THEN todo' # {} ELSE todo' = {}
    BY <1>6 DEF Hello
  <2> QED BY <1>1, <1>3, <1>6, <2>1, <2>2, TypesKept, ZenonT(30) DEF Typed, Hello, Modes
<1>7. CASE Snapshot
  <2> DEFINE g == CHOOSE g \in todo : TRUE
  <2>1. g \in todo /\ mode = "manifest"
    BY <1>2, <1>7, Zenon DEF Snapshot
  <2>2. /\ stash' = Append(stash, State(g)) /\ todo' = todo \ {g}
        /\ mode' = IF todo = {g} THEN "resync" ELSE mode
        /\ UpstreamUnchanged /\ UNCHANGED <<dirty, cached, again, local, collided, faults>>
    BY <1>7, Zenon DEF Snapshot
  <2> HIDE DEF g
  <2>3. State(g) \in StateType
    BY <1>1, <2>1, StateTyped, Zenon
  <2>4. stash' \in Seq(StateType) /\ stash' # <<>>
    BY <1>2, <2>2, <2>3
  <2>5. IF mode' = "manifest" THEN todo' # {} ELSE todo' = {}
    BY <2>1, <2>2
  <2>6. mode' \in {"resync", "manifest"}
    BY <2>1, <2>2, Zenon
  <2> QED BY <1>1, <2>2, <2>4, <2>5, <2>6, TypesKept, ZenonT(30) DEF Typed, Modes
<1>8. CASE Changed
  <2>1. PICK g \in dirty :
          /\ dirty' = dirty \ {g}
          /\ \/ /\ g \in scope /\ mode' = "apply" /\ stash' = <<State(g)>> /\ again' = FALSE
                /\ UNCHANGED local
             \/ /\ g \notin scope /\ DropAndGc(g) /\ UNCHANGED <<mode, stash, again>>
    BY <1>8, Zenon DEF Changed
  <2>2. mode = "live" /\ UpstreamUnchanged /\ UNCHANGED <<cached, todo, collided, faults>>
    BY <1>8, Zenon DEF Changed
  <2>3. g \in Group /\ dirty' \in SUBSET Group
    BY <1>1, <2>1, Zenon
  <2>4. CASE mode' = "apply" /\ stash' = <<State(g)>> /\ again' = FALSE /\ local' = local
    <3>1. State(g) \in StateType
      BY <1>1, <2>3, StateTyped, Zenon
    <3>2. stash' \in Seq(StateType) /\ Len(stash') = 1
      BY <2>4, <3>1
    <3> QED BY <1>1, <1>2, <2>2, <2>3, <2>4, <3>2, TypesKept, ZenonT(30) DEF Typed, Modes
  <2>5. CASE DropAndGc(g) /\ UNCHANGED <<mode, stash, again>>
    <3>1. local' \in Tables
      BY <1>1, <2>3, <2>5, DropFacts, GcFacts, Zenon DEF DropAndGc
    <3> QED BY <1>1, <1>2, <2>2, <2>3, <2>5, <3>1, TypesKept, ZenonT(30) DEF Typed
  <2> QED BY <2>1, <2>4, <2>5, Zenon
<1>9. ASSUME stash # <<>>, mode \in {"resync", "apply"}, NextState
      PROVE  /\ stash' \in Seq(StateType) /\ mode' \in Modes /\ again' = FALSE /\ mode' # "manifest"
             /\ (mode' \in {"idle", "sweep", "live"} => stash' = <<>>)
             /\ (mode' = "apply" => Len(stash') = 1)
  <2>1. Tail(stash) \in Seq(StateType) /\ (Len(stash) = 1 => Tail(stash) = <<>>)
    <3> DEFINE q == stash
    <3>1. q \in Seq(StateType) /\ q # <<>>
      BY <1>2, <1>9, Zenon
    <3> HIDE DEF q
    <3>2. Tail(q) \in Seq(StateType) /\ (Len(q) = 1 => Tail(q) = <<>>)
      <4>1. Tail(q) \in Seq(StateType) /\ (Len(q) = 1 => Len(Tail(q)) = 0)
        BY <3>1
      <4>2. \A w \in Seq(StateType) : Len(w) = 0 => w = <<>>
        OBVIOUS
      <4> QED BY <4>1, <4>2, Zenon
    <3> QED BY <3>2, Zenon DEF q
  <2>2. CASE mode = "apply"
    BY <1>2, <1>9, <2>1, <2>2 DEF NextState, Modes
  <2>3. CASE mode = "resync"
    BY <1>9, <2>1, <2>3 DEF NextState, Modes
  <2> QED BY <1>9, <2>2, <2>3, Zenon
<1>10. CASE Apply
  <2>1. /\ mode \in {"resync", "apply"} /\ stash # <<>> /\ local' = Applied(Head(stash))
        /\ (NextState \/ (~again /\ again' = TRUE /\ UNCHANGED <<mode, stash>>))
        /\ UpstreamUnchanged /\ UNCHANGED <<dirty, cached, todo, collided, faults>>
    BY <1>10, Zenon DEF Apply, ApplyGroupSync
  <2>2. Head(stash) \in StateType
    BY <1>2, <2>1
  <2>3. local' \in Tables
    BY <1>1, <2>1, <2>2, ApplyFacts, Zenon
  <2>4. CASE NextState
    BY <1>1, <1>2, <1>9, <2>1, <2>3, <2>4, TypesKept, ZenonT(30) DEF Typed
  <2>5. CASE again' = TRUE /\ UNCHANGED <<mode, stash>>
    BY <1>1, <1>2, <2>1, <2>3, <2>5, TypesKept, ZenonT(30) DEF Typed
  <2> QED BY <2>1, <2>4, <2>5, Zenon
<1>11. CASE Refetch
  <2> DEFINE g == Head(stash).group
             q == <<State(g)>> \o Tail(stash)
  <2>1. /\ again /\ stash' = q /\ UpstreamUnchanged
        /\ UNCHANGED <<dirty, mode, cached, todo, again, local, collided, faults>>
    BY <1>11, Zenon DEF Refetch
  <2>2. stash # <<>>
    BY <1>2, <2>1, Zenon
  <2>3. Head(stash) \in StateType
    BY <1>2, <2>2
  <2>4. State(g) \in StateType
    BY <1>1, <2>3, StateTyped, Zenon DEF StateType
  <2>5. q \in Seq(StateType) /\ Len(q) = Len(stash) /\ q # <<>>
    BY <1>2, <2>2, <2>4, ListFacts, Zenon
  <2> HIDE DEF q
  <2> QED BY <1>1, <1>2, <2>1, <2>2, <2>5, TypesKept, ZenonT(30) DEF Typed
<1>12. CASE Denied
  <2>1. /\ mode \in {"resync", "apply"} /\ stash # <<>> /\ DropAndGc(Head(stash).group) /\ NextState
        /\ UpstreamUnchanged /\ UNCHANGED <<dirty, cached, todo, collided, faults>>
    BY <1>12, Zenon DEF Denied
  <2>2. Head(stash) \in StateType
    BY <1>2, <2>1
  <2>3. Head(stash).group \in Group
    BY <2>2, Zenon DEF StateType
  <2>4. local' \in Tables
    BY <1>1, <2>1, <2>3, DropFacts, GcFacts, Zenon DEF DropAndGc
  <2> QED BY <1>1, <1>2, <1>9, <2>1, <2>4, TypesKept, ZenonT(30) DEF Typed
<1>13. CASE DropStale
  <2>1. PICK g \in local.held \ cached : local' = DropGroupLocal(local, g)
    BY <1>13, Zenon DEF DropStale
  <2>2. UpstreamUnchanged /\ UNCHANGED <<dirty, mode, cached, todo, stash, again, collided, faults>>
    BY <1>13, Zenon DEF DropStale, engineVars
  <2>3. g \in Group
    BY <1>1, <2>1, Zenon DEF Tables
  <2>4. local' \in Tables
    BY <1>1, <2>1, <2>3, DropFacts, Zenon
  <2> QED BY <1>1, <1>2, <2>2, <2>4, TypesKept, ZenonT(30) DEF Typed
<1>14. CASE EndResync
  <2>1. /\ mode = "sweep" /\ local' = GcUnreferenced(local) /\ mode' = "live" /\ UpstreamUnchanged
        /\ UNCHANGED <<dirty, cached, todo, stash, again, collided, faults>>
    BY <1>14, Zenon DEF EndResync
  <2>2. local' \in Tables
    BY <1>1, <2>1, GcFacts, Zenon
  <2> QED BY <1>1, <1>2, <2>1, <2>2, TypesKept, ZenonT(30) DEF Typed, Modes
<1>15. CASE Lost
  <2>1. /\ faults < MaxFaults /\ faults' = faults + 1 /\ mode' = "idle" /\ stash' = <<>>
        /\ todo' = {} /\ again' = FALSE /\ UpstreamUnchanged
        /\ UNCHANGED <<dirty, cached, local, collided>>
    BY <1>15, Zenon DEF Lost
  <2> QED BY <1>1, <1>3, <1>4, <2>1, TypesKept, ZenonT(30) DEF Typed, Modes
<1>16. CASE Collide
  <2>1. /\ stash # <<>> /\ faults < MaxFaults /\ faults' = faults + 1 /\ collided' = TRUE
        /\ UpstreamUnchanged /\ UNCHANGED <<dirty, mode, cached, todo, again, local>>
    BY <1>16, Zenon DEF Collide
  <2>2. PICK x \in Entry : \E acl \in {<<x>> \o Head(stash).acl, Append(Head(stash).acl, x)} :
          stash' = <<[group |-> Head(stash).group, acl |-> acl]>> \o Tail(stash)
    BY <1>16, Zenon DEF Collide
  <2>21. PICK acl \in {<<x>> \o Head(stash).acl, Append(Head(stash).acl, x)} :
           stash' = <<[group |-> Head(stash).group, acl |-> acl]>> \o Tail(stash)
    BY <2>2, Zenon
  <2> DEFINE s == [group |-> Head(stash).group, acl |-> acl]
  <2>3. Head(stash) \in StateType
    BY <1>2, <2>1
  <2>4. Head(stash).group \in Group /\ Head(stash).acl \in Seq(Entry)
    BY <2>3, Zenon DEF StateType
  <2>5. acl \in Seq(Entry)
    <3> DEFINE a == Head(stash).acl
    <3>1. a \in Seq(Entry) /\ acl \in {<<x>> \o a, Append(a, x)}
      BY <2>21, <2>4, Zenon
    <3> HIDE DEF a
    <3>2. <<x>> \o a \in Seq(Entry) /\ Append(a, x) \in Seq(Entry)
      BY <3>1
    <3> QED BY <3>1, <3>2, Zenon
  <2>6. s \in StateType
    BY <2>4, <2>5, Zenon DEF StateType
  <2> DEFINE q == <<s>> \o Tail(stash)
  <2>7. stash' = q
    BY <2>21, Zenon
  <2> HIDE DEF s
  <2>8. q \in Seq(StateType) /\ Len(q) = Len(stash) /\ q # <<>>
    BY <1>2, <2>1, <2>6, ListFacts, Zenon
  <2> HIDE DEF q
  <2> QED BY <1>1, <1>2, <1>4, <2>1, <2>7, <2>8, TypesKept, ZenonT(30) DEF Typed
<1>17. CASE UNCHANGED vars
  BY <1>17, Zenon DEF vars, engineVars, TypeOK, Session
<1> QED BY <1>5, <1>6, <1>7, <1>8, <1>10, <1>11, <1>12, <1>13, <1>14, <1>15, <1>16, <1>17, Zenon
        DEF Next, Engine

\* They hold at the start.
LEMMA TypesInit ==
  ASSUME Init
  PROVE  TypeOK /\ Session
<1> DEFINE fe == First.endpoint
           nm == [NoRows EXCEPT ![fe] = First.name]
           rw == [NoRows EXCEPT ![fe] = First.perms]
           ac == [g \in Group |-> rw]
<1>1. fe \in Endpoint /\ First.name \in Name /\ First.perms \in Perms
  BY FirstGrant, Zenon
<1>2. NoRows \in Rows /\ NoRows \in [Endpoint -> Name \cup {None}] /\ \A e \in Endpoint : NoRows[e] = None
  BY Zenon DEF NoRows, Rows
<1>3. /\ nm \in [Endpoint -> Name \cup {None}] /\ nm[fe] = First.name
      /\ \A e \in Endpoint : e # fe => nm[e] = None
  BY <1>1, <1>2
<1>4. rw \in Rows /\ \A e \in Endpoint : e # fe => rw[e] = None
  BY <1>1, <1>2 DEF Rows
<1>5. node = [name |-> nm, acl |-> ac, held |-> Group]
  BY Zenon DEF Init
<1> HIDE DEF nm, rw, fe
<1>6. ac \in [Group -> Rows] /\ \A g \in Group : ac[g] = rw
  BY <1>4, Zenon
<1> HIDE DEF ac
<1>7. Unique(nm)
  BY <1>3, Zenon DEF Unique
<1>8. \A g \in Group, e \in Endpoint : ac[g][e] # None => nm[e] # None
  BY <1>1, <1>3, <1>4, <1>6, MirrorValues, Zenon
<1>9. node \in Tables /\ node.held = Group
  BY <1>3, <1>5, <1>6, <1>7, <1>8, NodeTables, Zenon
<1>10. local \in Tables
  <2> DEFINE la == [g \in Group |-> NoRows]
  <2>1. local = [name |-> NoRows, acl |-> la, held |-> {}]
    BY Zenon DEF Init
  <2>2. la \in [Group -> Rows] /\ \A g \in Group : la[g] = NoRows
    BY <1>2, Zenon
  <2> HIDE DEF la
  <2>3. local.name = NoRows /\ local.acl = la /\ local.held = {}
    BY <2>1, Zenon
  <2>4. local \in [name : [Endpoint -> Name \cup {None}], acl : [Group -> Rows], held : SUBSET Group]
    BY <1>2, <2>1, <2>2, Zenon
  <2>5. Unique(local.name) /\ \A g \in Group, e \in Endpoint :
          local.acl[g][e] # None => local.name[e] # None /\ g \in local.held
    BY <1>2, <2>2, <2>3, Zenon DEF Unique
  <2> QED BY <2>4, <2>5, Zenon DEF Tables
<1>11. stash = <<>> /\ DOMAIN stash = {} /\ stash \in Seq(StateType)
  BY DEF Init
<1>12. 0 \in 0..MaxChanges /\ 0 \in 0..MaxFaults
  BY MirrorBounds
<1>13. TypeOK
  BY <1>9, <1>10, <1>11, <1>12, Zenon DEF Init, TypeOK
<1>14. Session
  BY <1>9, <1>11, Zenon DEF Init, Session
<1> QED BY <1>13, <1>14, Zenon

\* Types and structure hold in every reachable state.
LEMMA MirrorSession == Spec => [](TypeOK /\ Session)
<1>1. Init => TypeOK /\ Session
  BY TypesInit
<1>2. TypeOK /\ Session /\ [Next]_vars => (TypeOK /\ Session)'
  BY TypesInductive
<1> QED BY <1>1, <1>2, PTL DEF Spec

\* The tables of both nodes are well formed in every reachable state: names are
\* unique, and every ACL row has its identity and its group.
THEOREM MirrorTypes == Spec => []TypeOK
BY MirrorSession, PTL

\* The state in hand is a state.
LEMMA HandTyped ==
  ASSUME Session, InHand
  PROVE  Head(stash) \in StateType
<1>1. stash \in Seq(StateType) /\ stash # <<>>
  BY Zenon DEF Session, InHand
<1> QED BY <1>1

\* No list of entries, however they collide, wedges apply_group_sync: after
\* effective_acl, no upsert deletes a row that rule 2 needs.
THEOREM NothingWedges == Spec => []ApplyNeverWedges
<1>1. TypeOK /\ Session => ApplyNeverWedges
  <2> SUFFICES ASSUME TypeOK, Session, InHand PROVE ApplySucceeds(Head(stash))
    BY Zenon DEF ApplyNeverWedges
  <2>1. local \in Tables
    BY Zenon DEF TypeOK
  <2> QED BY <2>1, HandTyped, ApplyFacts, Zenon
<1> QED BY <1>1, MirrorSession, PTL

\* The rows an apply leaves for its group are the entries that win, whatever
\* rows the mirror had and whatever the state's ACL holds.
THEOREM CollisionsResolved == Spec => []LastEntryWins
<1>1. TypeOK /\ Session => LastEntryWins
  <2> SUFFICES ASSUME TypeOK, Session, InHand
               PROVE  LastEntryWins
    BY Zenon DEF LastEntryWins
  <2> DEFINE st == Head(stash)
             g == st.group
             acl == st.acl
             t == Applied(st)
             ea == EffectiveAcl(acl)
             Left == {x \in Entry : t.acl[g][x.endpoint] = x.perms /\ t.name[x.endpoint] = x.name}
             Won == {acl[i] : i \in {k \in DOMAIN acl : Wins(acl, k)}}
  <2>1. local \in Tables /\ st \in StateType
    BY HandTyped, Zenon DEF TypeOK
  <2>2. acl \in Seq(Entry)
    BY <2>1, Zenon DEF StateType
  <2>3. /\ ea \in Seq(Entry)
        /\ \A x : (\E j \in DOMAIN ea : x = ea[j]) <=> \E j \in DOMAIN acl : Wins(acl, j) /\ x = acl[j]
    BY <2>2, Effective, Zenon
  <2>4. /\ \A i \in DOMAIN ea : t.name[ea[i].endpoint] = ea[i].name /\ t.acl[g][ea[i].endpoint] = ea[i].perms
        /\ \A e \in Endpoint : (~\E i \in DOMAIN ea : ea[i].endpoint = e) => t.acl[g][e] = None
    BY <2>1, ApplyFacts, Zenon
  <2> HIDE DEF t, ea, acl, g, st
  <2>5. \A i \in DOMAIN ea : ea[i] \in Entry
    BY <2>3
  <2>6. \A x : x \in Won <=> \E j \in DOMAIN acl : Wins(acl, j) /\ x = acl[j]
    BY Zenon
  <2>7. \A x : x \in Won <=> \E j \in DOMAIN ea : x = ea[j]
    BY <2>3, <2>6, Zenon
  <2> HIDE DEF Won
  <2>8. ASSUME NEW x \in Won PROVE x \in Left
    <3>1. PICK j \in DOMAIN ea : x = ea[j]
      BY <2>7, <2>8, Zenon
    <3> QED BY <2>4, <2>5, <3>1, Zenon
  <2>9. ASSUME NEW x \in Left PROVE x \in Won
    <3>1. x \in Entry /\ t.acl[g][x.endpoint] = x.perms /\ t.name[x.endpoint] = x.name
      BY <2>9, Zenon
    <3>2. PICK i \in DOMAIN ea : ea[i].endpoint = x.endpoint
      BY <2>4, <3>1, EntryFields, MirrorValues, Zenon
    <3>3. ea[i].name = x.name /\ ea[i].perms = x.perms
      BY <2>4, <3>1, <3>2, Zenon
    <3>4. x = ea[i]
      BY <2>5, <3>1, <3>2, <3>3, EntryFields, Zenon
    <3> QED BY <2>7, <3>4, Zenon
  <2>10. Left = Won
    BY <2>8, <2>9, Zenon
  <2> QED BY <2>10, Zenon DEF LastEntryWins, Won, acl, g, st, t
<1> QED BY <1>1, MirrorSession, PTL

-----------------------------------------------------------------------------
(* Agreement *)

\* acl_entries_full of the tables n.
EntriesAt(n, g) ==
  SetToSeq({x \in Entry : n.name[x.endpoint] = x.name /\ n.acl[g][x.endpoint] = x.perms})

\* A state on its way, when the groups in d were touched and the node has n:
\* the present one unless its group was touched, and no entry of it takes a
\* name from a row of an untouched group.
StateOK(st, d, n) ==
  /\ st.group \notin d => st.acl = EntriesAt(n, st.group)
  /\ \A j \in DOMAIN st.acl : \A g \in Group \ d : Fits(st.acl[j], n.name, n.acl[g])

\* The mirror answers for g from the rows and names the node has.
Alike(t, n, g) == Agree(t, g, n.name, n.acl[g])

\* The group's state is still to be taken or to be applied.
Pending(g, td, q) == g \in td \/ \E i \in DOMAIN q : q[i].group = g

\* Groups that came into or left the replica's scope were touched.
ScopeTracked ==
  mode # "idle" => \A g \in Group \ dirty : g \in scope <=> g \in cached

\* States on their way are good, and groups that are neither touched nor pending
\* are alike.
Fresh ==
  /\ \A i \in DOMAIN stash : StateOK(stash[i], dirty, node)
  /\ mode # "idle" =>
       \A g \in cached \ dirty : ~Pending(g, todo, stash) => Alike(local, node, g)

\* The inductive invariant behind CleanGroupsAnswerAlike.
Agreement == ScopeTracked /\ (~collided => Fresh)

\* A group whose rows the node kept is listed, fitted and answered as before.
LEMMA KeptMeansSame ==
  ASSUME NEW n, NEW m, NEW g, Same(n, m, g)
  PROVE  /\ EntriesAt(m, g) = EntriesAt(n, g)
         /\ \A x : Fits(x, n.name, n.acl[g]) => Fits(x, m.name, m.acl[g])
         /\ \A t : Alike(t, n, g) => Alike(t, m, g)
<1>1. /\ m.acl[g] = n.acl[g]
      /\ \A e \in Endpoint : n.acl[g][e] # None => m.name[e] = n.name[e]
  BY Zenon DEF Same
<1>2. EntriesAt(m, g) = EntriesAt(n, g)
  <2> DEFINE S == {x \in Entry : n.name[x.endpoint] = x.name /\ n.acl[g][x.endpoint] = x.perms}
             T == {x \in Entry : m.name[x.endpoint] = x.name /\ m.acl[g][x.endpoint] = x.perms}
  <2>1. \A x \in Entry : x.endpoint \in Endpoint /\ x.perms # None
    BY EntryFields, MirrorValues, Zenon
  <2>2. S = T
    <3>1. \A x : x \in S <=> x \in T
      BY <1>1, <2>1, Zenon
    <3> QED BY <3>1, Zenon
  <2>3. EntriesAt(n, g) = SetToSeq(S) /\ EntriesAt(m, g) = SetToSeq(T)
    BY Zenon DEF EntriesAt
  <2> HIDE DEF S, T
  <2> QED BY <2>2, <2>3, Zenon
<1>3. \A x : Fits(x, n.name, n.acl[g]) => Fits(x, m.name, m.acl[g])
  BY <1>1, Zenon DEF Fits
<1>4. \A t : Alike(t, n, g) => Alike(t, m, g)
  BY <1>1, Zenon DEF Agree, Alike
<1> QED BY <1>2, <1>3, <1>4, Zenon

\* So a state on its way stays good while the node keeps untouched groups.
LEMMA StateOKKept ==
  ASSUME NEW st \in StateType, NEW n, NEW m, NEW d, NEW dd, d \subseteq dd,
         \A g \in Group \ dd : Same(n, m, g), StateOK(st, d, n)
  PROVE  StateOK(st, dd, m)
<1>1. st.group \in Group
  BY Zenon DEF StateType
<1>2. st.group \notin dd => st.acl = EntriesAt(m, st.group)
  BY <1>1, KeptMeansSame, ZenonT(30) DEF StateOK
<1>3. \A j \in DOMAIN st.acl : \A g \in Group \ dd : Fits(st.acl[j], m.name, m.acl[g])
  BY KeptMeansSame, Zenon DEF StateOK
<1> QED BY <1>2, <1>3, Zenon DEF StateOK

\* A state just taken is good, whatever was touched.
LEMMA SnapshotOK ==
  ASSUME node \in Tables, NEW g \in Group, NEW d
  PROVE  StateOK(State(g), d, node)
<1>1. State(g).group = g /\ State(g).acl = AclEntries(g) /\ AclEntries(g) = EntriesAt(node, g)
  BY StateTyped, Zenon DEF AclEntries, EntriesAt
<1>2. \A h \in Group, j \in DOMAIN AclEntries(g) : Fits(AclEntries(g)[j], node.name, node.acl[h])
  BY EntriesFacts, Zenon
<1> QED BY <1>1, <1>2, Zenon DEF StateOK

\* Applying a good state leaves the untouched groups alike, and makes its own
\* group alike when that is untouched.
LEMMA ApplyAlike ==
  ASSUME TypeOK, NEW st \in StateType, StateOK(st, dirty, node)
  PROVE  \A g \in Group \ dirty :
           g = st.group \/ Alike(local, node, g) => Alike(Applied(st), node, g)
<1>1. node \in Tables /\ local \in Tables /\ st.group \in Group
  BY Zenon DEF TypeOK, StateType
<1> SUFFICES ASSUME NEW g \in Group \ dirty, g = st.group \/ Alike(local, node, g)
             PROVE  Alike(Applied(st), node, g)
  BY Zenon
<1>2. CASE g = st.group
  <2>1. st.acl = EntriesAt(node, g)
    BY <1>2, Zenon DEF StateOK
  <2>2. State(g) \in StateType /\ State(g).group = g /\ State(g).acl = AclEntries(g)
    BY <1>1, StateTyped, Zenon
  <2>3. AclEntries(g) = EntriesAt(node, g)
    BY Zenon DEF AclEntries, EntriesAt
  <2>4. st = State(g)
    <3>1. \A x, y \in StateType : x.group = y.group /\ x.acl = y.acl => x = y
      BY DEF StateType
    <3> QED BY <1>2, <2>1, <2>2, <2>3, <3>1, Zenon
  <2>5. Agree(Applied(State(g)), g, node.name, node.acl[g])
    BY <1>1, CurrentApply, Zenon
  <2> QED BY <2>4, <2>5, Zenon DEF Alike
<1>3. CASE g # st.group /\ Alike(local, node, g)
  <2>1. node.acl[g] \in Rows
    BY <1>1, Zenon DEF Tables
  <2>2. Agree(local, g, node.name, node.acl[g])
    BY <1>3, Zenon DEF Alike
  <2>3. \A i \in DOMAIN st.acl : Fits(st.acl[i], node.name, node.acl[g])
    BY Zenon DEF StateOK
  <2>4. Agree(Applied(st), g, node.name, node.acl[g])
    BY <1>1, <1>3, <2>1, <2>2, <2>3, ApplyFacts, Zenon
  <2> QED BY <2>4, Zenon DEF Alike
<1> QED BY <1>2, <1>3, Zenon

\* Another state in the place of the first.
LEMMA ReplaceFirst ==
  ASSUME NEW q \in Seq(StateType), q # <<>>, NEW s \in StateType
  PROVE  /\ DOMAIN (<<s>> \o Tail(q)) = DOMAIN q /\ 1 \in DOMAIN q
         /\ (<<s>> \o Tail(q))[1] = s
         /\ \A i \in DOMAIN (<<s>> \o Tail(q)) : i # 1 => (<<s>> \o Tail(q))[i] = q[i]
<1> DEFINE r == <<s>> \o Tail(q)
<1>1. /\ \A i \in DOMAIN r : i \in DOMAIN q /\ r[i] = IF i = 1 THEN s ELSE q[i]
      /\ DOMAIN r = DOMAIN q /\ 1 \in DOMAIN q
  BY ListFacts, Zenon
<1> HIDE DEF r
<1>2. r[1] = s /\ \A i \in DOMAIN r : i # 1 => r[i] = q[i]
  BY <1>1
<1> QED BY <1>1, <1>2, Zenon DEF r

\* Dropping a group leaves the others alike.
LEMMA DropAlike ==
  ASSUME NEW t \in Tables, NEW g \in Group, NEW n
  PROVE  \A h \in Group \ {g} : Alike(t, n, h) =>
           /\ Alike(DropGroupLocal(t, g), n, h)
           /\ Alike(GcUnreferenced(DropGroupLocal(t, g)), n, h)
<1>1. /\ DropGroupLocal(t, g) \in Tables
      /\ \A h \in Group \ {g} : Alike(t, n, h) => Alike(DropGroupLocal(t, g), n, h)
  BY DropFacts, Zenon DEF Alike
<1>2. \A h \in Group : Alike(DropGroupLocal(t, g), n, h)
                         => Alike(GcUnreferenced(DropGroupLocal(t, g)), n, h)
  BY <1>1, GcFacts, Zenon DEF Alike
<1> QED BY <1>1, <1>2, Zenon

\* What is pending behind the state in hand.
LEMMA TailPending ==
  ASSUME NEW q \in Seq(StateType), q # <<>>, NEW td, NEW g,
         g # Head(q).group, ~Pending(g, td, Tail(q))
  PROVE  ~Pending(g, td, q)
<1>1. Head(q) \in StateType
  BY SMTT(30)
<1>2. /\ Head(q) = q[1]
      /\ \A i \in DOMAIN q : i = 1 \/ (i - 1 \in DOMAIN Tail(q) /\ Tail(q)[i - 1] = q[i])
  BY <1>1, ListFacts, Zenon
<1> QED BY <1>2, Zenon DEF Pending

\* The steps of the engine that leave touched groups and the session alone.
Quiet == UpstreamUnchanged /\ UNCHANGED <<dirty, cached, todo, collided>>

\* The engine is through with the state in hand: the rest stays good, and its own
\* group is no longer pending unless it comes again.
LEMMA NextAgreement ==
  ASSUME TypeOK, Session, Agreement, Quiet, mode # "idle", stash # <<>>, NextState,
         ~collided => \A g \in cached \ dirty :
           g = Head(stash).group \/ Alike(local, node, g) => Alike(local', node, g)
  PROVE  Agreement'
<1>1. stash \in Seq(StateType) /\ stash' = Tail(stash)
  BY Zenon DEF Session, NextState
<1>2. /\ node' = node /\ scope' = scope /\ dirty' = dirty /\ cached' = cached
      /\ todo' = todo /\ collided' = collided
  BY Zenon DEF Quiet, UpstreamUnchanged
<1>3. ScopeTracked'
  BY <1>2, Zenon DEF Agreement, ScopeTracked
<1>4. ASSUME ~collided PROVE Fresh'
  <2>1. Fresh
    BY <1>4, Zenon DEF Agreement
  <2>2. \A i \in DOMAIN stash' : StateOK(stash'[i], dirty, node)
    <3>1. PICK s : s \in StateType
      BY <1>1
    <3>2. \A i \in DOMAIN Tail(stash) : i + 1 \in DOMAIN stash /\ Tail(stash)[i] = stash[i + 1]
      BY <1>1, <3>1, ListFacts, Zenon
    <3> QED BY <1>1, <2>1, <3>2, Zenon DEF Fresh
  <2>3. ASSUME NEW g \in cached \ dirty, ~Pending(g, todo, stash') PROVE Alike(local', node, g)
    <3>1. g = Head(stash).group \/ ~Pending(g, todo, stash)
      BY <1>1, <2>3, TailPending, Zenon
    <3>2. ~Pending(g, todo, stash) => Alike(local, node, g)
      BY <2>1, Zenon DEF Fresh
    <3> QED BY <1>4, <3>1, <3>2, Zenon
  <2> QED BY <1>2, <2>2, <2>3, Zenon DEF Fresh
<1> QED BY <1>2, <1>3, <1>4, Zenon DEF Agreement

\* The states on their way stay, and so do the untouched groups in the mirror.
LEMMA QuietAgreement ==
  ASSUME Agreement, Quiet, mode # "idle", stash' = stash,
         ~collided => \A g \in cached \ dirty : Alike(local, node, g) => Alike(local', node, g)
  PROVE  Agreement'
<1>1. /\ node' = node /\ scope' = scope /\ dirty' = dirty /\ cached' = cached
      /\ todo' = todo /\ collided' = collided
  BY Zenon DEF Quiet, UpstreamUnchanged
<1>2. ScopeTracked'
  BY <1>1, Zenon DEF Agreement, ScopeTracked
<1>3. ~collided => Fresh'
  BY <1>1, Zenon DEF Agreement, Fresh
<1> QED BY <1>1, <1>2, <1>3, Zenon DEF Agreement

\* Every step keeps the agreement.
LEMMA AgreementInductive ==
  ASSUME TypeOK, Session, Agreement, [Next]_vars
  PROVE  Agreement'
<1>1. /\ node \in Tables /\ local \in Tables /\ scope \in SUBSET Group /\ cached \in SUBSET Group
      /\ dirty \in SUBSET Group /\ todo \in SUBSET Group
  BY Zenon DEF TypeOK
<1>2. /\ node.held = Group /\ stash \in Seq(StateType)
      /\ (mode \in {"idle", "sweep", "live"} => stash = <<>>)
      /\ (mode = "manifest" => todo # {}) /\ (mode # "manifest" => todo = {})
      /\ (again => stash # <<>>)
  BY Zenon DEF Session
<1>3. ScopeTracked /\ (~collided => Fresh)
  BY Zenon DEF Agreement
<1>4. stash # <<>> => Head(stash) \in StateType /\ Head(stash).group \in Group
                      /\ Head(stash) = stash[1] /\ 1 \in DOMAIN stash /\ mode # "idle"
  <2>1. stash # <<>> => Head(stash) \in StateType /\ Head(stash) = stash[1] /\ 1 \in DOMAIN stash
    BY <1>2
  <2>2. \A x \in StateType : x.group \in Group
    BY Zenon DEF StateType
  <2> QED BY <1>2, <2>1, <2>2, Zenon
<1>5. CASE Upstream
  <2>1. /\ dirty \subseteq dirty' /\ dirty' \in SUBSET Group
        /\ \A g \in Group \ dirty' : Same(node, node', g)
        /\ \A g \in Group \ dirty' : g \in scope' <=> g \in scope
        /\ UNCHANGED <<engineVars, local, collided, faults>>
    BY <1>2, <1>5, UpstreamSteps, Zenon
  <2>2. /\ mode' = mode /\ cached' = cached /\ todo' = todo /\ stash' = stash
        /\ local' = local /\ collided' = collided
    BY <2>1, Zenon DEF engineVars
  <2>3. ScopeTracked'
    BY <1>3, <2>1, <2>2, Zenon DEF ScopeTracked
  <2>4. ASSUME ~collided PROVE Fresh'
    <3>1. \A i \in DOMAIN stash : stash[i] \in StateType
      BY <1>2
    <3>2. \A i \in DOMAIN stash : StateOK(stash[i], dirty', node')
      BY <1>3, <2>1, <2>4, <3>1, StateOKKept, Zenon DEF Fresh
    <3>3. \A g \in Group \ dirty' : Alike(local, node, g) => Alike(local, node', g)
      BY <2>1, KeptMeansSame, Zenon
    <3>4. mode # "idle" => \A g \in cached \ dirty' :
            ~Pending(g, todo, stash) => Alike(local, node', g)
      BY <1>1, <1>3, <2>1, <2>4, <3>3, Zenon DEF Fresh
    <3> QED BY <2>2, <3>2, <3>4, Zenon DEF Fresh
  <2> QED BY <2>2, <2>3, <2>4, Zenon DEF Agreement
<1>6. CASE Hello
  <2>1. /\ dirty' = {} /\ cached' = scope /\ todo' = scope /\ stash' = <<>> /\ scope' = scope
    BY <1>6, Zenon DEF Hello, UpstreamUnchanged
  <2>2. DOMAIN stash' = {}
    BY <2>1
  <2>3. ScopeTracked'
    BY <2>1, Zenon DEF ScopeTracked
  <2>4. Fresh'
    BY <2>1, <2>2, Zenon DEF Fresh, Pending
  <2> QED BY <2>3, <2>4, Zenon DEF Agreement
<1>7. CASE Snapshot
  <2> DEFINE g == CHOOSE g \in todo : TRUE
  <2>1. g \in todo /\ mode = "manifest"
    BY <1>2, <1>7, Zenon DEF Snapshot
  <2>2. /\ stash' = Append(stash, State(g)) /\ todo' = todo \ {g}
        /\ UpstreamUnchanged /\ UNCHANGED <<dirty, cached, again, local, collided, faults>>
    BY <1>7, Zenon DEF Snapshot
  <2> HIDE DEF g
  <2>3. /\ State(g) \in StateType /\ State(g).group = g /\ StateOK(State(g), dirty, node)
    BY <1>1, <2>1, StateTyped, SnapshotOK, Zenon
  <2>4. /\ \A i \in DOMAIN stash : i \in DOMAIN stash' /\ stash'[i] = stash[i]
        /\ \E i \in DOMAIN stash' : stash'[i] = State(g)
        /\ \A i \in DOMAIN stash' : i \in DOMAIN stash \/ stash'[i] = State(g)
    <3>1. \A q \in Seq(StateType), st \in StateType :
            LET a == Append(q, st)
            IN  /\ \A i \in DOMAIN q : i \in DOMAIN a /\ a[i] = q[i]
                /\ Len(q) + 1 \in DOMAIN a /\ a[Len(q) + 1] = st
                /\ \A i \in DOMAIN a : i \in DOMAIN q \/ a[i] = st
      OBVIOUS
    <3> QED BY <1>2, <2>2, <2>3, <3>1, ZenonT(40)
  <2>5. node' = node /\ scope' = scope /\ dirty' = dirty /\ cached' = cached /\ local' = local
        /\ collided' = collided
    BY <2>2, Zenon DEF UpstreamUnchanged
  <2>6. ScopeTracked'
    BY <1>3, <2>1, <2>5, Zenon DEF ScopeTracked
  <2>7. ASSUME ~collided PROVE Fresh'
    <3>1. \A i \in DOMAIN stash' : StateOK(stash'[i], dirty, node)
      BY <1>3, <2>3, <2>4, <2>7, Zenon DEF Fresh
    <3>2. \A h : Pending(h, todo, stash) => Pending(h, todo', stash')
      BY <2>2, <2>3, <2>4, Zenon DEF Pending
    <3>3. \A h \in cached \ dirty : ~Pending(h, todo', stash') => Alike(local, node, h)
      BY <1>3, <2>1, <2>7, <3>2, Zenon DEF Fresh
    <3> QED BY <2>5, <3>1, <3>3, Zenon DEF Fresh
  <2> QED BY <2>5, <2>6, <2>7, Zenon DEF Agreement
<1>8. CASE Changed
  <2>1. PICK g \in dirty :
          /\ dirty' = dirty \ {g}
          /\ \/ /\ g \in scope /\ mode' = "apply" /\ stash' = <<State(g)>> /\ again' = FALSE
                /\ UNCHANGED local
             \/ /\ g \notin scope /\ DropAndGc(g) /\ UNCHANGED <<mode, stash, again>>
    BY <1>8, Zenon DEF Changed
  <2>2. /\ mode = "live" /\ scope = cached /\ node' = node /\ scope' = scope /\ cached' = cached
        /\ todo' = todo /\ collided' = collided /\ stash = <<>> /\ todo = {}
    BY <1>2, <1>8, Zenon DEF Changed, UpstreamUnchanged
  <2>3. g \in Group /\ DOMAIN stash = {}
    BY <1>1, <2>2
  <2>4. ScopeTracked'
    BY <2>2, Zenon DEF ScopeTracked
  <2>5. ASSUME ~collided PROVE \A h \in cached \ dirty : Alike(local, node, h)
    BY <1>3, <2>2, <2>3, <2>5, Zenon DEF Fresh, Pending
  <2>6. CASE stash' = <<State(g)>> /\ local' = local
    <3>1. StateOK(State(g), dirty', node) /\ State(g).group = g
      BY <1>1, <2>3, SnapshotOK, StateTyped, Zenon
    <3>2. 1 \in DOMAIN stash' /\ stash'[1] = State(g) /\ \A i \in DOMAIN stash' : i = 1
      BY <2>6, SMTT(30)
    <3>3. \A h \in cached \ dirty' : ~Pending(h, todo', stash') => h \in cached \ dirty
      BY <2>1, <3>1, <3>2, Zenon DEF Pending
    <3>4. ~collided => Fresh'
      BY <2>2, <2>5, <2>6, <3>1, <3>2, <3>3, Zenon DEF Fresh
    <3> QED BY <2>2, <2>4, <3>4, Zenon DEF Agreement
  <2>7. CASE g \notin scope /\ DropAndGc(g) /\ UNCHANGED <<mode, stash, again>>
    <3>1. \A h \in cached \ dirty' : h \in (cached \ dirty) \cap (Group \ {g})
      BY <1>1, <2>1, <2>2, <2>7, Zenon
    <3>2. \A h \in Group \ {g} : Alike(local, node, h) => Alike(local', node, h)
      BY <1>1, <2>3, <2>7, DropAlike, Zenon DEF DropAndGc
    <3>3. ~collided => \A h \in cached \ dirty' : Alike(local', node, h)
      BY <2>5, <3>1, <3>2, Zenon
    <3>4. ~collided => Fresh'
      BY <2>2, <2>3, <2>7, <3>3, Zenon DEF Fresh
    <3> QED BY <2>2, <2>4, <3>4, Zenon DEF Agreement
  <2> QED BY <2>1, <2>6, <2>7, Zenon
<1>9. CASE Apply
  <2>1. /\ mode \in {"resync", "apply"} /\ stash # <<>> /\ local' = Applied(Head(stash))
        /\ (NextState \/ UNCHANGED <<mode, stash>>) /\ Quiet
    BY <1>9, Zenon DEF Apply, ApplyGroupSync, Quiet
  <2>2. ~collided => \A g \in cached \ dirty :
          g = Head(stash).group \/ Alike(local, node, g) => Alike(local', node, g)
    BY <1>1, <1>3, <1>4, <2>1, ApplyAlike, Zenon DEF Fresh
  <2>3. CASE NextState
    BY <1>4, <2>1, <2>2, <2>3, NextAgreement, Zenon
  <2>4. CASE UNCHANGED <<mode, stash>>
    BY <1>4, <2>1, <2>2, <2>4, QuietAgreement, Zenon
  <2> QED BY <2>1, <2>3, <2>4, Zenon
<1>10. CASE Refetch
  <2> DEFINE g == Head(stash).group
             q == <<State(g)>> \o Tail(stash)
  <2>1. /\ again /\ stash' = q /\ UpstreamUnchanged
        /\ UNCHANGED <<dirty, mode, cached, todo, again, local, collided, faults>>
    BY <1>10, Zenon DEF Refetch
  <2>2. stash # <<>> /\ g \in Group /\ g = stash[1].group
    BY <1>2, <1>4, <2>1, Zenon
  <2>3. State(g) \in StateType /\ StateOK(State(g), dirty, node) /\ State(g).group = g
    BY <1>1, <2>2, StateTyped, SnapshotOK, Zenon
  <2>4. /\ DOMAIN q = DOMAIN stash /\ 1 \in DOMAIN stash
        /\ q[1] = State(g)
    BY <1>2, <2>2, <2>3, ReplaceFirst, Zenon
  <2>5. \A i \in DOMAIN q : i # 1 => q[i] = stash[i]
    BY <1>2, <2>2, <2>3, ReplaceFirst, Zenon
  <2>6. node' = node /\ scope' = scope /\ dirty' = dirty /\ cached' = cached /\ local' = local
        /\ collided' = collided /\ todo' = todo /\ mode' = mode
    BY <2>1, Zenon DEF UpstreamUnchanged
  <2> HIDE DEF q, g
  <2>7. ScopeTracked'
    BY <1>3, <2>6, Zenon DEF ScopeTracked
  <2>8. ASSUME ~collided PROVE Fresh'
    <3>1. \A i \in DOMAIN q : StateOK(q[i], dirty, node)
      BY <1>3, <2>3, <2>4, <2>5, <2>8, Zenon DEF Fresh
    <3>2. \A h : Pending(h, todo, stash) => Pending(h, todo, q)
      BY <2>2, <2>3, <2>4, <2>5, Zenon DEF Pending
    <3> QED BY <1>3, <2>1, <2>6, <2>8, <3>1, <3>2, Zenon DEF Fresh
  <2> QED BY <2>6, <2>7, <2>8, Zenon DEF Agreement
<1>11. CASE Denied
  <2>1. /\ mode \in {"resync", "apply"} /\ stash # <<>> /\ Head(stash).group \notin scope
        /\ DropAndGc(Head(stash).group) /\ NextState /\ Quiet
    BY <1>11, Zenon DEF Denied, Quiet
  <2>2. \A g \in cached \ dirty : g \in Group \ {Head(stash).group}
    BY <1>1, <1>3, <1>4, <2>1, Zenon DEF ScopeTracked
  <2>3. \A g \in cached \ dirty :
          g = Head(stash).group \/ Alike(local, node, g) => Alike(local', node, g)
    BY <1>1, <1>4, <2>1, <2>2, DropAlike, Zenon DEF DropAndGc
  <2> QED BY <1>4, <2>1, <2>3, NextAgreement, Zenon
<1>12. CASE DropStale
  <2>1. PICK g \in local.held \ cached : local' = DropGroupLocal(local, g)
    BY <1>12, Zenon DEF DropStale
  <2>2. g \in Group /\ mode # "idle" /\ Quiet /\ stash' = stash
    BY <1>1, <1>12, <2>1, Zenon DEF DropStale, engineVars, Quiet, Tables
  <2>3. \A h \in cached \ dirty : Alike(local, node, h) => Alike(local', node, h)
    BY <1>1, <2>1, <2>2, DropAlike, Zenon
  <2> QED BY <2>2, <2>3, QuietAgreement, Zenon
<1>13. CASE EndResync
  <2>1. mode # "idle" /\ Quiet /\ stash' = stash /\ local' = GcUnreferenced(local)
    BY <1>13, Zenon DEF EndResync, Quiet
  <2>2. \A h \in cached \ dirty : Alike(local, node, h) => Alike(local', node, h)
    BY <1>1, <2>1, GcFacts, Zenon DEF Alike
  <2> QED BY <2>1, <2>2, QuietAgreement, Zenon
<1>14. CASE Lost
  <2>1. mode' = "idle" /\ stash' = <<>>
    BY <1>14, Zenon DEF Lost
  <2>2. DOMAIN stash' = {}
    BY <2>1
  <2> QED BY <2>1, <2>2, Zenon DEF Agreement, ScopeTracked, Fresh
<1>15. CASE Collide
  <2>1. /\ collided' = TRUE /\ mode' = mode /\ dirty' = dirty /\ scope' = scope /\ cached' = cached
    BY <1>15, Zenon DEF Collide, UpstreamUnchanged
  <2> QED BY <1>3, <2>1, Zenon DEF Agreement, ScopeTracked
<1>16. CASE UNCHANGED vars
  <2>1. /\ node' = node /\ local' = local /\ scope' = scope /\ dirty' = dirty /\ cached' = cached
        /\ mode' = mode /\ todo' = todo /\ stash' = stash /\ collided' = collided
    BY <1>16, Zenon DEF vars, engineVars
  <2> QED BY <2>1, Zenon DEF Agreement, ScopeTracked, Fresh
<1> QED BY <1>5, <1>6, <1>7, <1>8, <1>9, <1>10, <1>11, <1>12, <1>13, <1>14, <1>15, <1>16, Zenon
        DEF Next, Engine

\* Tables that agree on a group answer alike for it.
LEMMA AgreeAnswers ==
  ASSUME NEW t \in Tables, NEW n \in Tables, NEW g \in Group, Alike(t, n, g),
         NEW e \in Endpoint, NEW req \in Requests, req.group = g
  PROVE  Answer(t, e, req) = Answer(n, e, req)
<1>1. /\ t.acl[g] = n.acl[g]
      /\ \A d \in Endpoint : n.acl[g][d] # None =>
           /\ t.name[d] = n.name[d] /\ t.name[d] # None /\ g \in t.held
           /\ n.name[d] # None /\ g \in n.held
  BY Zenon DEF Alike, Agree, Tables
<1>2. req.op = "Get" \/ req.op = "GroupAcl"
  BY Zenon DEF Requests
<1> DEFINE Acl(u) == {<<u.name[d], u.acl[g][d]>> : d \in {d \in Endpoint : u.acl[g][d] # None}}
<1>3. Acl(t) = Acl(n)
  <2>1. \A x : x \in Acl(t) <=> x \in Acl(n)
    BY <1>1, Zenon
  <2> QED BY <2>1, Zenon
<1>4. \A u : Answer(u, e, req) =
        CASE u.name[e] = None -> "Denied"
          [] u.name[e] # None /\ req.op = "Get" ->
               IF Authorized(u, e, g, "read") THEN "Ok" ELSE "Denied"
          [] u.name[e] # None /\ req.op = "GroupAcl" ->
               IF Authorized(u, e, g, "admin") THEN Acl(u) ELSE "Denied"
  BY Zenon DEF Answer
<1> HIDE DEF Acl
<1>5. CASE n.acl[g][e] = None
  <2>1. \A bit : ~Authorized(t, e, g, bit) /\ ~Authorized(n, e, g, bit)
    BY <1>1, <1>5, Zenon DEF Authorized
  <2>2. Answer(t, e, req) = "Denied"
    BY <1>2, <1>4, <2>1, SMTT(30)
  <2>3. Answer(n, e, req) = "Denied"
    BY <1>2, <1>4, <2>1, SMTT(30)
  <2> QED BY <2>2, <2>3, Zenon
<1>6. CASE n.acl[g][e] # None
  <2>1. \A bit : Authorized(t, e, g, bit) <=> Authorized(n, e, g, bit)
    BY <1>1, <1>6, Zenon DEF Authorized
  <2>2. t.name[e] # None /\ n.name[e] # None
    BY <1>1, <1>6, Zenon
  <2>3. CASE req.op = "Get"
    BY <1>4, <2>1, <2>2, <2>3, SMTT(30)
  <2>4. CASE req.op = "GroupAcl"
    BY <1>3, <1>4, <2>1, <2>2, <2>4, SMTT(30)
  <2> QED BY <1>2, <2>3, <2>4, Zenon
<1> QED BY <1>5, <1>6, Zenon

\* A mirrored group with no Changed outstanding answers every peer as the
\* authoritative node would: across key replacements, reused and swapped names,
\* interrupted manifests, re-fetches and lost connections, apply_group_sync of one
\* group never disturbs the rows of another that is up to date.
THEOREM MirroredAnswers == Spec => []CleanGroupsAnswerAlike
<1>1. Init => Agreement
  <2> SUFFICES ASSUME Init PROVE Agreement
    OBVIOUS
  <2>1. mode = "idle" /\ DOMAIN stash = {}
    BY DEF Init
  <2> QED BY <2>1, Zenon DEF Agreement, ScopeTracked, Fresh
<1>2. TypeOK /\ Session /\ Agreement /\ [Next]_vars => Agreement'
  BY AgreementInductive, Zenon
<1>3. TypeOK /\ Session /\ Agreement => CleanGroupsAnswerAlike
  <2> SUFFICES ASSUME TypeOK, Session, Agreement, mode = "live", scope = cached, ~collided,
                      NEW g \in scope \ dirty, NEW e \in Endpoint,
                      NEW req \in {r \in Requests : r.group = g}
               PROVE  Answer(local, e, req) = Answer(node, e, req)
    BY Zenon DEF CleanGroupsAnswerAlike
  <2>1. node \in Tables /\ local \in Tables /\ g \in Group
    BY Zenon DEF TypeOK
  <2>2. stash = <<>> /\ todo = {}
    BY Zenon DEF Session
  <2>3. ~Pending(g, todo, stash)
    BY <2>2 DEF Pending
  <2>4. Alike(local, node, g)
    BY <2>3, Zenon DEF Agreement, Fresh
  <2> QED BY <2>1, <2>4, AgreeAnswers, Zenon
<1> QED BY <1>1, <1>2, <1>3, MirrorSession, PTL DEF Spec
=============================================================================
