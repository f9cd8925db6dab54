------------------------- MODULE Idempotweet_proofs -------------------------
(***************************************************************************)
(* Proofs about Idempotweet, for any seed, posts, pages and failures.      *)
(***************************************************************************)
EXTENDS Idempotweet, FiniteSetTheorems, FunctionTheorems, SequenceTheorems,
        WellFoundedInduction, TLAPS

Idems == Posts \cup DOMAIN Seed
Item  == Idems \cup Range(Demo)

\* What follows is about a table, a function to created_at, whatever it is now.

\* Rows as a query may have returned them when these were in the table.
Sorted(rows, known, times) ==
  /\ rows \in [1..Cardinality(known) -> known]
  /\ IsInjective(rows)
  /\ \A i, j \in DOMAIN rows : i < j => times[rows[i]] >= times[rows[j]]

Distinct(times) == \A i, j \in DOMAIN times : i # j => times[i] # times[j]

IsTable(times) ==
  /\ IsFiniteSet(DOMAIN times)
  /\ DOMAIN times \subseteq Idems
  /\ times \in [DOMAIN times -> Nat]

-----------------------------------------------------------------------------
(* The pages of a list of rows.                                            *)

(* A page ends where the next one begins.                                  *)
LEMMA Borders ==
  ASSUME NEW k \in Nat \ {0}
  PROVE  /\ Offset(k) \in Nat /\ End(k) \in Nat
         /\ End(k) = k * PageSize /\ End(k) = Offset(k) + PageSize
         /\ Offset(k + 1) = End(k) /\ Offset(1) = 0
<1>1. PageSize \in Nat
  BY FeedAssumption
<1>2. k - 1 \in Nat /\ (k - 1) * PageSize \in Nat /\ (k - 1) * PageSize + PageSize = k * PageSize
  BY <1>1
<1>3. (k + 1) - 1 = k /\ (1 - 1) * PageSize = 0
  BY <1>1
<1> QED
  BY <1>1, <1>2, <1>3 DEF Offset, End

(* Later pages begin later.                                                *)
LEMMA BordersGrow ==
  ASSUME NEW k \in Nat \ {0}, NEW l \in Nat, k < l
  PROVE  End(k) <= Offset(l)
<1>1. PageSize \in Nat /\ l - 1 \in Nat /\ k <= l - 1
  BY FeedAssumption
<1>2. \A a, b, c \in Nat : a <= b => a * c <= b * c
  OBVIOUS
<1>3. k * PageSize <= (l - 1) * PageSize
  BY <1>1, <1>2
<1>4. End(k) = k * PageSize
  BY Borders
<1> QED
  BY <1>3, <1>4, Zenon DEF Offset

(* Min of two.                                                             *)
LEMMA TheSmaller ==
  ASSUME NEW a \in Int, NEW b \in Int
  PROVE  Min({a, b}) = IF a <= b THEN a ELSE b
<1> DEFINE m == IF a <= b THEN a ELSE b
<1>1. m \in {a, b} /\ \A y \in {a, b} : m <= y
  OBVIOUS
<1>2. \A x \in {a, b} : (\A y \in {a, b} : x <= y) => x = m
  OBVIOUS
<1> QED
  BY <1>1, <1>2 DEF Min

(* A slice is what stands between the borders of its page.                 *)
LEMMA SliceIsAPage ==
  ASSUME NEW S, NEW rows \in Seq(S), NEW k \in Nat \ {0}
  PROVE  LET s == Slice(rows, k) IN
         /\ s \in Seq(S) /\ Len(s) <= PageSize
         /\ \A i \in 1..Len(rows) : Offset(k) < i /\ i <= End(k) => rows[i] \in Range(s)
         /\ \A r \in Range(s) : \E i \in 1..Len(rows) : Offset(k) < i /\ i <= End(k) /\ r = rows[i]
<1> DEFINE m == Offset(k) + 1
           n == IF End(k) <= Len(rows) THEN End(k) ELSE Len(rows)
           s == Slice(rows, k)
<1>1. m \in Nat /\ n \in Nat /\ m >= 1 /\ Len(rows) \in Nat /\ PageSize \in Nat
      /\ End(k) \in Nat /\ Offset(k) \in Nat /\ End(k) = Offset(k) + PageSize
  <2>1. End(k) \in Nat /\ Offset(k) \in Nat /\ End(k) = Offset(k) + PageSize
    BY Borders
  <2>2. Len(rows) \in Nat /\ PageSize \in Nat
    BY FeedAssumption
  <2> QED
    BY <2>1, <2>2
<1>2. s = SubSeq(rows, m, n)
  <2>1. Min({End(k), Len(rows)}) = n
    BY <1>1, TheSmaller
  <2> QED
    BY <2>1 DEF Slice
<1>3. \A i \in m..n : i \in 1..Len(rows) /\ rows[i] \in S
  BY <1>1
<1> HIDE DEF m, n, s
<1>4. /\ s \in Seq(S) /\ Len(s) = (IF m <= n THEN n - m + 1 ELSE 0)
      /\ \A i \in 1..n - m + 1 : s[i] = rows[m + i - 1]
  BY <1>1, <1>2, <1>3, SubSeqProperties
<1>5. DOMAIN s = 1..n - m + 1
  BY <1>1, <1>4
<1>6. Len(s) <= PageSize
  BY <1>1, <1>4 DEF m, n
<1>7. ASSUME NEW i \in 1..Len(rows), Offset(k) < i, i <= End(k)
      PROVE  rows[i] \in Range(s)
  <2>1. i - m + 1 \in 1..n - m + 1 /\ m + (i - m + 1) - 1 = i
    BY <1>1, <1>7 DEF m, n
  <2>2. s[i - m + 1] = rows[i]
    BY <1>4, <2>1
  <2> QED
    BY <1>5, <2>1, <2>2 DEF Range
<1>8. ASSUME NEW r \in Range(s)
      PROVE  \E i \in 1..Len(rows) : Offset(k) < i /\ i <= End(k) /\ r = rows[i]
  <2>1. PICK j \in 1..n - m + 1 : r = s[j]
    BY <1>5, <1>8 DEF Range
  <2>2. m + j - 1 \in m..n /\ r = rows[m + j - 1]
    BY <1>1, <1>4, <2>1
  <2>3. Offset(k) < m + j - 1 /\ m + j - 1 <= End(k)
    BY <1>1, <2>2 DEF m, n
  <2> QED
    BY <1>3, <2>2, <2>3
<1> QED
  BY <1>4, <1>6, <1>7, <1>8 DEF s

(* Each row has its place.                                                 *)
LEMMA EachHasItsPlace ==
  ASSUME NEW times, NEW known, IsFiniteSet(known), NEW rows, Sorted(rows, known, times)
  PROVE  /\ Cardinality(known) \in Nat
         /\ rows \in Seq(known) /\ Len(rows) = Cardinality(known)
         /\ DOMAIN rows = 1..Cardinality(known)
         /\ \A r \in known : \E i \in 1..Cardinality(known) : rows[i] = r
<1> DEFINE n == Cardinality(known)
<1>1. n \in Nat
  BY FS_CardinalityType
<1>2. rows \in [1..n -> known] /\ \A i, j \in 1..n : rows[i] = rows[j] => i = j
  BY DEF Sorted, IsInjective
<1>3. rows \in Injection(1..n, known)
  BY <1>2, Fun_IsInj
<1>4. Cardinality(1..n) = n /\ IsFiniteSet(1..n)
  BY <1>1, FS_Interval
<1>5. rows \in Surjection(1..n, known)
  BY <1>3, <1>4, FS_Injection
<1>6. \A r \in known : \E i \in 1..n : rows[i] = r
  BY <1>5 DEF Surjection
<1>7. rows \in Seq(known) /\ Len(rows) = n
  BY <1>1, <1>2, SeqDef, LenProperties
<1> QED
  BY <1>1, <1>2, <1>6, <1>7

(* A row never moves up: what is inserted comes before it or after it.     *)
LEMMA NeverUp ==
  ASSUME NEW times, IsTable(times), Distinct(times),
         NEW new, new \subseteq DOMAIN times, NEW old, old \subseteq new,
         NEW f, Sorted(f, old, times), NEW g, Sorted(g, new, times),
         NEW i \in 1..Cardinality(old), NEW j \in 1..Cardinality(new), f[i] = g[j]
  PROVE  i <= j
<1>1. IsFiniteSet(old) /\ IsFiniteSet(new)
  BY FS_Subset DEF IsTable
<1> DEFINE N == Cardinality(new)
           h == [a \in 1..i - 1 |-> CHOOSE b \in 1..N : g[b] = f[a]]
<1>2. ASSUME NEW a \in 1..i - 1
      PROVE  a \in DOMAIN f /\ f[a] \in new /\ h[a] \in 1..N /\ g[h[a]] = f[a]
  <2>1. a \in 1..Cardinality(old)
    <3>1. Cardinality(old) \in Nat
      BY <1>1, FS_CardinalityType
    <3> QED
      BY <3>1
  <2>2. f[a] \in new /\ a \in DOMAIN f
    BY <2>1 DEF Sorted
  <2>3. \E b \in 1..N : g[b] = f[a]
    BY <1>1, <2>2, EachHasItsPlace
  <2> QED
    BY <2>2, <2>3
<1>3. ASSUME NEW a \in 1..i - 1
      PROVE  h[a] < j
  <2>1. DOMAIN f = 1..Cardinality(old) /\ DOMAIN g = 1..N /\ a < i /\ i \in DOMAIN f
    <3>1. Cardinality(old) \in Nat /\ DOMAIN f = 1..Cardinality(old) /\ DOMAIN g = 1..N
      BY <1>1, EachHasItsPlace
    <3> QED
      BY <3>1
  <2>2. f[a] # f[i] /\ times[f[a]] >= times[f[i]]
    BY <1>2, <2>1 DEF Sorted, IsInjective
  <2>3. f[a] \in DOMAIN times /\ f[i] \in DOMAIN times /\ times[f[a]] # times[f[i]]
    BY <1>2, <2>1, <2>2 DEF Sorted, Distinct
  <2>4. times[f[a]] \in Nat /\ times[f[i]] \in Nat
    BY <2>3 DEF IsTable
  <2>5. ~(j < h[a])
    <3>1. j < h[a] => times[g[j]] >= times[g[h[a]]]
      BY <1>2, <2>1 DEF Sorted
    <3> HIDE DEF h
    <3> QED
      BY <1>2, <2>2, <2>3, <2>4, <3>1
  <2>6. h[a] # j
    BY <1>2, <2>2
  <2> HIDE DEF h
  <2> QED
    BY <1>2, <2>5, <2>6
<1>4. h \in Injection(1..i - 1, 1..j - 1)
  <2>1. \A a \in 1..i - 1 : h[a] \in 1..j - 1
    <3>1. N \in Nat
      BY <1>1, FS_CardinalityType
    <3> HIDE DEF h
    <3> QED
      BY <1>2, <1>3, <3>1
  <2>2. \A a, b \in 1..i - 1 : h[a] = h[b] => a = b
    <3> SUFFICES ASSUME NEW a \in 1..i - 1, NEW b \in 1..i - 1, h[a] = h[b] PROVE a = b
      OBVIOUS
    <3>1. f[a] = f[b] /\ a \in DOMAIN f /\ b \in DOMAIN f
      BY <1>2
    <3> QED
      BY <3>1 DEF Sorted, IsInjective
  <2> QED
    BY <2>1, <2>2, Fun_IsInj
<1>5. Cardinality(1..i - 1) <= Cardinality(1..j - 1)
  <2>1. IsFiniteSet(1..j - 1)
    <3>1. N \in Nat
      BY <1>1, FS_CardinalityType
    <3>2. j - 1 \in Int /\ 1 \in Int
      BY <3>1
    <3> QED
      BY <3>2, FS_Interval
  <2> HIDE DEF h
  <2> QED
    BY <1>4, <2>1, FS_Injection
<1>6. Cardinality(1..i - 1) = i - 1 /\ Cardinality(1..j - 1) = j - 1
  <2>1. \A a \in Nat \ {0} : Cardinality(1..a - 1) = a - 1
    BY FS_Interval
  <2> QED
    BY <2>1
<1> QED
  BY <1>5, <1>6

-----------------------------------------------------------------------------
(* The pages of a feed.                                                    *)

Page == [items : Seq(Item), nextPage : Nat, demoMode : BOOLEAN, known : SUBSET Idems, count : Nat]

Window(times, seeded) == IF seeded THEN DOMAIN times ELSE DOMAIN times \ DOMAIN Seed

\* Rows that were read of a table which has grown since.
IsRead(items, known, page, times, seeded) ==
  /\ known \subseteq Window(times, seeded)
  /\ \E rows \in Seq(known) : Sorted(rows, known, times) /\ items = Slice(rows, page)

IsPage(p, k, times, seeded) ==
  /\ Len(p.items) <= PageSize
  /\ p.nextPage \in {0, k + 1}
  /\ ~p.demoMode => /\ p.nextPage = NextPage(k, p.count)
                    /\ IsRead(p.items, p.known, k, times, seeded)

\* Each page was read of the table as the one before it had seen it, or later.
IsFeed(list, times, seeded) ==
  /\ list \in Seq(Page)
  /\ \A k \in DOMAIN list : IsPage(list[k], k, times, seeded)
  /\ \A k, l \in DOMAIN list :
       k < l /\ ~list[k].demoMode /\ ~list[l].demoMode => list[k].known \subseteq list[l].known

(* A page that was read shows what of its list falls on it.                *)
LEMMA WhatAPageShows ==
  ASSUME NEW times, IsTable(times), NEW seeded,
         NEW items, NEW known, NEW k \in Nat \ {0}, IsRead(items, known, k, times, seeded)
  PROVE  /\ known \subseteq DOMAIN times /\ IsFiniteSet(known) /\ Cardinality(known) \in Nat
         /\ \E rows :
              /\ Sorted(rows, known, times)
              /\ \A r \in known : \E i \in 1..Cardinality(known) : rows[i] = r
              /\ \A i \in 1..Cardinality(known) :
                   Offset(k) < i /\ i <= End(k) => rows[i] \in Range(items)
              /\ \A r \in Range(items) : \E i \in 1..Cardinality(known) :
                   Offset(k) < i /\ i <= End(k) /\ r = rows[i]
<1>1. known \subseteq DOMAIN times /\ IsFiniteSet(known)
  BY FS_Subset DEF IsRead, Window, IsTable
<1>2. PICK rows \in Seq(known) : Sorted(rows, known, times) /\ items = Slice(rows, k)
  BY DEF IsRead
<1>3. /\ Cardinality(known) \in Nat /\ Len(rows) = Cardinality(known)
      /\ \A r \in known : \E i \in 1..Cardinality(known) : rows[i] = r
  BY <1>1, <1>2, EachHasItsPlace
<1>4. \A i \in 1..Len(rows) : Offset(k) < i /\ i <= End(k) => rows[i] \in Range(items)
  BY <1>2, SliceIsAPage
<1>5. \A r \in Range(items) : \E i \in 1..Len(rows) : Offset(k) < i /\ i <= End(k) /\ r = rows[i]
  BY <1>2, SliceIsAPage
<1> QED
  BY <1>1, <1>2, <1>3, <1>4, <1>5

(* At the end of the feed every row of its first page has been passed.     *)
LEMMA EndIsTheEnd ==
  ASSUME NEW times, IsTable(times), Distinct(times), NEW seeded,
         NEW list, IsFeed(list, times, seeded), list # <<>>, list[Len(list)].nextPage = 0,
         \A k \in DOMAIN list : ~list[k].demoMode /\ list[k].count = Cardinality(list[k].known)
  PROVE  \A r \in list[1].known : \E k \in DOMAIN list : r \in Range(list[k].items)
<1> SUFFICES ASSUME NEW r \in list[1].known
             PROVE  \E k \in DOMAIN list : r \in Range(list[k].items)
  OBVIOUS
<1> DEFINE n == Len(list)
           K(k) == list[k].known
           I(k) == Range(list[k].items)
<1>1. n \in Nat \ {0} /\ DOMAIN list = 1..n
  BY DEF IsFeed
<1>2. ASSUME NEW k \in 1..n
      PROVE  r \in K(k)
  BY <1>1, <1>2 DEF IsFeed
<1>3. ASSUME NEW k \in 1..n
      PROVE  /\ K(k) \subseteq DOMAIN times /\ Cardinality(K(k)) \in Nat
             /\ \E rows :
                  /\ Sorted(rows, K(k), times)
                  /\ \A q \in K(k) : \E i \in 1..Cardinality(K(k)) : rows[i] = q
                  /\ \A i \in 1..Cardinality(K(k)) :
                       Offset(k) < i /\ i <= End(k) => rows[i] \in I(k)
  <2>1. IsRead(list[k].items, K(k), k, times, seeded) /\ k \in Nat \ {0}
    BY <1>1, <1>3 DEF IsFeed, IsPage
  <2> QED
    BY <2>1, WhatAPageShows
<1>4. ASSUME NEW k \in 1..n, NEW l \in 1..n, k < l
      PROVE  K(k) \subseteq K(l)
  BY <1>1, <1>4 DEF IsFeed
<1>5. Cardinality(K(n)) <= End(n)
  <2>1. list[n].nextPage = NextPage(n, Cardinality(K(n))) /\ n \in 1..n
    BY <1>1 DEF IsFeed, IsPage
  <2>2. ~(n * PageSize < Cardinality(K(n)))
    BY <1>1, <2>1 DEF NextPage, HasMore
  <2>3. Cardinality(K(n)) \in Nat
    BY <1>3, <2>1
  <2>4. n * PageSize = End(n) /\ End(n) \in Nat
    BY <1>1, Borders
  <2> HIDE DEF n, K
  <2> QED
    BY <2>2, <2>3, <2>4
<1> HIDE DEF n, K, I
<1> DEFINE rowsOf == [k \in 1..n |-> CHOOSE rows :
                        /\ Sorted(rows, K(k), times)
                        /\ \A q \in K(k) : \E i \in 1..Cardinality(K(k)) : rows[i] = q
                        /\ \A i \in 1..Cardinality(K(k)) :
                             Offset(k) < i /\ i <= End(k) => rows[i] \in I(k)]
           place == [k \in 1..n |-> CHOOSE i \in 1..Cardinality(K(k)) : rowsOf[k][i] = r]
<1>6. ASSUME NEW k \in 1..n
      PROVE  /\ Sorted(rowsOf[k], K(k), times)
             /\ \A q \in K(k) : \E i \in 1..Cardinality(K(k)) : rowsOf[k][i] = q
             /\ \A i \in 1..Cardinality(K(k)) :
                  Offset(k) < i /\ i <= End(k) => rowsOf[k][i] \in I(k)
  BY <1>3
<1> HIDE DEF rowsOf
<1>7. ASSUME NEW k \in 1..n
      PROVE  place[k] \in 1..Cardinality(K(k)) /\ rowsOf[k][place[k]] = r
  BY <1>2, <1>6
<1> HIDE DEF place
<1>8. ASSUME NEW k \in 1..n
      PROVE  place[k] \in Nat /\ place[k] >= 1 /\ End(k) \in Nat /\ Offset(k) \in Nat
             /\ place[k] <= Cardinality(K(k)) /\ Cardinality(K(k)) \in Nat
  <2>1. Cardinality(K(k)) \in Nat /\ k \in Nat \ {0}
    BY <1>1, <1>3
  <2>2. place[k] \in Nat /\ place[k] >= 1 /\ place[k] <= Cardinality(K(k))
    BY <1>7, <2>1
  <2>3. End(k) \in Nat /\ Offset(k) \in Nat
    BY <2>1, Borders
  <2> QED
    BY <2>1, <2>2, <2>3
\* The last page ends after it ...
<1>9. n \in 1..n /\ place[n] <= End(n)
  BY <1>1, <1>5, <1>8
\* ... so there is a first page to do so,
<1>10. PICK k \in 1..n : place[k] <= End(k) /\ \A l \in 1..n : l < k => ~(place[l] <= End(l))
  <2> DEFINE ends == {k \in 1..n : place[k] <= End(k)}
  <2>1. ends # {} /\ ends \subseteq Nat
    BY <1>1, <1>9
  <2>2. PICK k \in ends : \A l \in ends : ~(<<l, k>> \in OpToRel(<, Nat))
    BY <2>1, NatLessThanWellFounded, WFMin
  <2>3. \A l \in ends : ~(l < k)
    BY <2>1, <2>2, Zenon DEF OpToRel
  <2> QED
    BY <2>3
\* ... and it begins before it.
<1>11. Offset(k) < place[k]
  <2>1. CASE k = 1
    <3>1. Offset(1) = 0
      BY Borders
    <3> QED
      BY <1>8, <2>1, <3>1
  <2>2. CASE k # 1
    <3>1. k - 1 \in 1..n /\ k - 1 < k /\ k - 1 \in Nat \ {0} /\ (k - 1) + 1 = k
      BY <1>1, <2>2
    <3> DEFINE before == k - 1
    <3>2. ~(place[before] <= End(before))
      BY <1>10, <3>1
    <3> HIDE DEF before
    <3>3. before \in 1..n /\ before < k /\ before \in Nat \ {0} /\ before + 1 = k
      BY <3>1 DEF before
    <3>4. place[before] <= place[k]
      <4>1. K(k) \subseteq DOMAIN times /\ K(before) \subseteq K(k)
        BY <1>3, <1>4, <3>3
      <4>2. Sorted(rowsOf[before], K(before), times) /\ Sorted(rowsOf[k], K(k), times)
        BY <1>6, <3>3
      <4>3. /\ place[before] \in 1..Cardinality(K(before)) /\ place[k] \in 1..Cardinality(K(k))
            /\ rowsOf[before][place[before]] = rowsOf[k][place[k]]
        BY <1>7, <3>3
      <4> QED
        BY <4>1, <4>2, <4>3, NeverUp
    <3>5. Offset(k) = End(before)
      BY <3>3, Borders
    <3> QED
      BY <1>8, <3>2, <3>3, <3>4, <3>5
  <2> QED
    BY <2>1, <2>2
<1>12. r \in I(k)
  BY <1>6, <1>7, <1>10, <1>11
<1> QED
  BY <1>1, <1>12 DEF I, n

(* Two pages of the same table have nothing in common.                     *)
LEMMA PagesAreApart ==
  ASSUME NEW times, IsTable(times), Distinct(times), NEW seeded, NEW known,
         NEW k \in Nat \ {0}, NEW l \in Nat \ {0}, k < l,
         NEW mine, IsRead(mine, known, k, times, seeded),
         NEW yours, IsRead(yours, known, l, times, seeded)
  PROVE  Range(mine) \cap Range(yours) = {}
<1> SUFFICES ASSUME NEW r \in Range(mine), r \in Range(yours) PROVE FALSE
  OBVIOUS
<1>1. known \subseteq DOMAIN times /\ Cardinality(known) \in Nat
  BY WhatAPageShows
<1>2. PICK f : /\ Sorted(f, known, times)
               /\ \A q \in Range(mine) : \E i \in 1..Cardinality(known) :
                    Offset(k) < i /\ i <= End(k) /\ q = f[i]
  BY WhatAPageShows
<1>3. PICK g : /\ Sorted(g, known, times)
               /\ \A q \in Range(yours) : \E i \in 1..Cardinality(known) :
                    Offset(l) < i /\ i <= End(l) /\ q = g[i]
  BY WhatAPageShows
<1>4. PICK i \in 1..Cardinality(known) : i <= End(k) /\ r = f[i]
  BY <1>2
<1>5. PICK j \in 1..Cardinality(known) : Offset(l) < j /\ r = g[j]
  BY <1>3
<1>6. j <= i
  <2>1. g[j] = f[i] /\ known \subseteq known
    BY <1>4, <1>5
  <2> QED
    BY <1>1, <1>2, <1>3, <2>1, NeverUp
<1>7. End(k) <= Offset(l) /\ End(k) \in Nat /\ Offset(l) \in Nat
  BY Borders, BordersGrow
<1> QED
  BY <1>1, <1>4, <1>5, <1>6, <1>7

-----------------------------------------------------------------------------
(* The table grows, and a feed stays one.                                  *)

Request == [of : {"next", "all"}, page : Nat, done : Seq(Page), want : Nat,
            items : Seq(Item) \cup {Unread}, known : SUBSET Idems, count : Nat \cup {Unread}]

\* The rows were read after those of the pages before them.
IsRequest(req, times, seeded) ==
  /\ req \in Request
  /\ IsFeed(req.done, times, seeded)
  /\ req.page = Len(req.done) + 1
  /\ req.items # Unread =>
       /\ Len(req.items) <= PageSize
       /\ IsRead(req.items, req.known, req.page, times, seeded)
       /\ \A k \in DOMAIN req.done : ~req.done[k].demoMode => req.done[k].known \subseteq req.known

(* What was read of a table was read of it as it is later.                 *)
LEMMA GrowingKeepsPages ==
  ASSUME NEW old, NEW new, DOMAIN old \subseteq DOMAIN new, \A i \in DOMAIN old : new[i] = old[i],
         NEW seeded, NEW items, NEW known, NEW page, IsRead(items, known, page, old, seeded)
  PROVE  IsRead(items, known, page, new, seeded)
<1>1. known \subseteq DOMAIN old /\ known \subseteq Window(new, seeded)
  BY DEF IsRead, Window
<1>2. PICK rows \in Seq(known) : Sorted(rows, known, old) /\ items = Slice(rows, page)
  BY DEF IsRead
<1>3. \A i \in DOMAIN rows : rows[i] \in DOMAIN old
  BY <1>1, <1>2
<1>4. Sorted(rows, known, new)
  BY <1>2, <1>3 DEF Sorted
<1> QED
  BY <1>1, <1>2, <1>4 DEF IsRead

(* So a feed of the table stays one ...                                    *)
LEMMA GrowingKeepsFeeds ==
  ASSUME NEW old, NEW new, DOMAIN old \subseteq DOMAIN new, \A i \in DOMAIN old : new[i] = old[i],
         NEW seeded, NEW list, IsFeed(list, old, seeded)
  PROVE  IsFeed(list, new, seeded)
<1>1. ASSUME NEW k \in DOMAIN list
      PROVE  IsPage(list[k], k, new, seeded)
  <2>1. IsPage(list[k], k, old, seeded)
    BY DEF IsFeed
  <2> QED
    BY <2>1, GrowingKeepsPages DEF IsPage
<1> QED
  BY <1>1 DEF IsFeed

(* ... and so does one that is being fetched.                              *)
LEMMA GrowingKeepsRequests ==
  ASSUME NEW old, NEW new, DOMAIN old \subseteq DOMAIN new, \A i \in DOMAIN old : new[i] = old[i],
         NEW seeded, NEW req, IsRequest(req, old, seeded)
  PROVE  IsRequest(req, new, seeded)
<1>1. IsFeed(req.done, new, seeded)
  BY GrowingKeepsFeeds DEF IsRequest
<1>2. req.items # Unread => IsRead(req.items, req.known, req.page, new, seeded)
  BY GrowingKeepsPages DEF IsRequest
<1> QED
  BY <1>1, <1>2 DEF IsRequest

(* A feed begins empty.                                                    *)
LEMMA EmptyIsAFeed ==
  ASSUME NEW times, NEW seeded
  PROVE  IsFeed(<<>>, times, seeded) /\ Len(<<>>) = 0
<1>1. <<>> \in Seq(Page) /\ Len(<<>>) = 0 /\ DOMAIN <<>> = {}
  OBVIOUS
<1> QED
  BY <1>1 DEF IsFeed

(* What is asked for next is the page after those there are.               *)
LEMMA FetchIsARequest ==
  ASSUME NEW times, NEW seeded, NEW of \in {"next", "all"}, NEW page, NEW want \in Nat,
         NEW done, IsFeed(done, times, seeded), page = Len(done) + 1
  PROVE  IsRequest([of |-> of, page |-> page, done |-> done, want |-> want,
                    items |-> Unread, known |-> {}, count |-> Unread], times, seeded)
<1>1. page \in Nat /\ done \in Seq(Page)
  BY DEF IsFeed
<1> QED
  BY <1>1 DEF IsRequest, Request

(* A page that fits makes a feed longer.                                   *)
LEMMA OnePageMore ==
  ASSUME NEW times, NEW seeded, NEW done, IsFeed(done, times, seeded),
         NEW p \in Page, IsPage(p, Len(done) + 1, times, seeded),
         ~p.demoMode => \A k \in DOMAIN done : ~done[k].demoMode => done[k].known \subseteq p.known
  PROVE  /\ IsFeed(Append(done, p), times, seeded)
         /\ p.nextPage # 0 => p.nextPage = Len(Append(done, p)) + 1
<1> DEFINE list == Append(done, p)
           n == Len(done)
<1>1. /\ n \in Nat /\ DOMAIN done = 1..n
      /\ list \in Seq(Page) /\ Len(list) = n + 1 /\ DOMAIN list = 1..n + 1
      /\ list[n + 1] = p /\ \A k \in 1..n : list[k] = done[k]
  BY DEF IsFeed
<1> HIDE DEF list
<1>2. ASSUME NEW k \in DOMAIN list
      PROVE  IsPage(list[k], k, times, seeded)
  <2>1. CASE k = n + 1
    BY <1>1, <2>1
  <2>2. CASE k \in 1..n
    BY <1>1, <2>2 DEF IsFeed
  <2> QED
    BY <1>1, <2>1, <2>2
<1>3. ASSUME NEW k \in DOMAIN list, NEW l \in DOMAIN list, k < l,
             ~list[k].demoMode, ~list[l].demoMode
      PROVE  list[k].known \subseteq list[l].known
  <2>1. CASE l = n + 1
    <3>1. k \in 1..n
      BY <1>1, <1>3, <2>1
    <3> QED
      BY <1>1, <1>3, <2>1, <3>1
  <2>2. CASE l \in 1..n
    <3>1. k \in 1..n
      BY <1>1, <1>3, <2>2
    <3> QED
      BY <1>1, <1>3, <2>2, <3>1 DEF IsFeed
  <2> QED
    BY <1>1, <2>1, <2>2
<1>4. IsFeed(list, times, seeded)
  BY <1>1, <1>2, <1>3 DEF IsFeed
<1>5. p.nextPage # 0 => p.nextPage = Len(list) + 1
  BY <1>1 DEF IsPage
<1> QED
  BY <1>4, <1>5 DEF list

(* A refetch wants a number of pages.                                      *)
LEMMA TheLarger ==
  ASSUME NEW a \in Nat
  PROVE  Max({a, 1}) \in Nat
<1> DEFINE m == IF a >= 1 THEN a ELSE 1
<1>1. m \in {a, 1} /\ (\A y \in {a, 1} : m >= y) /\ m \in Nat
  OBVIOUS
<1>2. \A x \in {a, 1} : (\A y \in {a, 1} : x >= y) => x = m
  OBVIOUS
<1> QED
  BY <1>1, <1>2 DEF Max

(* A sequence over some is one over more.                                  *)
LEMMA SeqGrows ==
  ASSUME NEW A, NEW B, A \subseteq B, NEW s \in Seq(A)
  PROVE  s \in Seq(B)
OBVIOUS

-----------------------------------------------------------------------------
(* The invariant.                                                          *)

FeedInv ==
  /\ includeSeeded \in BOOLEAN /\ error \in BOOLEAN
  /\ IsFeed(pages, stored, includeSeeded)
  /\ request = Idle \/ IsRequest(request, stored, includeSeeded)

IInv ==
  /\ PublisherTypeOK
  /\ IsFiniteSet(DOMAIN stored)
  /\ FeedInv
  /\ fired \subseteq Mine

(* The database is a table.                                                *)
LEMMA ThereIsATable == IInv => IsTable(stored)
BY DEF IInv, PublisherTypeOK, IsTable, Idems

(* Nothing has been posted, and nothing is shown.                          *)
LEMMA InitHolds == Init => IInv
<1> SUFFICES ASSUME Init PROVE IInv
  OBVIOUS
<1>1. PICK inserted \in SUBSET DOMAIN Seed : stored = [i \in inserted |-> Seed[i]]
  BY DEF Init, PublisherInit, TableInit
<1>2. IsFiniteSet(DOMAIN stored) /\ DOMAIN stored \subseteq DOMAIN Seed
      /\ stored \in [DOMAIN stored -> Nat]
  BY <1>1, SeedAssumption, FS_Subset
<1>3. PublisherTypeOK
  BY <1>2, IdemAssumption DEF Init, PublisherInit, TableInit, PublisherTypeOK
<1>4. FeedInv
  BY EmptyIsAFeed DEF Init, FeedInit, FeedInv
<1> QED
  BY <1>2, <1>3, <1>4 DEF Init, IInv

-----------------------------------------------------------------------------
(* What the feed does.                                                     *)

(* Nothing of it happens to the table.                                     *)
LEMMA FetchKeepsIt ==
  ASSUME IInv, UNCHANGED <<stored, includeSeeded, pages>>, error' \in BOOLEAN,
         NEW of \in {"next", "all"}, NEW page, NEW want \in Nat,
         NEW done, IsFeed(done, stored, includeSeeded), page = Len(done) + 1,
         Fetch(of, page, done, want)
  PROVE  FeedInv'
<1>1. IsRequest(request', stored, includeSeeded)
  BY FetchIsARequest DEF Fetch
<1> QED
  BY <1>1 DEF IInv, FeedInv

(* The first load asks for the first page.                                 *)
LEMMA LoadKeepsIt ==
  ASSUME IInv, Load
  PROVE  FeedInv'
<1>1. IsFeed(<<>>, stored, includeSeeded) /\ 1 = Len(<<>>) + 1 /\ error' \in BOOLEAN
  BY EmptyIsAFeed DEF IInv, FeedInv, Load
<1> QED
  BY <1>1, FetchKeepsIt DEF Load, table

(* Scrolling asks for the page after the last.                             *)
LEMMA ScrollKeepsIt ==
  ASSUME IInv, Scroll
  PROVE  FeedInv'
<1>0. pages # <<>> /\ Last(pages).nextPage # 0
  BY DEF Scroll, Screen
<1>1. IsFeed(pages, stored, includeSeeded) /\ error' \in BOOLEAN
  BY DEF IInv, FeedInv, Scroll
<1>2. Len(pages) \in Nat \ {0} /\ Last(pages) = pages[Len(pages)] /\ Len(pages) \in DOMAIN pages
  BY <1>0, <1>1 DEF IsFeed, Last
<1>3. Last(pages).nextPage = Len(pages) + 1
  BY <1>0, <1>1, <1>2 DEF IsFeed, IsPage
<1>4. Len(pages) + 1 \in Nat
  BY <1>2
<1> QED
  BY <1>1, <1>3, <1>4, FetchKeepsIt DEF Scroll, table

(* A refetch begins again at the first page.                               *)
LEMMA FetchAllKeepsIt ==
  ASSUME IInv, FetchAll, UNCHANGED <<stored, includeSeeded, pages, error>>
  PROVE  FeedInv'
<1>1. IsFeed(<<>>, stored, includeSeeded) /\ 1 = Len(<<>>) + 1 /\ error' \in BOOLEAN
  BY EmptyIsAFeed DEF IInv, FeedInv
<1>2. Max({Len(pages), 1}) \in Nat
  BY TheLarger DEF IInv, FeedInv, IsFeed
<1> QED
  BY <1>1, <1>2, FetchKeepsIt DEF FetchAll

(* So does the button of the error.                                        *)
LEMMA RetryKeepsIt ==
  ASSUME IInv, Retry
  PROVE  FeedInv'
BY FetchAllKeepsIt DEF Retry, table

(* So does the form's timer, unless the first page is on its way.          *)
LEMMA InvalidateKeepsIt ==
  ASSUME IInv, Invalidate
  PROVE  FeedInv'
<1>1. CASE FetchAll
  BY <1>1, FetchAllKeepsIt DEF Invalidate, table
<1>2. CASE UNCHANGED request
  BY <1>2 DEF Invalidate, IInv, FeedInv, table
<1> QED
  BY <1>1, <1>2 DEF Invalidate

(* What is under way is a request of the feed.                             *)
LEMMA UnderWay ==
  ASSUME IInv, request # Idle
  PROVE  /\ IsRequest(request, stored, includeSeeded)
         /\ request.page \in Nat \ {0} /\ request.page = Len(request.done) + 1
         /\ request.want \in Nat /\ request.of \in {"next", "all"}
         /\ IsFeed(request.done, stored, includeSeeded)
<1>1. IsRequest(request, stored, includeSeeded)
  BY DEF IInv, FeedInv
<1>2. Len(request.done) \in Nat
  BY <1>1 DEF IsRequest, IsFeed
<1> QED
  BY <1>1, <1>2 DEF IsRequest, Request

(* The rows are those of the table as it is, which has grown.              *)
LEMMA ReadRowsKeepsIt ==
  ASSUME IInv, ReadRows
  PROVE  FeedInv'
<1> DEFINE visible == Visible(includeSeeded)
           k == request.page
<1>1. /\ IsRequest(request, stored, includeSeeded) /\ k \in Nat \ {0}
      /\ k = Len(request.done) + 1 /\ IsFeed(request.done, stored, includeSeeded)
  BY UnderWay DEF ReadRows
<1>2. visible = Window(stored, includeSeeded) /\ visible \subseteq Idems /\ IsFiniteSet(visible)
      /\ visible \subseteq Item
  BY FS_Subset, ThereIsATable DEF Visible, Window, IsTable, IInv, Item
<1>3. PICK rows \in Rows(includeSeeded) :
        request' = [request EXCEPT !.items = Slice(rows, k), !.known = visible]
  BY DEF ReadRows
<1> DEFINE items == Slice(rows, k)
<1>4. Sorted(rows, visible, stored)
  BY <1>3 DEF Rows, Sorted
<1>5. rows \in Seq(visible)
  BY <1>2, <1>4, EachHasItsPlace
<1> HIDE DEF visible
<1>6. items \in Seq(visible) /\ Len(items) <= PageSize
  BY <1>1, <1>5, SliceIsAPage
<1>7. items \in Seq(Item)
  BY <1>2, <1>6, SeqGrows
<1>8. IsRead(items, visible, k, stored, includeSeeded)
  BY <1>2, <1>4, <1>5 DEF IsRead
<1>9. ASSUME NEW l \in DOMAIN request.done, ~request.done[l].demoMode
      PROVE  request.done[l].known \subseteq visible
  BY <1>1, <1>2, <1>9 DEF IsFeed, IsPage, IsRead
<1> HIDE DEF items
<1>10. /\ request' \in Request /\ request'.done = request.done /\ request'.page = k
       /\ request'.items = items /\ request'.known = visible
  BY <1>1, <1>2, <1>3, <1>7 DEF IsRequest, Request, items
<1>11. IsRequest(request', stored, includeSeeded)
  BY <1>1, <1>6, <1>8, <1>9, <1>10 DEF IsRequest
<1> QED
  BY <1>11 DEF IInv, FeedInv, ReadRows, table

(* The count is one of a finite table.                                     *)
LEMMA ReadCountKeepsIt ==
  ASSUME IInv, ReadCount
  PROVE  FeedInv'
<1>1. IsRequest(request, stored, includeSeeded)
  BY UnderWay DEF ReadCount
<1>2. Count(includeSeeded) \in Nat
  <2>1. IsFiniteSet(Visible(includeSeeded))
    BY FS_Subset DEF Visible, IInv
  <2> QED
    BY <2>1, FS_CardinalityType DEF Count
<1>3. /\ request' \in Request /\ request'.done = request.done /\ request'.page = request.page
      /\ request'.items = request.items /\ request'.known = request.known
  BY <1>1, <1>2 DEF ReadCount, IsRequest, Request
<1>4. IsRequest(request', stored, includeSeeded)
  BY <1>1, <1>3 DEF IsRequest
<1> QED
  BY <1>4 DEF IInv, FeedInv, ReadCount, table

(* A page that fits what is there already is kept.                         *)
LEMMA ReceiveKeepsIt ==
  ASSUME IInv, request # Idle,
         NEW p \in Page, IsPage(p, request.page, stored, includeSeeded),
         ~p.demoMode => \A k \in DOMAIN request.done :
                          ~request.done[k].demoMode => request.done[k].known \subseteq p.known,
         Receive(p)
  PROVE  FeedInv'
<1> DEFINE done == Append(request.done, p)
<1>1. /\ request.page = Len(request.done) + 1 /\ request.want \in Nat
      /\ request.of \in {"next", "all"} /\ IsFeed(request.done, stored, includeSeeded)
  BY UnderWay
<1>2. IsFeed(done, stored, includeSeeded) /\ (p.nextPage # 0 => p.nextPage = Len(done) + 1)
  BY <1>1, OnePageMore
<1> HIDE DEF done
<1>3. CASE p.nextPage # 0 /\ Fetch(request.of, p.nextPage, done, request.want)
           /\ UNCHANGED <<pages, error>>
  <2>1. UNCHANGED <<stored, includeSeeded, pages>> /\ error' \in BOOLEAN
    BY <1>3 DEF IInv, FeedInv, Receive, table
  <2> QED
    BY <1>1, <1>2, <1>3, <2>1, FetchKeepsIt
<1>4. CASE pages' = done /\ request' = Idle /\ error' = FALSE
  BY <1>2, <1>4 DEF IInv, FeedInv, Receive, table
<1> QED
  BY <1>3, <1>4 DEF Receive, done

(* There is a next page after the page or there is none.                   *)
LEMMA NextPageFollows ==
  ASSUME NEW k \in Nat \ {0}, NEW count \in Nat
  PROVE  NextPage(k, count) \in {0, k + 1} /\ NextPage(k, count) \in Nat
BY DEF NextPage

(* The page is what the two queries read.                                  *)
LEMMA RespondKeepsIt ==
  ASSUME IInv, Respond
  PROVE  FeedInv'
<1> DEFINE p == [items |-> request.items, nextPage |-> NextPage(request.page, request.count),
                 demoMode |-> FALSE, known |-> request.known, count |-> request.count]
<1>1. request # Idle /\ request.items # Unread /\ request.count # Unread /\ Receive(p)
  BY DEF Respond
<1>2. IsRequest(request, stored, includeSeeded) /\ request.page \in Nat \ {0}
  BY <1>1, UnderWay
<1>3. request.items \in Seq(Item) /\ request.count \in Nat /\ request.known \in SUBSET Idems
  BY <1>1, <1>2 DEF IsRequest, Request
<1>4. NextPage(request.page, request.count) \in {0, request.page + 1}
      /\ NextPage(request.page, request.count) \in Nat
  BY <1>2, <1>3, NextPageFollows
<1>5. p \in Page
  BY <1>3, <1>4 DEF Page
<1>6. IsPage(p, request.page, stored, includeSeeded)
  BY <1>1, <1>2, <1>4 DEF IsRequest, IsPage
<1>7. \A k \in DOMAIN request.done : ~request.done[k].demoMode => request.done[k].known \subseteq p.known
  BY <1>1, <1>2 DEF IsRequest
<1> HIDE DEF p
<1> QED
  BY <1>1, <1>5, <1>6, <1>7, ReceiveKeepsIt

(* The page is one of the demo data.                                       *)
LEMMA RespondDemoKeepsIt ==
  ASSUME IInv, RespondDemo
  PROVE  FeedInv'
<1> DEFINE p == [items |-> Slice(Demo, request.page), nextPage |-> NextPage(request.page, Len(Demo)),
                 demoMode |-> TRUE, known |-> {}, count |-> Len(Demo)]
<1>1. request # Idle /\ Receive(p)
  BY DEF RespondDemo
<1>2. request.page \in Nat \ {0}
  BY <1>1, UnderWay
<1>3. Demo \in Seq(Range(Demo)) /\ Len(Demo) \in Nat /\ Range(Demo) \subseteq Item
  <2>1. Demo \in Seq(Range(Demo)) /\ Range(Demo) \subseteq Item
    BY FeedAssumption DEF Item
  <2> QED
    BY <2>1
<1>4. Slice(Demo, request.page) \in Seq(Range(Demo)) /\ Len(Slice(Demo, request.page)) <= PageSize
  BY <1>2, <1>3, SliceIsAPage
<1>5. Slice(Demo, request.page) \in Seq(Item)
  BY <1>3, <1>4, SeqGrows
<1>6. NextPage(request.page, Len(Demo)) \in {0, request.page + 1}
      /\ NextPage(request.page, Len(Demo)) \in Nat
  BY <1>2, <1>3, NextPageFollows
<1>7. p \in Page
  BY <1>3, <1>5, <1>6 DEF Page
<1>8. IsPage(p, request.page, stored, includeSeeded) /\ p.demoMode
  BY <1>4, <1>6 DEF IsPage
<1> HIDE DEF p
<1> QED
  BY <1>1, <1>7, <1>8, ReceiveKeepsIt

(* A fetch that fails begins its page again, or is given up.               *)
LEMMA GetFailsKeepsIt ==
  ASSUME IInv, GetFails
  PROVE  FeedInv'
<1>1. CASE Fetch(request.of, request.page, request.done, request.want) /\ UNCHANGED error
  <2>1. UNCHANGED <<stored, includeSeeded, pages>> /\ error' \in BOOLEAN
    BY <1>1 DEF IInv, FeedInv, GetFails, table
  <2>2. /\ request.page = Len(request.done) + 1 /\ request.want \in Nat
        /\ request.of \in {"next", "all"} /\ IsFeed(request.done, stored, includeSeeded)
    BY UnderWay DEF GetFails
  <2> QED
    BY <1>1, <2>1, <2>2, FetchKeepsIt
<1>2. CASE request' = Idle /\ error' = TRUE
  BY <1>2 DEF IInv, FeedInv, GetFails, table
<1> QED
  BY <1>1, <1>2 DEF GetFails

(* Neither does what the feed does change what the posts rely on.          *)
LEMMA FeedKeepsIt ==
  ASSUME IInv, FeedNext, UNCHANGED publisher
  PROVE  FeedInv' /\ UNCHANGED stored /\ initialized' \subseteq {"feed", "post"}
<1>1. CASE PrepareFeed
  BY <1>1 DEF PrepareFeed, InitializeDatabase, feed, IInv, FeedInv, PublisherTypeOK
<1>2. CASE Load
  BY <1>2, LoadKeepsIt DEF Load, table, IInv, PublisherTypeOK
<1>3. CASE Scroll
  BY <1>3, ScrollKeepsIt DEF Scroll, table, IInv, PublisherTypeOK
<1>4. CASE ReadRows
  BY <1>4, ReadRowsKeepsIt DEF ReadRows, table, IInv, PublisherTypeOK
<1>5. CASE ReadCount
  BY <1>5, ReadCountKeepsIt DEF ReadCount, table, IInv, PublisherTypeOK
<1>6. CASE Respond
  BY <1>6, RespondKeepsIt DEF Respond, Receive, table, IInv, PublisherTypeOK
<1>7. CASE RespondDemo
  BY <1>7, RespondDemoKeepsIt DEF RespondDemo, Receive, table, IInv, PublisherTypeOK
<1>8. CASE GetFails
  BY <1>8, GetFailsKeepsIt DEF GetFails, table, IInv, PublisherTypeOK
<1>9. CASE Retry
  BY <1>9, RetryKeepsIt DEF Retry, table, IInv, PublisherTypeOK
<1> QED
  BY <1>1, <1>2, <1>3, <1>4, <1>5, <1>6, <1>7, <1>8, <1>9 DEF FeedNext

-----------------------------------------------------------------------------
(* What the posts do.                                                      *)

(* An idem is stored once, and no other one changes.                       *)
LEMMA StoreGrows ==
  ASSUME IInv, NEW p \in Posts, Store(p, createdAt[p])
  PROVE  /\ stored' \in [DOMAIN stored' -> Nat] /\ DOMAIN stored' \subseteq Posts \cup DOMAIN Seed
         /\ IsFiniteSet(DOMAIN stored')
         /\ DOMAIN stored \subseteq DOMAIN stored'
         /\ \A i \in DOMAIN stored : stored'[i] = stored[i]
<1>1. createdAt[p] \in Nat /\ stored \in [DOMAIN stored -> Nat]
      /\ DOMAIN stored \subseteq Posts \cup DOMAIN Seed
  BY DEF IInv, PublisherTypeOK
<1>2. DOMAIN stored' = DOMAIN stored \cup {p}
  BY DEF Store
<1>3. \A i \in DOMAIN stored' : stored'[i] = IF i \in DOMAIN stored THEN stored[i] ELSE createdAt[p]
  BY <1>2 DEF Store
<1>4. IsFiniteSet(DOMAIN stored')
  BY <1>2, FS_AddElement DEF IInv
<1>5. stored' \in [DOMAIN stored' -> Nat]
  BY <1>1, <1>2, <1>3 DEF Store
<1> QED
  BY <1>1, <1>2, <1>3, <1>4, <1>5

(* Whatever else they do is of the right type.                             *)
LEMMA PostsKeepTypes ==
  ASSUME IInv, PublisherNext
  PROVE  /\ PublisherTypeOK' /\ IsFiniteSet(DOMAIN stored')
         /\ DOMAIN stored \subseteq DOMAIN stored'
         /\ \A i \in DOMAIN stored : stored'[i] = stored[i]
<1> USE DEF PublisherTypeOK, IInv, Goto, Answer, table, broker
<1>1. CASE TimePasses
  BY <1>1 DEF TimePasses
<1>2. ASSUME NEW p \in Posts, Insert(p) \/ Consume(p)
      PROVE  /\ PublisherTypeOK' /\ IsFiniteSet(DOMAIN stored')
             /\ DOMAIN stored \subseteq DOMAIN stored'
             /\ \A i \in DOMAIN stored : stored'[i] = stored[i]
  <2>1. /\ stored' \in [DOMAIN stored' -> Nat] /\ DOMAIN stored' \subseteq Posts \cup DOMAIN Seed
        /\ IsFiniteSet(DOMAIN stored')
        /\ DOMAIN stored \subseteq DOMAIN stored'
        /\ \A i \in DOMAIN stored : stored'[i] = stored[i]
    <3>1. Store(p, createdAt[p])
      BY <1>2 DEF Insert, Consume
    <3> QED
      BY <3>1, StoreGrows
  <2>2. CASE Insert(p)
    BY <2>1, <2>2 DEF Insert
  <2>3. CASE Consume(p)
    BY <2>1, <2>3 DEF Consume
  <2> QED
    BY <1>2, <2>1, <2>2, <2>3
<1>3. ASSUME NEW p \in Posts,
             \/ Post(p) \/ PreparePost(p) \/ Refuse(p) \/ UseChannel(p) \/ NeedChannel(p) \/ Connect(p)
             \/ CreateChannel(p) \/ Asserted(p) \/ Throws(p) \/ Break(p) \/ Notice(p)
      PROVE  PublisherTypeOK' /\ UNCHANGED stored
  <2>1. CASE Post(p)
    BY <2>1 DEF Post
  <2>2. CASE PreparePost(p)
    BY <2>2 DEF PreparePost, InitializeDatabase, publisher
  <2>3. CASE Refuse(p)
    BY <2>3 DEF Refuse
  <2>4. CASE UseChannel(p)
    BY <2>4 DEF UseChannel, Send
  <2>5. CASE NeedChannel(p)
    BY <2>5 DEF NeedChannel
  <2>6. CASE Connect(p)
    BY <2>6 DEF Connect
  <2>7. CASE CreateChannel(p)
    BY <2>7 DEF CreateChannel, AssertQueue
  <2>8. CASE Asserted(p)
    BY <2>8 DEF Asserted, Send
  <2>9. CASE Throws(p)
    BY <2>9 DEF Throws
  <2>10. CASE Break(p)
    BY <2>10 DEF Break
  <2>11. CASE Notice(p)
    BY <2>11 DEF Notice
  <2> QED
    BY <1>3, <2>1, <2>2, <2>3, <2>4, <2>5, <2>6, <2>7, <2>8, <2>9, <2>10, <2>11
<1> QED
  BY <1>1, <1>2, <1>3 DEF PublisherNext, TimePasses

(* The feed stands it that the table grows.                                *)
LEMMA PublishKeepsIt ==
  ASSUME IInv, Publish
  PROVE  IInv'
<1>1. /\ PublisherTypeOK' /\ IsFiniteSet(DOMAIN stored')
      /\ DOMAIN stored \subseteq DOMAIN stored'
      /\ \A i \in DOMAIN stored : stored'[i] = stored[i]
  BY PostsKeepTypes DEF Publish
<1>2. UNCHANGED <<includeSeeded, pages, request, error, fired>>
  BY DEF Publish, feed
<1>3. IsFeed(pages, stored', includeSeeded)
  BY <1>1, GrowingKeepsFeeds DEF IInv, FeedInv
<1>4. request = Idle \/ IsRequest(request, stored', includeSeeded)
  BY <1>1, GrowingKeepsRequests DEF IInv, FeedInv
<1> QED
  BY <1>1, <1>2, <1>3, <1>4 DEF IInv, FeedInv

(* Every step keeps the invariant.                                         *)
LEMMA NextHolds == IInv /\ [Next]_vars => IInv'
<1> SUFFICES ASSUME IInv, [Next]_vars PROVE IInv'
  OBVIOUS
<1>1. CASE Publish
  BY <1>1, PublishKeepsIt
<1>2. CASE Browse
  <2>1. FeedInv' /\ UNCHANGED <<stored, publisher, fired>> /\ initialized' \subseteq {"feed", "post"}
    BY <1>2, FeedKeepsIt DEF Browse
  <2> QED
    BY <2>1 DEF IInv, PublisherTypeOK, publisher, broker
<1>3. ASSUME NEW p \in Mine, Refetch(p)
      PROVE  IInv'
  <2>1. FeedInv' /\ UNCHANGED <<table, publisher>> /\ fired' \subseteq Mine
    BY <1>3, InvalidateKeepsIt DEF Refetch, Invalidate, IInv
  <2> QED
    BY <2>1 DEF IInv, PublisherTypeOK, publisher, broker, table
<1>4. CASE UNCHANGED vars
  BY <1>4 DEF vars, table, publisher, broker, feed, IInv, FeedInv, PublisherTypeOK
<1> QED
  BY <1>1, <1>2, <1>3, <1>4 DEF Next

THEOREM Invariance == Spec => []IInv
BY InitHolds, NextHolds, PTL DEF Spec

-----------------------------------------------------------------------------
(* Idempotweet's values are what they should be: a page of the feed is     *)
(* never longer than a page, and names the page after it or none.          *)
THEOREM TypeCorrect == Spec => []TypeOK
<1>1. IInv => TypeOK
  <2> SUFFICES ASSUME IInv PROVE TypeOK
    OBVIOUS
  <2>1. \A k \in DOMAIN pages : Len(pages[k].items) <= PageSize /\ pages[k].nextPage \in {0, k + 1}
    BY DEF IInv, FeedInv, IsFeed, IsPage
  <2>2. request = Idle \/ request.of \in {"next", "all"}
    BY UnderWay
  <2> QED
    BY <2>1, <2>2 DEF IInv, FeedInv, TypeOK
<1> QED
  BY <1>1, Invariance, PTL

(* The end of the feed is the end of the table: infinite scroll over a     *)
(* growing list skips nothing that was there when its first page was read, *)
(* unless an insert fell between the two queries of a page.                *)
THEOREM NothingIsSkipped == Spec => []NothingSkippedUnlessTorn
<1>1. IInv => NothingSkippedUnlessTorn
  <2> SUFFICES ASSUME IInv, pages # <<>>, Last(pages).nextPage = 0, Plain,
                      \A k \in DOMAIN pages : ~Torn(pages[k])
               PROVE  Head(pages).known \subseteq Shown
    BY DEF NothingSkippedUnlessTorn
  <2>1. IsTable(stored) /\ IsFeed(pages, stored, includeSeeded)
    BY ThereIsATable DEF IInv, FeedInv
  <2>2. Distinct(stored) /\ \A k \in DOMAIN pages :
          ~pages[k].demoMode /\ pages[k].count = Cardinality(pages[k].known)
    BY DEF Plain, Distinct, Torn
  <2>3. Head(pages) = pages[1] /\ Last(pages) = pages[Len(pages)]
    BY <2>1 DEF IsFeed, Last
  <2>4. \A r \in pages[1].known : \E k \in DOMAIN pages : r \in Range(pages[k].items)
    BY <2>1, <2>2, <2>3, EndIsTheEnd
  <2> QED
    BY <2>3, <2>4 DEF Shown
<1> QED
  BY <1>1, Invariance, PTL

(* The feed shows an idem on two of its pages only when one was inserted   *)
(* between them: pages cut from the same table have nothing in common.     *)
THEOREM TwiceOnlyAfterAnInsert == Spec => []TwiceOnlyIfInserted
<1>1. IInv => TwiceOnlyIfInserted
  <2> SUFFICES ASSUME IInv, NEW k \in DOMAIN pages, NEW l \in DOMAIN pages, k < l, Plain,
                      pages[k].known = pages[l].known
               PROVE  Range(pages[k].items) \cap Range(pages[l].items) = {}
    BY DEF TwiceOnlyIfInserted
  <2>1. IsTable(stored) /\ IsFeed(pages, stored, includeSeeded)
    BY ThereIsATable DEF IInv, FeedInv
  <2>2. k \in Nat \ {0} /\ l \in Nat \ {0}
    BY <2>1 DEF IsFeed
  <2>3. Distinct(stored) /\ ~pages[k].demoMode /\ ~pages[l].demoMode
    BY DEF Plain, Distinct
  <2>4. /\ IsRead(pages[k].items, pages[k].known, k, stored, includeSeeded)
        /\ IsRead(pages[l].items, pages[k].known, l, stored, includeSeeded)
    BY <2>1, <2>3 DEF IsFeed, IsPage
  <2> QED
    BY <2>1, <2>2, <2>3, <2>4, PagesAreApart
<1> QED
  BY <1>1, Invariance, PTL
=============================================================================
