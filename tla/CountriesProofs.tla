---------------------------- MODULE CountriesProofs ----------------------------
(***************************************************************************)
(* Theorems about Countries for any processes, file and page sizes.        *)
(***************************************************************************)
EXTENDS Countries, FiniteSetTheorems, TLAPS

-----------------------------------------------------------------------------
\* Pages of a list S that is finite and sorted by integers.

LEMMA AheadIsFinite ==
    ASSUME NEW S, IsFiniteSet(S), NEW key, NEW i
    PROVE  /\ IsFiniteSet(Ahead(S, key, i)) /\ Ahead(S, key, i) \subseteq S
           /\ Cardinality(Ahead(S, key, i)) \in Nat
<1>1. Ahead(S, key, i) \subseteq S
  BY DEF Ahead
<1> QED BY <1>1, FS_Subset, FS_CardinalityType

\* Rows that are inserted push others back only.
LEMMA AheadGrows ==
    ASSUME NEW S, NEW T, S \subseteq T, IsFiniteSet(T), NEW key, NEW i
    PROVE  /\ Cardinality(Ahead(S, key, i)) <= Cardinality(Ahead(T, key, i))
           /\ Ties(S, key, i) \subseteq Ties(T, key, i)
<1>1. Ahead(S, key, i) \subseteq Ahead(T, key, i)
  BY DEF Ahead
<1>2. IsFiniteSet(Ahead(T, key, i))
  BY AheadIsFinite
<1> QED BY <1>1, <1>2, FS_Subset DEF Ties

\* A row that is behind the pages read so far, and in no tie, is on the next page or behind
\* it; and the next page is full if it is behind.
LEMMA NotOnPage ==
    ASSUME NEW D, NEW key \in [D -> Int], NEW S \in SUBSET D, IsFiniteSet(S),
           NEW page \in Nat \ {0}, NEW pageSize \in Nat \ {0},
           NEW X \in Pages(S, key, page, pageSize), NEW i \in S, i \notin X,
           Ties(S, key, i) = {}, Cardinality(Ahead(S, key, i)) >= (page - 1) * pageSize
    PROVE  /\ Cardinality(Ahead(S, key, i)) >= page * pageSize
           /\ ~(Cardinality(X) < pageSize)
<1> DEFINE skip == (page - 1) * pageSize
<1>1. PICK before \in SUBSET (S \ X) : IsPage(X, before, S, key, page, pageSize)
  BY DEF Pages
<1> DEFINE after == S \ (before \union X)
<1>2. /\ X \subseteq S /\ before \subseteq S /\ before \intersect X = {}
      /\ skip \in Nat /\ skip + pageSize = page * pageSize
  BY <1>1 DEF Pages
<1>3. /\ IsFiniteSet(X) /\ IsFiniteSet(before) /\ IsFiniteSet(Ahead(S, key, i))
      /\ Cardinality(X) \in Nat /\ Cardinality(before) \in Nat
      /\ Cardinality(Ahead(S, key, i)) \in Nat
  BY <1>2, AheadIsFinite, FS_Subset, FS_CardinalityType
<1>4. /\ Cardinality(before) <= skip /\ (Cardinality(before) < skip => before = S)
      /\ Cardinality(X) <= pageSize /\ (Cardinality(X) < pageSize => after = {})
      /\ \A j \in before, k \in X \union after : key[j] >= key[k]
      /\ \A j \in X, k \in after : key[j] >= key[k]
  BY <1>1 DEF IsPage
<1> HIDE DEF skip
<1>5. i \notin before
  <2> SUFFICES ASSUME i \in before PROVE FALSE
    OBVIOUS
  <2>1. Ahead(S, key, i) \union {i} \subseteq before
    BY <1>2, <1>4 DEF Ahead
  <2>2. i \notin Ahead(S, key, i)
    BY DEF Ahead
  <2>3. Cardinality(Ahead(S, key, i) \union {i}) = Cardinality(Ahead(S, key, i)) + 1
    BY <1>3, <2>2, FS_AddElement
  <2>4. Cardinality(Ahead(S, key, i)) + 1 <= Cardinality(before)
    BY <1>3, <2>1, <2>3, FS_Subset
  <2> QED BY <1>2, <1>3, <1>4, <2>4 DEF skip
<1>6. i \in after
  BY <1>5
<1>7. Cardinality(before) = skip /\ Cardinality(X) = pageSize
  BY <1>2, <1>3, <1>4, <1>5, <1>6
<1>8. before \union X \subseteq Ahead(S, key, i)
  <2> SUFFICES ASSUME NEW j \in before \union X PROVE j \in Ahead(S, key, i)
    OBVIOUS
  <2>1. j \in S /\ j # i /\ key[j] >= key[i]
    BY <1>2, <1>4, <1>5, <1>6
  <2>2. key[j] # key[i]
    BY <2>1 DEF Ties
  <2> QED BY <2>1, <2>2 DEF Ahead
<1>9. Cardinality(before \union X) = skip + pageSize
  <2>1. Cardinality(before \union X)
          = Cardinality(before) + Cardinality(X) - Cardinality(before \intersect X)
    BY <1>3, FS_Union
  <2>2. Cardinality(before \intersect X) = 0
    BY <1>2, FS_EmptySet
  <2> HIDE DEF skip
  <2> QED BY <1>2, <1>7, <2>1, <2>2
<1>10. Cardinality(before \union X) <= Cardinality(Ahead(S, key, i))
  BY <1>3, <1>8, FS_Subset
<1> QED BY <1>2, <1>3, <1>7, <1>9, <1>10

\* Nothing is behind the last page.
LEMMA NotBehindLast ==
    ASSUME NEW S, IsFiniteSet(S), NEW key, NEW D, key \in [D -> Int], S \subseteq D,
           NEW page \in Nat, NEW pageSize \in Nat,
           NEW i \in S, IsLast(Cardinality(S), page, pageSize)
    PROVE  ~(Cardinality(Ahead(S, key, i)) >= page * pageSize)
<1>1. i \notin Ahead(S, key, i) /\ Ahead(S, key, i) \union {i} \subseteq S
  BY DEF Ahead
<1>2. IsFiniteSet(Ahead(S, key, i)) /\ Cardinality(Ahead(S, key, i)) \in Nat
  BY AheadIsFinite
<1>3. Cardinality(Ahead(S, key, i) \union {i}) = Cardinality(Ahead(S, key, i)) + 1
  BY <1>1, <1>2, FS_AddElement
<1>4. Cardinality(Ahead(S, key, i)) + 1 <= Cardinality(S) /\ Cardinality(S) \in Nat
  BY <1>1, <1>3, FS_Subset, FS_CardinalityType
<1>5. Cardinality(S) <= page * pageSize /\ page * pageSize \in Nat
  BY DEF IsLast
<1> QED BY <1>2, <1>4, <1>5

\* The rows of a list can be numbered in an order its query may answer them in.
LEMMA Sorted ==
    ASSUME NEW D, NEW key \in [D -> Int], NEW S \in SUBSET D, IsFiniteSet(S)
    PROVE  \E place \in Bijection(S, 1..Cardinality(S)) :
               \A i, j \in S : key[i] > key[j] => place[i] < place[j]
<1> DEFINE n == Cardinality(S)
<1>1. n \in Nat /\ IsFiniteSet(1..n) /\ Cardinality(1..n) = n
  BY FS_CardinalityType, FS_Interval
<1>2. PICK num \in Bijection(S, 1..n) : TRUE
  BY <1>1, FS_SameCardinalityBij DEF ExistsBijection
<1>3. /\ \A i \in S : num[i] \in Nat
      /\ \A i, j \in S : num[i] = num[j] => i = j
  BY <1>1, <1>2 DEF Bijection, Injection, IsInjective
\* Rows that tie are taken in the order of num.
<1> DEFINE Comes(i) == {j \in S : key[j] > key[i] \/ (key[j] = key[i] /\ num[j] < num[i])}
           place == [i \in S |-> Cardinality(Comes(i)) + 1]
<1>4. ASSUME NEW i \in S
      PROVE  /\ IsFiniteSet(Comes(i)) /\ Cardinality(Comes(i)) \in Nat
             /\ Cardinality(Comes(i) \union {i}) = Cardinality(Comes(i)) + 1
             /\ i \notin Comes(i)
  <2>1. IsFiniteSet(Comes(i)) /\ Cardinality(Comes(i)) \in Nat
    BY FS_Subset, FS_CardinalityType
  <2>2. i \notin Comes(i)
    BY <1>3
  <2> QED BY <2>1, <2>2, FS_AddElement
<1>5. ASSUME NEW i \in S
      PROVE  place[i] \in 1..n
  <2>1. Comes(i) \union {i} \subseteq S
    OBVIOUS
  <2>2. place[i] = Cardinality(Comes(i)) + 1
    OBVIOUS
  <2> HIDE DEF Comes, place
  <2>3. Cardinality(Comes(i) \union {i}) <= n
    BY <2>1, FS_Subset
  <2> QED BY <1>1, <1>4, <2>2, <2>3
<1>6. ASSUME NEW i \in S, NEW j \in S, j \in Comes(i)
      PROVE  place[j] < place[i]
  <2>1. Comes(j) \union {j} \subseteq Comes(i)
    BY <1>3, <1>6
  <2>2. place[i] = Cardinality(Comes(i)) + 1 /\ place[j] = Cardinality(Comes(j)) + 1
    OBVIOUS
  <2> HIDE DEF Comes, place
  <2>3. Cardinality(Comes(j) \union {j}) <= Cardinality(Comes(i))
    BY <1>4, <2>1, FS_Subset
  <2>4. /\ Cardinality(Comes(i)) \in Nat /\ Cardinality(Comes(j)) \in Nat
        /\ Cardinality(Comes(j) \union {j}) = Cardinality(Comes(j)) + 1
    BY <1>4
  <2> QED BY <2>2, <2>3, <2>4
<1>7. \A i, j \in S : i # j => j \in Comes(i) \/ i \in Comes(j)
  BY <1>3
<1>8. \A i, j \in S : key[i] > key[j] => i \in Comes(j)
  OBVIOUS
<1> HIDE DEF Comes
<1>9. place \in [S -> 1..n]
  BY <1>5
<1> HIDE DEF place
<1>10. \A i, j \in S : place[i] = place[j] => i = j
  <2>1. \A i \in S : place[i] \in Nat
    BY <1>1, <1>9
  <2> QED BY <1>6, <1>7, <2>1
<1>11. place \in Injection(S, 1..n)
  BY <1>9, <1>10 DEF Injection, IsInjective
<1>12. place \in Surjection(S, 1..n)
  BY <1>1, <1>11, FS_Injection
<1> QED BY <1>6, <1>8, <1>11, <1>12 DEF Bijection

\* As many rows are at the first k places as there are places.
LEMMA FirstPlaces ==
    ASSUME NEW S, IsFiniteSet(S), NEW place \in Bijection(S, 1..Cardinality(S)), NEW k \in Nat
    PROVE  LET first == {i \in S : place[i] <= k}
           IN  /\ IsFiniteSet(first)
               /\ Cardinality(first) = IF k < Cardinality(S) THEN k ELSE Cardinality(S)
               /\ k >= Cardinality(S) => first = S
<1> DEFINE n == Cardinality(S)
           first == {i \in S : place[i] <= k}
           m == IF k < n THEN k ELSE n
           cut == [i \in first |-> place[i]]
<1>1. n \in Nat /\ m \in Nat /\ m <= n
  BY FS_CardinalityType
<1>2. /\ \A i \in S : place[i] \in 1..n
      /\ \A i, j \in S : place[i] = place[j] => i = j
      /\ \A t \in 1..n : \E i \in S : place[i] = t
  BY DEF Bijection, Injection, Surjection, IsInjective
<1> HIDE DEF n
<1>3. \A i \in S : place[i] <= k <=> place[i] <= m
  BY <1>1, <1>2
<1>4. cut \in [first -> 1..m]
  BY <1>1, <1>2, <1>3
<1>5. \A t \in 1..m : \E i \in first : cut[i] = t
  BY <1>1, <1>2, <1>3
<1>6. cut \in Injection(first, 1..m) /\ cut \in Surjection(first, 1..m)
  BY <1>2, <1>4, <1>5 DEF Injection, Surjection, IsInjective
<1>7. IsFiniteSet(1..m) /\ Cardinality(1..m) = m
  BY <1>1, FS_Interval
<1>8. IsFiniteSet(first) /\ Cardinality(first) = m
  BY <1>6, <1>7, FS_Injection
<1>9. k >= n => first = S
  BY <1>1, <1>2
<1> QED BY <1>8, <1>9 DEF n

\* A query with ORDER BY, take and skip has an answer for every list, page and page size,
\* rows that tie included: whatever the seeders do, a client is never left without a page.
THEOREM QueriesAnswer ==
    ASSUME NEW D, NEW key \in [D -> Int], NEW S \in SUBSET D, IsFiniteSet(S),
           NEW page \in Nat \ {0}, NEW pageSize \in Nat \ {0}
    PROVE  Pages(S, key, page, pageSize) # {}
<1>1. PICK place \in Bijection(S, 1..Cardinality(S)) :
             \A i, j \in S : key[i] > key[j] => place[i] < place[j]
  BY Sorted
<1> DEFINE n == Cardinality(S)
           skip == (page - 1) * pageSize
           before == {i \in S : place[i] <= skip}
           upTo == {i \in S : place[i] <= skip + pageSize}
           X == upTo \ before
<1>2. n \in Nat /\ skip \in Nat /\ skip + pageSize \in Nat
  BY FS_CardinalityType
<1>3. \A i \in S : place[i] \in Nat
  BY <1>2 DEF Bijection, Injection
<1>4. /\ IsFiniteSet(before) /\ Cardinality(before) = IF skip < n THEN skip ELSE n
      /\ skip >= n => before = S
  BY <1>2, FirstPlaces
<1>5. /\ IsFiniteSet(upTo)
      /\ Cardinality(upTo) = IF skip + pageSize < n THEN skip + pageSize ELSE n
      /\ skip + pageSize >= n => upTo = S
  BY <1>2, FirstPlaces
<1>6. before \subseteq upTo /\ upTo \subseteq S
  BY <1>2, <1>3
<1>7. Cardinality(X) = Cardinality(upTo) - Cardinality(before) /\ Cardinality(X) \in Nat
  <2>1. IsFiniteSet(X) /\ Cardinality(X) \in Nat /\ Cardinality(before) \in Nat
    BY <1>4, <1>5, FS_Subset, FS_CardinalityType
  <2>2. Cardinality(before \union X)
          = Cardinality(before) + Cardinality(X) - Cardinality(before \intersect X)
    BY <1>4, <2>1, FS_Union
  <2>3. before \intersect X = {} /\ before \union X = upTo
    BY <1>6
  <2> HIDE DEF X, upTo, before
  <2>4. Cardinality(before \intersect X) = 0 /\ Cardinality(before \union X) = Cardinality(upTo)
    BY <2>3, FS_EmptySet
  <2> QED BY <2>1, <2>2, <2>4
<1> DEFINE after == S \ (before \union X)
<1>8. \A i \in before, j \in X \union after : key[i] >= key[j]
  <2>1. ASSUME NEW i \in before, NEW j \in X \union after
        PROVE  place[i] < place[j]
    <3>1. j \in S /\ j \notin before
      BY <2>1, <1>6
    <3> QED BY <1>2, <1>3, <3>1
  <2>2. ASSUME NEW i \in before, NEW j \in X \union after
        PROVE  key[i] >= key[j]
    <3>1. i \in S /\ j \in S /\ key[i] \in Int /\ key[j] \in Int
      BY <1>6
    <3> QED BY <1>1, <1>3, <2>1, <3>1
  <2> QED BY <2>2
<1>9. \A i \in X, j \in after : key[i] >= key[j]
  <2>1. ASSUME NEW i \in X, NEW j \in after
        PROVE  key[i] >= key[j]
    <3>1. i \in S /\ j \in S /\ key[i] \in Int /\ key[j] \in Int /\ i \in upTo /\ j \notin upTo
      BY <1>6
    <3>2. place[i] < place[j]
      BY <1>2, <1>3, <3>1
    <3> QED BY <1>1, <1>3, <3>1, <3>2
  <2> QED BY <2>1
<1> HIDE DEF X, upTo, before, skip, n
<1>10. Cardinality(before) <= skip /\ (Cardinality(before) < skip => before = S)
  BY <1>2, <1>4
<1>11. Cardinality(X) <= pageSize /\ (Cardinality(X) < pageSize => after = {})
  <2>1. Cardinality(X) <= pageSize
    BY <1>2, <1>4, <1>5, <1>7
  <2>2. Cardinality(X) < pageSize => skip + pageSize >= n
    BY <1>2, <1>4, <1>5, <1>7
  <2>3. before \union X = upTo
    BY <1>6 DEF X
  <2> QED BY <1>5, <2>1, <2>2, <2>3
<1>12. IsPage(X, before, S, key, page, pageSize)
  BY <1>8, <1>9, <1>10, <1>11 DEF IsPage, skip
<1>13. X \in SUBSET S /\ before \in SUBSET (S \ X)
  BY <1>6 DEF X
<1> QED BY <1>12, <1>13 DEF Pages

\* The rows of S on a page when no two tie: those with at least (page - 1) * pageSize rows
\* ahead of them and fewer than page * pageSize.
RowsOf(S, key, page, pageSize) ==
    {i \in S : /\ Cardinality(Ahead(S, key, i)) >= (page - 1) * pageSize
               /\ ~(Cardinality(Ahead(S, key, i)) >= page * pageSize)}

\* A row that is on a page has the pages before it ahead, and less than one page more.
LEMMA OnPage ==
    ASSUME NEW D, NEW key \in [D -> Int], NEW S \in SUBSET D, IsFiniteSet(S),
           NEW page \in Nat \ {0}, NEW pageSize \in Nat \ {0},
           NEW X \in Pages(S, key, page, pageSize), NEW i \in X, Ties(S, key, i) = {}
    PROVE  i \in RowsOf(S, key, page, pageSize)
<1> DEFINE skip == (page - 1) * pageSize
<1>1. PICK before \in SUBSET (S \ X) : IsPage(X, before, S, key, page, pageSize)
  BY DEF Pages
<1> DEFINE after == S \ (before \union X)
<1>2. /\ X \subseteq S /\ i \in S /\ i \notin before
      /\ skip \in Nat /\ skip + pageSize = page * pageSize
  BY <1>1 DEF Pages
<1>3. /\ IsFiniteSet(X) /\ IsFiniteSet(before) /\ IsFiniteSet(Ahead(S, key, i))
      /\ Cardinality(X) \in Nat /\ Cardinality(before) \in Nat
      /\ Cardinality(Ahead(S, key, i)) \in Nat
  BY <1>2, AheadIsFinite, FS_Subset, FS_CardinalityType
<1>4. /\ Cardinality(before) <= skip /\ (Cardinality(before) < skip => before = S)
      /\ Cardinality(X) <= pageSize
      /\ \A j \in before, k \in X \union after : key[j] >= key[k]
      /\ \A j \in X, k \in after : key[j] >= key[k]
  BY <1>1 DEF IsPage
<1>5. Cardinality(before) = skip
  BY <1>2, <1>3, <1>4
<1>6. \A j \in S : j # i => key[j] # key[i]
  BY DEF Ties
<1>7. before \subseteq Ahead(S, key, i)
  <2> SUFFICES ASSUME NEW j \in before PROVE j \in Ahead(S, key, i)
    OBVIOUS
  <2>1. j \in S /\ j # i /\ key[j] >= key[i] /\ key[j] \in Int /\ key[i] \in Int
    BY <1>2, <1>4
  <2> QED BY <1>6, <2>1 DEF Ahead
<1>8. Ahead(S, key, i) \union {i} \subseteq before \union X
  <2> SUFFICES ASSUME NEW j \in Ahead(S, key, i), j \notin before \union X PROVE FALSE
    BY <1>2
  <2>1. j \in after /\ key[j] > key[i] /\ key[j] \in Int /\ key[i] \in Int
    BY <1>2 DEF Ahead
  <2> QED BY <1>4, <2>1
<1> HIDE DEF skip, after
<1>9. Cardinality(before) <= Cardinality(Ahead(S, key, i))
  BY <1>3, <1>7, FS_Subset
<1>10. Cardinality(before \union X) = Cardinality(before) + Cardinality(X)
                                        - Cardinality(before \intersect X)
       /\ IsFiniteSet(before \union X)
  BY <1>3, FS_Union
<1>11. Cardinality(before \intersect X) = 0
  <2>1. before \intersect X = {}
    OBVIOUS
  <2> QED BY <2>1, FS_EmptySet
<1>12. Cardinality(Ahead(S, key, i) \union {i}) = Cardinality(Ahead(S, key, i)) + 1
  <2>1. i \notin Ahead(S, key, i)
    BY DEF Ahead
  <2> QED BY <1>3, <2>1, FS_AddElement
<1>13. Cardinality(Ahead(S, key, i) \union {i}) <= Cardinality(before \union X)
  BY <1>8, <1>10, FS_Subset
<1>14. Cardinality(Ahead(S, key, i)) + 1 <= skip + pageSize
  BY <1>3, <1>4, <1>5, <1>10, <1>11, <1>12, <1>13
<1>15. Cardinality(Ahead(S, key, i)) >= skip
       /\ ~(Cardinality(Ahead(S, key, i)) >= page * pageSize)
  BY <1>2, <1>3, <1>5, <1>9, <1>14
<1> QED BY <1>2, <1>15 DEF RowsOf, skip

\* Where no two rows tie, ORDER BY, take and skip cut a list into pages in one way only.
THEOREM PagesAreExact ==
    ASSUME NEW D, NEW key \in [D -> Int], NEW S \in SUBSET D, IsFiniteSet(S),
           NEW page \in Nat \ {0}, NEW pageSize \in Nat \ {0},
           \A i \in S : Ties(S, key, i) = {}
    PROVE  Pages(S, key, page, pageSize) = {RowsOf(S, key, page, pageSize)}
<1>1. ASSUME NEW X \in Pages(S, key, page, pageSize)
      PROVE  X = RowsOf(S, key, page, pageSize)
  <2>1. X \subseteq S
    BY DEF Pages
  <2>2. X \subseteq RowsOf(S, key, page, pageSize)
    BY <2>1, OnPage
  <2>3. ASSUME NEW i \in RowsOf(S, key, page, pageSize), i \notin X
        PROVE  FALSE
    <3>1. i \in S /\ Cardinality(Ahead(S, key, i)) >= (page - 1) * pageSize
          /\ ~(Cardinality(Ahead(S, key, i)) >= page * pageSize)
      BY DEF RowsOf
    <3> QED BY <2>3, <3>1, NotOnPage
  <2> QED BY <2>2, <2>3
<1>2. Pages(S, key, page, pageSize) # {}
  BY QueriesAnswer
<1> QED BY <1>1, <1>2

\* Of two pages, all of the first comes before any of the second.
LEMMA PagesAreApart ==
    ASSUME NEW page \in Nat \ {0}, NEW other \in Nat \ {0}, page < other, NEW pageSize \in Nat \ {0}
    PROVE  page * pageSize <= (other - 1) * pageSize
<1>1. PICK d \in Nat : other - 1 = page + d
  <2>1. other - 1 - page \in Nat /\ other - 1 = page + (other - 1 - page)
    OBVIOUS
  <2> QED BY <2>1
<1>2. (page + d) * pageSize = page * pageSize + d * pageSize
  OBVIOUS
<1>3. d * pageSize \in Nat /\ page * pageSize \in Nat
  OBVIOUS
<1> QED BY <1>1, <1>2, <1>3

\* Each row of a list without ties is on exactly one page: the counting of findAll() is
\* sound, and what a client misses or sees twice is due to ties or to rows inserted
\* between its queries.
THEOREM EachRowHasOnePage ==
    ASSUME NEW S, IsFiniteSet(S), NEW key, NEW pageSize \in Nat \ {0}, NEW i \in S
    PROVE  \E page \in Nat \ {0} :
               /\ i \in RowsOf(S, key, page, pageSize)
               /\ \A other \in Nat \ {0} : i \in RowsOf(S, key, other, pageSize) => other = page
<1> DEFINE r == Cardinality(Ahead(S, key, i))
           page == (r \div pageSize) + 1
<1>1. r \in Nat
  BY AheadIsFinite
<1> HIDE DEF r
<1>2. r \div pageSize \in Nat /\ page \in Nat \ {0}
  BY <1>1
<1>3. (page - 1) * pageSize = (r \div pageSize) * pageSize
      /\ page * pageSize = (r \div pageSize) * pageSize + pageSize
  BY <1>2
<1>4. r >= (page - 1) * pageSize /\ ~(r >= page * pageSize)
  <2>1. (r \div pageSize) * pageSize <= r
    BY <1>1, Z3
  <2>2. r < (r \div pageSize) * pageSize + pageSize
    BY <1>1, Z3
  <2>3. (r \div pageSize) * pageSize \in Nat
    BY <1>2
  <2> QED BY <1>1, <1>3, <2>1, <2>2, <2>3
<1> HIDE DEF page
<1>5. i \in RowsOf(S, key, page, pageSize)
  BY <1>4 DEF RowsOf, r
<1>6. ASSUME NEW other \in Nat \ {0}, i \in RowsOf(S, key, other, pageSize)
      PROVE  other = page
  <2>1. r >= (other - 1) * pageSize /\ ~(r >= other * pageSize)
    BY <1>6 DEF RowsOf, r
  <2>2. /\ page * pageSize \in Nat /\ other * pageSize \in Nat
        /\ (page - 1) * pageSize \in Nat /\ (other - 1) * pageSize \in Nat
    BY <1>2
  <2>3. ~(page < other)
    <3> SUFFICES ASSUME page < other PROVE FALSE
      OBVIOUS
    <3>1. page * pageSize <= (other - 1) * pageSize
      BY <1>2, PagesAreApart
    <3> QED BY <1>1, <1>4, <2>1, <2>2, <3>1
  <2>4. ~(other < page)
    <3> SUFFICES ASSUME other < page PROVE FALSE
      OBVIOUS
    <3>1. other * pageSize <= (page - 1) * pageSize
      BY <1>2, PagesAreApart
    <3> QED BY <1>1, <1>4, <2>1, <2>2, <3>1
  <2> QED BY <1>2, <2>3, <2>4
<1> QED BY <1>2, <1>5, <1>6

-----------------------------------------------------------------------------
\* The inductive invariant.

\* Place x is saved by p, when the places are T and the cities C.
PlaceSaved(T, C, p, x) ==
    <<p, x[1], x[2]>> \in T /\ (x[2] # 0 => <<p, x[1], x[2]>> \in C)

\* Everything before state s of country c was saved by p.
SavedUpTo(T, C, p, c, s) ==
    \A x \in Place : x[1] < c \/ (x[1] = c /\ x[2] < s) => PlaceSaved(T, C, p, x)

AllSaved(T, C, p) == \A x \in Place : PlaceSaved(T, C, p, x)

\* How far a run that is at P has come, when the tables are T and C.
RunAt(T, C, p, P) ==
    /\ P.stage \in {"new", "download"} => \A r \in T : r[1] # p
    /\ P.stage \in {"country", "state", "cities"} => SavedUpTo(T, C, p, P.c, P.s)
    /\ P.stage = "cities" => <<p, P.c, P.s>> \in T
    /\ P.stage = "done" => AllSaved(T, C, p) \/ (T # {} /\ \A r \in T : r[1] # p)

\* At least n rows of the list are ahead of r, or r ties.
Behind(w, r, n) ==
    \/ Ties(Rows(w.list), SortKey(w.desc), r) # {}
    \/ Cardinality(Ahead(Rows(w.list), SortKey(w.desc), r)) >= n

\* Rows that were due and not seen are behind the pages read so far.
GoodWalk(w) ==
    /\ w.due \subseteq Rows(w.list)
    /\ w.stage = "items" => \A r \in w.due \ w.seen : Behind(w, r, (w.page - 1) * w.pageSize)
    /\ w.stage = "total" => \A r \in w.due \ w.seen : Behind(w, r, w.page * w.pageSize)
    /\ w.stage = "done" =>
           \A r \in w.due \ w.seen : Ties(Rows(w.list), SortKey(w.desc), r) # {}

IInv ==
    /\ TypeOK /\ IsFiniteSet(places)
    /\ \A p \in Process : RunAt(places, cities, p, seeder[p])
    /\ walk # NoWalk => GoodWalk(walk)

USE StatesAssumption, NameAssumption, PageSizesAssumption

-----------------------------------------------------------------------------

LEMMA PlaceFacts ==
    /\ Country = 1..Len(States) /\ Len(States) \in Nat
    /\ \A c \in Country : States[c] \in Nat
    /\ \A c \in Country, s \in Nat : s <= States[c] => <<c, s>> \in Place
    /\ \A x \in Place : /\ x[1] \in Country /\ x[2] \in Nat /\ x[2] <= States[x[1]]
                        /\ x = <<x[1], x[2]>>
    /\ \A p \in Process, x \in Place : <<p, x[1], x[2]>> \in Row
    /\ \A r \in Row : /\ r[1] \in Process /\ <<r[2], r[3]>> \in Place
                      /\ r = <<r[1], r[2], r[3]>> /\ r # All
<1>1. Country = 1..Len(States) /\ Len(States) \in Nat /\ \A c \in Country : States[c] \in Nat
  BY DEF Country
<1>2. \A c \in Country, s \in Nat : s <= States[c] => <<c, s>> \in Place
  BY <1>1 DEF Place
<1>3. \A x \in Place : /\ x[1] \in Country /\ x[2] \in Nat /\ x[2] <= States[x[1]]
                       /\ x = <<x[1], x[2]>>
  BY <1>1 DEF Place
<1>4. \A p \in Process, x \in Place : <<p, x[1], x[2]>> \in Row
  BY DEF Row
<1>5. \A r \in Row : /\ r[1] \in Process /\ <<r[2], r[3]>> \in Place
                     /\ r = <<r[1], r[2], r[3]>> /\ r # All
  <2> SUFFICES ASSUME NEW r \in Row
               PROVE  /\ r[1] \in Process /\ <<r[2], r[3]>> \in Place
                      /\ r = <<r[1], r[2], r[3]>> /\ r # All
    OBVIOUS
  <2>1. PICK p \in Process, x \in Place : r = <<p, x[1], x[2]>>
    BY DEF Row
  <2>2. r[1] = p /\ r[2] = x[1] /\ r[3] = x[2] /\ r # All
    BY <2>1 DEF All
  <2> QED BY <1>3, <2>1, <2>2
<1> QED BY <1>1, <1>2, <1>3, <1>4, <1>5

LEMMA KeysAreIntegers == ASSUME NEW desc PROVE SortKey(desc) \in [Row -> Int]
BY PlaceFacts DEF SortKey

LEMMA RowsGrow ==
    ASSUME places \subseteq places', NEW l PROVE Rows(l) \subseteq Rows(l)'
BY DEF Rows, Countries

LEMMA RowsAreFinite ==
    ASSUME IsFiniteSet(places), NEW l PROVE Rows(l) \subseteq places /\ IsFiniteSet(Rows(l))
<1>1. Rows(l) \subseteq places
  BY DEF Rows, Countries
<1> QED BY <1>1, FS_Subset

LEMMA WalkFields ==
    ASSUME NEW w \in Walk
    PROVE  /\ w.page \in Nat \ {0} /\ w.pageSize \in Nat \ {0} /\ w.pageSize \in PageSizes
           /\ (w.page - 1) * w.pageSize \in Int /\ w.page * w.pageSize \in Int
<1>1. w.page \in Nat \ {0} /\ w.pageSize \in PageSizes
  BY DEF Walk
<1>2. w.pageSize \in Nat \ {0}
  BY <1>1
<1> QED BY <1>1, <1>2

\* A walk stays good while rows are inserted.
LEMMA WalkGoesOn ==
    ASSUME IInv, places \subseteq places', IsFiniteSet(places'), UNCHANGED walk
    PROVE  (walk # NoWalk => GoodWalk(walk))'
<1> SUFFICES ASSUME walk # NoWalk PROVE GoodWalk(walk)'
  OBVIOUS
<1> DEFINE S == Rows(walk.list)
           T == Rows(walk.list)'
           key == SortKey(walk.desc)
<1>1. walk \in Walk /\ GoodWalk(walk)
  BY DEF IInv, TypeOK
<1>2. S \subseteq T /\ IsFiniteSet(S) /\ IsFiniteSet(T)
  <2>1. IsFiniteSet(T)
    <3>1. T \subseteq places'
      BY DEF Rows, Countries
    <3> QED BY <3>1, FS_Subset
  <2> QED BY <2>1, RowsGrow, RowsAreFinite DEF IInv
<1> HIDE DEF S, T, key
<1>3. \A r : /\ Cardinality(Ahead(S, key, r)) <= Cardinality(Ahead(T, key, r))
             /\ Ties(S, key, r) \subseteq Ties(T, key, r)
  BY <1>2, AheadGrows
<1>4. \A r : /\ Cardinality(Ahead(S, key, r)) \in Nat
             /\ Cardinality(Ahead(T, key, r)) \in Nat
  BY <1>2, AheadIsFinite
<1>5. \A r : \A n \in Int : (Ties(S, key, r) # {} \/ Cardinality(Ahead(S, key, r)) >= n)
                        => Ties(T, key, r) # {} \/ Cardinality(Ahead(T, key, r)) >= n
  BY <1>3, <1>4
<1>6. (walk.page - 1) * walk.pageSize \in Int /\ walk.page * walk.pageSize \in Int
  BY <1>1, WalkFields
<1>7. walk.due \subseteq Rows(walk.list)'
  BY <1>1, <1>2 DEF GoodWalk, S, T
<1>8. ASSUME NEW n \in Int, \A r \in walk.due \ walk.seen : Behind(walk, r, n)
      PROVE  \A r \in walk.due \ walk.seen :
                 Ties(T, key, r) # {} \/ Cardinality(Ahead(T, key, r)) >= n
  BY <1>5, <1>8 DEF Behind, S, key
<1>10. walk.stage = "done" =>
           \A r \in walk.due \ walk.seen : Ties(T, key, r) # {}
  BY <1>1, <1>3 DEF GoodWalk, S, key
<1>11. walk.stage = "items" => \A r \in walk.due \ walk.seen :
           \/ Ties(T, key, r) # {}
           \/ Cardinality(Ahead(T, key, r)) >= (walk.page - 1) * walk.pageSize
  BY <1>1, <1>6, <1>8 DEF GoodWalk
<1>12. walk.stage = "total" => \A r \in walk.due \ walk.seen :
           \/ Ties(T, key, r) # {}
           \/ Cardinality(Ahead(T, key, r)) >= walk.page * walk.pageSize
  BY <1>1, <1>6, <1>8 DEF GoodWalk
<1>9. walk' = walk /\ key = SortKey(walk'.desc) /\ T = Rows(walk.list)'
  BY DEF key, T
<1> QED BY <1>7, <1>9, <1>10, <1>11, <1>12 DEF GoodWalk, Behind, SortKey

-----------------------------------------------------------------------------
\* One lemma per action: it preserves the inductive invariant.

LEMMA InitIInv == Init => IInv
<1> SUFFICES ASSUME Init PROVE IInv
  OBVIOUS
<1>1. TypeOK
  BY DEF Init, TypeOK, Position
<1>2. IsFiniteSet(places)
  BY FS_EmptySet DEF Init
<1>3. \A p \in Process : RunAt(places, cities, p, seeder[p])
  BY DEF Init, RunAt, At
<1> QED BY <1>1, <1>2, <1>3 DEF IInv, Init

\* A step of p's run that leaves the tables alone.
LEMMA RunMoves ==
    ASSUME IInv, NEW p \in Process, NEW P \in Position, seeder' = [seeder EXCEPT ![p] = P],
           RunAt(places, cities, p, P), UNCHANGED <<places, cities, regions, walk>>
    PROVE  IInv'
<1>1. seeder' \in [Process -> Position] /\ \A q \in Process : q # p => seeder'[q] = seeder[q]
  BY DEF IInv, TypeOK
<1>2. seeder'[p] = P
  BY DEF IInv, TypeOK
<1>3. ASSUME NEW q \in Process PROVE RunAt(places', cities', q, seeder'[q])
  <2>1. RunAt(places, cities, q, seeder'[q])
    BY <1>1, <1>2 DEF IInv
  <2> QED BY <2>1
<1>4. TypeOK'
  BY <1>1 DEF IInv, TypeOK
<1>5. (walk # NoWalk => GoodWalk(walk))'
  BY WalkGoesOn DEF IInv
<1> QED BY <1>1, <1>3, <1>4, <1>5 DEF IInv

LEMMA PositionFacts ==
    ASSUME NEW P \in Position
    PROVE  /\ P.stage \in {"new", "download", "done", "dead", "country", "state", "cities"}
           /\ P.stage \in {"country", "state", "cities"} => P.c \in Country /\ P.s \in 0..States[P.c]
           /\ P.stage = "country" => P.s = 0
           /\ P.stage \in {"state", "cities"} => P.s # 0
           /\ P.stage = "done" => P = Done
BY PlaceFacts DEF Position, At, Done

LEMMA StagesArePositions ==
    /\ At("new", 0, 0) \in Position /\ At("download", 0, 0) \in Position
    /\ Done \in Position /\ At("dead", 0, 0) \in Position
    /\ \A c \in Country : At("country", c, 0) \in Position
    /\ \A c \in Country, s \in Nat \ {0} : s <= States[c] =>
           At("state", c, s) \in Position /\ At("cities", c, s) \in Position
<1>1. ASSUME NEW c \in Country, NEW s \in Nat \ {0}, s <= States[c], NEW x \in {"state", "cities"}
      PROVE  At(x, c, s) \in Position
  <2>1. <<c, s>> \in {y \in Place : y[2] # 0}
    BY <1>1, PlaceFacts
  <2>2. At(x, c, s) = At(x, <<c, s>>[1], <<c, s>>[2])
    OBVIOUS
  <2> HIDE DEF At
  <2> QED BY <2>1, <2>2 DEF Position
<1> QED BY <1>1 DEF Position

\* Where a run goes when everything up to state s of country c is saved.
LEMMA AfterCountryIsGood ==
    ASSUME NEW T, NEW C, NEW p \in Process, NEW c \in Nat, c <= Len(States),
           \A x \in Place : x[1] <= c => PlaceSaved(T, C, p, x)
    PROVE  AfterCountry(c) \in Position /\ RunAt(T, C, p, AfterCountry(c))
<1>1. CASE c < Len(States)
  <2>1. c + 1 \in Country /\ AfterCountry(c) = At("country", c + 1, 0)
    BY <1>1, PlaceFacts DEF AfterCountry
  <2>2. SavedUpTo(T, C, p, c + 1, 0)
    BY PlaceFacts DEF SavedUpTo
  <2> QED BY <2>1, <2>2, StagesArePositions DEF RunAt, At
<1>2. CASE ~(c < Len(States))
  <2>1. AfterCountry(c) = Done
    BY <1>2 DEF AfterCountry
  <2>2. AllSaved(T, C, p)
    BY <1>2, PlaceFacts DEF AllSaved
  <2> QED BY <2>1, <2>2, StagesArePositions DEF RunAt, Done, At
<1> QED BY <1>1, <1>2

LEMMA AfterStateIsGood ==
    ASSUME NEW T, NEW C, NEW p \in Process, NEW c \in Country, NEW s \in 0..States[c],
           \A x \in Place : x[1] < c \/ (x[1] = c /\ x[2] <= s) => PlaceSaved(T, C, p, x)
    PROVE  AfterState(c, s) \in Position /\ RunAt(T, C, p, AfterState(c, s))
<1>0. c \in Nat /\ c <= Len(States) /\ States[c] \in Nat
  BY PlaceFacts
<1>1. CASE s < States[c]
  <2>1. AfterState(c, s) = At("state", c, s + 1) /\ s + 1 \in Nat \ {0} /\ s + 1 <= States[c]
    BY <1>0, <1>1 DEF AfterState
  <2>2. SavedUpTo(T, C, p, c, s + 1)
    BY <1>0, PlaceFacts DEF SavedUpTo
  <2>3. At("state", c, s + 1) \in Position
    BY <2>1, StagesArePositions
  <2>4. RunAt(T, C, p, At("state", c, s + 1))
    BY <2>2 DEF RunAt, At
  <2> QED BY <2>1, <2>3, <2>4
<1>2. CASE ~(s < States[c])
  <2>1. AfterState(c, s) = AfterCountry(c)
    BY <1>2 DEF AfterState
  <2>2. \A x \in Place : x[1] <= c => PlaceSaved(T, C, p, x)
    BY <1>0, <1>2, PlaceFacts
  <2> QED BY <1>0, <2>1, <2>2, AfterCountryIsGood
<1> QED BY <1>1, <1>2

LEMMA TestEmptyPreserves == ASSUME IInv, NEW p \in Process, TestEmpty(p) PROVE IInv'
<1> DEFINE P == IF Countries = {} THEN At("download", 0, 0) ELSE Done
<1>1. P \in Position
  BY StagesArePositions
<1>2. \A r \in places : r[1] # p
  BY DEF IInv, TestEmpty, RunAt
<1>3. RunAt(places, cities, p, P)
  BY <1>2 DEF RunAt, At, Done, Countries
<1> QED BY <1>1, <1>3, RunMoves DEF TestEmpty, Goto

LEMMA DownloadPreserves == ASSUME IInv, NEW p \in Process, Download(p) PROVE IInv'
<1>1. AfterCountry(0) \in Position /\ RunAt(places, cities, p, AfterCountry(0))
  <2>1. \A x \in Place : x[1] <= 0 => PlaceSaved(places, cities, p, x)
    BY PlaceFacts
  <2>2. 0 \in Nat /\ 0 <= Len(States)
    BY PlaceFacts
  <2> QED BY <2>1, <2>2, AfterCountryIsGood
<1> QED BY <1>1, RunMoves DEF Download, Goto

LEMMA DiePreserves == ASSUME IInv, NEW p \in Process, Die(p) PROVE IInv'
<1>1. At("dead", 0, 0) \in Position /\ RunAt(places, cities, p, At("dead", 0, 0))
  BY StagesArePositions DEF RunAt, At
<1> QED BY <1>1, RunMoves DEF Die, Goto

\* A save of p adds rows of p only, and takes p where the rest of its run is good.
LEMMA SavePreserves ==
    ASSUME IInv, NEW p \in Process, NEW P \in Position, seeder' = [seeder EXCEPT ![p] = P],
           places \subseteq places', \A r \in places' : r[1] = p \/ r \in places,
           cities \subseteq cities', IsFiniteSet(places'), places' \subseteq Row,
           cities' \subseteq {r \in places' : r[3] # 0}, RunAt(places', cities', p, P),
           UNCHANGED <<regions, walk>>
    PROVE  IInv'
<1>1. /\ seeder' \in [Process -> Position] /\ seeder'[p] = P
      /\ \A q \in Process : q # p => seeder'[q] = seeder[q]
  BY DEF IInv, TypeOK
<1>2. ASSUME NEW q \in Process, q # p PROVE RunAt(places', cities', q, seeder'[q])
  <2>1. RunAt(places, cities, q, seeder[q]) /\ seeder'[q] = seeder[q]
    BY <1>1, <1>2 DEF IInv
  <2>2. (\A r \in places : r[1] # q) => \A r \in places' : r[1] # q
    BY <1>2
  <2>3. \A x \in Place : PlaceSaved(places, cities, q, x) => PlaceSaved(places', cities', q, x)
    BY DEF PlaceSaved
  <2>4. \A c, s : SavedUpTo(places, cities, q, c, s) => SavedUpTo(places', cities', q, c, s)
    BY <2>3 DEF SavedUpTo
  <2>5. AllSaved(places, cities, q) => AllSaved(places', cities', q)
    BY <2>3 DEF AllSaved
  <2>6. places # {} => places' # {}
    OBVIOUS
  <2> DEFINE Q == seeder[q]
  <2>7. RunAt(places, cities, q, Q)
    BY <2>1
  <2> HIDE DEF Q
  <2>8. Q.stage \in {"country", "state", "cities"} => SavedUpTo(places', cities', q, Q.c, Q.s)
    BY <2>4, <2>7 DEF RunAt
  <2> QED BY <2>1, <2>2, <2>5, <2>6, <2>7, <2>8 DEF RunAt, Q
<1>3. RunAt(places', cities', p, seeder'[p])
  BY <1>1 DEF RunAt
<1>4. TypeOK'
  BY <1>1 DEF IInv, TypeOK
<1>5. (walk # NoWalk => GoodWalk(walk))'
  BY WalkGoesOn
<1> QED BY <1>2, <1>3, <1>4, <1>5 DEF IInv

LEMMA SaveCountryPreserves == ASSUME IInv, NEW p \in Process, SaveCountry(p) PROVE IInv'
<1> DEFINE c == seeder[p].c
<1>1. /\ seeder[p] \in Position /\ seeder[p].stage = "country" /\ RunAt(places, cities, p, seeder[p])
      /\ places' = places \union {<<p, c, 0>>} /\ UNCHANGED <<cities, regions, walk>>
      /\ seeder' = [seeder EXCEPT ![p] = AfterState(c, 0)]
  BY DEF SaveCountry, Goto, IInv, TypeOK
<1>2. c \in Country /\ seeder[p].s = 0 /\ 0 \in 0..States[c] /\ <<p, c, 0>> \in Row
  <2>1. c \in Country /\ seeder[p].s = 0
    BY <1>1, PositionFacts
  <2> HIDE DEF c
  <2>4. States[c] \in Nat
    BY <2>1, PlaceFacts
  <2>2. 0 \in 0..States[c] /\ <<c, 0>> \in Place
    BY <2>1, <2>4, PlaceFacts
  <2>3. <<p, <<c, 0>>[1], <<c, 0>>[2]>> \in Row
    BY <2>2, PlaceFacts
  <2> QED BY <2>1, <2>2, <2>3 DEF c
<1>3. SavedUpTo(places, cities, p, c, 0)
  BY <1>1, <1>2 DEF RunAt
<1>4. \A x \in Place : x[1] < c \/ (x[1] = c /\ x[2] <= 0) => PlaceSaved(places', cities', p, x)
  <2> SUFFICES ASSUME NEW x \in Place, x[1] < c \/ (x[1] = c /\ x[2] = 0)
               PROVE  PlaceSaved(places', cities', p, x)
    BY PlaceFacts
  <2>1. CASE x[1] < c
    BY <1>1, <1>3, <2>1 DEF SavedUpTo, PlaceSaved
  <2>2. CASE x[1] = c /\ x[2] = 0
    BY <1>1, <2>2 DEF PlaceSaved
  <2> QED BY <2>1, <2>2
<1> HIDE DEF c
<1>5. AfterState(c, 0) \in Position /\ RunAt(places', cities', p, AfterState(c, 0))
  BY <1>2, <1>4, AfterStateIsGood
<1>6. IsFiniteSet(places')
  BY <1>1, FS_AddElement DEF IInv
<1>7. /\ places \subseteq places' /\ \A r \in places' : r[1] = p \/ r \in places
      /\ places' \subseteq Row /\ cities' \subseteq {r \in places' : r[3] # 0}
  <2>1. places \subseteq Row /\ cities \subseteq {r \in places : r[3] # 0}
    BY DEF IInv, TypeOK
  <2>2. <<p, c, 0>>[1] = p
    OBVIOUS
  <2> QED BY <1>1, <1>2, <2>1, <2>2
<1> QED BY <1>1, <1>5, <1>6, <1>7, SavePreserves

LEMMA SaveStatePreserves == ASSUME IInv, NEW p \in Process, SaveState(p) PROVE IInv'
<1> DEFINE c == seeder[p].c
           s == seeder[p].s
<1>1. /\ seeder[p] \in Position /\ seeder[p].stage = "state" /\ RunAt(places, cities, p, seeder[p])
      /\ places' = places \union {<<p, c, s>>} /\ UNCHANGED <<cities, regions, walk>>
      /\ seeder' = [seeder EXCEPT ![p] = At("cities", c, s)]
  BY DEF SaveState, Goto, IInv, TypeOK
<1>2. c \in Country /\ s \in 0..States[c] /\ s # 0
  BY <1>1, PositionFacts
<1>3. SavedUpTo(places, cities, p, c, s)
  BY <1>1 DEF RunAt
<1> HIDE DEF c, s
<1>4. s \in Nat \ {0} /\ s <= States[c] /\ <<p, c, s>> \in Row /\ At("cities", c, s) \in Position
  <2>1. States[c] \in Nat
    BY <1>2, PlaceFacts
  <2>2. s \in Nat \ {0} /\ s <= States[c]
    BY <1>2, <2>1
  <2>3. <<p, <<c, s>>[1], <<c, s>>[2]>> \in Row
    BY <1>2, <2>2, PlaceFacts
  <2> QED BY <1>2, <2>2, <2>3, StagesArePositions
<1>5. RunAt(places', cities', p, At("cities", c, s))
  <2>1. SavedUpTo(places', cities', p, c, s)
    BY <1>1, <1>3 DEF SavedUpTo, PlaceSaved
  <2> QED BY <1>1, <2>1 DEF RunAt, At
<1>6. IsFiniteSet(places')
  BY <1>1, FS_AddElement DEF IInv
<1>7. /\ places \subseteq places' /\ \A r \in places' : r[1] = p \/ r \in places
      /\ places' \subseteq Row /\ cities' \subseteq {r \in places' : r[3] # 0}
  <2>1. places \subseteq Row /\ cities \subseteq {r \in places : r[3] # 0}
    BY DEF IInv, TypeOK
  <2>2. <<p, c, s>>[1] = p
    OBVIOUS
  <2> QED BY <1>1, <1>4, <2>1, <2>2
<1> QED BY <1>1, <1>4, <1>5, <1>6, <1>7, SavePreserves

LEMMA SaveCitiesPreserves == ASSUME IInv, NEW p \in Process, SaveCities(p) PROVE IInv'
<1> DEFINE c == seeder[p].c
           s == seeder[p].s
<1>1. /\ seeder[p] \in Position /\ seeder[p].stage = "cities" /\ RunAt(places, cities, p, seeder[p])
      /\ cities' = cities \union {<<p, c, s>>} /\ UNCHANGED <<places, regions, walk>>
      /\ seeder' = [seeder EXCEPT ![p] = AfterState(c, s)]
  BY DEF SaveCities, Goto, IInv, TypeOK
<1>2. c \in Country /\ s \in 0..States[c] /\ s # 0
  BY <1>1, PositionFacts
<1>3. SavedUpTo(places, cities, p, c, s) /\ <<p, c, s>> \in places
  BY <1>1 DEF RunAt
<1> HIDE DEF c, s
<1>4. \A x \in Place : x[1] < c \/ (x[1] = c /\ x[2] <= s) => PlaceSaved(places', cities', p, x)
  <2> SUFFICES ASSUME NEW x \in Place, x[1] < c \/ (x[1] = c /\ x[2] <= s)
               PROVE  PlaceSaved(places', cities', p, x)
    OBVIOUS
  <2>1. CASE x[1] < c \/ (x[1] = c /\ x[2] < s)
    BY <1>1, <1>3, <2>1 DEF SavedUpTo, PlaceSaved
  <2>2. CASE x[1] = c /\ x[2] = s
    BY <1>1, <1>3, <2>2 DEF PlaceSaved
  <2>3. x[2] \in Nat /\ s \in Int
    BY <1>2, PlaceFacts
  <2> QED BY <2>1, <2>2, <2>3
<1>5. AfterState(c, s) \in Position /\ RunAt(places', cities', p, AfterState(c, s))
  BY <1>2, <1>4, AfterStateIsGood
<1>6. IsFiniteSet(places')
  BY <1>1 DEF IInv
<1>7. /\ places \subseteq places' /\ \A r \in places' : r[1] = p \/ r \in places
      /\ places' \subseteq Row /\ cities' \subseteq {r \in places' : r[3] # 0}
  <2>1. places \subseteq Row /\ cities \subseteq {r \in places : r[3] # 0}
    BY DEF IInv, TypeOK
  <2>2. <<p, c, s>>[3] # 0
    BY <1>2
  <2> QED BY <1>1, <1>3, <2>1, <2>2
<1>8. cities \subseteq cities' /\ UNCHANGED <<regions, walk>>
  BY <1>1
<1> QED BY <1>1, <1>5, <1>6, <1>7, <1>8, SavePreserves

LEMMA CreateCityRegionPreserves ==
    ASSUME IInv, NEW n \in Region, NEW r \in Row, CreateCityRegion(n, r) PROVE IInv'
<1>1. UNCHANGED <<seeder, places, cities, walk>>
  BY DEF CreateCityRegion
<1>2. DOMAIN regions' \subseteq Region /\ \A m \in DOMAIN regions' : regions'[m] \in cities
  BY DEF CreateCityRegion, IInv, TypeOK
<1>3. TypeOK'
  BY <1>1, <1>2 DEF IInv, TypeOK
<1>4. (walk # NoWalk => GoodWalk(walk))'
  BY <1>1, WalkGoesOn DEF IInv
<1>5. \A p \in Process : RunAt(places', cities', p, seeder'[p])
  BY <1>1 DEF IInv
<1> QED BY <1>1, <1>3, <1>4, <1>5 DEF IInv

\* A step of the client.
LEMMA WalkMoves ==
    ASSUME IInv, NEW W \in Walk, GoodWalk(W), walk' = W,
           UNCHANGED <<seeder, places, cities, regions>>
    PROVE  IInv'
<1>1. GoodWalk(walk)'
  <2>1. Rows(walk.list)' = Rows(W.list)
    BY DEF Rows, Countries
  <2> QED BY <2>1 DEF GoodWalk, Behind, SortKey
<1>2. TypeOK'
  BY DEF IInv, TypeOK
<1>3. \A p \in Process : RunAt(places', cities', p, seeder'[p])
  BY DEF IInv
<1> QED BY <1>1, <1>2, <1>3 DEF IInv

\* What the pages read so far leave out is behind the next page too.
LEMMA ReadItemsPreserves ==
    ASSUME IInv, NEW w \in Walk, w.stage = "items", GoodWalk(w), ReadItems(w) PROVE IInv'
<1> DEFINE S == Rows(w.list)
           key == SortKey(w.desc)
<1>1. PICK X \in Pages(S, key, w.page, w.pageSize) :
          /\ \/ walk' = [w EXCEPT !.seen = @ \union X, !.stage = "total"]
             \/ /\ Cardinality(X) < w.pageSize
                /\ walk' = [w EXCEPT !.seen = @ \union X, !.stage = "done"]
          /\ UNCHANGED <<seeder, places, cities, regions>>
  BY DEF ReadItems
<1>2. S \in SUBSET Row /\ IsFiniteSet(S) /\ key \in [Row -> Int] /\ X \subseteq S
  BY <1>1, RowsAreFinite, KeysAreIntegers DEF IInv, TypeOK, Pages
<1>3. w.page \in Nat \ {0} /\ w.pageSize \in Nat \ {0}
  BY WalkFields
<1>4. ASSUME NEW r \in w.due \ (w.seen \union X)
      PROVE  /\ Ties(S, key, r) # {} \/ Cardinality(Ahead(S, key, r)) >= w.page * w.pageSize
             /\ Cardinality(X) < w.pageSize => Ties(S, key, r) # {}
  <2>1. r \in S /\ r \notin X
    BY DEF GoodWalk
  <2>2. Ties(S, key, r) # {} \/ Cardinality(Ahead(S, key, r)) >= (w.page - 1) * w.pageSize
    BY DEF GoodWalk, Behind
  <2> HIDE DEF S, key
  <2> QED BY <1>1, <1>2, <1>3, <2>1, <2>2, NotOnPage
<1> DEFINE W(stage) == [w EXCEPT !.seen = @ \union X, !.stage = stage]
<1>5. ASSUME NEW stage \in {"total", "done"}
      PROVE  /\ W(stage) \in Walk /\ W(stage).stage = stage /\ W(stage).list = w.list
             /\ W(stage).desc = w.desc /\ W(stage).due = w.due
             /\ W(stage).page = w.page /\ W(stage).pageSize = w.pageSize
             /\ W(stage).seen = w.seen \union X
  <2>1. X \subseteq Row
    BY <1>2
  <2> HIDE DEF S, key
  <2> QED BY <2>1 DEF Walk
<1>6. CASE walk' = W("total")
  <2> HIDE DEF W
  <2>1. GoodWalk(W("total"))
    BY <1>4, <1>5 DEF GoodWalk, Behind
  <2> QED BY <1>1, <1>5, <1>6, <2>1, WalkMoves
<1>7. CASE Cardinality(X) < w.pageSize /\ walk' = W("done")
  <2> HIDE DEF W
  <2>1. GoodWalk(W("done"))
    BY <1>4, <1>5, <1>7 DEF GoodWalk, Behind
  <2> QED BY <1>1, <1>5, <1>7, <2>1, WalkMoves
<1> QED BY <1>1, <1>6, <1>7

LEMMA ReadFirstPagePreserves ==
    ASSUME IInv, NEW l \in {All} \union Row, NEW desc \in BOOLEAN, NEW pageSize \in PageSizes,
           ReadFirstPage(l, desc, pageSize)
    PROVE  IInv'
<1> DEFINE w == [stage |-> "items", list |-> l, desc |-> desc, pageSize |-> pageSize,
                 page |-> 1, due |-> Rows(l), seen |-> {}]
<1>1. Rows(l) \subseteq Row /\ IsFiniteSet(Rows(l))
  BY RowsAreFinite DEF IInv, TypeOK
<1>2. w \in Walk /\ w.stage = "items"
  BY <1>1 DEF Walk
<1>3. \A r : Cardinality(Ahead(Rows(l), SortKey(desc), r)) \in Nat
  BY <1>1, AheadIsFinite
<1>4. GoodWalk(w)
  <2>1. (1 - 1) * pageSize = 0
    OBVIOUS
  <2> QED BY <1>3, <2>1 DEF GoodWalk, Behind
<1>5. ReadItems(w)
  BY DEF ReadFirstPage
<1> HIDE DEF w
<1> QED BY <1>2, <1>4, <1>5, ReadItemsPreserves

LEMMA ReadNextPagePreserves == ASSUME IInv, ReadNextPage PROVE IInv'
<1>1. walk \in Walk /\ walk.stage = "items" /\ GoodWalk(walk)
  BY DEF ReadNextPage, IInv, TypeOK, NoWalk
<1> QED BY <1>1, ReadItemsPreserves DEF ReadNextPage

LEMMA ReadTotalPreserves == ASSUME IInv, ReadTotal PROVE IInv'
<1> DEFINE S == Rows(walk.list)
           key == SortKey(walk.desc)
<1>1. walk \in Walk /\ walk.stage = "total" /\ GoodWalk(walk)
  BY DEF ReadTotal, IInv, TypeOK, NoWalk
<1>2. walk.page \in Nat \ {0} /\ walk.pageSize \in Nat \ {0}
  BY <1>1, WalkFields
<1>3. \A r \in walk.due \ walk.seen :
          Ties(S, key, r) # {} \/ Cardinality(Ahead(S, key, r)) >= walk.page * walk.pageSize
  BY <1>1 DEF GoodWalk, Behind
<1>4. CASE IsLast(Cardinality(S), walk.page, walk.pageSize)
  <2> DEFINE W == [walk EXCEPT !.stage = "done"]
  <2>1. S \subseteq Row /\ IsFiniteSet(S) /\ key \in [Row -> Int] /\ walk.due \subseteq S
    BY <1>1, RowsAreFinite, KeysAreIntegers DEF IInv, TypeOK, GoodWalk
  <2>2. ASSUME NEW r \in walk.due \ walk.seen PROVE Ties(S, key, r) # {}
    <3>1. r \in S
      BY <2>1
    <3>2. ~(Cardinality(Ahead(S, key, r)) >= walk.page * walk.pageSize)
      <4> HIDE DEF S, key
      <4> QED BY <1>2, <1>4, <2>1, <3>1, NotBehindLast
    <3> QED BY <1>3, <3>2
  <2>3. /\ W \in Walk /\ W.stage = "done" /\ W.list = walk.list /\ W.desc = walk.desc
        /\ W.due = walk.due /\ W.seen = walk.seen
    BY <1>1 DEF Walk
  <2>4. walk' = W /\ UNCHANGED <<seeder, places, cities, regions>>
    BY <1>4 DEF ReadTotal
  <2> HIDE DEF W
  <2>5. GoodWalk(W)
    BY <2>1, <2>2, <2>3 DEF GoodWalk
  <2> QED BY <2>3, <2>4, <2>5, WalkMoves
<1>5. CASE ~IsLast(Cardinality(S), walk.page, walk.pageSize)
  <2> DEFINE W == [walk EXCEPT !.stage = "items", !.page = @ + 1]
  <2>1. /\ W \in Walk /\ W.stage = "items" /\ W.list = walk.list /\ W.desc = walk.desc
        /\ W.due = walk.due /\ W.seen = walk.seen
        /\ W.page = walk.page + 1 /\ W.pageSize = walk.pageSize
    <3>1. walk.page + 1 \in Nat \ {0}
      BY <1>2
    <3> DEFINE next == walk.page + 1
    <3> HIDE DEF next, S, key
    <3>2. next \in Nat \ {0}
      BY <3>1 DEF next
    <3>3. [walk EXCEPT !.stage = "items", !.page = next] \in Walk
      BY <1>1, <3>2 DEF Walk
    <3> QED BY <1>1, <3>3 DEF Walk, next
  <2>2. walk' = W /\ UNCHANGED <<seeder, places, cities, regions>>
    BY <1>5 DEF ReadTotal
  <2> HIDE DEF W
  <2>3. (W.page - 1) * W.pageSize = walk.page * walk.pageSize
    BY <1>2, <2>1
  <2>4. GoodWalk(W)
    BY <1>1, <1>3, <2>1, <2>3 DEF GoodWalk, Behind
  <2> QED BY <2>1, <2>2, <2>4, WalkMoves
<1> QED BY <1>4, <1>5

LEMMA NextPreserves == IInv /\ [Next]_vars => IInv'
<1> SUFFICES ASSUME IInv, [Next]_vars PROVE IInv'
  OBVIOUS
<1>1. CASE UNCHANGED vars
  <2>1. \A p \in Process : RunAt(places', cities', p, seeder'[p])
    BY <1>1 DEF IInv, vars
  <2>2. (walk # NoWalk => GoodWalk(walk))'
    BY <1>1, WalkGoesOn DEF IInv, vars
  <2>3. TypeOK'
    BY <1>1 DEF IInv, TypeOK, vars
  <2> QED BY <1>1, <2>1, <2>2, <2>3 DEF IInv, vars
<1>2. CASE Seeding
  BY <1>2, TestEmptyPreserves, DownloadPreserves, DiePreserves, SaveCountryPreserves,
     SaveStatePreserves, SaveCitiesPreserves DEF Seeding
<1>3. CASE Walking
  BY <1>3, ReadFirstPagePreserves, ReadNextPagePreserves, ReadTotalPreserves DEF Walking
<1>4. CASE \E n \in Region, r \in Row : CreateCityRegion(n, r)
  BY <1>4, CreateCityRegionPreserves
<1> QED BY <1>1, <1>2, <1>3, <1>4 DEF Next

-----------------------------------------------------------------------------
\* The theorems.

THEOREM Invariance == Spec => []IInv
<1>1. Init => IInv
  BY InitIInv
<1>2. IInv /\ [Next]_vars => IInv'
  BY NextPreserves
<1> QED BY <1>1, <1>2, PTL DEF Spec

\* The tables hold rows of the file, cities belong to states that are there, and a city
\* region to a saved city (the foreign keys), whatever the interleaving of the runs.
THEOREM TypeCorrect == Spec => []TypeOK
<1>1. IInv => TypeOK
  BY DEF IInv
<1> QED BY <1>1, Invariance, PTL

\* The rows a run skipped for are complete, or are being completed, or were left by a run
\* that died: for any file and any number of processes that run CountriesSeeder.run().
THEOREM SeedingIsWhole == Spec => []HalfSeededNeedsDeath
<1>1. IInv => HalfSeededNeedsDeath
  <2> SUFFICES ASSUME IInv, NEW p \in Process, seeder[p] = Done
               PROVE  \E q \in Process :
                          \/ Complete(q) \/ Running(q)
                          \/ seeder[q].stage = "dead" /\ \E r \in places : r[1] = q
    BY DEF HalfSeededNeedsDeath
  <2>1. \A q \in Process : AllSaved(places, cities, q) => Complete(q)
    BY DEF AllSaved, PlaceSaved, Complete
  <2>2. AllSaved(places, cities, p) \/ (places # {} /\ \A r \in places : r[1] # p)
    <3>1. RunAt(places, cities, p, Done)
      BY DEF IInv
    <3>2. Done.stage = "done"
      BY DEF Done, At
    <3> QED BY <3>1, <3>2 DEF RunAt
  <2>3. CASE AllSaved(places, cities, p)
    BY <2>1, <2>3
  <2>4. CASE places # {} /\ \A r \in places : r[1] # p
    <3>1. PICK r \in places : TRUE
      BY <2>4
    <3> DEFINE q == r[1]
    <3>2. q \in Process /\ seeder[q] \in Position /\ RunAt(places, cities, q, seeder[q])
      BY PlaceFacts DEF IInv, TypeOK
    <3>3. seeder[q].stage \notin {"new", "download"}
      BY <3>2 DEF RunAt
    <3>4. seeder[q].stage # "done" \/ AllSaved(places, cities, q)
      BY <3>2 DEF RunAt
    <3>5. seeder[q].stage \in {"done", "dead", "country", "state", "cities"}
      BY <3>2, <3>3, PositionFacts
    <3> QED BY <2>1, <3>1, <3>2, <3>4, <3>5 DEF Running
  <2> QED BY <2>2, <2>3, <2>4
<1> QED BY <1>1, Invariance, PTL

\* A client that reads findAll()'s pages to the last one misses no row that was there when
\* it began and whose name is its own, for any page size and any number of seeders.
THEOREM ListsAreWhole == Spec => []PagesMissNothing
<1>1. IInv => PagesMissNothing
  BY DEF IInv, PagesMissNothing, GoodWalk, NoWalk
<1> QED BY <1>1, Invariance, PTL

=============================================================================
