-------------------------------- MODULE Listing --------------------------------
(***************************************************************************)
(* The paged lists of the gateway: a query with ORDER BY ... DESC, take()  *)
(* and skip(), and the pagination that is answered with its items.         *)
(*                                                                         *)
(* A list is a finite set S of rows with a key to sort by.  Rows that tie  *)
(* may come in another order in every query, so a query has several        *)
(* possible pages.                                                         *)
(***************************************************************************)
EXTENDS Integers, FiniteSets

\* The rows of S that come before i.
Ahead(S, key, i) == {j \in S : key[j] > key[i]}

\* The rows of S that tie with i.
Ties(S, key, i) == {j \in S \ {i} : key[j] = key[i]}

\* What take(pageSize) and skip((page - 1) * pageSize) may leave of S: "before" is skipped.
IsPage(X, before, S, key, page, pageSize) ==
    LET skip == (page - 1) * pageSize
        after == S \ (before \union X)
    IN  /\ Cardinality(before) <= skip /\ (Cardinality(before) < skip => before = S)
        /\ Cardinality(X) <= pageSize /\ (Cardinality(X) < pageSize => after = {})
        /\ \A i \in before, j \in X \union after : key[i] >= key[j]
        /\ \A i \in X, j \in after : key[i] >= key[j]

Pages(S, key, page, pageSize) ==
    {X \in SUBSET S : \E before \in SUBSET (S \ X) : IsPage(X, before, S, key, page, pageSize)}

\* Whether "page" is the lastPage of the answer, Math.ceil(total / pageSize), or past it.
IsLast(total, page, pageSize) == total <= page * pageSize

=============================================================================
