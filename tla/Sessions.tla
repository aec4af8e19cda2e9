------------------------------ MODULE Sessions ------------------------------
(***************************************************************************)
(* What the clients of the token endpoints may count on, without a word of *)
(* Redis: a client holds pairs of tokens, each token is accepted or it is  *)
(* not, and one that is refused is refused for ever.  A refresh delivers   *)
(* the successor of a pair only when both tokens of that pair are refused; *)
(* a revocation that finishes leaves refused whatever the user's clients   *)
(* held when it was called.  Pairs no client holds are not seen here.      *)
(***************************************************************************)
CONSTANTS
    User,
    TokenId,
    Proc,     \* requests that can be in flight at once
    NoId

VARIABLES
    held,     \* the pairs clients hold: records of id, user and the pair replaced
    open,     \* the tokens of held pairs that are accepted
    due       \* due[p]: the tokens the revocation of request p still has to close

vars == <<held, open, due>>

Family == {"access", "refresh"}

\* The tokens of the given families and pairs.
Tokens(families, ids) == families \X ids

IdsOf(u) == {t.id : t \in {s \in held : s.user = u}}

Init == held = {} /\ open = {} /\ due = [p \in Proc |-> {}]

\* A client of u receives pair n, for signing in (o is NoId) or for pair o.  Some of
\* its tokens may be refused already.
Deliver(n, u, o) ==
    /\ \A t \in held : t.id # n
    /\ o # NoId => /\ o \in IdsOf(u)
                   /\ Tokens(Family, {o}) \intersect open = {}
    /\ held' = held \union {[id |-> n, user |-> u, parent |-> o]}
    /\ \E families \in SUBSET Family : open' = open \union Tokens(families, {n})
    /\ UNCHANGED due

\* A token is refused from now on: its time is over, or a request closed it.
Close ==
    /\ open' \subseteq open
    /\ UNCHANGED <<held, due>>

RevokeToken(p, u, families) ==
    /\ due[p] = {}
    /\ due' = [due EXCEPT ![p] = Tokens(families, IdsOf(u))]
    /\ UNCHANGED <<held, open>>

\* The revocation has closed one family.
FinishFamily(p, f) ==
    /\ open' \subseteq open
    /\ {t \in due[p] : t[1] = f} \intersect open' = {}
    /\ due' = [due EXCEPT ![p] = {t \in @ : t[1] # f}]
    /\ UNCHANGED held

\* The revocation fails half-way.
Abandon(p) ==
    /\ due' = [due EXCEPT ![p] = {}]
    /\ UNCHANGED <<held, open>>

Next ==
    \/ \E n \in TokenId, u \in User, o \in TokenId \union {NoId} : Deliver(n, u, o)
    \/ Close
    \/ \E p \in Proc, u \in User, families \in SUBSET Family : RevokeToken(p, u, families)
    \/ \E p \in Proc, f \in Family : FinishFamily(p, f)
    \/ \E p \in Proc : Abandon(p)

Spec == Init /\ [][Next]_vars

=============================================================================
