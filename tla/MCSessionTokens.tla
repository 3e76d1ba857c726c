--------------------------- MODULE MCSessionTokens ---------------------------
(***************************************************************************)
(* Two tabs of one browser, two calls under way, two accounts.             *)
(***************************************************************************)
EXTENDS SessionTokens, TLC

Symmetry == Permutations(Tabs) \cup Permutations(Users) \cup Permutations(Requests)

\* Bound: there are two logins, one access token expires, and one more thing happens: an account is
\* switched off, a token is revoked, an answer is missed or a session is shared.
FewChanges ==
    /\ Cardinality(stale) <= 1
    /\ Cardinality({p \in Signed : parent[p] = NoPair}) <= 2
    /\ Cardinality(inactive) + Cardinality(revoked) + Cardinality(missed)
          + Cardinality(shared) <= 1
=============================================================================
