----------------------------- MODULE MCJwtTokens -----------------------------
(***************************************************************************)
(* A small instance of JwtTokens for TLC.                                  *)
(***************************************************************************)
EXTENDS JwtTokens, TLC

Symmetry == Permutations(User) \union Permutations(TokenId) \union Permutations(Proc)

=============================================================================
