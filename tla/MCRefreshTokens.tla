-------------------------- MODULE MCRefreshTokens --------------------------
(* RefreshTokens for TLC's safety run: nothing tells two users, two roles,  *)
(* two jtis or two requests apart.                                          *)
EXTENDS RefreshTokens, TLC

Symmetry == Permutations(Users) \cup Permutations(Roles)
              \cup Permutations(Tokens) \cup Permutations(Requests)

=============================================================================
