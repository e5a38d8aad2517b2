------------------------ MODULE MCTenantTransaction ------------------------
(* TenantTransaction for TLC's safety run: nothing tells two tenants, two   *)
(* requests or two connections apart.                                       *)
EXTENDS TenantTransaction, TLC

Symmetry == Permutations(Tenants) \cup Permutations(Requests) \cup Permutations(Conns)

=============================================================================
