-------------------------- MODULE MCRequestPipeline --------------------------
(* RequestPipeline for TLC: nothing tells two ids, slugs or requests apart.   *)
EXTENDS RequestPipeline, TLC

Symmetry == Permutations(Tenants) \cup Permutations(Slugs) \cup Permutations(Requests)

=============================================================================
