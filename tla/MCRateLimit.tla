---------------------------- MODULE MCRateLimit ----------------------------
(* Three callers behind one address: a tenant, and, without a tenant, a      *)
(* route with an override and one without.                                   *)
EXTENDS RateLimit, TLC

CONSTANTS t1, a1, register

MCClients ==
  {[tenant |-> t1, ip |-> a1, route |-> NoRoute],
   [tenant |-> NoTenant, ip |-> a1, route |-> NoRoute],
   [tenant |-> NoTenant, ip |-> a1, route |-> register]}

Symmetry == Permutations(Requests)

=============================================================================
