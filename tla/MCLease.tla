------------------------------ MODULE MCLease ------------------------------
(* Configurations for the run of Lease. *)
EXTENDS Lease, TLC

Symmetry == Permutations(Service)

\* Both services are kept as long as nothing fails; no timeout at all; and an
\* interval on which the ticker panics.
SomeConfigs ==
  {[interval |-> 1, ttl |-> 6, timeout |-> 1],
   [interval |-> 1, ttl |-> 2, timeout |-> 0],
   [interval |-> 0, ttl |-> 2, timeout |-> 1]}
=============================================================================
