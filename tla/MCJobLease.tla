----------------------------- MODULE MCJobLease -----------------------------
(* Materializations of one plan, each in a process of its own.       *)
EXTENDS JobLeaseProperties

CONSTANTS a, b, p, q

MCProcessOf == [j \in Jobs |-> IF j = a THEN p ELSE q]
=============================================================================
