---------------------------- MODULE MCFailover ----------------------------
(* Small instances of Failover for TLC. *)
EXTENDS Failover

NoSkew == [s \in Sites |-> 0]

\* The clock of site 1 is one tick ahead.
Skewed == [s \in Sites |-> IF s = 1 THEN 1 ELSE 0]
===========================================================================
