----------------------------- MODULE MCIngress -----------------------------
(* Instances of Ingress for TLC.                                           *)
EXTENDS Ingress, TLC

CONSTANTS e1, e2

\* Each Exposure has its own hostname.
OwnHosts == (e1 :> "h1") @@ (e2 :> "h2")

\* Both claim one hostname.
SharedHost == (e1 :> "h1") @@ (e2 :> "h1")

\* With one hostname the Exposures are interchangeable.
Symmetry == Permutations({e1, e2})

OneHost == (e1 :> "h1")
=============================================================================
