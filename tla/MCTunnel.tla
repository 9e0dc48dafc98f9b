------------------------------ MODULE MCTunnel ------------------------------
(* Instances of Tunnel for TLC.                                            *)
EXTENDS Tunnel, TLC

CONSTANTS e1, e2

\* Both Exposures claim one hostname.
SharedHost == (e1 :> "h1") @@ (e2 :> "h1")
=============================================================================
