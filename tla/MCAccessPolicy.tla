--------------------------- MODULE MCAccessPolicy ---------------------------
(* Instances of AccessPolicy for TLC.                                      *)
EXTENDS AccessPolicy, TLC

CONSTANTS e1

\* Two specs with the same rules and another decision, one with other rules.
DecisionUnhashed == ("allow" :> 101) @@ ("deny" :> 101) @@ ("other" :> 102)
=============================================================================
