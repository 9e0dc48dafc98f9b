--------------------------- MODULE MCTunnelRoute ----------------------------
(* Instances of TunnelRoute for TLC.                                       *)
EXTENDS TunnelRoute, TLC

CONSTANTS r1, r2

\* Two ways to write one network, another network and one that is no network.
Networks == ("a" :> "A") @@ ("a2" :> "A") @@ ("b" :> "B") @@ ("bad" :> "invalid")

RouteSpec(n, v, c) == [network |-> n, vnet |-> v, note |-> c]

\* One network written in two ways, without and with a virtual network; and
\* another network.
SomeSpecs == {RouteSpec("a", "unset", "x"), RouteSpec("a2", "v", "x"),
              RouteSpec("b", "unset", "x")}

\* A network, and what cannot be parsed as one.
TwoSpecs == {RouteSpec("a", "unset", "x"), RouteSpec("bad", "unset", "x")}

Stranger == {[net |-> "B", vnet |-> "default"]}
=============================================================================
