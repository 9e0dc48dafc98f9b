---------------------------- MODULE MCAccessApps ----------------------------
(* Instances of AccessApps for TLC.                                        *)
EXTENDS AccessApps, TLC

\* The hostname, the same with a wildcard path, a path and a stranger's name.
Coverage == ("h" :> "H") @@ ("h*" :> "H") @@ ("p" :> "P") @@ ("x" :> "invalid")

Ask(ds) == [domains |-> ds, body |-> "b"]

Off == [on |-> FALSE, apps |-> <<>>]

On(f) == [on |-> TRUE, apps |-> f]

\* One entry; two; the same two with their domains exchanged; one with both
\* domains; another name for the hostname, written with a wildcard.
GoodSpecs == {On(1 :> Ask({"p"})), On((1 :> Ask({"h"})) @@ (2 :> Ask({"p"}))),
              On((1 :> Ask({"p"})) @@ (2 :> Ask({"h"}))),
              On(2 :> Ask({"h", "p"})), On(2 :> Ask({"h*"}))}

\* No entry; the hostname twice, in one entry and in two; a stranger's name.
BadSpecs == {On(<<>>), On(1 :> Ask({"h", "h*"})),
             On((1 :> Ask({"h"})) @@ (2 :> Ask({"h*"}))), On(1 :> Ask({"x"}))}

AllSpecs == {Off} \cup GoodSpecs \cup BadSpecs
=============================================================================
