---------------------------- MODULE MCWildcards -----------------------------
(* Instances of Wildcards for TLC.                                         *)
EXTENDS Wildcards, TLC

Wild(ls) == [wild |-> TRUE, labels |-> ls]

Concrete(ls) == [wild |-> FALSE, labels |-> ls]

\* The Exposures, numbered in the order of their hostnames' strings:
\* *.x.c, *.b.x.c, a.x.c and b.x.c.
Hosts == <<Wild(<<"c", "x">>), Wild(<<"c", "x", "b">>),
           Concrete(<<"c", "x", "a">>), Concrete(<<"c", "x", "b">>)>>

HostOf == [e \in Exposures |-> Hosts[e]]

AlphaOf == [e \in Exposures |-> e]

\* The hostnames, others that the wildcards match, and one that none does.
Asked == {<<"c", "x">>, <<"c", "x", "a">>, <<"c", "x", "b">>, <<"c", "x", "d">>,
          <<"c", "x", "b", "a">>}
=============================================================================
