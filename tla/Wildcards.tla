----------------------------- MODULE Wildcards -----------------------------
(***************************************************************************)
(* The hostnames of the CloudflareExposures of one tunnel, some of them    *)
(* with a leading wildcard label: the order of the rules in the ingress    *)
(* document (tunnelconfig.Build), of which cloudflared takes the first     *)
(* that matches a request, and the guard that keeps two Access             *)
(* applications from covering one request (hasAccessWildcardOverlap).      *)
(*                                                                         *)
(* All Exposures have a hostname, which is immutable, and an origin, and   *)
(* the tunnel exists.  An Exposure's applications are all there or not;    *)
(* the CNAME goes the same way and is left out.  No call fails here: a     *)
(* pass that fails before it writes is one that has not begun, and Ingress *)
(* has the failures between the writes.                                    *)
(***************************************************************************)
EXTENDS Naturals, Sequences, FiniteSets

CONSTANTS
    Exposures,   \* the CloudflareExposures of the tunnel
    Labels,      \* the labels of hostnames
    Host,        \* Exposure -> hostname
    Alpha,       \* Exposure -> place of its hostname in the order of strings
    Requests,    \* hostnames that are asked for, as sequences of labels
    Protected,   \* the Exposures that users may switch Access on for
    Deletable,   \* the Exposures that users may delete
    MaxEdits     \* bound on edits of spec.access.enabled

\* A hostname: its labels but for a leading wildcard, the last one first.
Hostname == [wild : BOOLEAN, labels : Seq(Labels)]

ASSUME WildcardsAssumption ==
    /\ IsFiniteSet(Exposures)
    /\ Host \in [Exposures -> Hostname]
    /\ Alpha \in [Exposures -> Nat]
    /\ \A e, f \in Exposures : Alpha[e] = Alpha[f] => Host[e] = Host[f]
    /\ Requests \subseteq Seq(Labels)
    /\ Protected \subseteq Exposures
    /\ Deletable \subseteq Exposures
    /\ MaxEdits \in Nat

VARIABLES
    life,        \* Exposure -> its object; "new" has no finalizer yet
    access,      \* Exposure -> spec.access.enabled
    ready,       \* Exposure -> its Ready condition
    app,         \* Exposure -> whether its Access applications are live
    doc,         \* the rules of the document at Cloudflare, by Exposure
    routes,      \* the tunnel's status.routes and hash, by Exposure
    built,       \* the document the tunnel's pass is to write: {} or {document}
    xpass,       \* the Exposure pass under way: {} or {pass}
    edits,       \* edits made
    withdrawn    \* history: whose Access was withdrawn since their last pass

vars == <<life, access, ready, app, doc, routes, built, xpass, edits,
          withdrawn>>

\* What the tunnel controller writes.
tdoc == <<doc, routes, built>>

Lives == {"absent", "new", "live", "deleting", "gone"}

\* A pass: the Exposure, and what it read of its spec and of the tunnel's routes.
Pass == [exp : Exposures, access : BOOLEAN, route : BOOLEAN]

\* A document that was built, and whether it was sent.
Built == [rules : Seq(Exposures), sent : BOOLEAN]

\* TypeOK: the type invariant.
TypeOK ==
    /\ life \in [Exposures -> Lives]
    /\ access \in [Exposures -> BOOLEAN]
    /\ ready \in [Exposures -> BOOLEAN]
    /\ app \in [Exposures -> BOOLEAN]
    /\ doc \in Seq(Exposures) /\ routes \in Seq(Exposures)
    /\ built \subseteq Built
    /\ xpass \subseteq Pass
    /\ edits \in 0..MaxEdits
    /\ withdrawn \subseteq Exposures

Init ==
    /\ life = [e \in Exposures |-> "absent"]
    /\ access = [e \in Exposures |-> FALSE]
    /\ ready = [e \in Exposures |-> FALSE]
    /\ app = [e \in Exposures |-> FALSE]
    /\ doc = <<>> /\ routes = <<>> /\ built = {}
    /\ xpass = {}
    /\ edits = 0
    /\ withdrawn = {}

-----------------------------------------------------------------------------
(* Hostnames.                                                              *)

isWildcardHostname(h) == h.wild

labelCount(h) == Len(h.labels) + IF h.wild THEN 1 ELSE 0

\* q begins with p.
StartsWith(q, p) ==
    /\ Len(p) <= Len(q)
    /\ \A i \in 1..Len(p) : q[i] = p[i]

\* A wildcard covers the concrete hostnames with exactly one label more.
wildcardCoversHost(w, h) ==
    /\ w.wild /\ ~h.wild
    /\ Len(h.labels) = Len(w.labels) + 1
    /\ StartsWith(h.labels, w.labels)

\* The Exposures a List returns: those being deleted are still there.
Listed == {e \in Exposures : life[e] \in {"new", "live", "deleting"}}

HostnameConflict ==
    \E e, f \in Listed : e # f /\ Host[e] = Host[f]

-----------------------------------------------------------------------------
(* The tunnel controller: the document.                                    *)

\* Mutant of Less: the order of strings, in which "*" comes first.
MutantAlphabetical(e, f) == Alpha[e] < Alpha[f]

\* Mutant of Less: hostnames as specific as each other come as they are listed.
MutantNoTieBreak(e, f) ==
    \/ labelCount(Host[e]) > labelCount(Host[f])
    \/ /\ labelCount(Host[e]) = labelCount(Host[f])
       /\ ~Host[e].wild /\ Host[f].wild

\* The sort's "less": more labels first, then the concrete hostname before the
\* wildcard, then by the string.  Hostnames differ here, so that namespace and
\* name do not matter.
Less(e, f) ==
    LET h == Host[e]
        k == Host[f]
    IN \/ labelCount(h) > labelCount(k)
       \/ /\ labelCount(h) = labelCount(k)
          /\ \/ ~isWildcardHostname(h) /\ isWildcardHostname(k)
             \/ /\ isWildcardHostname(h) = isWildcardHostname(k)
                /\ Alpha[e] < Alpha[f]

\* What sort.Slice may make of a set: it is not stable, so that any order is
\* possible where "less" leaves it open.
Sorted(S) ==
    {s \in [1..Cardinality(S) -> S] :
        \A i, j \in 1..Cardinality(S) :
            i < j => s[i] # s[j] /\ ~Less(s[j], s[i])}

\* List and Build, which refuses when two Exposures have one hostname.  A document
\* that the status has the rules and the hash of is not written again.
BuildDocument ==
    /\ built = {} /\ ~HostnameConflict
    /\ \E s \in Sorted(Listed) :
          /\ s # routes
          /\ built' = {[rules |-> s, sent |-> FALSE]}
    /\ UNCHANGED <<life, access, ready, app, doc, routes, xpass, edits, withdrawn>>

\* Configurations().Update, whatever has become of the Exposures since the List.
PutDocument ==
    /\ \E b \in built :
          /\ ~b.sent
          /\ doc' = b.rules
          /\ built' = {[b EXCEPT !.sent = TRUE]}
    /\ UNCHANGED <<life, access, ready, app, routes, xpass, edits, withdrawn>>

\* setTunnelConfigStatus.
SaveRoutes ==
    /\ \E b \in built : b.sent /\ routes' = b.rules
    /\ built' = {}
    /\ UNCHANGED <<life, access, ready, app, doc, xpass, edits, withdrawn>>

-----------------------------------------------------------------------------
(* The Exposure controller: one worker.                                    *)

hasDuplicateHostname(e) == \E f \in Listed \ {e} : Host[f] = Host[e]

\* Mutant of hasAccessWildcardOverlap: only Exposures that are Ready count.
MutantReadyOnly(e) ==
    \E f \in Listed \ {e} :
        /\ life[f] # "deleting"
        /\ access[f] /\ ready[f]
        /\ \/ wildcardCoversHost(Host[e], Host[f])
           \/ wildcardCoversHost(Host[f], Host[e])

\* Mutant of hasAccessWildcardOverlap: Exposures without Access count too.
MutantPublicToo(e) ==
    \E f \in Listed \ {e} :
        /\ life[f] # "deleting"
        /\ \/ wildcardCoversHost(Host[e], Host[f])
           \/ wildcardCoversHost(Host[f], Host[e])

hasAccessWildcardOverlap(e) ==
    \E f \in Listed \ {e} :
        /\ life[f] # "deleting"
        /\ access[f]
        /\ \/ wildcardCoversHost(Host[e], Host[f])
           \/ wildcardCoversHost(Host[f], Host[e])

Refused(e) ==
    \/ hasDuplicateHostname(e)
    \/ access[e] /\ hasAccessWildcardOverlap(e)

\* The start of a pass: the finalizer is added, then come the guards.
BeginRefused(e) ==
    /\ xpass = {} /\ life[e] \in {"new", "live"}
    /\ Refused(e)
    /\ life' = [life EXCEPT ![e] = "live"]
    /\ ready' = [ready EXCEPT ![e] = FALSE]
    /\ UNCHANGED <<access, app, tdoc, xpass, edits, withdrawn>>

BeginPass(e) ==
    /\ xpass = {} /\ life[e] \in {"new", "live"}
    /\ ~Refused(e)
    /\ life' = [life EXCEPT ![e] = "live"]
    /\ xpass' = {[exp |-> e, access |-> access[e],
                  route |-> \E i \in DOMAIN routes : routes[i] = e]}
    /\ UNCHANGED <<access, ready, app, tdoc, edits, withdrawn>>

\* The applications are created, kept or deleted as the spec that was read says,
\* and the status is saved.
FinishPass ==
    /\ \E p \in xpass :
          /\ app' = [app EXCEPT ![p.exp] = p.access]
          /\ ready' = [ready EXCEPT ![p.exp] = p.route]
          /\ withdrawn' = IF life[p.exp] = "live" /\ access[p.exp] = p.access
                            THEN withdrawn \ {p.exp} ELSE withdrawn
    /\ xpass' = {}
    /\ UNCHANGED <<life, access, tdoc, edits>>

\* reconcileDelete: no guard stands before the deletion of what is tracked.
Finalize(e) ==
    /\ xpass = {} /\ life[e] = "deleting"
    /\ app' = [app EXCEPT ![e] = FALSE]
    /\ life' = [life EXCEPT ![e] = "gone"]
    /\ access' = [access EXCEPT ![e] = FALSE]
    /\ ready' = [ready EXCEPT ![e] = FALSE]
    /\ withdrawn' = withdrawn \ {e}
    /\ UNCHANGED <<tdoc, xpass, edits>>

-----------------------------------------------------------------------------
(* Users.                                                                  *)

Apply(e) ==
    /\ life[e] = "absent"
    /\ life' = [life EXCEPT ![e] = "new"]
    /\ \E a \in BOOLEAN :
          /\ a => e \in Protected
          /\ access' = [access EXCEPT ![e] = a]
    /\ UNCHANGED <<ready, app, tdoc, xpass, edits, withdrawn>>

SwitchAccess(e) ==
    /\ e \in Protected /\ life[e] \in {"new", "live"} /\ edits < MaxEdits
    /\ edits' = edits + 1
    /\ access' = [access EXCEPT ![e] = ~access[e]]
    /\ withdrawn' = IF access[e] THEN withdrawn \cup {e} ELSE withdrawn
    /\ UNCHANGED <<life, ready, app, tdoc, xpass>>

Delete(e) ==
    /\ e \in Deletable /\ life[e] \in {"new", "live"}
    /\ life' = [life EXCEPT ![e] = IF @ = "new" THEN "gone" ELSE "deleting"]
    /\ withdrawn' = IF access[e] THEN withdrawn \cup {e} ELSE withdrawn
    /\ UNCHANGED <<access, ready, app, tdoc, xpass, edits>>

-----------------------------------------------------------------------------
Begin(e) == BeginRefused(e) \/ BeginPass(e) \/ Finalize(e)

TunnelPass == BuildDocument \/ PutDocument \/ SaveRoutes

Next ==
    \/ TunnelPass
    \/ FinishPass
    \/ \E e \in Exposures :
          Begin(e) \/ Apply(e) \/ SwitchAccess(e) \/ Delete(e)

\* Passes go on, and the worker serves every Exposure of its queue.
Fairness ==
    /\ WF_vars(TunnelPass)
    /\ WF_vars(FinishPass)
    /\ \A e \in Exposures : SF_vars(Begin(e))

Spec == Init /\ [][Next]_vars

FairSpec == Spec /\ Fairness

-----------------------------------------------------------------------------
(* Properties.                                                             *)

\* cloudflared takes a wildcard for any number of labels; Cloudflare's DNS, and
\* the README, for one.  The rules are to work in both readings.
Matches(h, q, deep) ==
    IF h.wild
      THEN /\ StartsWith(q, h.labels)
           /\ Len(q) > Len(h.labels)
           /\ deep \/ Len(q) = Len(h.labels) + 1
      ELSE q = h.labels

\* The first rule of the document that matches a request is number i.
Chosen(i, q, deep) ==
    /\ Matches(Host[doc[i]], q, deep)
    /\ \A j \in 1..Len(doc) : j < i => ~Matches(Host[doc[j]], q, deep)

\* MostSpecificWins (builder.go: "rules must be emitted most-specific-first"):
\* whatever hostname matches a request, the rule that the request meets first
\* matches no request that the other one does not match too.
MostSpecificWins ==
    \A q \in Requests, deep \in BOOLEAN, i, j \in 1..Len(doc) :
        Chosen(i, q, deep) /\ Matches(Host[doc[j]], q, deep)
          => \A r \in Requests : Matches(Host[doc[i]], r, deep)
                                   => Matches(Host[doc[j]], r, deep)

Overlap(e, f) ==
    /\ e # f
    /\ \/ wildcardCoversHost(Host[e], Host[f])
       \/ wildcardCoversHost(Host[f], Host[e])

\* OneAccessPerRequest (hasAccessWildcardOverlap): the applications of two
\* Exposures that overlap are live together only while one of the two, whose
\* Access was withdrawn, has not been reconciled since: no order of passes
\* and edits makes the operator itself let them both in.
OneAccessPerRequest ==
    \A e, f \in Exposures :
        Overlap(e, f) /\ app[e] /\ app[f] => e \in withdrawn \/ f \in withdrawn

\* DocumentSettles (reconcileTunnelConfig compares hashes of documents that it
\* builds anew in every pass): the document is not written for ever, and ends up
\* with the rules of the Exposures there are, and so does the status that their
\* passes read, although they come and go between the List and the writes;
\* unless two claim one hostname.
DocumentSettles ==
    /\ <>[][FALSE]_doc
    /\ <>[](HostnameConflict \/ (doc \in Sorted(Listed) /\ routes = doc))

Wants(e) == life[e] \in {"new", "live"} /\ access[e]

\* Nothing stands in the way of e.
Clear(e) ==
    /\ ~HostnameConflict
    /\ access[e] => \A f \in Exposures : Overlap(e, f) => ~Wants(f)

\* e wants Access, and so does another Exposure that it overlaps with.
Contested(e) == Wants(e) /\ \E f \in Exposures : Overlap(e, f) /\ Wants(f)

\* ReadyUnlessContested (README: "Access overlap is intentionally rejected",
\* "DNS-only / public wildcard + concrete overrides are unaffected"): an Exposure
\* in whose way nothing stands gets Ready, with applications as its spec asks; of
\* those with Access that overlap none stays Ready, whichever was first.
ReadyUnlessContested ==
    \A e \in Exposures :
        /\ <>[](life[e] \in {"new", "live"} /\ Clear(e))
             => <>[](ready[e] /\ app[e] = access[e])
        /\ <>[]Contested(e) => <>[]~ready[e]

=============================================================================
