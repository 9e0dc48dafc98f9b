-------------------------- MODULE WildcardsProofs --------------------------
(***************************************************************************)
(* Theorems about Wildcards, for any Exposures, hostnames, requests and    *)
(* bounds.                                                                 *)
(***************************************************************************)
EXTENDS Wildcards, FiniteSetTheorems, WellFoundedInduction, TLAPS

\* A document that the sort has made.
InOrder(s) ==
    \A i, j \in 1..Len(s) : i < j => ~Less(s[j], s[i])

\* The document at Cloudflare is in order, and so is one that is to be written.
DocInv == InOrder(doc) /\ \A b \in built : InOrder(b.rules)

-----------------------------------------------------------------------------
(* Sorting and hostnames.                                                  *)

\* What the sort of the listed Exposures returns: a sequence in order.
LEMMA SortedInOrder ==
    ASSUME NEW S \in SUBSET Exposures, NEW s \in Sorted(S)
    PROVE  s \in Seq(Exposures) /\ InOrder(s)
<1>1. IsFiniteSet(S)
  BY WildcardsAssumption, FS_Subset
<1>2. Cardinality(S) \in Nat
  BY <1>1, FS_CardinalityType
<1>3. s \in [1..Cardinality(S) -> Exposures]
  BY DEF Sorted
<1>4. s \in Seq(Exposures) /\ Len(s) = Cardinality(S)
  BY <1>2, <1>3
<1>5. QED
  BY <1>4 DEF Sorted, InOrder

\* Of two rules in order that match one request, the first matches no request
\* that the second does not match.
LEMMA FirstIsFiner ==
    ASSUME NEW e \in Exposures, NEW f \in Exposures, ~Less(f, e),
           NEW deep \in BOOLEAN, NEW q \in Requests, NEW r \in Requests,
           Matches(Host[e], q, deep), Matches(Host[f], q, deep),
           Matches(Host[e], r, deep)
    PROVE  Matches(Host[f], r, deep)
<1> DEFINE h == Host[e]
           k == Host[f]
<1>1. /\ h.wild \in BOOLEAN /\ h.labels \in Seq(Labels) /\ Len(h.labels) \in Nat
      /\ k.wild \in BOOLEAN /\ k.labels \in Seq(Labels) /\ Len(k.labels) \in Nat
      /\ Len(q) \in Nat /\ Len(r) \in Nat
  BY WildcardsAssumption DEF Hostname
<1>2. CASE ~h.wild
  BY <1>2 DEF Matches
<1>3. CASE h.wild /\ ~k.wild
  <2>1. k.labels = q /\ Len(q) > Len(h.labels)
    BY <1>3 DEF Matches
  <2>2. labelCount(k) = Len(q) /\ labelCount(h) = Len(h.labels) + 1
    BY <1>1, <1>3, <2>1 DEF labelCount
  <2>3. labelCount(k) > labelCount(h) \/ labelCount(k) = labelCount(h)
    BY <1>1, <2>1, <2>2
  <2>4. Less(f, e)
    BY <1>3, <2>3 DEF Less, isWildcardHostname
  <2>5. QED
    BY <2>4
<1>4. CASE h.wild /\ k.wild
  <2>1. labelCount(k) = Len(k.labels) + 1 /\ labelCount(h) = Len(h.labels) + 1
    BY <1>4 DEF labelCount
  <2>2. ~(labelCount(k) > labelCount(h))
    BY DEF Less
  <2>3. Len(k.labels) <= Len(h.labels)
    BY <1>1, <2>1, <2>2
  <2>4. /\ StartsWith(q, h.labels) /\ StartsWith(q, k.labels)
        /\ StartsWith(r, h.labels) /\ Len(r) > Len(h.labels)
        /\ deep \/ (/\ Len(q) = Len(h.labels) + 1 /\ Len(q) = Len(k.labels) + 1
                    /\ Len(r) = Len(h.labels) + 1)
    BY <1>4 DEF Matches
  <2>5. \A i \in 1..Len(k.labels) : r[i] = k.labels[i]
    BY <1>1, <2>3, <2>4 DEF StartsWith
  <2>6. StartsWith(r, k.labels) /\ Len(r) > Len(k.labels)
    BY <1>1, <2>3, <2>4, <2>5 DEF StartsWith
  <2>7. deep \/ Len(r) = Len(k.labels) + 1
    BY <1>1, <2>4
  <2>8. QED
    BY <1>4, <2>6, <2>7 DEF Matches
<1>5. QED
  BY <1>1, <1>2, <1>3, <1>4

-----------------------------------------------------------------------------
(* Types.                                                                  *)

LEMMA TypeStep == TypeOK /\ [Next]_vars => TypeOK'
<1> SUFFICES ASSUME TypeOK, [Next]_vars PROVE TypeOK'
  OBVIOUS
<1> USE WildcardsAssumption DEF tdoc
<1>1. CASE TunnelPass
  <2>1. CASE BuildDocument
    <3>1. PICK s \in Sorted(Listed) : built' = {[rules |-> s, sent |-> FALSE]}
      BY <2>1 DEF BuildDocument
    <3>2. s \in Seq(Exposures)
      BY <3>1, SortedInOrder DEF Listed
    <3>3. built' \subseteq Built
      BY <3>1, <3>2 DEF Built
    <3>4. QED
      BY <2>1, <3>3 DEF BuildDocument, TypeOK
  <2>2. CASE PutDocument
    <3>1. PICK b \in built : doc' = b.rules /\ built' = {[b EXCEPT !.sent = TRUE]}
      BY <2>2 DEF PutDocument
    <3>2. doc' \in Seq(Exposures) /\ built' \subseteq Built
      BY <3>1 DEF TypeOK, Built
    <3>3. QED
      BY <2>2, <3>2 DEF PutDocument, TypeOK
  <2>3. CASE SaveRoutes
    <3>1. routes' \in Seq(Exposures) /\ built' \subseteq Built
      BY <2>3 DEF SaveRoutes, TypeOK, Built
    <3>2. QED
      BY <2>3, <3>1 DEF SaveRoutes, TypeOK
  <2>4. QED
    BY <1>1, <2>1, <2>2, <2>3 DEF TunnelPass
<1>2. CASE FinishPass
  <2>1. PICK p \in xpass :
          /\ app' = [app EXCEPT ![p.exp] = p.access]
          /\ ready' = [ready EXCEPT ![p.exp] = p.route]
          /\ withdrawn' = IF life[p.exp] = "live" /\ access[p.exp] = p.access
                            THEN withdrawn \ {p.exp} ELSE withdrawn
    BY <1>2 DEF FinishPass
  <2>2. p.exp \in Exposures /\ p.access \in BOOLEAN /\ p.route \in BOOLEAN
    BY <2>1 DEF TypeOK, Pass
  <2>3. app' \in [Exposures -> BOOLEAN] /\ ready' \in [Exposures -> BOOLEAN]
    BY <2>1, <2>2 DEF TypeOK
  <2>4. withdrawn' \subseteq Exposures
    BY <2>1 DEF TypeOK
  <2>5. QED
    BY <1>2, <2>3, <2>4 DEF FinishPass, TypeOK
<1>3. ASSUME NEW e \in Exposures, BeginRefused(e) PROVE TypeOK'
  BY <1>3 DEF BeginRefused, TypeOK, Lives
<1>4. ASSUME NEW e \in Exposures, BeginPass(e) PROVE TypeOK'
  <2>1. [exp |-> e, access |-> access[e],
         route |-> \E i \in DOMAIN routes : routes[i] = e] \in Pass
    BY DEF TypeOK, Pass
  <2>2. xpass' \subseteq Pass
    BY <1>4, <2>1 DEF BeginPass
  <2>3. life' \in [Exposures -> Lives]
    BY <1>4 DEF BeginPass, TypeOK, Lives
  <2>4. QED
    BY <1>4, <2>2, <2>3 DEF BeginPass, TypeOK
<1>5. ASSUME NEW e \in Exposures, Finalize(e) PROVE TypeOK'
  BY <1>5 DEF Finalize, TypeOK, Lives
<1>6. ASSUME NEW e \in Exposures, Apply(e) PROVE TypeOK'
  BY <1>6 DEF Apply, TypeOK, Lives
<1>7. ASSUME NEW e \in Exposures, SwitchAccess(e) PROVE TypeOK'
  BY <1>7 DEF SwitchAccess, TypeOK
<1>8. ASSUME NEW e \in Exposures, Delete(e) PROVE TypeOK'
  BY <1>8 DEF Delete, TypeOK, Lives
<1>9. CASE UNCHANGED vars
  BY <1>9 DEF vars, TypeOK
<1>10. QED
  BY <1>1, <1>2, <1>3, <1>4, <1>5, <1>6, <1>7, <1>8, <1>9
     DEF Next, Begin

LEMMA TypeInit == Init => TypeOK
BY WildcardsAssumption DEF Init, TypeOK, Lives

\* Every state of the hostnames' model has its type.
THEOREM WildcardTypes == Spec => []TypeOK
BY TypeInit, TypeStep, PTL DEF Spec

-----------------------------------------------------------------------------
(* The order of the rules.                                                 *)

\* Only the tunnel's pass changes the documents.
LEMMA TunnelOnly == [Next]_vars => TunnelPass \/ UNCHANGED tdoc
BY DEF Next, vars, tdoc, Begin, FinishPass, BeginRefused, BeginPass, Finalize,
       Apply, SwitchAccess, Delete

LEMMA DocStep == TypeOK /\ DocInv /\ [Next]_vars => DocInv'
<1> SUFFICES ASSUME TypeOK, DocInv, [Next]_vars PROVE DocInv'
  OBVIOUS
<1>1. CASE BuildDocument
  <2>1. PICK s \in Sorted(Listed) :
          built' = {[rules |-> s, sent |-> FALSE]} /\ UNCHANGED doc
    BY <1>1 DEF BuildDocument
  <2>2. InOrder(s)
    BY <2>1, SortedInOrder DEF Listed
  <2>3. \A b \in built' : b.rules = s
    BY <2>1
  <2>4. QED
    BY <2>1, <2>2, <2>3 DEF DocInv
<1>2. CASE PutDocument
  <2>1. PICK b \in built : doc' = b.rules /\ built' = {[b EXCEPT !.sent = TRUE]}
    BY <1>2 DEF PutDocument
  <2>2. \A c \in built' : c.rules = b.rules
    BY <2>1 DEF TypeOK, Built
  <2>3. QED
    BY <2>1, <2>2 DEF DocInv
<1>3. CASE SaveRoutes
  BY <1>3 DEF DocInv, SaveRoutes
<1>4. CASE UNCHANGED tdoc
  BY <1>4 DEF DocInv, tdoc
<1>5. QED
  BY <1>1, <1>2, <1>3, <1>4, TunnelOnly DEF TunnelPass

LEMMA OrderSpecific == TypeOK /\ DocInv => MostSpecificWins
<1> SUFFICES ASSUME TypeOK, DocInv,
                    NEW q \in Requests, NEW deep \in BOOLEAN,
                    NEW i \in 1..Len(doc), NEW j \in 1..Len(doc),
                    Chosen(i, q, deep), Matches(Host[doc[j]], q, deep),
                    NEW r \in Requests, Matches(Host[doc[i]], r, deep)
             PROVE  Matches(Host[doc[j]], r, deep)
  BY DEF MostSpecificWins
<1>1. Len(doc) \in Nat /\ doc[i] \in Exposures /\ doc[j] \in Exposures
  BY DEF TypeOK
<1>2. ~(j < i)
  BY DEF Chosen
<1>3. CASE i = j
  BY <1>3
<1>4. CASE i < j
  <2>1. ~Less(doc[j], doc[i])
    BY <1>4 DEF DocInv, InOrder
  <2>2. Matches(Host[doc[i]], q, deep)
    BY DEF Chosen
  <2>3. QED
    BY <1>1, <2>1, <2>2, FirstIsFiner
<1>5. QED
  BY <1>1, <1>2, <1>3, <1>4

\* The first rule that matches a request is the most specific one (Build), in
\* both readings of a wildcard, for any hostnames.
THEOREM SpecificFirst == Spec => []MostSpecificWins
<1>1. Init => DocInv
  BY DEF Init, DocInv, InOrder
<1>2. QED
  BY <1>1, WildcardTypes, DocStep, OrderSpecific, PTL DEF Spec

-----------------------------------------------------------------------------
(* The guard.                                                              *)

\* An Exposure that has Access and is not being deleted, or whose Access was
\* withdrawn since its last pass.
Vouched(e) == (life[e] = "live" /\ access[e]) \/ e \in withdrawn

\* Applications are live only for such Exposures, and are created only for such.
AppsVouched ==
    /\ \A e \in Exposures : app[e] => Vouched(e)
    /\ \A p \in xpass : p.access => Vouched(p.exp)

\* A pass that is to create applications has found none in its way, but for those
\* of Exposures whose Access was withdrawn.
PassClear ==
    \A p \in xpass : p.access =>
        \A f \in Exposures : Overlap(p.exp, f) /\ app[f] => f \in withdrawn

\* There is one worker.
OnePass == \A p, q \in xpass : p = q

\* No pass is for an object without a finalizer.
PassHeld == \A p \in xpass : life[p.exp] \in {"live", "deleting"}

GuardInv == AppsVouched /\ PassClear /\ OnePass /\ PassHeld /\ OneAccessPerRequest

LEMMA OverlapSymmetric ==
    ASSUME NEW e, NEW f, Overlap(e, f) PROVE Overlap(f, e)
BY DEF Overlap

LEMMA GuardStep == TypeOK /\ GuardInv /\ [Next]_vars => GuardInv'
<1> SUFFICES ASSUME TypeOK, GuardInv, [Next]_vars PROVE GuardInv'
  OBVIOUS
<1> USE DEF GuardInv, AppsVouched, PassClear, OnePass, PassHeld,
            OneAccessPerRequest, Vouched
<1>1. CASE TunnelPass
  BY <1>1 DEF TunnelPass, BuildDocument, PutDocument, SaveRoutes
<1>2. CASE FinishPass
  <2>1. PICK p \in xpass :
          /\ app' = [app EXCEPT ![p.exp] = p.access]
          /\ withdrawn' = IF life[p.exp] = "live" /\ access[p.exp] = p.access
                            THEN withdrawn \ {p.exp} ELSE withdrawn
    BY <1>2 DEF FinishPass
  <2>2. /\ p.exp \in Exposures /\ p.access \in BOOLEAN
        /\ xpass' = {} /\ UNCHANGED <<life, access>>
    BY <1>2, <2>1 DEF FinishPass, TypeOK, Pass
  <2>3. /\ app'[p.exp] = p.access
        /\ \A f \in Exposures : f # p.exp =>
              app'[f] = app[f] /\ (f \in withdrawn' <=> f \in withdrawn)
    BY <2>1, <2>2 DEF TypeOK
  <2>4. ASSUME NEW e \in Exposures, app'[e] PROVE Vouched(e)'
    <3>1. CASE e = p.exp
      <4>1. p.access
        BY <2>3, <2>4, <3>1
      <4>2. Vouched(e)
        BY <3>1, <4>1
      <4>3. QED
        BY <2>1, <2>2, <3>1, <4>1, <4>2 DEF TypeOK
    <3>2. CASE e # p.exp
      BY <2>2, <2>3, <2>4, <3>2
    <3>3. QED
      BY <3>1, <3>2
  <2>5. ASSUME NEW e \in Exposures, NEW f \in Exposures, Overlap(e, f),
               app'[e], app'[f]
        PROVE  e \in withdrawn' \/ f \in withdrawn'
    <3>1. e # f /\ Overlap(f, e)
      BY <2>5, OverlapSymmetric DEF Overlap
    <3>2. CASE e = p.exp
      BY <2>1, <2>3, <2>5, <3>1, <3>2
    <3>3. CASE f = p.exp
      BY <2>1, <2>3, <2>5, <3>1, <3>3
    <3>4. CASE e # p.exp /\ f # p.exp
      BY <2>3, <2>5, <3>4
    <3>5. QED
      BY <3>2, <3>3, <3>4
  <2>6. QED
    BY <2>2, <2>4, <2>5
<1>3. ASSUME NEW e \in Exposures, BeginRefused(e) PROVE GuardInv'
  BY <1>3 DEF BeginRefused, TypeOK
<1>4. ASSUME NEW e \in Exposures, BeginPass(e) PROVE GuardInv'
  <2> DEFINE p == [exp |-> e, access |-> access[e],
                   route |-> \E i \in DOMAIN routes : routes[i] = e]
  <2>1. /\ xpass' = {p} /\ p.exp = e /\ p.access = access[e]
        /\ life' = [life EXCEPT ![e] = "live"]
        /\ life[e] \in {"new", "live"} /\ ~Refused(e)
        /\ UNCHANGED <<access, app, withdrawn>>
    BY <1>4 DEF BeginPass
  <2>2. /\ life'[e] = "live"
        /\ \A f \in Exposures : f # e => life'[f] = life[f]
    BY <2>1 DEF TypeOK
  <2>3. \A f \in Exposures : app'[f] => Vouched(f)'
    BY <2>1, <2>2
  <2>4. access[e] => Vouched(e)'
    BY <2>1, <2>2
  <2>5. ASSUME access[e], NEW f \in Exposures, Overlap(e, f), app[f]
        PROVE  f \in withdrawn
    <3>1. ~hasAccessWildcardOverlap(e)
      BY <2>1, <2>5 DEF Refused
    <3>2. ~(life[f] = "live" /\ access[f])
      BY <2>5, <3>1 DEF hasAccessWildcardOverlap, Listed, Overlap
    <3>3. QED
      BY <2>5, <3>2
  <2>6. QED
    BY <2>1, <2>2, <2>3, <2>4, <2>5
<1>5. ASSUME NEW e \in Exposures, Finalize(e) PROVE GuardInv'
  <2>1. /\ xpass = {} /\ xpass' = {}
        /\ access' = [access EXCEPT ![e] = FALSE]
        /\ app' = [app EXCEPT ![e] = FALSE]
        /\ life' = [life EXCEPT ![e] = "gone"]
        /\ withdrawn' = withdrawn \ {e}
    BY <1>5 DEF Finalize
  <2>2. /\ ~app'[e]
        /\ \A f \in Exposures : f # e =>
              /\ app'[f] = app[f] /\ life'[f] = life[f]
              /\ access'[f] = access[f]
              /\ f \in withdrawn' <=> f \in withdrawn
    BY <2>1 DEF TypeOK
  <2>3. QED
    BY <2>1, <2>2
<1>6. ASSUME NEW e \in Exposures, Apply(e) PROVE GuardInv'
  <2>1. /\ life[e] = "absent" /\ UNCHANGED <<app, xpass, withdrawn>>
        /\ \A f \in Exposures : f # e => life'[f] = life[f] /\ access'[f] = access[f]
    BY <1>6 DEF Apply, TypeOK
  <2>2. \A p \in xpass : p.exp \in Exposures /\ p.exp # e
    BY <2>1 DEF TypeOK, Pass
  <2>3. QED
    BY <2>1, <2>2
<1>7. ASSUME NEW e \in Exposures, SwitchAccess(e) PROVE GuardInv'
  <2>1. /\ UNCHANGED <<life, app, xpass>>
        /\ \A f \in Exposures : f # e => access'[f] = access[f]
        /\ withdrawn \subseteq withdrawn'
        /\ access[e] => e \in withdrawn'
    BY <1>7 DEF SwitchAccess, TypeOK
  <2>2. \A p \in xpass : p.exp \in Exposures
    BY DEF TypeOK, Pass
  <2>3. \A f \in Exposures : Vouched(f) => Vouched(f)'
    BY <2>1
  <2>4. QED
    BY <2>1, <2>2, <2>3
<1>8. ASSUME NEW e \in Exposures, Delete(e) PROVE GuardInv'
  <2>1. /\ UNCHANGED <<access, app, xpass>>
        /\ \A f \in Exposures : f # e => life'[f] = life[f]
        /\ withdrawn \subseteq withdrawn'
        /\ access[e] => e \in withdrawn'
        /\ life[e] = "live" => life'[e] = "deleting"
        /\ life[e] \in {"new", "live"}
    BY <1>8 DEF Delete, TypeOK
  <2>2. \A p \in xpass : p.exp \in Exposures
    BY DEF TypeOK, Pass
  <2>3. \A f \in Exposures : Vouched(f) => Vouched(f)'
    BY <2>1
  <2>4. QED
    BY <2>1, <2>2, <2>3
<1>9. CASE UNCHANGED vars
  BY <1>9 DEF vars
<1>10. QED
  BY <1>1, <1>2, <1>3, <1>4, <1>5, <1>6, <1>7, <1>8, <1>9 DEF Next, Begin

\* Two applications that overlap are live together only while one of the two
\* Exposures, whose Access was withdrawn, has not been reconciled since
\* (hasAccessWildcardOverlap), for any Exposures and edits.
THEOREM OverlapGuarded == Spec => []OneAccessPerRequest
<1>1. Init => GuardInv
  BY DEF Init, GuardInv, AppsVouched, PassClear, OnePass, PassHeld,
         OneAccessPerRequest
<1>2. GuardInv => OneAccessPerRequest
  BY DEF GuardInv
<1>3. QED
  BY <1>1, <1>2, WildcardTypes, GuardStep, PTL DEF Spec

-----------------------------------------------------------------------------
(* One listing, one document.                                              *)

\* A nonempty set of natural numbers has a least one.
LEMMA LeastNumber ==
    ASSUME NEW S, S \subseteq Nat, S # {}
    PROVE  \E m \in S : \A x \in S : m <= x
<1>1. PICK m \in S : \A x \in S : <<x, m>> \notin OpToRel(<, Nat)
  BY NatLessThanWellFounded, WFMin, Zenon
<1>2. \A x \in S : ~(x < m)
  BY <1>1 DEF OpToRel
<1>3. QED
  BY <1>2

\* The sort's "less" decides between any two different hostnames.
LEMMA LessIsTotal ==
    ASSUME NEW e \in Exposures, NEW f \in Exposures, Host[e] # Host[f]
    PROVE  Less(e, f) \/ Less(f, e)
<1> DEFINE h == Host[e]
           k == Host[f]
<1>1. labelCount(h) \in Nat /\ labelCount(k) \in Nat
  <2>1. h \in Hostname /\ k \in Hostname
    BY WildcardsAssumption
  <2>2. \A x \in Hostname : Len(x.labels) \in Nat
    BY DEF Hostname
  <2>3. ASSUME NEW x \in Hostname PROVE labelCount(x) \in Nat
    <3>1. CASE x.wild
      BY <2>2, <3>1 DEF labelCount
    <3>2. CASE ~x.wild
      BY <2>2, <3>2 DEF labelCount
    <3>3. QED
      BY <3>1, <3>2
  <2>4. QED
    BY <2>1, <2>3
<1>2. h.wild \in BOOLEAN /\ k.wild \in BOOLEAN
  BY WildcardsAssumption DEF Hostname
<1>3. Alpha[e] \in Nat /\ Alpha[f] \in Nat /\ Alpha[e] # Alpha[f]
  BY WildcardsAssumption
<1>4. CASE labelCount(h) # labelCount(k)
  BY <1>1, <1>4 DEF Less
<1>5. CASE labelCount(h) = labelCount(k) /\ h.wild # k.wild
  BY <1>2, <1>5 DEF Less, isWildcardHostname
<1>6. CASE labelCount(h) = labelCount(k) /\ h.wild = k.wild
  BY <1>3, <1>6 DEF Less, isWildcardHostname
<1>7. QED
  BY <1>4, <1>5, <1>6

\* A sorted document has every Exposure of the listing once.
LEMMA SortedIsComplete ==
    ASSUME NEW S \in SUBSET Exposures, NEW s \in Sorted(S)
    PROVE  /\ Cardinality(S) \in Nat
           /\ s \in [1..Cardinality(S) -> S]
           /\ \A i, j \in 1..Cardinality(S) : s[i] = s[j] => i = j
           /\ \A e \in S : \E i \in 1..Cardinality(S) : s[i] = e
<1> DEFINE n == Cardinality(S)
<1>1. IsFiniteSet(S) /\ n \in Nat
  BY WildcardsAssumption, FS_Subset, FS_CardinalityType
<1>2. s \in [1..n -> S]
  BY DEF Sorted
<1>3. \A i, j \in 1..n : i < j => s[i] # s[j]
  BY DEF Sorted
<1>4. \A i, j \in 1..n : s[i] = s[j] => i = j
  BY <1>1, <1>3
<1>5. s \in Injection(1..n, S)
  BY <1>2, <1>4 DEF Injection, IsInjective
<1>6. Cardinality(1..n) = n
  BY <1>1, FS_Interval
<1>7. s \in Surjection(1..n, S)
  BY <1>1, <1>5, <1>6, FS_Injection
<1>8. \A e \in S : \E i \in 1..n : s[i] = e
  BY <1>7 DEF Surjection
<1>9. QED
  BY <1>1, <1>2, <1>4, <1>8

\* Whatever order the Exposures were listed in, and although sort.Slice is not
\* stable, Build makes one document of one set of Exposures whose hostnames
\* differ (tunnelconfig.Build): the first place where two results differ would
\* hold two Exposures neither of which is less than the other.
THEOREM OneDocument ==
    ASSUME NEW S \in SUBSET Exposures,
           \A e, f \in S : e # f => Host[e] # Host[f],
           NEW s \in Sorted(S), NEW t \in Sorted(S)
    PROVE  s = t
<1> DEFINE n == Cardinality(S)
           D == {i \in 1..n : s[i] # t[i]}
<1>1. n \in Nat /\ s \in [1..n -> S] /\ t \in [1..n -> S]
  BY SortedIsComplete, Zenon
<1>2. SUFFICES ASSUME D # {} PROVE FALSE
  <2>1. \A i \in 1..n : s[i] = t[i]
    BY <1>2
  <2>2. QED
    BY <1>1, <2>1
<1>3. PICK i \in D : \A x \in D : i <= x
  <2>1. D \subseteq Nat
    BY <1>1
  <2>2. QED
    BY <1>2, <2>1, LeastNumber, Zenon
<1>4. i \in 1..n /\ s[i] \in S /\ t[i] \in S /\ s[i] # t[i]
  BY <1>1, <1>3
<1>5. \A x \in 1..n : x < i => s[x] = t[x]
  BY <1>1, <1>3
<1>6. PICK j \in 1..n : s[j] = t[i]
  BY <1>4, SortedIsComplete
<1>7. PICK k \in 1..n : t[k] = s[i]
  BY <1>4, SortedIsComplete
<1>8. i < j
  <2>1. j # i
    BY <1>4, <1>6
  <2>2. ~(j < i)
    <3>1. SUFFICES ASSUME j < i PROVE FALSE
      OBVIOUS
    <3>2. t[j] = t[i]
      BY <1>5, <1>6, <3>1
    <3>3. j = i
      BY <1>4, <3>2, SortedIsComplete
    <3>4. QED
      BY <2>1, <3>3
  <2>3. QED
    BY <1>1, <1>4, <2>1, <2>2
<1>9. i < k
  <2>1. k # i
    BY <1>4, <1>7
  <2>2. ~(k < i)
    <3>1. SUFFICES ASSUME k < i PROVE FALSE
      OBVIOUS
    <3>2. s[k] = s[i]
      BY <1>5, <1>7, <3>1
    <3>3. k = i
      BY <1>4, <3>2, SortedIsComplete
    <3>4. QED
      BY <2>1, <3>3
  <2>3. QED
    BY <1>1, <1>4, <2>1, <2>2
<1>10. ~Less(s[j], s[i]) /\ ~Less(t[k], t[i])
  BY <1>4, <1>8, <1>9 DEF Sorted
<1>11. ~Less(t[i], s[i]) /\ ~Less(s[i], t[i])
  BY <1>6, <1>7, <1>10
<1>12. Host[s[i]] # Host[t[i]]
  BY <1>4
<1>13. QED
  BY <1>4, <1>11, <1>12, LessIsTotal

\* The document and the status have the rules of the Exposures there are, and so
\* has a document under way.
Placed ==
    /\ routes \in Sorted(Listed) /\ doc = routes
    /\ \A b \in built : b.rules = routes

\* Once the document has the rules of the Exposures there are, no pass writes
\* another one until they change, whatever order the listing comes in, at whatever
\* step the pass is (reconcileTunnelConfig, tunnelconfig.Build): what
\* DocumentSettles says of the end, step by step.
THEOREM DocumentIsStable ==
    Spec => [][Placed => doc' = doc /\ (Listed' = Listed => Placed')]_vars
<1>1. ASSUME TypeOK, [Next]_vars, Placed
      PROVE  doc' = doc /\ (Listed' = Listed => Placed')
  <2>0. ASSUME doc' = doc, routes' = routes, \A b \in built' : b.rules = routes
        PROVE  doc' = doc /\ (Listed' = Listed => Placed')
    <3>1. ASSUME Listed' = Listed PROVE Placed'
      <4>1. Sorted(Listed)' = Sorted(Listed)
        BY <3>1 DEF Sorted, Less
      <4>2. QED
        BY <1>1, <2>0, <4>1 DEF Placed
    <3>2. QED
      BY <2>0, <3>1
  <2>1. CASE BuildDocument
    <3>1. PICK s \in Sorted(Listed) : s # routes
      BY <2>1 DEF BuildDocument
    <3>2. \A e, f \in Listed : e # f => Host[e] # Host[f]
      BY <2>1 DEF BuildDocument, HostnameConflict
    <3>3. Listed \in SUBSET Exposures
      BY DEF Listed
    <3>4. routes \in Sorted(Listed)
      BY <1>1 DEF Placed
    <3>5. QED
      BY <3>1, <3>2, <3>3, <3>4, OneDocument
  <2>2. CASE PutDocument
    <3>1. PICK b \in built : doc' = b.rules /\ built' = {[b EXCEPT !.sent = TRUE]}
      BY <2>2 DEF PutDocument
    <3>2. \A c \in built' : c.rules = b.rules
      BY <1>1, <3>1 DEF TypeOK, Built
    <3>3. QED
      BY <1>1, <2>0, <2>2, <3>1, <3>2 DEF PutDocument, Placed
  <2>3. CASE SaveRoutes
    BY <1>1, <2>0, <2>3 DEF SaveRoutes, Placed
  <2>4. CASE UNCHANGED tdoc
    BY <1>1, <2>0, <2>4 DEF tdoc, Placed
  <2>5. QED
    BY <1>1, <2>1, <2>2, <2>3, <2>4, TunnelOnly DEF TunnelPass
<1>2. QED
  BY <1>1, WildcardTypes, PTL DEF Spec
=============================================================================
