----------------------------- MODULE LeaseRules -----------------------------
(***************************************************************************)
(* The pure rules of the failover lease (package internal/dr): when a      *)
(* lease has expired, what a site does about the lease it observed         *)
(* (Decide), and which of several lease records survives (Resolve).        *)
(*                                                                         *)
(* A lease record is [id, site, renewed, expires].  The tunnel a lease     *)
(* names is the tunnel of its site, which never changes, so it is left     *)
(* out.  Site ids and record ids are compared with < by the code; they are *)
(* natural numbers here, ordered as the strings they stand for.  Time is   *)
(* counted in ticks, Unit ticks to the second.                             *)
(***************************************************************************)
EXTENDS Integers

CONSTANTS
    LeaseSeconds,   \* spec.failover.leaseSeconds
    Unit            \* ticks of the model's clock in one second

ASSUME LeaseRulesAssumption ==
    /\ LeaseSeconds \in Nat \ {0}
    /\ Unit \in Nat \ {0}

LeaseTTL == LeaseSeconds * Unit

\* The renewal cadence: half the lease, never less than a second.
Half == IF LeaseTTL \div 2 > Unit THEN LeaseTTL \div 2 ELSE Unit

\* A lease is written to the TXT record as whole unix seconds and parsed back
\* from them: what a reader sees is the instant cut down to its second.
Serialize(t) == t - (t % Unit)

\* A lease is expired at the very instant it expires.
Expired(l, now) == now >= l.expires

\* Mutant of Decide: an expired lease is taken without asking for Manual.
MutantExpiredIgnoresManual(now, me, prevRole, observed, force, manual) ==
    LET obs == CHOOSE l \in observed : TRUE
    IN  CASE observed = {} -> IF manual /\ ~force THEN "await" ELSE "acquire"
          [] observed # {} /\ obs.site = me ->
                 IF now < obs.renewed + Half THEN "hold" ELSE "renew"
          [] OTHER ->
                 IF force \/ Expired(obs, now) THEN "acquire" ELSE "wait"

\* Mutant of Decide: a peer's expired lease is waited for like a live one.
MutantExpiryIgnored(now, me, prevRole, observed, force, manual) ==
    LET obs == CHOOSE l \in observed : TRUE
    IN  CASE observed = {} -> IF manual /\ ~force THEN "await" ELSE "acquire"
          [] observed # {} /\ obs.site = me ->
                 IF now < obs.renewed + Half THEN "hold" ELSE "renew"
          [] OTHER -> IF force THEN "acquire" ELSE "wait"

\* Mutant of Decide: a Primary that sees a peer's live lease stays Primary.
MutantNoSplitBrain(now, me, prevRole, observed, force, manual) ==
    LET obs == CHOOSE l \in observed : TRUE
    IN  CASE observed = {} -> IF manual /\ ~force THEN "await" ELSE "acquire"
          [] observed # {} /\ obs.site = me ->
                 IF now < obs.renewed + Half THEN "hold" ELSE "renew"
          [] observed # {} /\ obs.site # me /\ prevRole = "Primary" -> "hold"
          [] OTHER ->
                 IF force \/ Expired(obs, now) THEN "acquire" ELSE "wait"

(***************************************************************************)
(* Decide: the role gate's verdict.  observed is the set of records the    *)
(* pass listed, which is empty or holds one record.  "wait" is the         *)
(* ordinary standby, "await" the standby that Manual promotion keeps from  *)
(* acquiring (AwaitingPromotion).                                          *)
(***************************************************************************)
Decide(now, me, prevRole, observed, force, manual) ==
    LET obs    == CHOOSE l \in observed : TRUE
        isMine == obs.site = me
    IN  CASE observed = {} ->
                 IF manual /\ ~force THEN "await" ELSE "acquire"
          [] observed # {} /\ isMine ->
                 IF now < obs.renewed + Half THEN "hold" ELSE "renew"
          [] observed # {} /\ ~isMine /\ force ->
                 "acquire"
          [] observed # {} /\ ~isMine /\ ~force /\ ~Expired(obs, now) ->
                 IF prevRole = "Primary" THEN "splitBrain" ELSE "wait"
          [] OTHER ->
                 IF manual THEN "await" ELSE "acquire"

-----------------------------------------------------------------------------

\* The records that compete to survive: the unexpired ones, or all of them
\* when every one has expired.
Candidates(records, now) ==
    LET unexpired == {r \in records : ~Expired(r, now)}
    IN  IF unexpired = {} THEN records ELSE unexpired

\* The order the candidates are sorted in: by site, then by record id.
Before(a, b) == a.site < b.site \/ (a.site = b.site /\ a.id < b.id)

Winner(records, now) ==
    CHOOSE w \in Candidates(records, now) :
        \A r \in Candidates(records, now) : r = w \/ Before(w, r)

\* Resolve's DeleteIDs: the winner's site deletes every other record, any
\* other site only its own.
Resolve(records, now, me) ==
    LET w == Winner(records, now)
    IN  {r.id : r \in {x \in records :
             x.id # w.id /\ (w.site = me \/ x.site = me)}}
=============================================================================
