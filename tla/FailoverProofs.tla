--------------------------- MODULE FailoverProofs ---------------------------
(***************************************************************************)
(* Proofs about Failover, for every number of sites, tokens, record ids,   *)
(* every lease length, clock skew and number of faults.                    *)
(***************************************************************************)
EXTENDS Failover, WellFoundedInduction, TLAPS

(***************************************************************************)
(* Type correctness.                                                       *)
(***************************************************************************)

\* The lease a pass writes is a lease record: dating and truncating the times
\* to seconds (writeLease, Serialize) stays within the integers.
LEMMA DesiredType ==
    ASSUME TypeOK, NEW s \in Sites, NEW i \in Ids
    PROVE  Desired(s, i) \in LeaseRecord
<1>1. now[s] \in Int /\ LeaseTTL \in Int /\ Unit \in Nat \ {0}
  BY LeaseRulesAssumption DEF TypeOK, LeaseTTL
<1>2. \A t \in Int : Serialize(t) \in Int
  BY <1>1 DEF Serialize
<1>3. QED
  BY <1>1, <1>2 DEF Desired, LeaseRecord

\* Resolve only names ids of the records it was given.
LEMMA ResolveType ==
    ASSUME TypeOK, NEW s \in Sites
    PROVE  Resolve(leases, now[s], s) \subseteq Ids
<1>1. \A l \in leases : l.id \in Ids
  BY DEF TypeOK, LeaseRecord
<1>2. QED
  BY <1>1 DEF Resolve

\* The ids of the records at Cloudflare are record ids.
LEMMA IdsType ==
    ASSUME TypeOK, NEW s \in Sites
    PROVE  /\ IdsOf(leases) \subseteq Ids
           /\ IdsOf(OwnLeases(s)) \subseteq Ids
           /\ IdsOf(cname) \subseteq Ids
<1>1. /\ \A l \in leases : l.id \in Ids
      /\ \A c \in cname : c.id \in Ids
  BY DEF TypeOK, LeaseRecord
<1>2. QED
  BY <1>1 DEF IdsOf, OwnLeases

LEMMA TypeInit == Init => TypeOK
<1> SUFFICES ASSUME Init PROVE TypeOK
  OBVIOUS
<1>1. clock \in 0..MaxClock /\ faults \in 0..MaxFaults /\ edits \in 0..MaxEdits
  BY FailoverAssumption DEF Init
<1>2. /\ leases \subseteq LeaseRecord
      /\ cname \subseteq [id : Ids, target : Sites]
      /\ foreign \in BOOLEAN /\ app \in BOOLEAN
  BY DEF Init
<1>3. /\ obj \in [Sites -> {"new", "live", "deleting", "gone"}]
      /\ role \in [Sites -> {"Unknown", "Primary", "Standby"}]
      /\ pc \in [Sites -> Steps]
      /\ now \in [Sites -> Nat]
  BY DEF Init, Steps
<1>8. /\ rival \in [Sites -> {"absent", "live", "deleting"}]
      /\ \A s \in Sites \ Rivals : rival[s] = "absent"
  BY DEF Init
<1>4. /\ ann \in [Sites -> TokenOrNone]
      /\ ack \in [Sites -> TokenOrNone]
      /\ tok \in [Sites -> TokenOrNone]
  BY DEF Init, TokenOrNone
<1>5. /\ dnsId \in [Sites -> SUBSET Ids]
      /\ cur \in [Sites -> SUBSET Ids]
      /\ dels \in [Sites -> SUBSET Ids]
      /\ issued \in [Sites -> SUBSET Tokens]
      /\ used \in [Sites -> SUBSET Tokens]
  BY DEF Init
<1>6. ready \in [Sites -> BOOLEAN] /\ holds \in [Sites -> BOOLEAN]
  BY DEF Init
<1>7. QED
  BY <1>1, <1>2, <1>3, <1>4, <1>5, <1>6, <1>8 DEF TypeOK

LEMMA TypeStep == TypeOK /\ [Next]_vars => TypeOK'
<1> SUFFICES ASSUME TypeOK, [Next]_vars PROVE TypeOK'
  OBVIOUS
<1> USE FailoverAssumption DEF TypeOK, TokenOrNone, shared, status, pass, history
<1>1. CASE Tick
  BY <1>1 DEF Tick
<1>2. CASE ForeignRecord
  BY <1>2 DEF ForeignRecord
<1>3. ASSUME NEW s \in Sites, NEW t \in TokenOrNone, Annotate(s, t) PROVE TypeOK'
  BY <1>3 DEF Annotate
<1>4. ASSUME NEW s \in Sites, Delete(s) PROVE TypeOK'
  BY <1>4 DEF Delete
<1>5. ASSUME NEW s \in Sites, Abort(s) PROVE TypeOK'
  <2>1. PICK r \in {ready[s], FALSE} : ready' = [ready EXCEPT ![s] = r]
    BY <1>5 DEF Abort
  <2>2. ready' \in [Sites -> BOOLEAN]
    BY <2>1
  <2>3. QED
    BY <1>5, <2>2 DEF Abort, EndPass, Steps
<1>6. ASSUME NEW s \in Sites, CreateLeaseRetried(s) PROVE TypeOK'
  BY <1>6, DesiredType
  DEF CreateLeaseRetried, OperatorFrame, GoTo, Steps, UseToken
<1>7. ASSUME NEW s \in Sites, GateStep(s) PROVE TypeOK'
  <2>1. CASE Begin(s)
    BY <2>1 DEF Begin, OperatorFrame, Steps
  <2>2. CASE Refuse(s)
    BY <2>2 DEF Refuse, OperatorFrame
  <2>3. CASE FailClosed(s)
    BY <2>3 DEF FailClosed, OperatorFrame, SetRole, EndPass, Steps
  <2>4. CASE ResolveDuplicates(s)
    BY <2>4, ResolveType DEF ResolveDuplicates, OperatorFrame, Steps
  <2>5. ASSUME NEW i \in Ids, ResolveDelete(s, i) PROVE TypeOK'
    BY <2>5 DEF ResolveDelete, OperatorFrame
  <2>6. CASE ResolveDone(s)
    BY <2>6 DEF ResolveDone, OperatorFrame, SetRole, EndPass, Steps
  <2>7. CASE StandBy(s)
    BY <2>7 DEF StandBy, OperatorFrame, SetRole, EndPass, Steps
  <2>8. CASE HoldPrimary(s)
    BY <2>8 DEF HoldPrimary, OperatorFrame, Steps
  <2>9. CASE DecideWrite(s)
    BY <2>9, IdsType DEF DecideWrite, OperatorFrame, Steps
  <2>10. CASE CreateLease(s)
    BY <2>10, DesiredType
    DEF CreateLease, OperatorFrame, GoTo, Steps, UseToken
  <2>11. CASE UpdateLease(s)
    <3>1. CASE cur[s] \subseteq IdsOf(leases)
      <4>1. \A l \in leases : l.id \in Ids /\ Desired(s, l.id) \in LeaseRecord
        BY DesiredType DEF LeaseRecord
      <4>2. leases' \subseteq LeaseRecord
        BY <2>11, <3>1, <4>1 DEF UpdateLease
      <4>3. UNCHANGED status /\ GoTo(s, "verify")
        BY <2>11, <3>1 DEF UpdateLease
      <4>4. UNCHANGED <<cname, app, obj, faults>> /\ OperatorFrame
        BY <2>11 DEF UpdateLease
      <4>5. used' \in [Sites -> SUBSET Tokens]
        BY <2>11 DEF UpdateLease, UseToken
      <4>6. QED
        BY <4>2, <4>3, <4>4, <4>5 DEF GoTo, OperatorFrame, Steps
    <3>2. CASE ~(cur[s] \subseteq IdsOf(leases))
      <4>1. used' \in [Sites -> SUBSET Tokens]
        BY <2>11 DEF UpdateLease, UseToken
      <4>2. QED
        <5>1. Fail(s) /\ UNCHANGED leases
          BY <2>11, <3>2 DEF UpdateLease
        <5>2. UNCHANGED <<cname, app, obj, faults>> /\ OperatorFrame
          BY <2>11 DEF UpdateLease
        <5>3. QED
          BY <4>1, <5>1, <5>2 DEF OperatorFrame, Fail, EndPass, Steps
    <3>3. QED
      BY <3>1, <3>2
  <2>12. CASE LostRace(s)
    BY <2>12 DEF LostRace, OperatorFrame, SetRole, EndPass, Steps
  <2>13. CASE BecomePrimary(s)
    BY <2>13 DEF BecomePrimary, OperatorFrame, GoTo, Steps
  <2>14. QED
    BY <1>7, <2>1, <2>2, <2>3, <2>4, <2>5, <2>6, <2>7, <2>8, <2>9, <2>10,
       <2>11, <2>12, <2>13 DEF GateStep
<1>8. ASSUME NEW s \in Sites, SurfaceStep(s) PROVE TypeOK'
  <2>1. CASE ReconcileAccess(s)
    BY <2>1 DEF ReconcileAccess, OperatorFrame, GoTo, Steps
  <2>2. CASE ListDns(s)
    BY <2>2, IdsType DEF ListDns, OperatorFrame, Steps
  <2>3. CASE WriteDns(s)
    <3>1. UNCHANGED <<leases, app, obj, faults, used>> /\ OperatorFrame
      BY <2>3 DEF WriteDns
    <3>2. ASSUME NEW i \in Ids,
                 cname' = {[id |-> i, target |-> s]},
                 cur' = [cur EXCEPT ![s] = {i}],
                 pc' = [pc EXCEPT ![s] = "final"],
                 UNCHANGED <<now, tok, dels, holds>>, UNCHANGED status
          PROVE  TypeOK'
      BY <3>1, <3>2 DEF OperatorFrame, Steps
    <3>3. ASSUME cname' = {[id |-> i, target |-> s] : i \in cur[s]},
                 GoTo(s, "final"), UNCHANGED status
          PROVE  TypeOK'
      BY <3>1, <3>3 DEF OperatorFrame, GoTo, Steps
    <3>4. ASSUME Fail(s), UNCHANGED cname
          PROVE  TypeOK'
      BY <3>1, <3>4 DEF OperatorFrame, Fail, EndPass, Steps
    <3>5. QED
      BY <2>3, <3>2, <3>3, <3>4 DEF WriteDns
  <2>4. CASE SaveStatus(s)
    BY <2>4 DEF SaveStatus, OperatorFrame, EndPass, Steps
  <2>5. QED
    BY <1>8, <2>1, <2>2, <2>3, <2>4 DEF SurfaceStep
<1>9. ASSUME NEW s \in Sites, FinalizerStep(s) PROVE TypeOK'
  <2>1. CASE FinHoldsLease(s)
    BY <2>1 DEF FinHoldsLease, OperatorFrame, Steps
  <2>2. CASE FinListLeases(s)
    BY <2>2, IdsType DEF FinListLeases, OperatorFrame, Steps
  <2>3. ASSUME NEW i \in Ids, FinDeleteLease(s, i) PROVE TypeOK'
    BY <2>3 DEF FinDeleteLease, OperatorFrame
  <2>4. CASE FinLeaseDone(s)
    <3>1. CASE holds[s]
      BY <2>4, <3>1 DEF FinLeaseDone, OperatorFrame, GoTo, Steps
    <3>2. CASE ~holds[s]
      <4>1. /\ EndPass(s)
            /\ obj' = [obj EXCEPT ![s] = "gone"]
            /\ UNCHANGED <<leases, cname, app, status, faults, used>>
            /\ OperatorFrame
        BY <2>4, <3>2 DEF FinLeaseDone
      <4>2. QED
        BY <4>1 DEF OperatorFrame, EndPass, Steps
    <3>3. QED
      BY <3>1, <3>2
  <2>5. CASE FinListDns(s)
    BY <2>5, IdsType DEF FinListDns, OperatorFrame, Steps
  <2>6. CASE FinDeleteDns(s)
    BY <2>6 DEF FinDeleteDns, OperatorFrame, GoTo, Steps
  <2>7. CASE FinDeleteAccess(s)
    BY <2>7 DEF FinDeleteAccess, OperatorFrame, GoTo, Steps
  <2>8. CASE FinDrop(s)
    BY <2>8 DEF FinDrop, OperatorFrame, EndPass, Steps
  <2>9. QED
    BY <1>9, <2>1, <2>2, <2>3, <2>4, <2>5, <2>6, <2>7, <2>8
    DEF FinalizerStep
<1>10. ASSUME NEW s \in Sites, RivalStep(s) PROVE TypeOK'
  <2>1. CASE RivalListLeases(s)
    BY <2>1, IdsType DEF RivalListLeases, OperatorFrame, Steps
  <2>2. ASSUME NEW i \in Ids, RivalDeleteLease(s, i) PROVE TypeOK'
    BY <2>2 DEF RivalDeleteLease, OperatorFrame
  <2>3. CASE RivalGone(s)
    BY <2>3 DEF RivalGone, EndPass, Steps
  <2>4. QED
    BY <1>10, <2>1, <2>2, <2>3 DEF RivalStep
<1>11. ASSUME NEW s \in Sites, ApplyRival(s) \/ DeleteRival(s) PROVE TypeOK'
  BY <1>11 DEF ApplyRival, DeleteRival
<1>12. CASE UNCHANGED vars
  BY <1>12 DEF vars
<1>13. QED
  BY <1>1, <1>2, <1>3, <1>4, <1>5, <1>6, <1>7, <1>8, <1>9, <1>10, <1>11, <1>12
  DEF Next, OperatorStep

\* The state stays well typed: roles, tokens, record ids and passes are what
\* the code's types allow, whatever the sites and the environment do.
THEOREM TypeCorrect == Spec => []TypeOK
BY TypeInit, TypeStep, PTL DEF Spec

(***************************************************************************)
(* At most one lease per site.  The inductive invariant says that a pass   *)
(* about to write already addresses the only record its site may have;     *)
(* nobody but the site itself adds a record naming it.                     *)
(***************************************************************************)

LeaseInv == UniqueIds /\ OneLeasePerSite /\ WriteKnowsOwn

\* A record that names a site is written by a pass of that site at its write
\* step, and by nothing else.
LEMMA LeaseWriters ==
    ASSUME TypeOK, [Next]_vars
    PROVE  \A l \in leases' : l \in leases \/ At(l.site, "write")
<1>1. CASE leases' \subseteq leases
  BY <1>1
<1>2. ASSUME NEW s \in Sites, CreateLease(s)
      PROVE  \A l \in leases' : l \in leases \/ At(l.site, "write")
  BY <1>2 DEF CreateLease, Desired
<1>3. ASSUME NEW s \in Sites, CreateLeaseRetried(s)
      PROVE  \A l \in leases' : l \in leases \/ At(l.site, "write")
  BY <1>3 DEF CreateLeaseRetried, Desired
<1>4. ASSUME NEW s \in Sites, UpdateLease(s)
      PROVE  \A l \in leases' : l \in leases \/ At(l.site, "write")
  BY <1>4 DEF UpdateLease, Desired
<1>5. ASSUME NEW s \in Sites, GateStep(s), ~CreateLease(s), ~UpdateLease(s)
      PROVE  leases' \subseteq leases
  BY <1>5
  DEF GateStep, Begin, Refuse, FailClosed, ResolveDuplicates, ResolveDelete,
      ResolveDone, StandBy, HoldPrimary, DecideWrite, LostRace, BecomePrimary
<1>6. ASSUME NEW s \in Sites, SurfaceStep(s) PROVE leases' \subseteq leases
  BY <1>6 DEF SurfaceStep, ReconcileAccess, ListDns, WriteDns, SaveStatus
<1>7. ASSUME NEW s \in Sites, FinalizerStep(s) PROVE leases' \subseteq leases
  BY <1>7
  DEF FinalizerStep, FinHoldsLease, FinListLeases, FinDeleteLease,
      FinLeaseDone, FinListDns, FinDeleteDns, FinDeleteAccess, FinDrop
<1>8. CASE Tick \/ ForeignRecord \/ UNCHANGED vars
  BY <1>1, <1>8 DEF Tick, ForeignRecord, vars, shared
<1>9. ASSUME NEW s \in Sites,
             \/ Abort(s) \/ Delete(s) \/ ApplyRival(s) \/ DeleteRival(s)
             \/ \E t \in TokenOrNone : Annotate(s, t)
      PROVE  leases' \subseteq leases
  BY <1>9 DEF Abort, Delete, ApplyRival, DeleteRival, Annotate, shared
<1>10. ASSUME NEW s \in Sites, RivalStep(s) PROVE leases' \subseteq leases
  BY <1>10
  DEF RivalStep, RivalListLeases, RivalDeleteLease, RivalGone, shared
<1>11. QED
  BY <1>1, <1>2, <1>3, <1>4, <1>5, <1>6, <1>7, <1>8, <1>9, <1>10
  DEF Next, OperatorStep

\* A step that adds no record and starts no write keeps the invariant.
LEMMA QuietLeaseStep ==
    ASSUME LeaseInv, leases' \subseteq leases, faults > 0 => faults' > 0,
           \A r \in Sites : pc'[r] = "write" => pc[r] = "write" /\ cur'[r] = cur[r]
    PROVE  LeaseInv'
BY DEF LeaseInv, UniqueIds, OneLeasePerSite, WriteKnowsOwn, At, IdsOf, OwnLeases

LEMMA LeaseInvInit == Init => LeaseInv
BY DEF Init, LeaseInv, UniqueIds, OneLeasePerSite, WriteKnowsOwn, At

LEMMA LeaseInvStep == TypeOK /\ LeaseInv /\ [Next]_vars => LeaseInv'
<1> SUFFICES ASSUME TypeOK, LeaseInv, [Next]_vars PROVE LeaseInv'
  OBVIOUS
<1>1. ASSUME NEW s \in Sites, DecideWrite(s) PROVE LeaseInv'
  <2>1. /\ leases' = leases
        /\ pc' = [pc EXCEPT ![s] = "write"]
        /\ cur' = [cur EXCEPT ![s] = IdsOf(leases)]
        /\ \A a, b \in leases : a = b
    BY <1>1 DEF DecideWrite, Gate, Duplicated
  <2>6. faults' = faults
    BY <1>1 DEF DecideWrite
  <2>2. \A i, j \in IdsOf(leases) : i = j
    BY <2>1 DEF IdsOf
  <2>3. IdsOf(OwnLeases(s)) \subseteq IdsOf(leases)
    BY DEF IdsOf, OwnLeases
  <2>4. WriteKnowsOwn'
    BY <2>1, <2>2, <2>3
    DEF LeaseInv, WriteKnowsOwn, At, IdsOf, OwnLeases, TypeOK
  <2>5. QED
    BY <2>1, <2>4, <2>6 DEF LeaseInv, UniqueIds, OneLeasePerSite
<1>2. ASSUME NEW s \in Sites, CreateLease(s) PROVE LeaseInv'
  <2>1. PICK i \in Ids : IsFresh(i) /\ leases' = leases \cup {Desired(s, i)}
    BY <1>2 DEF CreateLease
  <2>10. faults' = faults
    BY <1>2 DEF CreateLease
  <2>2. \A l \in leases : l.id # i
    BY <2>1 DEF IsFresh, FreeIds, IdsOf
  <2>3. \A l \in leases : l.site # s
    BY <1>2 DEF CreateLease, LeaseInv, WriteKnowsOwn, IdsOf, OwnLeases
  <2>4. Desired(s, i).id = i /\ Desired(s, i).site = s
    BY DEF Desired
  <2>5. UniqueIds' /\ OneLeasePerSite'
    BY <2>1, <2>2, <2>3, <2>4, <2>10 DEF LeaseInv, UniqueIds, OneLeasePerSite
  <2>6. pc' = [pc EXCEPT ![s] = "verify"] /\ UNCHANGED cur
    BY <1>2 DEF CreateLease, GoTo
  <2>7. \A r \in Sites : pc'[r] = "write" => r # s /\ pc[r] = "write"
    BY <2>6 DEF TypeOK
  <2>8. WriteKnowsOwn'
    BY <2>1, <2>4, <2>6, <2>7 DEF LeaseInv, WriteKnowsOwn, At, IdsOf, OwnLeases
  <2>9. QED
    BY <2>5, <2>8 DEF LeaseInv
<1>3. ASSUME NEW s \in Sites, UpdateLease(s) PROVE LeaseInv'
  <2>1. CASE cur[s] \subseteq IdsOf(leases)
    <3>1. /\ leases' = {IF l.id \in cur[s] THEN Desired(s, l.id) ELSE l :
                           l \in leases}
          /\ pc' = [pc EXCEPT ![s] = "verify"] /\ UNCHANGED cur
          /\ At(s, "write")
          /\ faults' = faults
      BY <1>3, <2>1 DEF UpdateLease, GoTo
    <3>2. \A i, j \in cur[s] : i = j
      BY <3>1 DEF LeaseInv, WriteKnowsOwn
    <3>3. \A l \in leases : l.site = s => l.id \in cur[s]
      BY <3>1 DEF LeaseInv, WriteKnowsOwn, IdsOf, OwnLeases
    <3>4. \A m \in leases' :
             \/ m \in leases /\ m.id \notin cur[s] /\ m.site # s
             \/ m.id \in cur[s] /\ m.site = s /\ m = Desired(s, m.id)
      BY <3>1, <3>3 DEF Desired
    <3>5. UniqueIds' /\ OneLeasePerSite'
      BY <3>1, <3>2, <3>4 DEF LeaseInv, UniqueIds, OneLeasePerSite
    <3>6. \A r \in Sites : pc'[r] = "write" => r # s /\ pc[r] = "write"
      BY <3>1 DEF TypeOK
    <3>7. WriteKnowsOwn'
      BY <3>1, <3>4, <3>6 DEF LeaseInv, WriteKnowsOwn, At, IdsOf, OwnLeases
    <3>8. QED
      BY <3>5, <3>7 DEF LeaseInv
  <2>2. CASE ~(cur[s] \subseteq IdsOf(leases))
    <3>1. /\ leases' = leases
          /\ pc' = [pc EXCEPT ![s] = "idle"]
          /\ cur' = [cur EXCEPT ![s] = {}]
          /\ faults' = faults
      BY <1>3, <2>2 DEF UpdateLease, Fail, EndPass
    <3>2. QED
      BY <3>1, QuietLeaseStep DEF TypeOK
  <2>3. QED
    BY <2>1, <2>2
<1>4. ASSUME NEW s \in Sites, GateStep(s),
             ~DecideWrite(s), ~CreateLease(s), ~UpdateLease(s)
      PROVE  LeaseInv'
  <2>1. leases' \subseteq leases /\ faults' = faults
    BY <1>4
    DEF GateStep, Begin, Refuse, FailClosed, ResolveDuplicates, ResolveDelete,
        ResolveDone, StandBy, HoldPrimary, LostRace, BecomePrimary
  <2>2. \A r \in Sites : pc'[r] = "write" => pc[r] = "write" /\ cur'[r] = cur[r]
    BY <1>4
    DEF GateStep, Begin, Refuse, FailClosed, ResolveDuplicates, ResolveDelete,
        ResolveDone, StandBy, HoldPrimary, LostRace, BecomePrimary, EndPass,
        GoTo, pass, TypeOK
  <2>3. QED
    BY <2>1, <2>2, QuietLeaseStep
<1>5. ASSUME NEW s \in Sites, SurfaceStep(s) PROVE LeaseInv'
  <2>1. leases' \subseteq leases /\ faults' = faults
    BY <1>5 DEF SurfaceStep, ReconcileAccess, ListDns, WriteDns, SaveStatus
  <2>2. \A r \in Sites : pc'[r] = "write" => pc[r] = "write" /\ cur'[r] = cur[r]
    BY <1>5
    DEF SurfaceStep, ReconcileAccess, ListDns, WriteDns, SaveStatus, EndPass,
        GoTo, Fail, TypeOK
  <2>3. QED
    BY <2>1, <2>2, QuietLeaseStep
<1>6. ASSUME NEW s \in Sites, FinalizerStep(s) PROVE LeaseInv'
  <2>1. leases' \subseteq leases /\ faults' = faults
    BY <1>6
    DEF FinalizerStep, FinHoldsLease, FinListLeases, FinDeleteLease,
        FinLeaseDone, FinListDns, FinDeleteDns, FinDeleteAccess, FinDrop
  <2>2. \A r \in Sites : pc'[r] = "write" => pc[r] = "write" /\ cur'[r] = cur[r]
    BY <1>6
    DEF FinalizerStep, FinHoldsLease, FinListLeases, FinDeleteLease,
        FinLeaseDone, FinListDns, FinDeleteDns, FinDeleteAccess, FinDrop,
        EndPass, GoTo, TypeOK
  <2>3. QED
    BY <2>1, <2>2, QuietLeaseStep
<1>7. CASE Tick \/ ForeignRecord \/ UNCHANGED vars
  BY <1>7, QuietLeaseStep DEF Tick, ForeignRecord, vars, shared, pass, TypeOK
<1>8. ASSUME NEW s \in Sites,
             \/ Delete(s) \/ ApplyRival(s) \/ DeleteRival(s)
             \/ \E t \in TokenOrNone : Annotate(s, t)
      PROVE  LeaseInv'
  BY <1>8, QuietLeaseStep
  DEF Delete, ApplyRival, DeleteRival, Annotate, shared, pass, TypeOK
<1>9. ASSUME NEW s \in Sites, Abort(s) PROVE LeaseInv'
  BY <1>9, QuietLeaseStep DEF Abort, EndPass, shared, TypeOK
<1>10. ASSUME NEW s \in Sites, RivalStep(s) PROVE LeaseInv'
  <2>1. leases' \subseteq leases /\ faults' = faults
    BY <1>10
    DEF RivalStep, RivalListLeases, RivalDeleteLease, RivalGone, shared
  <2>2. \A r \in Sites : pc'[r] = "write" => pc[r] = "write" /\ cur'[r] = cur[r]
    BY <1>10
    DEF RivalStep, RivalListLeases, RivalDeleteLease, RivalGone, EndPass, TypeOK
  <2>3. QED
    BY <2>1, <2>2, QuietLeaseStep
<1>11. ASSUME NEW s \in Sites, CreateLeaseRetried(s) PROVE LeaseInv'
  <2>1. PICK i, j \in Ids :
           /\ IsFresh(i) /\ j \in FreeIds /\ i # j
           /\ leases' = leases \cup {Desired(s, i), Desired(s, j)}
    BY <1>11 DEF CreateLeaseRetried
  <2>2. CreateRetries /\ faults' > 0
    BY <1>11 DEF CreateLeaseRetried, TypeOK
  <2>3. \A l \in leases : l.id # i /\ l.id # j
    BY <2>1 DEF IsFresh, FreeIds, IdsOf
  <2>4. \A l \in leases : l.site # s
    BY <1>11 DEF CreateLeaseRetried, LeaseInv, WriteKnowsOwn, IdsOf, OwnLeases
  <2>5. /\ Desired(s, i).id = i /\ Desired(s, i).site = s
        /\ Desired(s, j).id = j /\ Desired(s, j).site = s
        /\ Desired(s, i).renewed = Desired(s, j).renewed
        /\ Desired(s, i).expires = Desired(s, j).expires
    BY DEF Desired
  <2>6. \A l \in leases' :
           \/ l \in leases /\ l.site # s /\ l.id # i /\ l.id # j
           \/ l = Desired(s, i) \/ l = Desired(s, j)
    BY <2>1, <2>3, <2>4
  <2>7. UniqueIds' /\ OneLeasePerSite'
    BY <2>1, <2>2, <2>5, <2>6 DEF LeaseInv, UniqueIds, OneLeasePerSite
  <2>8. pc' = [pc EXCEPT ![s] = "verify"] /\ UNCHANGED cur
    BY <1>11 DEF CreateLeaseRetried, GoTo
  <2>9. \A r \in Sites : pc'[r] = "write" => r # s /\ pc[r] = "write"
    BY <2>8 DEF TypeOK
  <2>10. WriteKnowsOwn'
    BY <2>1, <2>5, <2>8, <2>9 DEF LeaseInv, WriteKnowsOwn, At, IdsOf, OwnLeases
  <2>11. QED
    BY <2>7, <2>10 DEF LeaseInv
<1>12. QED
  BY <1>1, <1>2, <1>3, <1>4, <1>5, <1>6, <1>7, <1>8, <1>9, <1>10, <1>11
  DEF Next, OperatorStep

\* However the passes of the sites interleave, crash, are retried and meet a
\* second Exposure's finalizer, no site holds two leases: two records of a site
\* are a Create the API client repeated, and differ in nothing but the id
\* (reconcileFailoverRole lists, then writeLease creates or updates by id).
THEOREM OneLease == Spec => []OneLeasePerSite
<1>1. Init => TypeOK /\ LeaseInv
  BY TypeInit, LeaseInvInit
<1>2. TypeOK /\ LeaseInv /\ [Next]_vars => (TypeOK /\ LeaseInv)'
  BY TypeStep, LeaseInvStep
<1>3. TypeOK /\ LeaseInv => OneLeasePerSite
  BY DEF LeaseInv
<1>4. QED
  BY <1>1, <1>2, <1>3, PTL DEF Spec

(***************************************************************************)
(* A step of a site leaves what belongs to the other sites alone.          *)
(***************************************************************************)

Untouched(r) ==
    /\ pc'[r] = pc[r] /\ tok'[r] = tok[r] /\ cur'[r] = cur[r]
    /\ dels'[r] = dels[r] /\ holds'[r] = holds[r] /\ obj'[r] = obj[r]
    /\ role'[r] = role[r] /\ ack'[r] = ack[r]

\* The state of a pass, an object and its status are indexed by site.
LEMMA StateFunctions ==
    ASSUME TypeOK
    PROVE  /\ DOMAIN pc = Sites /\ pc = [x \in Sites |-> pc[x]]
           /\ DOMAIN tok = Sites /\ tok = [x \in Sites |-> tok[x]]
           /\ DOMAIN cur = Sites /\ cur = [x \in Sites |-> cur[x]]
           /\ DOMAIN dels = Sites /\ dels = [x \in Sites |-> dels[x]]
           /\ DOMAIN holds = Sites /\ holds = [x \in Sites |-> holds[x]]
           /\ DOMAIN obj = Sites /\ obj = [x \in Sites |-> obj[x]]
           /\ DOMAIN role = Sites /\ role = [x \in Sites |-> role[x]]
           /\ DOMAIN ack = Sites /\ ack = [x \in Sites |-> ack[x]]
BY DEF TypeOK

\* A pass works on its own site's object, status and local variables.
LEMMA OthersUntouched ==
    ASSUME TypeOK, NEW s \in Sites, NEW r \in Sites, r # s,
           OperatorStep(s) \/ CreateLeaseRetried(s) \/ Abort(s)
    PROVE  Untouched(r)
<1> USE StateFunctions
<1>1. ASSUME GateStep(s) PROVE Untouched(r)
  <2>1. CASE Begin(s)
    BY <2>1 DEF Begin, Untouched, status, pass
  <2>2. CASE Refuse(s)
    BY <2>2 DEF Refuse, Untouched, status, pass
  <2>3. CASE FailClosed(s)
    BY <2>3 DEF FailClosed, Untouched, status, pass, SetRole, EndPass
  <2>4. CASE ResolveDuplicates(s)
    BY <2>4 DEF ResolveDuplicates, Untouched, status, pass
  <2>5. ASSUME NEW i \in Ids, ResolveDelete(s, i) PROVE Untouched(r)
    BY <2>5 DEF ResolveDelete, Untouched, status, pass
  <2>6. CASE ResolveDone(s)
    BY <2>6 DEF ResolveDone, Untouched, status, pass, SetRole, EndPass
  <2>7. CASE StandBy(s)
    BY <2>7 DEF StandBy, Untouched, status, pass, SetRole, EndPass
  <2>8. CASE HoldPrimary(s)
    BY <2>8 DEF HoldPrimary, Untouched, status, pass
  <2>9. CASE DecideWrite(s)
    BY <2>9 DEF DecideWrite, Untouched, status, pass
  <2>10. CASE CreateLease(s)
    BY <2>10 DEF CreateLease, Untouched, status, pass, GoTo
  <2>11. CASE UpdateLease(s)
    BY <2>11 DEF UpdateLease, Untouched, status, pass, GoTo, Fail, EndPass
  <2>12. CASE LostRace(s)
    BY <2>12 DEF LostRace, Untouched, status, pass, SetRole, EndPass
  <2>13. CASE BecomePrimary(s)
    BY <2>13 DEF BecomePrimary, Untouched, status, pass, GoTo
  <2>14. QED
    BY <1>1, <2>1, <2>2, <2>3, <2>4, <2>5, <2>6, <2>7, <2>8, <2>9, <2>10, <2>11, <2>12, <2>13 DEF GateStep
<1>2. ASSUME SurfaceStep(s) PROVE Untouched(r)
  <2>1. CASE ReconcileAccess(s)
    BY <2>1 DEF ReconcileAccess, Untouched, status, pass, GoTo
  <2>2. CASE ListDns(s)
    BY <2>2 DEF ListDns, Untouched, status, pass
  <2>3. CASE WriteDns(s)
    BY <2>3 DEF WriteDns, Untouched, status, pass, GoTo, Fail, EndPass
  <2>4. CASE SaveStatus(s)
    BY <2>4 DEF SaveStatus, Untouched, status, pass, EndPass
  <2>5. QED
    BY <1>2, <2>1, <2>2, <2>3, <2>4 DEF SurfaceStep
<1>3. ASSUME FinalizerStep(s) PROVE Untouched(r)
  <2>1. CASE FinHoldsLease(s)
    BY <2>1 DEF FinHoldsLease, Untouched, status, pass
  <2>2. CASE FinListLeases(s)
    BY <2>2 DEF FinListLeases, Untouched, status, pass
  <2>3. ASSUME NEW i \in Ids, FinDeleteLease(s, i) PROVE Untouched(r)
    BY <2>3 DEF FinDeleteLease, Untouched, status, pass
  <2>4. CASE FinLeaseDone(s)
    BY <2>4 DEF FinLeaseDone, Untouched, status, pass, GoTo, EndPass
  <2>5. CASE FinListDns(s)
    BY <2>5 DEF FinListDns, Untouched, status, pass
  <2>6. CASE FinDeleteDns(s)
    BY <2>6 DEF FinDeleteDns, Untouched, status, pass, GoTo
  <2>7. CASE FinDeleteAccess(s)
    BY <2>7 DEF FinDeleteAccess, Untouched, status, pass, GoTo
  <2>8. CASE FinDrop(s)
    BY <2>8 DEF FinDrop, Untouched, status, pass, EndPass
  <2>9. QED
    BY <1>3, <2>1, <2>2, <2>3, <2>4, <2>5, <2>6, <2>7, <2>8 DEF FinalizerStep
<1>4. CASE CreateLeaseRetried(s)
  BY <1>4 DEF CreateLeaseRetried, Untouched, status, GoTo
<1>5. CASE Abort(s)
  BY <1>5 DEF Abort, Untouched, EndPass
<1>6. ASSUME RivalStep(s) PROVE Untouched(r)
  BY <1>6
  DEF RivalStep, RivalListLeases, RivalDeleteLease, RivalGone, Untouched,
      status, EndPass
<1>7. QED
  BY <1>1, <1>2, <1>3, <1>4, <1>5, <1>6 DEF OperatorStep

(***************************************************************************)
(* A site whose Exposure is gone has left no lease behind.  Without foreign *)
(* records at the lease name, a finalizer pass past its listing has every  *)
(* record of its site in its list, and nobody else writes one.             *)
(***************************************************************************)

LEMMA FinalizerInit == Init => FinalizerInv
BY DEF Init, FinalizerInv, FinalizerKnows, FinalizerSteps, TearDownSteps, At,
       OwnLeases

\* What the other sites do cannot disturb a site that they leave alone.
LEMMA FinalizerFrame ==
    ASSUME TypeOK, [Next]_vars, NEW r \in Sites, FinalizerKnows(r),
           pc'[r] = pc[r], obj'[r] = obj[r], dels'[r] = dels[r],
           ~At(r, "write") \/ leases' \subseteq leases
    PROVE  FinalizerKnows(r)'
<1>1. OwnLeases(r)' \subseteq OwnLeases(r)
  BY LeaseWriters DEF OwnLeases
<1>2. IdsOf(OwnLeases(r)') \subseteq IdsOf(OwnLeases(r))
  BY <1>1 DEF IdsOf
<1>3. QED
  BY <1>1, <1>2 DEF FinalizerKnows, At, IdsOf, OwnLeases

\* Nor can anything disturb a site that is, and stays, in a reconcile pass or
\* at rest with its object there.
LEMMA FinalizerBusy ==
    ASSUME NEW r \in Sites, obj'[r] \notin {"new", "gone"},
           pc'[r] \notin FinalizerSteps
    PROVE  FinalizerKnows(r)'
BY DEF FinalizerKnows, FinalizerSteps, TearDownSteps, At

\* The site that takes the step: a reconcile pass is for an object that is
\* there; a finalizer pass lists, deletes and only then lets the object go.
LEMMA FinalizerOwnStep ==
    ASSUME TypeOK, ~foreign, [Next]_vars, NEW s \in Sites, FinalizerKnows(s),
           OperatorStep(s) \/ CreateLeaseRetried(s) \/ Abort(s)
    PROVE  FinalizerKnows(s)'
<1> USE StateFunctions
<1>1. ASSUME ~At(s, "idle"), pc[s] \notin FinalizerSteps,
             GateStep(s) \/ SurfaceStep(s) \/ CreateLeaseRetried(s)
      PROVE  FinalizerKnows(s)'
  <2>1. obj[s] \notin {"new", "gone"}
    BY <1>1 DEF FinalizerKnows
  <2>2. CASE GateStep(s)
    <3>1. obj' = obj
      BY <1>1, <2>2
      DEF GateStep, Begin, Refuse, FailClosed, ResolveDuplicates, ResolveDelete,
          ResolveDone, StandBy, HoldPrimary, DecideWrite, CreateLease,
          UpdateLease, LostRace, BecomePrimary, At
    <3>2. pc'[s] \notin FinalizerSteps
      BY <1>1, <2>2
      DEF GateStep, Begin, Refuse, FailClosed, ResolveDuplicates, ResolveDelete,
          ResolveDone, StandBy, HoldPrimary, DecideWrite, CreateLease,
          UpdateLease, LostRace, BecomePrimary, GoTo, Fail, EndPass, At,
          FinalizerSteps, TearDownSteps
    <3>3. QED
      BY <2>1, <3>1, <3>2, FinalizerBusy
  <2>3. CASE SurfaceStep(s)
    <3>1. obj' = obj
      BY <2>3 DEF SurfaceStep, ReconcileAccess, ListDns, WriteDns, SaveStatus
    <3>2. pc'[s] \in {"idle", "dns", "dnsWrite", "final"}
      BY <2>3
      DEF SurfaceStep, ReconcileAccess, ListDns, WriteDns, SaveStatus, GoTo,
          Fail, EndPass
    <3>3. QED
      BY <2>1, <3>1, <3>2, FinalizerBusy DEF FinalizerSteps, TearDownSteps
  <2>4. CASE CreateLeaseRetried(s)
    <3>1. obj' = obj /\ pc'[s] = "verify"
      BY <2>4 DEF CreateLeaseRetried, GoTo
    <3>2. QED
      BY <2>1, <3>1, FinalizerBusy DEF FinalizerSteps, TearDownSteps
  <2>5. QED
    BY <1>1, <2>2, <2>3, <2>4
<1>2. ASSUME GateStep(s), At(s, "idle") PROVE FinalizerKnows(s)'
  <2>1. Begin(s) \/ Refuse(s)
    BY <1>2
    DEF GateStep, FailClosed, ResolveDuplicates, ResolveDelete, ResolveDone,
        StandBy, HoldPrimary, DecideWrite, CreateLease, UpdateLease, LostRace,
        BecomePrimary, Gate, At
  <2>2. obj'[s] = "live" /\ pc'[s] \in {"idle", "list"}
    BY <1>2, <2>1 DEF Begin, Refuse, pass, At
  <2>3. QED
    BY <2>2, FinalizerBusy DEF FinalizerSteps, TearDownSteps
<1>3. ASSUME GateStep(s) \/ SurfaceStep(s) \/ CreateLeaseRetried(s)
      PROVE  pc[s] \notin FinalizerSteps
  BY <1>3
  DEF GateStep, Begin, Refuse, FailClosed, ResolveDuplicates, ResolveDelete,
      ResolveDone, StandBy, HoldPrimary, DecideWrite, CreateLease, UpdateLease,
      LostRace, BecomePrimary, Gate, At, SurfaceStep, ReconcileAccess, ListDns,
      WriteDns, SaveStatus, CreateLeaseRetried, FinalizerSteps, TearDownSteps
<1>4. ASSUME SurfaceStep(s) \/ CreateLeaseRetried(s) PROVE ~At(s, "idle")
  BY <1>4 DEF SurfaceStep, ReconcileAccess, ListDns, WriteDns, SaveStatus,
              CreateLeaseRetried, At
<1>5. CASE Abort(s)
  <2>1. obj' = obj /\ pc'[s] = "idle" /\ ~At(s, "idle")
    BY <1>5 DEF Abort, EndPass
  <2>2. QED
    BY <2>1, FinalizerBusy DEF FinalizerKnows, FinalizerSteps, TearDownSteps
<1>6. ASSUME FinalizerStep(s) PROVE FinalizerKnows(s)'
  <2>1. CASE FinHoldsLease(s)
    <3>1. obj'[s] = "deleting" /\ pc'[s] = "finList"
      BY <2>1 DEF FinHoldsLease
    <3>2. QED
      BY <3>1 DEF FinalizerKnows, TearDownSteps, At
  <2>2. CASE FinListLeases(s)
    <3>1. /\ obj[s] = "deleting" /\ obj'[s] = obj[s] /\ pc'[s] = "finLease"
      BY <2>2 DEF FinListLeases, FinalizerKnows, FinalizerSteps, At
    <3>2. leases' = leases /\ dels'[s] = IdsOf(OwnLeases(s))
      BY <2>2 DEF FinListLeases
    <3>3. QED
      BY <3>1, <3>2 DEF FinalizerKnows, TearDownSteps, At, IdsOf, OwnLeases
  <2>3. ASSUME NEW i \in Ids, FinDeleteLease(s, i) PROVE FinalizerKnows(s)'
    <3>1. /\ obj[s] = "deleting" /\ obj'[s] = obj[s]
          /\ pc[s] = "finLease" /\ pc'[s] = "finLease"
      BY <2>3 DEF FinDeleteLease, FinalizerKnows, FinalizerSteps, At
    <3>2. leases' = {l \in leases : l.id # i} /\ dels'[s] = dels[s] \ {i}
      BY <2>3 DEF FinDeleteLease
    <3>3. \A l \in leases : l.site = s => l.id \in dels[s]
      BY <3>1 DEF FinalizerKnows, At, IdsOf, OwnLeases
    <3>4. \A l \in leases' : l.site = s => l.id \in dels'[s]
      BY <3>2, <3>3
    <3>5. QED
      BY <3>1, <3>4 DEF FinalizerKnows, TearDownSteps, At, IdsOf, OwnLeases
  <2>4. CASE FinLeaseDone(s)
    <3>1. leases' = leases /\ pc[s] = "finLease" /\ dels[s] = {}
      BY <2>4 DEF FinLeaseDone, At
    <3>2. OwnLeases(s) = {} /\ obj[s] = "deleting"
      <4>1. IdsOf(OwnLeases(s)) \subseteq {} /\ obj[s] = "deleting"
        BY <3>1 DEF FinalizerKnows, FinalizerSteps, At
      <4>2. QED
        <5>1. \A l \in OwnLeases(s) : l.id \in IdsOf(OwnLeases(s))
          BY DEF IdsOf
        <5>2. QED
          BY <4>1, <5>1
    <3>3. \/ pc'[s] = "finDns" /\ obj'[s] = obj[s]
          \/ pc'[s] = "idle" /\ obj'[s] = "gone"
      BY <2>4 DEF FinLeaseDone, GoTo, EndPass
    <3>4. QED
      BY <3>1, <3>2, <3>3
      DEF FinalizerKnows, FinalizerSteps, TearDownSteps, At, OwnLeases
  <2>5. CASE FinListDns(s) \/ FinDeleteDns(s) \/ FinDeleteAccess(s)
    <3>1. leases' = leases /\ obj' = obj
      BY <2>5 DEF FinListDns, FinDeleteDns, FinDeleteAccess
    <3>2. pc[s] \in TearDownSteps /\ pc'[s] \in TearDownSteps
      BY <2>5 DEF FinListDns, FinDeleteDns, FinDeleteAccess, GoTo, At,
                  TearDownSteps
    <3>3. QED
      BY <3>1, <3>2
      DEF FinalizerKnows, FinalizerSteps, TearDownSteps, At, OwnLeases
  <2>6. CASE FinDrop(s)
    <3>1. /\ leases' = leases /\ pc[s] \in TearDownSteps
          /\ obj'[s] = "gone" /\ pc'[s] = "idle"
      BY <2>6 DEF FinDrop, EndPass, At, TearDownSteps
    <3>2. QED
      BY <3>1 DEF FinalizerKnows, FinalizerSteps, TearDownSteps, At, OwnLeases
  <2>7. QED
    BY <1>6, <2>1, <2>2, <2>3, <2>4, <2>5, <2>6 DEF FinalizerStep
<1>7. ASSUME RivalStep(s) PROVE FinalizerKnows(s)'
  <2>1. obj' = obj /\ pc'[s] \in {"rival", "idle"}
    BY <1>7
    DEF RivalStep, RivalListLeases, RivalDeleteLease, RivalGone, EndPass, At
  <2>2. obj[s] \notin {"new", "gone"}
    BY <1>7
    DEF RivalStep, RivalListLeases, RivalDeleteLease, RivalGone, At,
        FinalizerKnows
  <2>3. QED
    BY <2>1, <2>2, FinalizerBusy DEF FinalizerSteps, TearDownSteps
<1>8. QED
  BY <1>1, <1>2, <1>3, <1>4, <1>5, <1>6, <1>7 DEF OperatorStep

LEMMA FinalizerInvStep ==
    ASSUME ~ForeignRecords
    PROVE  TypeOK /\ FinalizerInv /\ [Next]_vars => FinalizerInv'
<1> SUFFICES ASSUME TypeOK, FinalizerInv, [Next]_vars PROVE FinalizerInv'
  OBVIOUS
<1>1. ~foreign /\ \A r \in Sites : FinalizerKnows(r)
  BY DEF FinalizerInv
<1>2. ASSUME NEW r \in Sites, NEW s \in Sites,
             OperatorStep(s) \/ CreateLeaseRetried(s) \/ Abort(s)
      PROVE  FinalizerKnows(r)'
  <2>1. CASE r = s
    BY <1>1, <1>2, <2>1, FinalizerOwnStep
  <2>2. CASE r # s
    <3>1. Untouched(r)
      BY <1>2, <2>2, OthersUntouched
    <3>2. CASE At(r, "write")
      BY <1>1, <3>1, <3>2, FinalizerBusy
      DEF FinalizerKnows, Untouched, At, FinalizerSteps, TearDownSteps
    <3>3. CASE ~At(r, "write")
      BY <1>1, <3>1, <3>3, FinalizerFrame DEF Untouched
    <3>4. QED
      BY <3>2, <3>3
  <2>3. QED
    BY <2>1, <2>2
<1>3. ASSUME NEW r \in Sites, NEW s \in Sites, Delete(s)
      PROVE  FinalizerKnows(r)'
  <2>1. UNCHANGED <<leases, pc, dels>>
    BY <1>3 DEF Delete, shared, pass
  <2>2. CASE r = s
    <3>1. CASE obj[s] = "new" /\ obj'[s] = "gone"
      <4>1. At(s, "idle") /\ OwnLeases(s) = {}
        BY <1>1, <3>1 DEF FinalizerKnows
      <4>2. QED
        BY <2>1, <2>2, <3>1, <4>1
        DEF FinalizerKnows, FinalizerSteps, TearDownSteps, At, OwnLeases
    <3>2. CASE obj[s] = "live" /\ obj'[s] = "deleting"
      BY <1>1, <2>1, <2>2, <3>2, FinalizerBusy DEF FinalizerKnows
    <3>3. QED
      BY <1>3, <3>1, <3>2, StateFunctions DEF Delete
  <2>3. CASE r # s
    <3>1. obj'[r] = obj[r]
      BY <1>3, <2>3, StateFunctions DEF Delete
    <3>2. QED
      BY <1>1, <2>1, <3>1, FinalizerFrame
  <2>4. QED
    BY <2>2, <2>3
<1>4. ASSUME NEW r \in Sites, UNCHANGED <<leases, obj, pc, dels>>
      PROVE  FinalizerKnows(r)'
  BY <1>1, <1>4, FinalizerFrame
<1>5. CASE \/ Tick \/ UNCHANGED vars
           \/ \E s \in Sites, t \in TokenOrNone : Annotate(s, t)
           \/ \E s \in Sites : ApplyRival(s) \/ DeleteRival(s)
  <2>1. UNCHANGED <<leases, obj, pc, dels, foreign>>
    BY <1>5 DEF Tick, vars, shared, pass, Annotate, ApplyRival, DeleteRival
  <2>2. QED
    BY <1>1, <1>4, <2>1 DEF FinalizerInv
<1>6. CASE ForeignRecord
  BY <1>6 DEF ForeignRecord
<1>7. ASSUME NEW s \in Sites,
             OperatorStep(s) \/ CreateLeaseRetried(s) \/ Abort(s) \/ Delete(s)
      PROVE  foreign' = foreign
  BY <1>7
  DEF OperatorStep, GateStep, Begin, Refuse, FailClosed, ResolveDuplicates,
      ResolveDelete, ResolveDone, StandBy, HoldPrimary, DecideWrite, CreateLease,
      UpdateLease, LostRace, BecomePrimary, SurfaceStep, ReconcileAccess,
      ListDns, WriteDns, SaveStatus, FinalizerStep, FinHoldsLease,
      FinListLeases, FinDeleteLease, FinLeaseDone, FinListDns, FinDeleteDns,
      FinDeleteAccess, FinDrop, RivalStep, RivalListLeases, RivalDeleteLease,
      RivalGone, CreateLeaseRetried, Abort, Delete, shared, OperatorFrame
<1>8. QED
  BY <1>1, <1>2, <1>3, <1>5, <1>6, <1>7 DEF Next, FinalizerInv

\* Once the finalizer is gone, no lease record names the site any more and no
\* pass of the site could still write one, however its passes were cut short
\* and retried (reconcileDelete, deleteOwnedLeaseIfPresent).  The code fails
\* closed on a foreign record, so the theorem assumes there is none.
THEOREM GoneLeavesNoLease ==
    ASSUME ~ForeignRecords
    PROVE  Spec => []GoneHoldsNoLease
<1>1. Init => TypeOK /\ FinalizerInv
  BY TypeInit, FinalizerInit
<1>2. TypeOK /\ FinalizerInv /\ [Next]_vars => (TypeOK /\ FinalizerInv)'
  BY TypeStep, FinalizerInvStep
<1>3. FinalizerInv => GoneHoldsNoLease
  BY DEF FinalizerInv, FinalizerKnows, GoneHoldsNoLease, OwnLeases
<1>4. QED
  BY <1>1, <1>2, <1>3, PTL DEF Spec

(***************************************************************************)
(* Manual promotion.  A site that was never given a token has nothing that *)
(* could make Decide let it acquire, renew or hold; and records and CNAMEs *)
(* that name a site are written by passes of that site alone.              *)
(***************************************************************************)

\* Under Manual, without a token and without a lease of its own, Decide only
\* lets a site stand by.
LEMMA DecideManual ==
    ASSUME NEW s \in Sites, Manual, tok[s] = NoToken,
           \A l \in leases : l.site # s
    PROVE  Verdict(s) \in {"wait", "splitBrain", "await"}
<1>1. CASE leases = {}
  BY <1>1 DEF Verdict, Decide
<1>2. CASE leases # {}
  <2>1. (CHOOSE l \in leases : TRUE) \in leases
    BY <1>2
  <2>2. (CHOOSE l \in leases : TRUE).site # s
    BY <2>1
  <2>3. QED
    BY <1>2, <2>2 DEF Verdict, Decide
<1>3. QED
  BY <1>1, <1>2

\* The CNAME is pointed at a site's tunnel by a pass of that site.
LEMMA CnameWriters ==
    ASSUME [Next]_vars
    PROVE  \A c \in cname' : c \in cname \/ At(c.target, "dnsWrite")
<1>1. CASE cname' \subseteq cname
  BY <1>1
<1>2. ASSUME NEW s \in Sites, WriteDns(s)
      PROVE  \A c \in cname' : c \in cname \/ At(c.target, "dnsWrite")
  BY <1>2 DEF WriteDns
<1>3. ASSUME NEW s \in Sites, GateStep(s) PROVE cname' = cname
  BY <1>3
  DEF GateStep, Begin, Refuse, FailClosed, ResolveDuplicates, ResolveDelete,
      ResolveDone, StandBy, HoldPrimary, DecideWrite, CreateLease, UpdateLease,
      LostRace, BecomePrimary
<1>4. ASSUME NEW s \in Sites, SurfaceStep(s), ~WriteDns(s) PROVE cname' = cname
  BY <1>4 DEF SurfaceStep, ReconcileAccess, ListDns, SaveStatus
<1>5. ASSUME NEW s \in Sites, FinalizerStep(s) PROVE cname' \subseteq cname
  BY <1>5
  DEF FinalizerStep, FinHoldsLease, FinListLeases, FinDeleteLease,
      FinLeaseDone, FinListDns, FinDeleteDns, FinDeleteAccess, FinDrop
<1>6. CASE Tick \/ ForeignRecord \/ UNCHANGED vars
  BY <1>1, <1>6 DEF Tick, ForeignRecord, vars, shared
<1>7. ASSUME NEW s \in Sites,
             \/ Abort(s) \/ Delete(s) \/ CreateLeaseRetried(s)
             \/ ApplyRival(s) \/ DeleteRival(s) \/ RivalStep(s)
             \/ \E t \in TokenOrNone : Annotate(s, t)
      PROVE  cname' = cname
  BY <1>7
  DEF Abort, Delete, CreateLeaseRetried, ApplyRival, DeleteRival, RivalStep,
      RivalListLeases, RivalDeleteLease, RivalGone, Annotate, shared
<1>8. QED
  BY <1>1, <1>2, <1>3, <1>4, <1>5, <1>6, <1>7 DEF Next, OperatorStep

\* Operators read tokens and never make one up.
LEMMA TokensRead ==
    ASSUME TypeOK, NEW s \in Sites,
           OperatorStep(s) \/ CreateLeaseRetried(s) \/ Abort(s)
    PROVE  /\ ann' = ann /\ issued' = issued
           /\ tok'[s] \in {tok[s], ann[s], NoToken}
<1>1. ann' = ann /\ issued' = issued
  BY DEF OperatorStep, GateStep, Begin, Refuse, FailClosed, ResolveDuplicates,
      ResolveDelete, ResolveDone, StandBy, HoldPrimary, DecideWrite, CreateLease,
      UpdateLease, LostRace, BecomePrimary, SurfaceStep, ReconcileAccess,
      ListDns, WriteDns, SaveStatus, FinalizerStep, FinHoldsLease,
      FinListLeases, FinDeleteLease, FinLeaseDone, FinListDns, FinDeleteDns,
      FinDeleteAccess, FinDrop, RivalStep, RivalListLeases, RivalDeleteLease,
      RivalGone, CreateLeaseRetried, Abort, OperatorFrame, history
<1> USE StateFunctions
<1>2. CASE GateStep(s)
  <2>1. CASE Begin(s)
    BY <1>1, <2>1 DEF Begin
  <2>2. CASE ~Begin(s)
    <3>1. tok'[s] = tok[s] \/ tok'[s] = NoToken
      BY <1>2, <2>2
      DEF GateStep, Refuse, FailClosed, ResolveDuplicates, ResolveDelete,
          ResolveDone, StandBy, HoldPrimary, DecideWrite, CreateLease,
          UpdateLease, LostRace, BecomePrimary, GoTo, Fail, EndPass, pass
    <3>2. QED
      BY <1>1, <3>1
  <2>3. QED
    BY <2>1, <2>2
<1>3. CASE SurfaceStep(s) \/ CreateLeaseRetried(s) \/ Abort(s)
  <2>1. tok'[s] = tok[s] \/ tok'[s] = NoToken
    BY <1>3
    DEF SurfaceStep, ReconcileAccess, ListDns, WriteDns, SaveStatus,
        CreateLeaseRetried, Abort, GoTo, Fail, EndPass
  <2>2. QED
    BY <1>1, <2>1
<1>4. CASE FinalizerStep(s)
  <2>1. tok'[s] = tok[s] \/ tok'[s] = NoToken
    BY <1>4
    DEF FinalizerStep, FinHoldsLease, FinListLeases, FinDeleteLease,
        FinLeaseDone, FinListDns, FinDeleteDns, FinDeleteAccess, FinDrop, GoTo,
        EndPass
  <2>2. QED
    BY <1>1, <2>1
<1>5. CASE RivalStep(s)
  BY <1>1, <1>5
  DEF RivalStep, RivalListLeases, RivalDeleteLease, RivalGone, EndPass
<1>6. QED
  BY <1>2, <1>3, <1>4, <1>5 DEF OperatorStep

\* A site without a lease, a role or a token does not get past the gate.
LEMMA NotPromoted ==
    ASSUME TypeOK, NEW s \in Sites, Manual, tok[s] = NoToken,
           \A l \in leases : l.site # s,
           pc[s] \notin {"write"} \cup SharedSteps, role[s] # "Primary",
           OperatorStep(s) \/ CreateLeaseRetried(s) \/ Abort(s)
    PROVE  pc'[s] \notin {"write"} \cup SharedSteps /\ role'[s] # "Primary"
<1> USE StateFunctions DEF SharedSteps
<1>1. CASE GateStep(s)
  <2>1. ~HoldPrimary(s) /\ ~DecideWrite(s)
    BY DecideManual DEF HoldPrimary, DecideWrite, Gate
  <2>2. ~CreateLease(s) /\ ~UpdateLease(s) /\ ~BecomePrimary(s)
    BY DEF CreateLease, UpdateLease, BecomePrimary, At
  <2>3. pc'[s] \in {"list", "idle", "resolve"} \cup {pc[s]}
    BY <1>1, <2>1, <2>2
    DEF GateStep, Begin, Refuse, FailClosed, ResolveDuplicates, ResolveDelete,
        ResolveDone, StandBy, LostRace, EndPass, pass
  <2>4. role'[s] = role[s] \/ role'[s] = "Standby"
    BY <1>1, <2>1, <2>2
    DEF GateStep, Begin, Refuse, FailClosed, ResolveDuplicates, ResolveDelete,
        ResolveDone, StandBy, LostRace, SetRole, status
  <2>5. QED
    BY <2>3, <2>4
<1>2. CASE SurfaceStep(s) \/ CreateLeaseRetried(s)
  BY <1>2 DEF SurfaceStep, ReconcileAccess, ListDns, WriteDns, SaveStatus,
              CreateLeaseRetried, At
<1>3. CASE Abort(s)
  BY <1>3 DEF Abort, EndPass
<1>4. CASE FinalizerStep(s)
  <2>1. pc'[s] \in FinalizerSteps \cup {"idle"}
    BY <1>4
    DEF FinalizerStep, FinHoldsLease, FinListLeases, FinDeleteLease,
        FinLeaseDone, FinListDns, FinDeleteDns, FinDeleteAccess, FinDrop,
        GoTo, EndPass, At, FinalizerSteps, TearDownSteps
  <2>2. role' = role
    BY <1>4
    DEF FinalizerStep, FinHoldsLease, FinListLeases, FinDeleteLease,
        FinLeaseDone, FinListDns, FinDeleteDns, FinDeleteAccess, FinDrop, status
  <2>3. QED
    BY <2>1, <2>2 DEF FinalizerSteps, TearDownSteps
<1>5. CASE RivalStep(s)
  <2>1. pc'[s] \in {"rival", "idle"}
    BY <1>5
    DEF RivalStep, RivalListLeases, RivalDeleteLease, RivalGone, EndPass, At
  <2>2. role' = role
    BY <1>5
    DEF RivalStep, RivalListLeases, RivalDeleteLease, RivalGone, status
  <2>3. QED
    BY <2>1, <2>2
<1>6. QED
  BY <1>1, <1>2, <1>3, <1>4, <1>5 DEF OperatorStep

LEMMA PromotionInit == Init => PromotionInv
BY DEF Init, PromotionInv, PromotionTraced, OwnLeases, SharedSteps

LEMMA PromotionStep ==
    ASSUME TypeOK, [Next]_vars, NEW r \in Sites, PromotionTraced(r)
    PROVE  PromotionTraced(r)'
<1>1. ASSUME pc[r] \notin {"write"} \cup SharedSteps
      PROVE  /\ OwnLeases(r) = {} => OwnLeases(r)' = {}
             /\ (\A c \in cname : c.target # r) => \A c \in cname' : c.target # r
  BY <1>1, LeaseWriters, CnameWriters DEF OwnLeases, At, SharedSteps
<1>2. ASSUME NEW s \in Sites,
             OperatorStep(s) \/ CreateLeaseRetried(s) \/ Abort(s)
      PROVE  PromotionTraced(r)'
  <2>1. /\ ann' = ann /\ issued' = issued
        /\ tok'[r] \in {tok[r], ann[r], NoToken}
    BY <1>2, TokensRead, OthersUntouched DEF Untouched
  <2>2. {ann'[r], tok'[r]} \subseteq issued'[r] \cup {NoToken}
    BY <2>1 DEF PromotionTraced
  <2>3. ASSUME Manual, issued'[r] = {}
        PROVE  /\ pc'[r] \notin {"write"} \cup SharedSteps
               /\ OwnLeases(r)' = {}
               /\ role'[r] # "Primary"
               /\ \A c \in cname' : c.target # r
    <3>1. /\ tok[r] = NoToken /\ OwnLeases(r) = {} /\ role[r] # "Primary"
          /\ pc[r] \notin {"write"} \cup SharedSteps
          /\ \A c \in cname : c.target # r
      BY <2>1, <2>3 DEF PromotionTraced
    <3>2. pc'[r] \notin {"write"} \cup SharedSteps /\ role'[r] # "Primary"
      <4>1. CASE r = s
        BY <1>2, <2>3, <3>1, <4>1, NotPromoted DEF OwnLeases
      <4>2. CASE r # s
        BY <1>2, <3>1, <4>2, OthersUntouched DEF Untouched
      <4>3. QED
        BY <4>1, <4>2
    <3>3. QED
      BY <1>1, <3>1, <3>2
  <2>4. QED
    BY <2>2, <2>3 DEF PromotionTraced
<1>3. ASSUME UNCHANGED <<leases, cname, role, pc, tok>>,
             {ann'[r]} \subseteq issued'[r] \cup {NoToken},
             issued[r] \subseteq issued'[r]
      PROVE  PromotionTraced(r)'
  BY <1>3 DEF PromotionTraced, OwnLeases
<1>4. ASSUME NEW s \in Sites, NEW t \in TokenOrNone, Annotate(s, t)
      PROVE  PromotionTraced(r)'
  <2>1. UNCHANGED <<leases, cname, role, pc, tok>>
    BY <1>4 DEF Annotate, shared, status, pass
  <2>2. /\ ann' = [ann EXCEPT ![s] = t]
        /\ issued' = [issued EXCEPT ![s] = @ \cup ({t} \ {NoToken})]
    BY <1>4 DEF Annotate
  <2>3. ann \in [Sites -> TokenOrNone] /\ issued \in [Sites -> SUBSET Tokens]
    BY DEF TypeOK
  <2>4. issued[r] \subseteq issued'[r]
    BY <2>2, <2>3
  <2>5. ann'[r] \in issued'[r] \cup {NoToken}
    <3>1. CASE r = s
      BY <2>2, <2>3, <3>1
    <3>2. CASE r # s
      BY <2>2, <2>3, <3>2 DEF PromotionTraced
    <3>3. QED
      BY <3>1, <3>2
  <2>6. QED
    BY <1>3, <2>1, <2>4, <2>5
<1>5. CASE \/ Tick \/ ForeignRecord \/ UNCHANGED vars
           \/ \E s \in Sites : Delete(s) \/ ApplyRival(s) \/ DeleteRival(s)
  <2>1. UNCHANGED <<leases, cname, role, pc, tok, ann, issued>>
    BY <1>5
    DEF Tick, ForeignRecord, Delete, ApplyRival, DeleteRival, vars, shared,
        status, pass, history
  <2>2. QED
    BY <1>3, <2>1 DEF PromotionTraced
<1>6. QED
  BY <1>2, <1>4, <1>5 DEF Next

\* Under promotionPolicy Manual no interleaving of passes, crashes, expiring
\* leases and retried calls promotes a site that no operator gave a token to:
\* it holds no lease, is never Primary and never receives the CNAME.
THEOREM ManualPromotion == Spec => []PromotedOnlyByOperator
<1>1. Init => TypeOK /\ PromotionInv
  BY TypeInit, PromotionInit
<1>2. TypeOK /\ PromotionInv /\ [Next]_vars => (TypeOK /\ PromotionInv)'
  BY TypeStep, PromotionStep DEF PromotionInv
<1>3. PromotionInv => PromotedOnlyByOperator
  BY DEF PromotionInv, PromotionTraced, PromotedOnlyByOperator, OwnLeases
<1>4. QED
  BY <1>1, <1>2, <1>3, PTL DEF Spec

(***************************************************************************)
(* The resolution of duplicates (dr.Resolve).                              *)
(***************************************************************************)

\* No two of the records have the same id.
DistinctIds(records) == \A a, b \in records : a.id = b.id => a = b

\* A nonempty set of natural numbers has a least one.
LEMMA LeastNumber ==
    ASSUME NEW S, S \subseteq Nat, S # {}
    PROVE  \E m \in S : \A x \in S : m <= x
<1>1. PICK m \in S : \A x \in S : <<x, m>> \notin OpToRel(<, Nat)
  BY NatLessThanWellFounded, WFMin, Zenon
<1>2. \A x \in S : ~(x < m)
  BY <1>1 DEF OpToRel
<1>3. QED
  BY <1>2

\* Sorting by site and then by id is strict and never ties.
LEMMA BeforeOrders ==
    ASSUME NEW a \in LeaseRecord, NEW b \in LeaseRecord, NEW c \in LeaseRecord
    PROVE  /\ ~Before(a, a)
           /\ Before(a, b) /\ Before(b, c) => Before(a, c)
           /\ a.id # b.id => Before(a, b) \/ Before(b, a)
<1>1. \A r \in LeaseRecord : r.site \in Nat /\ r.id \in Nat
  BY FailoverAssumption DEF LeaseRecord
<1>2. QED
  BY <1>1 DEF Before

\* The winner is one of the candidates and sorts before every other one.
LEMMA WinnerSortsFirst ==
    ASSUME NEW records, records \subseteq LeaseRecord, records # {},
           DistinctIds(records), NEW n
    PROVE  /\ Winner(records, n) \in Candidates(records, n)
           /\ Candidates(records, n) \subseteq records
           /\ \A r \in Candidates(records, n) :
                 r = Winner(records, n) \/ Before(Winner(records, n), r)
<1> DEFINE C == Candidates(records, n)
<1>1. C \subseteq records /\ C # {}
  BY DEF Candidates
<1>2. \A r \in C : r.site \in Nat /\ r.id \in Nat
  BY <1>1, FailoverAssumption DEF LeaseRecord
<1>3. \A a, b \in C : a.id = b.id => a = b
  BY <1>1 DEF DistinctIds
<1> HIDE DEF C
<1>4. PICK m \in {r.site : r \in C} : \A x \in {r.site : r \in C} : m <= x
  <2>1. {r.site : r \in C} \subseteq Nat /\ {r.site : r \in C} # {}
    BY <1>1, <1>2
  <2>2. QED
    BY <2>1, LeastNumber, Zenon
<1> DEFINE D == {r \in C : r.site = m}
<1>5. PICK i \in {r.id : r \in D} : \A x \in {r.id : r \in D} : i <= x
  <2>1. {r.id : r \in D} \subseteq Nat /\ {r.id : r \in D} # {}
    BY <1>2, <1>4
  <2>2. QED
    BY <2>1, LeastNumber, Zenon
<1>6. PICK w \in C : w.site = m /\ w.id = i
  BY <1>5
<1>7. ASSUME NEW r \in C PROVE r = w \/ Before(w, r)
  <2>1. r.site >= m
    BY <1>4
  <2>2. CASE r.site = m
    <3>1. r.id >= i
      BY <1>5, <2>2
    <3>2. QED
      BY <1>2, <1>3, <1>6, <2>2, <3>1 DEF Before
  <2>3. QED
    BY <1>2, <1>6, <2>1, <2>2 DEF Before
<1>8. \E x \in C : \A r \in C : r = x \/ Before(x, r)
  BY <1>7
<1>9. Winner(records, n) = CHOOSE x \in C : \A r \in C : r = x \/ Before(x, r)
  BY DEF Winner, C
<1>10. /\ Winner(records, n) \in C
       /\ \A r \in C : r = Winner(records, n) \/ Before(Winner(records, n), r)
  BY <1>8, <1>9, Zenon
<1>11. QED
  BY <1>1, <1>10 DEF C

\* Sites that read the same records by clocks that agree on which of them have
\* expired (dr.Resolve, resolveDuplicateLeases) keep the same record w, an
\* unexpired one if there is any: the site of w deletes all the others, every
\* other site its own others, so nobody deletes w and nothing else is left.
THEOREM ResolveAgrees ==
    ASSUME NEW records, records \subseteq LeaseRecord, records # {},
           DistinctIds(records),
           NEW clocks \in [Sites -> Int],
           \A r \in records, s, t \in Sites :
               Expired(r, clocks[s]) <=> Expired(r, clocks[t])
    PROVE  \E w \in records : \A s \in Sites :
               /\ \A r \in records :
                     Expired(w, clocks[s]) => Expired(r, clocks[s])
               /\ Resolve(records, clocks[s], s) =
                     {r.id : r \in {x \in records \ {w} : s \in {w.site, x.site}}}
<1>1. CASE Sites = {}
  BY <1>1
<1>2. CASE Sites # {}
  <2>1. PICK q \in Sites : TRUE
    BY <1>2
  <2> DEFINE w == Winner(records, clocks[q])
  <2>2. /\ w \in Candidates(records, clocks[q])
        /\ Candidates(records, clocks[q]) \subseteq records
    BY WinnerSortsFirst
  <2>3. ASSUME NEW s \in Sites
        PROVE  Winner(records, clocks[s]) = w
    <3>1. {r \in records : ~Expired(r, clocks[s])}
             = {r \in records : ~Expired(r, clocks[q])}
      OBVIOUS
    <3>2. Candidates(records, clocks[s]) = Candidates(records, clocks[q])
      BY <3>1 DEF Candidates
    <3>3. QED
      BY <3>2 DEF Winner
  <2>4. ASSUME NEW s \in Sites, NEW r \in records, Expired(w, clocks[s])
        PROVE  Expired(r, clocks[s])
    BY <2>2, <2>4 DEF Candidates
  <2> HIDE DEF w
  <2>5. ASSUME NEW s \in Sites
        PROVE  Resolve(records, clocks[s], s) =
                 {r.id : r \in {x \in records \ {w} : s \in {w.site, x.site}}}
    <3>1. \A x \in records : x.id # w.id <=> x # w
      BY <2>2 DEF DistinctIds
    <3>2. {x \in records : x.id # w.id /\ (w.site = s \/ x.site = s)}
            = {x \in records \ {w} : s \in {w.site, x.site}}
      BY <3>1
    <3>3. QED
      BY <2>3, <3>2 DEF Resolve
  <2>6. QED
    BY <2>2, <2>4, <2>5
<1>3. QED
  BY <1>1, <1>2

(***************************************************************************)
(* The group keeps a lease while duplicates are being resolved.            *)
(***************************************************************************)

\* Every record a pass decides about is unexpired by the clock of the pass.
InTime ==
    \A s \in Sites : At(s, "list") \/ At(s, "verify") =>
        \A l \in leases : ~Expired(l, now[s])

\* No Exposure is being deleted, nor a second one of the group.
NoFinalizer ==
    \A s \in Sites :
        obj[s] # "deleting" /\ pc[s] \notin {"rival"} \cup FinalizerSteps

\* A pass about to update addresses a record of its own site.
UpdatesOwn ==
    \A s \in Sites : At(s, "write") =>
        \A l \in leases : l.id \in cur[s] => l.site = s

\* A record that some pass still has to delete sorts after another one.
DeletesLater ==
    \A s \in Sites : At(s, "resolve") =>
        \A l \in leases : l.id \in dels[s] => \E m \in leases : Before(m, l)

SurvivalInv == UniqueIds /\ NoFinalizer /\ UpdatesOwn /\ DeletesLater

\* A step that leaves the records alone and starts no write or resolution.
Quiet ==
    /\ leases' = leases
    /\ \A r \in Sites :
          /\ pc'[r] = "write" => pc[r] = "write" /\ cur'[r] = cur[r]
          /\ pc'[r] = "resolve" => pc[r] = "resolve" /\ dels'[r] = dels[r]

LEMMA NoFinalizerStep ==
    ASSUME Deletable = {}, Rivals = {}
    PROVE  TypeOK /\ NoFinalizer /\ [Next]_vars => NoFinalizer'
<1> SUFFICES ASSUME TypeOK, NoFinalizer, [Next]_vars PROVE NoFinalizer'
  OBVIOUS
<1> USE StateFunctions DEF NoFinalizer, FinalizerSteps, TearDownSteps
<1>1. ASSUME NEW s \in Sites,
             OperatorStep(s) \/ CreateLeaseRetried(s) \/ Abort(s)
      PROVE  NoFinalizer'
  <2>1. \A r \in Sites \ {s} : obj'[r] = obj[r] /\ pc'[r] = pc[r]
    BY <1>1, OthersUntouched DEF Untouched
  <2>2. obj'[s] # "deleting" /\ pc'[s] \notin {"rival"} \cup FinalizerSteps
    <3>1. CASE GateStep(s)
      BY <3>1
      DEF GateStep, Begin, Refuse, FailClosed, ResolveDuplicates,
          ResolveDelete, ResolveDone, StandBy, HoldPrimary, DecideWrite,
          CreateLease, UpdateLease, LostRace, BecomePrimary, GoTo, EndPass,
          Fail, pass
    <3>2. CASE SurfaceStep(s)
      BY <3>2
      DEF SurfaceStep, ReconcileAccess, ListDns, WriteDns, SaveStatus, GoTo,
          EndPass, Fail
    <3>3. CASE FinalizerStep(s)
      BY <3>3
      DEF FinalizerStep, FinHoldsLease, FinListLeases, FinDeleteLease,
          FinLeaseDone, FinListDns, FinDeleteDns, FinDeleteAccess, FinDrop, At
    <3>4. CASE CreateLeaseRetried(s) \/ Abort(s)
      BY <3>4 DEF CreateLeaseRetried, Abort, GoTo, EndPass
    <3>5. CASE RivalStep(s)
      <4>1. rival[s] = "absent"
        BY DEF TypeOK
      <4>2. QED
        BY <3>5, <4>1
        DEF RivalStep, RivalListLeases, RivalDeleteLease, RivalGone, At
    <3>6. QED
      BY <1>1, <3>1, <3>2, <3>3, <3>4, <3>5 DEF OperatorStep
  <2>3. QED
    BY <2>1, <2>2
<1>2. CASE Tick \/ ForeignRecord \/ UNCHANGED vars
  BY <1>2 DEF Tick, ForeignRecord, vars, pass
<1>3. ASSUME NEW s \in Sites,
             \/ Delete(s) \/ ApplyRival(s) \/ DeleteRival(s)
             \/ \E t \in TokenOrNone : Annotate(s, t)
      PROVE  NoFinalizer'
  BY <1>3 DEF Delete, ApplyRival, DeleteRival, Annotate, pass
<1>4. QED
  BY <1>1, <1>2, <1>3 DEF Next

\* What is not one of the steps of the write and resolution protocol is quiet.
LEMMA ProtocolSteps ==
    ASSUME Rivals = {}, TypeOK, NoFinalizer, [Next]_vars
    PROVE  \/ Quiet
           \/ \E s \in Sites :
                 \/ DecideWrite(s) \/ CreateLease(s) \/ CreateLeaseRetried(s)
                 \/ UpdateLease(s) \/ ResolveDuplicates(s)
                 \/ \E i \in Ids : ResolveDelete(s, i)
<1> USE StateFunctions DEF Quiet
<1>1. ASSUME NEW s \in Sites, leases' = leases,
             OperatorStep(s) \/ Abort(s),
             pc'[s] \notin {"write", "resolve"}
      PROVE  Quiet
  <2>1. \A r \in Sites \ {s} :
           pc'[r] = pc[r] /\ cur'[r] = cur[r] /\ dels'[r] = dels[r]
    BY <1>1, OthersUntouched DEF Untouched
  <2>2. QED
    BY <1>1, <2>1
<1>2. ASSUME NEW s \in Sites, Begin(s) \/ FailClosed(s) \/ ResolveDone(s)
      PROVE  leases' = leases /\ pc'[s] \notin {"write", "resolve"}
  BY <1>2 DEF Begin, FailClosed, ResolveDone, EndPass, SetRole
<1>3. ASSUME NEW s \in Sites, Refuse(s) PROVE Quiet
  BY <1>3 DEF Refuse, pass
<1>4. ASSUME NEW s \in Sites,
             StandBy(s) \/ HoldPrimary(s) \/ LostRace(s) \/ BecomePrimary(s)
      PROVE  leases' = leases /\ pc'[s] \notin {"write", "resolve"}
  BY <1>4 DEF StandBy, HoldPrimary, LostRace, BecomePrimary, EndPass, GoTo
<1>5. ASSUME NEW s \in Sites, SurfaceStep(s)
      PROVE  leases' = leases /\ pc'[s] \notin {"write", "resolve"}
  BY <1>5
  DEF SurfaceStep, ReconcileAccess, ListDns, WriteDns, SaveStatus, EndPass,
      GoTo, Fail
<1>6. ASSUME NEW s \in Sites, FinalizerStep(s) PROVE FALSE
  BY <1>6
  DEF FinalizerStep, FinHoldsLease, FinListLeases, FinDeleteLease,
      FinLeaseDone, FinListDns, FinDeleteDns, FinDeleteAccess, FinDrop, At,
      NoFinalizer, FinalizerSteps, TearDownSteps
<1>7. ASSUME NEW s \in Sites, Abort(s)
      PROVE  leases' = leases /\ pc'[s] \notin {"write", "resolve"}
  BY <1>7 DEF Abort, EndPass, shared
<1>8. CASE Tick \/ ForeignRecord \/ UNCHANGED vars
  BY <1>8 DEF Tick, ForeignRecord, vars, pass, shared
<1>9. ASSUME NEW s \in Sites,
             \/ Delete(s) \/ ApplyRival(s) \/ DeleteRival(s)
             \/ \E t \in TokenOrNone : Annotate(s, t)
      PROVE  Quiet
  BY <1>9 DEF Delete, ApplyRival, DeleteRival, Annotate, pass, shared
<1>12. ASSUME NEW s \in Sites, RivalStep(s) PROVE FALSE
  <2>1. rival[s] = "absent"
    BY DEF TypeOK
  <2>2. QED
    BY <1>12, <2>1
    DEF RivalStep, RivalListLeases, RivalDeleteLease, RivalGone, At, NoFinalizer
<1> HIDE DEF Quiet
<1>10. ASSUME NEW s \in Sites, OperatorStep(s) \/ Abort(s)
       PROVE  \/ Quiet
              \/ DecideWrite(s) \/ CreateLease(s) \/ UpdateLease(s)
              \/ ResolveDuplicates(s) \/ \E i \in Ids : ResolveDelete(s, i)
  <2>1. OperatorStep(s) \/ Abort(s)
    BY <1>10
  <2>2. QED
    BY <1>1, <1>2, <1>3, <1>4, <1>5, <1>6, <1>7, <1>12, <2>1, Zenon
    DEF OperatorStep, GateStep
<1>11. QED
  BY <1>8, <1>9, <1>10, Zenon DEF Next

\* Without tokens Decide lets a site write only over a record of its own: a
\* peer's unexpired record is waited for.
LEMMA DecideOwn ==
    ASSUME NEW s \in Sites, tok[s] = NoToken, ~Duplicated,
           Verdict(s) \in {"acquire", "renew"},
           NEW l \in leases, ~Expired(l, now[s])
    PROVE  l.site = s
<1>1. (CHOOSE x \in leases : TRUE) = l
  BY DEF Duplicated
<1>2. QED
  BY <1>1 DEF Verdict, Decide

\* Deleting a record that sorts after another one leaves every record that
\* sorted after another one after some record that is still there.
LEMMA DeletionKeepsEarlier ==
    ASSUME TypeOK, UniqueIds, NEW d \in leases,
           \E m \in leases : Before(m, d),
           NEW l \in leases, \E m \in leases : Before(m, l)
    PROVE  \E m \in leases : m.id # d.id /\ Before(m, l)
<1>1. leases \subseteq LeaseRecord
  BY DEF TypeOK
<1>2. PICK m \in leases : Before(m, l)
  OBVIOUS
<1>3. PICK k \in leases : Before(k, d)
  OBVIOUS
<1>4. k.id # d.id
  BY <1>1, <1>3, BeforeOrders DEF UniqueIds
<1>5. CASE m.id = d.id
  <2>1. m = d
    BY <1>5 DEF UniqueIds
  <2>2. Before(k, l)
    BY <1>1, <1>2, <1>3, <2>1, BeforeOrders
  <2>3. QED
    BY <1>4, <2>2
<1>6. QED
  BY <1>2, <1>5

LEMMA SurvivalInit == Init => SurvivalInv
BY DEF Init, SurvivalInv, UniqueIds, NoFinalizer, UpdatesOwn, DeletesLater, At,
       FinalizerSteps, TearDownSteps

\* A pass that computes its deletions owes none that sorts first.
LEMMA ResolutionStep ==
    ASSUME TypeOK, SurvivalInv, InTime, NEW s \in Sites, ResolveDuplicates(s)
    PROVE  UniqueIds' /\ UpdatesOwn' /\ DeletesLater'
<1> USE StateFunctions
<1>1. /\ leases' = leases
      /\ pc' = [pc EXCEPT ![s] = "resolve"]
      /\ dels' = [dels EXCEPT ![s] = Resolve(leases, now[s], s)]
      /\ cur' = cur
      /\ leases # {}
      /\ \A l \in leases : ~Expired(l, now[s])
  BY DEF ResolveDuplicates, Duplicated, InTime
<1>2. UniqueIds' /\ UpdatesOwn'
  BY <1>1 DEF SurvivalInv, UniqueIds, UpdatesOwn, At
<1>3. ASSUME NEW l \in leases, l.id \in Resolve(leases, now[s], s)
      PROVE  \E m \in leases : Before(m, l)
  <2> DEFINE w == Winner(leases, now[s])
  <2>1. Candidates(leases, now[s]) = leases
    BY <1>1 DEF Candidates
  <2>2. w \in leases /\ \A r \in leases : r = w \/ Before(w, r)
    <3>1. leases \subseteq LeaseRecord /\ DistinctIds(leases)
      BY DEF TypeOK, DistinctIds, SurvivalInv, UniqueIds
    <3>2. QED
      BY <1>1, <2>1, <3>1, WinnerSortsFirst
  <2>3. l.id # w.id
    BY <1>3 DEF Resolve
  <2>4. QED
    BY <2>2, <2>3
<1>4. DeletesLater'
  BY <1>1, <1>3 DEF SurvivalInv, DeletesLater, At
<1>5. QED
  BY <1>2, <1>4

\* A record that is added has an id nobody has to update or delete.
LEMMA AdditionStep ==
    ASSUME TypeOK, SurvivalInv, NEW s \in Sites,
           CreateLease(s) \/ CreateLeaseRetried(s)
    PROVE  UniqueIds' /\ UpdatesOwn' /\ DeletesLater'
<1> USE StateFunctions
<1>1. PICK i \in FreeIds, j \in FreeIds :
           \/ leases' = leases \cup {Desired(s, i)}
           \/ i # j /\ leases' = leases \cup {Desired(s, i), Desired(s, j)}
  BY DEF CreateLease, CreateLeaseRetried, IsFresh
<1>2. pc' = [pc EXCEPT ![s] = "verify"] /\ cur' = cur /\ dels' = dels
  BY DEF CreateLease, CreateLeaseRetried, GoTo
<1>3. \A x \in Ids : Desired(s, x).id = x
  BY DEF Desired
<1>4. /\ \A l \in leases : l.id # i /\ l.id # j
      /\ \A r \in Sites : {i, j} \cap (cur[r] \cup dels[r]) = {}
      /\ i \in Ids /\ j \in Ids
  BY DEF FreeIds, IdsOf
<1>5. \A l \in leases' : l \in leases \/ l = Desired(s, i) \/ l = Desired(s, j)
  BY <1>1
<1>6. leases \subseteq leases'
  BY <1>1
<1>7. UniqueIds'
  BY <1>1, <1>3, <1>4 DEF SurvivalInv, UniqueIds
<1>8. UpdatesOwn'
  BY <1>2, <1>3, <1>4, <1>5 DEF SurvivalInv, UpdatesOwn, At
<1>9. DeletesLater'
  BY <1>2, <1>3, <1>4, <1>5, <1>6 DEF SurvivalInv, DeletesLater, At
<1>10. QED
  BY <1>7, <1>8, <1>9

\* An update keeps the id and the site of its record, and so its place.
LEMMA UpdateStep ==
    ASSUME TypeOK, SurvivalInv, NEW s \in Sites, UpdateLease(s)
    PROVE  /\ UniqueIds' /\ UpdatesOwn' /\ DeletesLater'
           /\ leases # {} => leases' # {}
<1> USE StateFunctions
<1> DEFINE new(l) == IF l.id \in cur[s] THEN Desired(s, l.id) ELSE l
<1>1. CASE leases' = leases /\ Fail(s)
  <2>1. pc' = [pc EXCEPT ![s] = "idle"] /\ cur' = [cur EXCEPT ![s] = {}]
        /\ dels' = [dels EXCEPT ![s] = {}]
    BY <1>1 DEF Fail, EndPass
  <2>2. QED
    BY <1>1, <2>1 DEF SurvivalInv, UniqueIds, UpdatesOwn, DeletesLater, At
<1>2. CASE leases' = {new(l) : l \in leases} /\ GoTo(s, "verify")
  <2>1. pc' = [pc EXCEPT ![s] = "verify"] /\ cur' = cur /\ dels' = dels
    BY <1>2 DEF GoTo
  <2>2. \A l \in leases : new(l).id = l.id /\ new(l).site = l.site
    BY DEF Desired, SurvivalInv, UpdatesOwn, UpdateLease
  <2>3. \A x \in leases' : \E l \in leases : x = new(l)
    BY <1>2
  <2>4. \A l \in leases : new(l) \in leases'
    BY <1>2
  <2> HIDE DEF new
  <2>5. UniqueIds'
    BY <2>2, <2>3 DEF SurvivalInv, UniqueIds
  <2>6. UpdatesOwn'
    BY <2>1, <2>2, <2>3 DEF SurvivalInv, UpdatesOwn, At
  <2>7. \A l, m \in leases : Before(m, l) => Before(new(m), new(l))
    BY <2>2 DEF Before
  <2>8. DeletesLater'
    BY <2>1, <2>2, <2>3, <2>4, <2>7 DEF SurvivalInv, DeletesLater, At
  <2>9. QED
    BY <2>4, <2>5, <2>6, <2>8
<1>3. QED
  BY <1>1, <1>2 DEF UpdateLease

\* A deletion takes a record that sorts after another one, or none.
LEMMA DeletionStep ==
    ASSUME TypeOK, SurvivalInv, NEW s \in Sites, NEW i \in Ids,
           ResolveDelete(s, i)
    PROVE  /\ UniqueIds' /\ UpdatesOwn' /\ DeletesLater'
           /\ leases # {} => leases' # {}
<1> USE StateFunctions
<1>1. /\ At(s, "resolve") /\ i \in dels[s]
      /\ leases' = {l \in leases : l.id # i}
      /\ dels' = [dels EXCEPT ![s] = @ \ {i}]
      /\ pc' = pc /\ cur' = cur
  BY DEF ResolveDelete
<1>2. UniqueIds' /\ UpdatesOwn'
  BY <1>1 DEF SurvivalInv, UniqueIds, UpdatesOwn, At
<1>3. CASE \A l \in leases : l.id # i
  <2>1. leases' = leases
    BY <1>1, <1>3
  <2>2. DeletesLater'
    BY <1>1, <2>1 DEF SurvivalInv, DeletesLater, At
  <2>3. QED
    BY <1>2, <2>1, <2>2
<1>4. ASSUME NEW d \in leases, d.id = i
      PROVE  DeletesLater' /\ leases' # {}
  <2>1. \E m \in leases : Before(m, d)
    BY <1>1, <1>4 DEF SurvivalInv, DeletesLater
  <2>2. \A l \in leases : (\E m \in leases : Before(m, l)) =>
           \E m \in leases : m.id # i /\ Before(m, l)
    BY <1>4, <2>1, DeletionKeepsEarlier DEF SurvivalInv
  <2>3. \A l \in leases : (\E m \in leases : Before(m, l)) =>
           \E m \in leases' : Before(m, l)
    BY <1>1, <2>2
  <2>4. \A r \in Sites : dels'[r] \subseteq dels[r]
    BY <1>1
  <2>5. DeletesLater'
    BY <1>1, <2>3, <2>4 DEF SurvivalInv, DeletesLater, At
  <2>6. QED
    BY <2>1, <2>3, <2>5
<1>5. QED
  BY <1>2, <1>3, <1>4

LEMMA SurvivalStep ==
    ASSUME Tokens = {}, Deletable = {}, Rivals = {}
    PROVE  TypeOK /\ SurvivalInv /\ InTime /\ [Next]_vars
               => SurvivalInv' /\ (leases # {} => leases' # {})
<1> SUFFICES ASSUME TypeOK, SurvivalInv, InTime, [Next]_vars
             PROVE  SurvivalInv' /\ (leases # {} => leases' # {})
  OBVIOUS
<1>1. NoFinalizer'
  BY NoFinalizerStep DEF SurvivalInv
<1>2. CASE Quiet
  BY <1>1, <1>2
  DEF Quiet, SurvivalInv, UniqueIds, UpdatesOwn, DeletesLater, At
<1>3. ASSUME NEW s \in Sites, DecideWrite(s)
      PROVE  SurvivalInv' /\ leases' = leases
  <2>1. /\ leases' = leases /\ dels' = dels
        /\ pc' = [pc EXCEPT ![s] = "write"]
        /\ cur' = [cur EXCEPT ![s] = IdsOf(leases)]
        /\ At(s, "list") /\ ~Duplicated
        /\ Verdict(s) \in {"acquire", "renew"}
    BY <1>3 DEF DecideWrite, Gate
  <2>2. tok[s] = NoToken
    BY DEF TypeOK, TokenOrNone
  <2>3. \A l \in leases : l.site = s
    BY <2>1, <2>2, DecideOwn DEF InTime
  <2>4. UniqueIds' /\ UpdatesOwn' /\ DeletesLater'
    BY <2>1, <2>3, StateFunctions
    DEF SurvivalInv, UniqueIds, UpdatesOwn, DeletesLater, At
  <2>5. QED
    BY <1>1, <2>1, <2>4 DEF SurvivalInv
<1>4. ASSUME NEW s \in Sites, CreateLease(s) \/ CreateLeaseRetried(s)
      PROVE  SurvivalInv' /\ leases \subseteq leases'
  <2>1. leases \subseteq leases'
    BY <1>4 DEF CreateLease, CreateLeaseRetried
  <2>2. QED
    BY <1>1, <1>4, <2>1, AdditionStep DEF SurvivalInv
<1>5. ASSUME NEW s \in Sites, UpdateLease(s)
      PROVE  SurvivalInv' /\ (leases # {} => leases' # {})
  BY <1>1, <1>5, UpdateStep DEF SurvivalInv
<1>6. ASSUME NEW s \in Sites, ResolveDuplicates(s)
      PROVE  SurvivalInv' /\ leases' = leases
  <2>1. leases' = leases
    BY <1>6 DEF ResolveDuplicates
  <2>2. QED
    BY <1>1, <1>6, <2>1, ResolutionStep DEF SurvivalInv
<1>7. ASSUME NEW s \in Sites, NEW i \in Ids, ResolveDelete(s, i)
      PROVE  SurvivalInv' /\ (leases # {} => leases' # {})
  BY <1>1, <1>7, DeletionStep DEF SurvivalInv
<1>8. QED
  BY <1>2, <1>3, <1>4, <1>5, <1>6, <1>7, ProtocolSteps DEF Quiet, SurvivalInv

\* Once there is a lease there always is one, whatever the interleaving of the
\* sites' resolutions, creations, repeated creations, crashes and foreign
\* records (reconcileFailoverRole, resolveDuplicateLeases): no two sites ever
\* delete each other's record.  It needs passes that decide before the leases
\* they read expire, and neither forced promotions nor deletions (of a site's
\* Exposure or of a second one of the group, both of which delete the lease):
\* a forced update moves a record to another place in the order.
THEOREM LeaseSurvives ==
    ASSUME Tokens = {}, Deletable = {}, Rivals = {}
    PROVE  Spec /\ []InTime => [][leases # {} => leases' # {}]_vars
<1>1. Init => TypeOK /\ SurvivalInv
  BY TypeInit, SurvivalInit
<1>2. TypeOK /\ SurvivalInv /\ InTime /\ [Next]_vars
         => (TypeOK /\ SurvivalInv)' /\ [leases # {} => leases' # {}]_vars
  BY TypeStep, SurvivalStep
<1>3. QED
  BY <1>1, <1>2, PTL DEF Spec

(***************************************************************************)
(* A site that serves goes on serving.  Settled is its own inductive       *)
(* invariant as long as nothing disturbs the site: the proof looks at the  *)
(* steps of the site, which keep the lease, and at those of a peer, which  *)
(* leave everything the site serves with alone.                            *)
(***************************************************************************)

\* What Settled asks of the shared records and of the site itself.
Surface(s) ==
    /\ role[s] = "Primary"
    /\ leases # {} /\ ~Duplicated /\ \A l \in leases : l.site = s
    /\ cname # {} /\ \A c \in cname : c.target = s
    /\ app
    /\ pc[s] \notin {"resolve", "rival"} \cup FinalizerSteps
    /\ At(s, "write") => cur[s] = IdsOf(leases)

\* What Settled asks of a peer.
Calm(r) ==
    /\ pc[r] \notin {"write", "access", "dns", "dnsWrite"} \cup TearDownSteps
    /\ pc[r] \in FinalizerSteps => ~holds[r]
    /\ pc[r] \in {"resolve", "finLease", "rival"} =>
          dels[r] \cap IdsOf(leases) = {}

LEMMA SettledParts ==
    ASSUME NEW s \in Sites
    PROVE  Settled(s) <=> Surface(s) /\ \A r \in Sites \ {s} : Calm(r)
BY DEF Settled, Surface, Calm

\* The only record is the site's own, so Decide lets it hold or renew.
LEMMA HolderDecides ==
    ASSUME NEW s \in Sites, Surface(s)
    PROVE  Verdict(s) \in {"hold", "renew"}
<1>1. (CHOOSE l \in leases : TRUE) \in leases
  BY DEF Surface
<1>2. QED
  BY <1>1 DEF Surface, Verdict, Decide

\* A peer that reads the site's unexpired record unforced stands by.
LEMMA PeerStandsBy ==
    ASSUME NEW s \in Sites, Surface(s), Undisturbed(s),
           NEW r \in Sites \ {s}, At(r, "list")
    PROVE  Verdict(r) \in {"wait", "splitBrain"}
<1>1. (CHOOSE l \in leases : TRUE) \in leases
  BY DEF Surface
<1>2. (CHOOSE l \in leases : TRUE).site # r
  BY <1>1 DEF Surface
<1>3. ~Expired((CHOOSE l \in leases : TRUE), now[r]) /\ tok[r] = NoToken
  BY <1>1 DEF Undisturbed
<1>4. QED
  BY <1>1, <1>2, <1>3 DEF Verdict, Decide

\* The pass of the site that serves: it renews the record, keeps the role and
\* points the CNAME where it points already.
LEMMA HolderStep ==
    ASSUME TypeOK, NEW s \in Sites, Undisturbed(s), Surface(s),
           OperatorStep(s) \/ CreateLeaseRetried(s) \/ Abort(s)
    PROVE  Surface(s)' /\ IdsOf(leases)' = IdsOf(leases)
<1> USE StateFunctions DEF Surface, FinalizerSteps, TearDownSteps
<1>1. ASSUME leases' = leases, cname' = cname, app' = app,
             role'[s] = "Primary",
             pc'[s] \notin {"resolve", "rival", "write"} \cup FinalizerSteps
      PROVE  Surface(s)' /\ IdsOf(leases)' = IdsOf(leases)
  BY <1>1 DEF Duplicated, At, IdsOf
<1>2. CASE Begin(s)
  BY <1>1, <1>2 DEF Begin, status
<1>3. CASE Refuse(s)
  BY <1>3 DEF Refuse, Duplicated, At, IdsOf, pass
<1>4. ASSUME FailClosed(s) \/ ResolveDuplicates(s) \/ StandBy(s) \/ LostRace(s)
      PROVE  FALSE
  BY <1>4, HolderDecides
  DEF FailClosed, ResolveDuplicates, StandBy, LostRace, Gate, Undisturbed
<1>5. ASSUME NEW i \in Ids, ResolveDelete(s, i) PROVE FALSE
  BY <1>5 DEF ResolveDelete, At
<1>6. ASSUME ResolveDone(s) \/ CreateLease(s) \/ CreateLeaseRetried(s)
      PROVE  FALSE
  <2>1. IdsOf(leases) # {}
    <3>1. PICK l \in leases : TRUE
      OBVIOUS
    <3>2. l.id \in IdsOf(leases)
      BY <3>1 DEF IdsOf
    <3>3. QED
      BY <3>2
  <2>2. CASE ResolveDone(s)
    BY <2>2 DEF ResolveDone, At
  <2>3. CASE CreateLease(s) \/ CreateLeaseRetried(s)
    <3>1. At(s, "write") /\ cur[s] = {}
      BY <2>3 DEF CreateLease, CreateLeaseRetried
    <3>2. QED
      BY <2>1, <3>1
  <2>4. QED
    BY <1>6, <2>2, <2>3
<1>7. CASE HoldPrimary(s)
  BY <1>1, <1>7 DEF HoldPrimary
<1>8. CASE DecideWrite(s)
  BY <1>8 DEF DecideWrite, Duplicated, At, IdsOf, status
<1>9. CASE UpdateLease(s)
  <2>1. cur[s] = IdsOf(leases)
    BY <1>9 DEF UpdateLease
  <2>2. /\ leases' = {Desired(s, l.id) : l \in leases}
        /\ GoTo(s, "verify") /\ UNCHANGED <<status, cname, app>>
    <3>1. {IF l.id \in cur[s] THEN Desired(s, l.id) ELSE l : l \in leases}
             = {Desired(s, l.id) : l \in leases}
      BY <2>1 DEF IdsOf
    <3>2. QED
      BY <1>9, <2>1, <3>1 DEF UpdateLease
  <2>3. \A i : Desired(s, i).id = i /\ Desired(s, i).site = s
    BY DEF Desired
  <2>4. IdsOf(leases)' = IdsOf(leases)
    BY <2>2, <2>3 DEF IdsOf
  <2>5. ~Duplicated'
    BY <2>2 DEF Duplicated
  <2>6. leases' # {} /\ \A l \in leases' : l.site = s
    BY <2>2, <2>3
  <2>7. QED
    BY <2>2, <2>4, <2>5, <2>6 DEF GoTo, status, At
<1>10. CASE BecomePrimary(s)
  BY <1>1, <1>10 DEF BecomePrimary, GoTo
<1>11. CASE SurfaceStep(s)
  <2>1. CASE ReconcileAccess(s)
    BY <2>1 DEF ReconcileAccess, GoTo, status, Duplicated, At, IdsOf
  <2>2. CASE ListDns(s)
    BY <1>1, <2>2 DEF ListDns, status
  <2>3. CASE SaveStatus(s)
    BY <1>1, <2>3 DEF SaveStatus, EndPass
  <2>4. CASE WriteDns(s)
    <3>1. leases' = leases /\ app' = app
      BY <2>4 DEF WriteDns
    <3>2. role' = role /\ pc'[s] \in {"final", "idle"}
      BY <2>4 DEF WriteDns, status, GoTo, Fail, EndPass
    <3>3. cname' # {} /\ \A c \in cname' : c.target = s
      <4>1. CASE cur[s] # {} /\ cname' = {[id |-> i, target |-> s] : i \in cur[s]}
        <5>1. PICK i \in cur[s] : TRUE
          BY <4>1
        <5>2. [id |-> i, target |-> s] \in cname'
          BY <4>1
        <5>3. \A c \in cname' : \E k \in cur[s] : c = [id |-> k, target |-> s]
          BY <4>1
        <5>4. QED
          BY <5>2, <5>3
      <4>2. CASE cname' = cname
        BY <4>2
      <4>3. QED
        BY <2>4, <4>1, <4>2 DEF WriteDns
    <3>4. QED
      BY <3>1, <3>2, <3>3 DEF Duplicated, At, IdsOf
  <2>5. QED
    BY <1>11, <2>1, <2>2, <2>3, <2>4 DEF SurfaceStep
<1>12. ASSUME FinalizerStep(s) PROVE FALSE
  BY <1>12
  DEF FinalizerStep, FinHoldsLease, FinListLeases, FinDeleteLease,
      FinLeaseDone, FinListDns, FinDeleteDns, FinDeleteAccess, FinDrop, At,
      Undisturbed
<1>13. CASE Abort(s)
  BY <1>1, <1>13 DEF Abort, EndPass, shared
<1>15. ASSUME RivalStep(s) PROVE FALSE
  BY <1>15
  DEF RivalStep, RivalListLeases, RivalDeleteLease, RivalGone, At, Undisturbed
<1>14. QED
  BY <1>2, <1>3, <1>4, <1>5, <1>6, <1>7, <1>8, <1>9, <1>10, <1>11, <1>12, <1>13,
     <1>15
  DEF OperatorStep, GateStep

\* The pass of a peer: it stands by, or cleans up what is not there.
LEMMA PeerStep ==
    ASSUME TypeOK, NEW s \in Sites, Undisturbed(s), Surface(s),
           NEW r \in Sites \ {s}, Calm(r),
           OperatorStep(r) \/ CreateLeaseRetried(r) \/ Abort(r)
    PROVE  Calm(r)' /\ leases' = leases /\ cname' = cname /\ app' = app
<1> USE StateFunctions DEF Calm, FinalizerSteps, TearDownSteps
<1>1. CASE Begin(r) \/ FailClosed(r) \/ ResolveDone(r)
  BY <1>1 DEF Begin, FailClosed, ResolveDone, EndPass
<1>2. CASE Refuse(r)
  BY <1>2 DEF Refuse, pass, IdsOf
<1>3. ASSUME ResolveDuplicates(r) \/ BecomePrimary(r) PROVE FALSE
  BY <1>3 DEF ResolveDuplicates, BecomePrimary, Surface
<1>4. ASSUME NEW i \in Ids,
             ResolveDelete(r, i) \/ FinDeleteLease(r, i) \/ RivalDeleteLease(r, i)
      PROVE  Calm(r)' /\ leases' = leases /\ cname' = cname /\ app' = app
  <2>1. /\ pc[r] \in {"resolve", "finLease", "rival"} /\ i \in dels[r]
        /\ leases' = {l \in leases : l.id # i}
        /\ dels' = [dels EXCEPT ![r] = @ \ {i}]
        /\ pc' = pc /\ holds' = holds /\ cname' = cname /\ app' = app
    BY <1>4 DEF ResolveDelete, FinDeleteLease, RivalDeleteLease, At
  <2>2. leases' = leases
    BY <2>1 DEF IdsOf
  <2>3. QED
    BY <2>1, <2>2 DEF IdsOf
<1>5. CASE StandBy(r) \/ LostRace(r)
  BY <1>5 DEF StandBy, LostRace, EndPass
<1>6. ASSUME \/ HoldPrimary(r) \/ DecideWrite(r)
             \/ CreateLease(r) \/ CreateLeaseRetried(r) \/ UpdateLease(r)
      PROVE  FALSE
  <2>1. CASE HoldPrimary(r) \/ DecideWrite(r)
    <3>1. At(r, "list") /\ Verdict(r) \in {"hold", "acquire", "renew"}
      BY <2>1 DEF HoldPrimary, DecideWrite, Gate
    <3>2. QED
      BY <3>1, PeerStandsBy
  <2>2. QED
    BY <1>6, <2>1 DEF CreateLease, CreateLeaseRetried, UpdateLease, At
<1>7. CASE SaveStatus(r)
  BY <1>7 DEF SaveStatus, EndPass
<1>8. ASSUME SurfaceStep(r), ~SaveStatus(r) PROVE FALSE
  BY <1>8 DEF SurfaceStep, ReconcileAccess, ListDns, WriteDns, At
<1>9. CASE FinHoldsLease(r)
  <2>1. holds'[r] = FALSE /\ pc'[r] = "finList"
    <3>1. ~(~foreign /\ ~Duplicated /\ \E l \in leases : l.site = r)
      BY DEF Surface
    <3>2. QED
      BY <1>9, <3>1 DEF FinHoldsLease
  <2>2. QED
    BY <1>9, <2>1 DEF FinHoldsLease
<1>10. CASE FinListLeases(r)
  <2>1. IdsOf(OwnLeases(r)) = {}
    BY DEF IdsOf, OwnLeases, Surface
  <2>2. /\ leases' = leases /\ cname' = cname /\ app' = app
        /\ pc[r] = "finList" /\ pc'[r] = "finLease" /\ holds' = holds
    BY <1>10 DEF FinListLeases, At
  <2>3. dels'[r] = {}
    BY <1>10, <2>1 DEF FinListLeases
  <2>4. QED
    BY <2>2, <2>3
<1>11. CASE FinLeaseDone(r)
  <2>1. ~holds[r]
    BY <1>11 DEF FinLeaseDone, At
  <2>2. EndPass(r) /\ leases' = leases /\ cname' = cname /\ app' = app
    BY <1>11, <2>1 DEF FinLeaseDone
  <2>3. QED
    BY <2>2 DEF EndPass
<1>12. ASSUME FinListDns(r) \/ FinDeleteDns(r) \/ FinDeleteAccess(r) \/ FinDrop(r)
       PROVE  FALSE
  BY <1>12 DEF FinListDns, FinDeleteDns, FinDeleteAccess, FinDrop, At
<1>13. CASE Abort(r)
  BY <1>13 DEF Abort, EndPass, shared
<1>15. CASE RivalListLeases(r)
  <2>1. IdsOf(OwnLeases(r)) = {}
    BY DEF IdsOf, OwnLeases, Surface
  <2>2. /\ leases' = leases /\ cname' = cname /\ app' = app
        /\ pc'[r] = "rival"
    BY <1>15 DEF RivalListLeases
  <2>3. dels'[r] = {}
    BY <1>15, <2>1 DEF RivalListLeases
  <2>4. QED
    BY <2>2, <2>3
<1>16. CASE RivalGone(r)
  BY <1>16 DEF RivalGone, EndPass, shared
<1> HIDE DEF Calm
<1>14. QED
  BY <1>1, <1>2, <1>3, <1>4, <1>5, <1>6, <1>7, <1>8, <1>9, <1>10, <1>11, <1>12,
     <1>13, <1>15, <1>16
  DEF OperatorStep, GateStep, FinalizerStep, RivalStep

\* A site that serves goes on serving while nothing disturbs it, for every
\* number of sites and every interleaving of their passes, crashes, failed
\* calls and deletions (reconcileFailoverRole, holdsLiveLease,
\* deleteOwnedLeaseIfPresent): the part of Converges that is about safety.
THEOREM ServiceIsStable == Spec => ServingStays
<1>1. ASSUME TypeOK, [Next]_vars, NEW s \in Sites, Undisturbed(s), Settled(s)
      PROVE  Settled(s)'
  <2> DEFINE Peers == \A r \in Sites \ {s} : Calm(r)
  <2>1. Surface(s) /\ Peers
    BY <1>1, SettledParts
  <2>2. ASSUME Surface(s)', Peers' PROVE Settled(s)'
    BY <2>2, SettledParts DEF Settled, Surface, Calm
  <2>3. ASSUME NEW r \in Sites,
               OperatorStep(r) \/ CreateLeaseRetried(r) \/ Abort(r)
        PROVE  Settled(s)'
    <3>1. \A q \in Sites \ {r} : Untouched(q)
      BY <1>1, <2>3, OthersUntouched
    <3>2. CASE r = s
      <4>1. Surface(s)' /\ IdsOf(leases)' = IdsOf(leases)
        BY <1>1, <2>1, <2>3, <3>2, HolderStep
      <4>2. Peers'
        BY <2>1, <3>1, <3>2, <4>1 DEF Calm, Untouched
      <4>3. QED
        BY <2>2, <4>1, <4>2
    <3>3. CASE r # s
      <4>1. Calm(r)' /\ leases' = leases /\ cname' = cname /\ app' = app
        BY <1>1, <2>1, <2>3, <3>3, PeerStep
      <4>2. Surface(s)'
        BY <2>1, <3>1, <3>3, <4>1
        DEF Surface, Untouched, Duplicated, At, IdsOf
      <4>3. Peers'
        BY <2>1, <3>1, <4>1 DEF Calm, Untouched, IdsOf
      <4>4. QED
        BY <2>2, <4>2, <4>3
    <3>4. QED
      BY <3>2, <3>3
  <2>4. ASSUME UNCHANGED <<leases, cname, app, role, pass>> PROVE Settled(s)'
    BY <1>1, <2>4 DEF Settled, Duplicated, At, IdsOf, pass
  <2>5. CASE Tick \/ ForeignRecord \/ UNCHANGED vars
    BY <2>4, <2>5 DEF Tick, ForeignRecord, vars, shared, status
  <2>6. ASSUME NEW r \in Sites,
               \/ Delete(r) \/ ApplyRival(r) \/ DeleteRival(r)
               \/ \E t \in TokenOrNone : Annotate(r, t)
        PROVE  Settled(s)'
    BY <2>4, <2>6 DEF Delete, ApplyRival, DeleteRival, Annotate, shared, status
  <2>7. QED
    BY <1>1, <2>3, <2>5, <2>6 DEF Next
<1>2. TypeOK /\ [Next]_vars
         => [\A s \in Sites : Undisturbed(s) /\ Settled(s) => Settled(s)']_vars
  BY <1>1
<1>3. QED
  BY <1>2, TypeCorrect, PTL DEF Spec, ServingStays
=============================================================================
