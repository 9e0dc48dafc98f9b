------------------------- MODULE IngressCleanProofs -------------------------
(***************************************************************************)
(* A proof that, without faults, an Exposure leaves nothing at Cloudflare  *)
(* when it goes, for any number of Exposures and edits.                    *)
(*                                                                         *)
(* NoLeftovers alone is not inductive: the finalizer goes by the status,   *)
(* so it has to be known that between passes the status tracks all there   *)
(* is, and during a pass what the status will get.                         *)
(***************************************************************************)
EXTENDS IngressProofs

-----------------------------------------------------------------------------
(* The inductive invariant.                                                *)

\* The records with the comment of e are among ids.
Owns(e, ids) == \A r \in records : r.owner = e => r.id \in ids

\* A hostname has one record, with the comment of an Exposure of that hostname;
\* what a status tracks is the Exposure's own.
Zone ==
    /\ \A r \in records : r.owner \in Exposures /\ r.host = HostOf[r.owner]
    /\ \A r, x \in records : r.host = x.host => r = x
    /\ \A e \in Exposures : /\ dnsId[e] \subseteq usedRecords
                            /\ \A r \in records : r.id \in dnsId[e] => r.owner = e

Idle(e) == \A j \in job : j.exp # e

\* Between passes the status tracks all there is.
Remembered ==
    \A e \in Exposures : Idle(e) => (e \in apps => tracked[e]) /\ Owns(e, dnsId[e])

\* An Exposure without a finalizer has nothing.
Nothing ==
    \A e \in Exposures : exposure[e] \in {"absent", "new", "gone"} =>
        Idle(e) /\ e \notin apps /\ Owns(e, {})

\* What a pass knows of its records: until it has written them they are in the
\* status, then it has them itself; the finalizer has deleted them.
KnowsRecords(j) ==
    /\ j.at \in {"access", "dns"} => j.rec = dnsId[j.exp]
    /\ j.at \in {"access", "dns", "write", "undns", "finDns"} => Owns(j.exp, dnsId[j.exp])
    /\ j.at \in {"write", "save"} => Owns(j.exp, j.rec)
    /\ j.at \in {"finAccess", "finDrop"} => Owns(j.exp, {})
    /\ j.at \in {"write", "save"} =>
          /\ j.rec \subseteq usedRecords
          /\ \A r \in records : r.id \in j.rec => r.owner = j.exp

\* And of its application.
KnowsApp(j) ==
    /\ j.at \in {"access", "finDns"} => (j.exp \in apps => tracked[j.exp])
    /\ j.at \in {"dns", "write", "undns", "save"} => (j.exp \in apps => j.app)
    /\ j.at = "finDrop" => j.exp \notin apps

CleanInv ==
    /\ Zone /\ Remembered /\ Nothing
    /\ \A j \in job : KnowsRecords(j) /\ KnowsApp(j)

-----------------------------------------------------------------------------
(* How a pass goes on and how it ends.                                     *)

\* Nothing happens to the surface, the status and the pass, and no Exposure
\* loses its finalizer.
LEMMA FrameClean ==
    ASSUME CleanInv, UNCHANGED <<dnsId, tracked, records, apps, usedRecords, job>>,
           \A e \in Exposures : exposure'[e] \in {"absent", "new", "gone"} =>
                                exposure[e] \in {"absent", "new", "gone"}
    PROVE  CleanInv'
<1>1. (Zone /\ Remembered /\ Nothing)'
      BY DEF CleanInv, Zone, Remembered, Nothing, Idle, Owns
<1>2. (\A j \in job : KnowsRecords(j) /\ KnowsApp(j))'
      BY DEF CleanInv, KnowsRecords, KnowsApp, Owns
<1> QED BY <1>1, <1>2 DEF CleanInv

\* A pass ends with a status that tracks all there is.
LEMMA EndClean ==
    ASSUME TypeOK, IngressInv, CleanInv, NEW j \in job, NEW rec, NEW app, job' = {},
           UNCHANGED <<records, apps, usedRecords, exposure>>,
           dnsId' = [dnsId EXCEPT ![j.exp] = rec],
           tracked' = [tracked EXCEPT ![j.exp] = app],
           rec \subseteq usedRecords, \A r \in records : r.id \in rec => r.owner = j.exp,
           Owns(j.exp, rec), j.exp \in apps => app
    PROVE  CleanInv'
<1>1. /\ dnsId \in [Exposures -> SUBSET RecordIds] /\ tracked \in [Exposures -> BOOLEAN]
      /\ j.exp \in Exposures /\ \A e \in Exposures \ {j.exp} : Idle(e)
      BY DEF TypeOK, Job, IngressInv, JobInv, Idle
<1>2. Zone'
      BY <1>1 DEF CleanInv, Zone
<1>3. Remembered'
      BY <1>1 DEF CleanInv, Remembered, Owns
<1>4. Nothing'
      BY <1>1 DEF CleanInv, Nothing, Idle, Owns
<1> QED BY <1>2, <1>3, <1>4 DEF CleanInv

\* A pass goes on: what belongs to other Exposures is left alone.
LEMMA GoClean ==
    ASSUME TypeOK, IngressInv, CleanInv, NEW j \in job, NEW k, job' = {k}, k.exp = j.exp,
           UNCHANGED <<dnsId, tracked, exposure>>,
           \A e \in Exposures \ {j.exp} : e \in apps' => e \in apps,
           \A r \in records' : r.owner # j.exp => r \in records,
           Zone', KnowsRecords(k)', KnowsApp(k)'
    PROVE  CleanInv'
<1>1. j.exp \in Exposures /\ \A e \in Exposures \ {j.exp} : Idle(e)
      BY DEF TypeOK, Job, IngressInv, JobInv, Idle
<1>2. ~Idle(j.exp) /\ ~Idle(j.exp)'
      BY DEF Idle
<1>3. \A e \in Exposures \ {j.exp} : Owns(e, dnsId[e]) /\ (e \in apps => tracked[e])
      BY <1>1 DEF CleanInv, Remembered
<1>4. Remembered'
      BY <1>2, <1>3 DEF Remembered, Owns
<1>5. exposure[j.exp] \notin {"absent", "new", "gone"}
      BY <1>1, <1>2 DEF CleanInv, Nothing
<1>6. \A e \in Exposures \ {j.exp} : exposure[e] \in {"absent", "new", "gone"} =>
         e \notin apps /\ Owns(e, {})
      BY DEF CleanInv, Nothing
<1>7. Nothing'
      BY <1>5, <1>6 DEF Nothing, Owns, Idle
<1> QED BY <1>4, <1>7 DEF CleanInv

\* deleteOwnedDNSIfPresent deletes all the records of the Exposure.
LEMMA UndoClean ==
    ASSUME TypeOK, IngressInv, CleanInv, NEW j \in job,
           NEW next \in {"save", "finAccess"}, Undo(j, next),
           j.at = IF next = "save" THEN "undns" ELSE "finDns",
           UNCHANGED <<exposure, apps, usedRecords>>
    PROVE  CleanInv'
<1> DEFINE found == {r \in RecordsAt(HostOf[j.exp]) : r.id \in dnsId[j.exp]}
<1>0. j \in Job /\ j.exp \in Exposures
      BY DEF TypeOK, Job
<1>1. \A r \in found : r.owner = j.exp
      BY <1>0 DEF RecordsAt, CleanInv, Zone
<1>2. /\ records' = records \ found /\ UNCHANGED <<dnsId, tracked>>
      /\ job' = {[j EXCEPT !.at = next, !.rec = {}]}
      BY <1>1 DEF Undo, estatus
<1>3. PICK k : job' = {k} /\ k.at = next /\ k.rec = {} /\ k.exp = j.exp /\ k.app = j.app
      <2> DEFINE q == [j EXCEPT !.at = next, !.rec = {}]
      <2>1. q.at = next /\ q.rec = {} /\ q.exp = j.exp /\ q.app = j.app
            BY <1>0 DEF Job
      <2> HIDE DEF q
      <2> QED BY <1>2, <2>1 DEF q
<1>4. Owns(j.exp, dnsId[j.exp]) /\ (next = "save" /\ j.exp \in apps => j.app)
      BY DEF CleanInv, KnowsRecords, KnowsApp
<1>5. Owns(j.exp, {})'
      BY <1>2, <1>4 DEF Owns, CleanInv, Zone, RecordsAt
<1> HIDE DEF found
<1>6. Zone'
      BY <1>2 DEF CleanInv, Zone
<1>7. KnowsRecords(k)'
      BY <1>3, <1>5 DEF KnowsRecords, Owns
<1>8. KnowsApp(k)'
      BY <1>3, <1>4 DEF KnowsApp
<1> QED BY <1>2, <1>3, <1>6, <1>7, <1>8, GoClean

LEMMA WriteClean ==
    ASSUME TypeOK, IngressInv, CleanInv, EWriteDns
    PROVE  CleanInv'
<1>1. PICK j \in job :
         /\ j.at = "write"
         /\ LET host == HostOf[j.exp]
                old  == {r \in records : r.id \in j.rec}
            IN \/ /\ records' = (records \ old) \cup
                        {[r EXCEPT !.target = j.tid, !.owner = j.exp] : r \in old}
                  /\ job' = {[j EXCEPT !.at = "save"]}
                  /\ UNCHANGED <<estatus, usedRecords>>
               \/ /\ RecordsAt(host) = {}
                  /\ \E i \in FreeRecordIds :
                        /\ records' = records \cup
                              {[id |-> i, host |-> host, target |-> j.tid, owner |-> j.exp]}
                        /\ usedRecords' = usedRecords \cup {i}
                        /\ job' = {[j EXCEPT !.at = "save", !.rec = {i}]}
                  /\ UNCHANGED estatus
               \/ /\ NotReady(j.exp, dnsId[j.exp], j.app)
                  /\ job' = {}
                  /\ UNCHANGED <<records, usedRecords>>
         /\ UNCHANGED <<exposure, apps>>
      BY DEF EWriteDns, EGoTo, EEnd, objects
<1>2. /\ j \in Job /\ j.exp \in Exposures /\ \A r \in records : r \in Record
      /\ Owns(j.exp, j.rec) /\ Owns(j.exp, dnsId[j.exp]) /\ (j.exp \in apps => j.app)
      /\ j.rec \subseteq usedRecords /\ \A r \in records : r.id \in j.rec => r.owner = j.exp
      BY <1>1 DEF TypeOK, Job, CleanInv, KnowsRecords, KnowsApp
<1> DEFINE old == {r \in records : r.id \in j.rec}
<1> DEFINE upd(r) == [r EXCEPT !.target = j.tid, !.owner = j.exp]
<1>3. CASE /\ records' = (records \ old) \cup {upd(r) : r \in old}
           /\ job' = {[j EXCEPT !.at = "save"]}
           /\ UNCHANGED <<estatus, usedRecords>>
      <2>1. \A r \in records : upd(r).id = r.id /\ upd(r).owner = j.exp /\ upd(r).host = r.host
            BY <1>2 DEF Record
      <2>2. PICK k : /\ job' = {k} /\ k.at = "save" /\ k.rec = j.rec
                     /\ k.exp = j.exp /\ k.app = j.app
            <3> DEFINE q == [j EXCEPT !.at = "save"]
            <3>1. q.at = "save" /\ q.rec = j.rec /\ q.exp = j.exp /\ q.app = j.app
                  BY <1>2 DEF Job
            <3> HIDE DEF q
            <3> QED BY <1>3, <3>1 DEF q
      <2> HIDE DEF upd
      <2>3. \A x \in records' :
               \/ x \in records /\ x.id \notin j.rec
               \/ \E r \in records : r.id \in j.rec /\ x = upd(r)
            BY <1>3
      <2>4. \A x \in records' : \E r \in records :
               x.id = r.id /\ x.owner = r.owner /\ x.host = r.host
            BY <1>2, <2>1, <2>3
      <2>5. \A x, y \in records' : x.host = y.host => x = y
            BY <2>1, <2>3 DEF CleanInv, Zone
      <2>6. Zone'
            BY <1>3, <2>4, <2>5 DEF CleanInv, Zone, estatus
      <2>7. KnowsRecords(k)'
            BY <1>2, <1>3, <2>2, <2>4 DEF KnowsRecords, Owns
      <2>8. KnowsApp(k)'
            BY <1>1, <1>2, <2>2 DEF KnowsApp
      <2>9. \A x \in records' : x.owner # j.exp => x \in records
            BY <2>1, <2>3
      <2> QED BY <1>1, <1>3, <2>2, <2>6, <2>7, <2>8, <2>9, GoClean DEF estatus
<1>4. ASSUME RecordsAt(HostOf[j.exp]) = {}, NEW i \in FreeRecordIds,
             records' = records \cup
                {[id |-> i, host |-> HostOf[j.exp], target |-> j.tid, owner |-> j.exp]},
             usedRecords' = usedRecords \cup {i},
             job' = {[j EXCEPT !.at = "save", !.rec = {i}]},
             UNCHANGED estatus
      PROVE  CleanInv'
      <2> DEFINE n == [id |-> i, host |-> HostOf[j.exp], target |-> j.tid, owner |-> j.exp]
      <2>1. n.id = i /\ n.host = HostOf[j.exp] /\ n.owner = j.exp /\ i \notin usedRecords
            BY DEF FreeRecordIds
      <2>2. PICK k : /\ job' = {k} /\ k.at = "save" /\ k.rec = {i}
                     /\ k.exp = j.exp /\ k.app = j.app
            <3> DEFINE q == [j EXCEPT !.at = "save", !.rec = {i}]
            <3>1. q.at = "save" /\ q.rec = {i} /\ q.exp = j.exp /\ q.app = j.app
                  BY <1>2 DEF Job
            <3> HIDE DEF q
            <3> QED BY <1>4, <3>1 DEF q
      <2> HIDE DEF n
      <2>3. records' = records \cup {n}
            BY <1>4 DEF n
      <2>4. \A r \in records : r.host # HostOf[j.exp] /\ r.id # i /\ r.owner # j.exp
            BY <1>4, <2>1 DEF RecordsAt, IngressInv, IdInv, CleanInv, Zone
      <2>5. Zone'
            BY <1>2, <1>4, <2>1, <2>3, <2>4 DEF CleanInv, Zone, estatus
      <2>6. KnowsRecords(k)'
            BY <1>4, <2>1, <2>2, <2>3, <2>4 DEF KnowsRecords, Owns
      <2>7. KnowsApp(k)'
            BY <1>1, <1>2, <2>2 DEF KnowsApp
      <2> QED BY <1>1, <1>4, <2>1, <2>2, <2>3, <2>5, <2>6, <2>7, GoClean DEF estatus
<1>5. CASE NotReady(j.exp, dnsId[j.exp], j.app) /\ job' = {} /\ UNCHANGED <<records, usedRecords>>
      <2>1. /\ dnsId[j.exp] \subseteq usedRecords
            /\ \A r \in records : r.id \in dnsId[j.exp] => r.owner = j.exp
            BY <1>2 DEF CleanInv, Zone
      <2> QED BY <1>1, <1>2, <1>5, <2>1, EndClean DEF NotReady
<1> QED BY <1>1, <1>3, <1>4, <1>5

LEMMA ListClean ==
    ASSUME TypeOK, IngressInv, CleanInv, EListDns
    PROVE  CleanInv'
<1>1. PICK j \in job :
         /\ j.at = "dns"
         /\ \/ NotReady(j.exp, j.rec, j.app) /\ job' = {}
            \/ /\ RecordsAt(HostOf[j.exp]) = {}
               /\ job' = {[j EXCEPT !.at = "write", !.rec = {}]}
               /\ UNCHANGED estatus
            \/ \E r \in RecordsAt(HostOf[j.exp]) :
                  /\ r.owner = j.exp
                  /\ job' = {[j EXCEPT !.at = IF r.target = j.tid THEN "save" ELSE "write",
                                       !.rec = {r.id}]}
                  /\ UNCHANGED estatus
         /\ UNCHANGED <<exposure, apps, records, usedRecords>>
      BY DEF EListDns, EEnd, objects, surface
<1>2. /\ j \in Job /\ j.exp \in Exposures /\ j.rec = dnsId[j.exp]
      /\ Owns(j.exp, dnsId[j.exp]) /\ (j.exp \in apps => j.app)
      BY <1>1 DEF TypeOK, Job, CleanInv, KnowsRecords, KnowsApp
<1>3. CASE NotReady(j.exp, j.rec, j.app) /\ job' = {}
      <2>1. /\ dnsId[j.exp] \subseteq usedRecords
            /\ \A r \in records : r.id \in dnsId[j.exp] => r.owner = j.exp
            BY <1>2 DEF CleanInv, Zone
      <2> QED BY <1>1, <1>2, <1>3, <2>1, EndClean DEF NotReady
\* The pass goes on with the one record of the hostname, or without any.
<1>4. ASSUME NEW at \in {"save", "write"}, NEW rec, Owns(j.exp, rec), rec \subseteq usedRecords,
             \A r \in records : r.id \in rec => r.owner = j.exp,
             job' = {[j EXCEPT !.at = at, !.rec = rec]}, UNCHANGED estatus
      PROVE  CleanInv'
      <2>1. PICK k : /\ job' = {k} /\ k.at = at /\ k.rec = rec
                     /\ k.exp = j.exp /\ k.app = j.app
            <3> DEFINE q == [j EXCEPT !.at = at, !.rec = rec]
            <3>1. q.at = at /\ q.rec = rec /\ q.exp = j.exp /\ q.app = j.app
                  BY <1>2 DEF Job
            <3> HIDE DEF q
            <3> QED BY <1>4, <3>1 DEF q
      <2>2. Zone'
            BY <1>1, <1>4 DEF CleanInv, Zone, estatus
      <2>3. KnowsRecords(k)'
            BY <1>1, <1>2, <1>4, <2>1 DEF KnowsRecords, Owns, estatus
      <2>4. KnowsApp(k)'
            BY <1>1, <1>2, <2>1 DEF KnowsApp
      <2> QED BY <1>1, <1>4, <2>1, <2>2, <2>3, <2>4, GoClean DEF estatus
<1>5. CASE /\ RecordsAt(HostOf[j.exp]) = {}
           /\ job' = {[j EXCEPT !.at = "write", !.rec = {}]}
           /\ UNCHANGED estatus
      <2>1. Owns(j.exp, {})
            BY <1>5 DEF RecordsAt, Owns, CleanInv, Zone
      <2> QED BY <1>4, <1>5, <2>1
<1>6. ASSUME NEW r \in RecordsAt(HostOf[j.exp]), r.owner = j.exp,
             job' = {[j EXCEPT !.at = IF r.target = j.tid THEN "save" ELSE "write",
                               !.rec = {r.id}]},
             UNCHANGED estatus
      PROVE  CleanInv'
      <2>1. Owns(j.exp, {r.id})
            BY <1>6 DEF RecordsAt, Owns, CleanInv, Zone
      <2>2. r.id \in usedRecords /\ \A x \in records : x.id = r.id => x = r
            BY DEF RecordsAt, IngressInv, IdInv
      <2> DEFINE at == IF r.target = j.tid THEN "save" ELSE "write"
      <2> DEFINE rec == {r.id}
      <2>3. at \in {"save", "write"} /\ job' = {[j EXCEPT !.at = at, !.rec = rec]}
            BY <1>6
      <2>4. /\ Owns(j.exp, rec) /\ rec \subseteq usedRecords
            /\ \A x \in records : x.id \in rec => x.owner = j.exp
            BY <1>6, <2>1, <2>2
      <2> HIDE DEF at, rec
      <2> QED BY <1>4, <1>6, <2>3, <2>4
<1> QED BY <1>1, <1>3, <1>5, <1>6

LEMMA CleanStep ==
    ASSUME MaxFaults = 0, TypeOK, IngressInv, CleanInv, [Next]_vars
    PROVE  CleanInv'
<1> USE DEF specs, estatus, surface, ingressVars, objects
<1>a. \A j \in job : j.exp \in Exposures /\ j \in Job
      BY DEF TypeOK, Job
<1>b. /\ exposure \in [Exposures -> Lives]
      /\ dnsId \in [Exposures -> SUBSET RecordIds] /\ tracked \in [Exposures -> BOOLEAN]
      BY DEF TypeOK, TunnelTypeOK
<1>c. ~Fault
      BY DEF Fault, TypeOK, TunnelTypeOK
<1>1. ASSUME UNCHANGED ingressVars, UNCHANGED exposure
      PROVE  CleanInv'
      BY <1>1, FrameClean
<1>2. CASE TunnelStep /\ UNCHANGED ingressVars
      <2>1. UNCHANGED exposure
            BY <1>2 DEF TunnelStep, TBegin, GetTunnel, RenameTunnel, ListTunnels, ListLegacy,
               CreateTunnel, SaveTunnelId, UpsertTokenSecret, UpsertDaemonSet,
               BuildConfig, PutConfig, SaveConfig, CheckWorkload, TFinalize,
               StopCloudflared, FinGetTunnel, FinDeleteTunnel, FinDropTunnel
      <2> QED BY <1>1, <1>2, <2>1
<1>3. CASE (WorkloadStep \/ DeleteTunnel \/ Meddling) /\ UNCHANGED ingressVars
      <2>1. UNCHANGED exposure
            BY <1>3 DEF WorkloadStep, PodsStart, DaemonSetRemoved, PodsRemoved,
               DeleteTunnel, Meddling, AbortTunnel, EditConfig, LoseTunnel
      <2> QED BY <1>1, <1>3, <2>1
<1>4. ASSUME NEW e \in Exposures, Apply(e) \/ DeleteExposure(e)
      PROVE  CleanInv'
      <2>1. UNCHANGED <<dnsId, tracked, records, apps, usedRecords, job>>
            BY <1>4 DEF Apply, DeleteExposure
      <2>2. \A f \in Exposures : exposure'[f] \in {"absent", "new", "gone"} =>
                                 exposure[f] \in {"absent", "new", "gone"}
            BY <1>4, <1>b DEF Apply, DeleteExposure
      <2> QED BY <2>1, <2>2, FrameClean
<1>5. CASE Edit \/ UNCHANGED vars
      BY <1>5, FrameClean DEF Edit, vars
<1>6. CASE EditDns \/ AbortExposure \/ EAccessFails \/ EDnsFails
      BY <1>6, <1>c DEF EditDns, AbortExposure, EAccessFails, EDnsFails
<1>7. \A e \in Exposures : Stuck(e) => UNCHANGED <<dnsId, tracked>>
      BY <1>b DEF Stuck, NotReady
\* A pass begins, with what the status tracks.
<1>8. ASSUME NEW e \in Exposures, job = {}, NEW k, job' = {k}, k.exp = e,
             k.at = "finDns" \/ (k.at = "access" /\ k.rec = dnsId[e]),
             UNCHANGED <<dnsId, tracked, records, apps, usedRecords>>,
             exposure' = [exposure EXCEPT ![e] = "live"]
             \/ (exposure[e] = "deleting" /\ UNCHANGED exposure)
      PROVE  CleanInv'
      <2>1. \A f \in Exposures : (f \in apps => tracked[f]) /\ Owns(f, dnsId[f])
            BY <1>8 DEF CleanInv, Remembered, Idle
      <2>2. (Zone /\ Remembered)'
            BY <1>8, <2>1 DEF CleanInv, Zone, Remembered, Owns
      <2>3. \A f \in Exposures : exposure'[f] \in {"absent", "new", "gone"} =>
               f # e /\ exposure[f] \in {"absent", "new", "gone"}
            BY <1>8, <1>b
      <2>4. Nothing'
            BY <1>8, <2>3 DEF CleanInv, Nothing, Idle, Owns
      <2>5. KnowsRecords(k)' /\ KnowsApp(k)'
            BY <1>8, <2>1 DEF KnowsRecords, KnowsApp, Owns
      <2> QED BY <1>8, <2>2, <2>4, <2>5 DEF CleanInv
<1>9. ASSUME NEW e \in Exposures, EBegin(e)
      PROVE  CleanInv'
      <2>0. job = {} /\ UNCHANGED <<records, apps, usedRecords>>
            BY <1>9 DEF EBegin
      <2>1. CASE job' = job
            <3>1. UNCHANGED <<dnsId, tracked>>
                  BY <1>7, <1>9, <2>0, <2>1 DEF EBegin
            <3>2. \A f \in Exposures : exposure'[f] \in {"absent", "new", "gone"} =>
                                       exposure[f] \in {"absent", "new", "gone"}
                  BY <1>9, <1>b DEF EBegin
            <3> QED BY <2>0, <2>1, <3>1, <3>2, FrameClean
      <2>2. ASSUME NEW k, job' = {k}, k.exp = e, k.at = "access", k.rec = dnsId[e],
                   UNCHANGED estatus, exposure' = [exposure EXCEPT ![e] = "live"]
            PROVE  CleanInv'
            BY <1>8, <2>0, <2>2
      <2> QED BY <1>9, <2>1, <2>2 DEF EBegin
<1>10. ASSUME NEW e \in Exposures, EFinalize(e)
      PROVE  CleanInv'
      <2>0. job = {} /\ UNCHANGED <<records, apps, usedRecords>> /\ exposure[e] = "deleting"
            BY <1>10 DEF EFinalize
      <2>1. CASE /\ ~tracked[e] /\ dnsId[e] = {}
                 /\ exposure' = [exposure EXCEPT ![e] = "gone"]
                 /\ UNCHANGED <<estatus, job>>
            <3>1. (Zone /\ Remembered)'
                  BY <2>0, <2>1 DEF CleanInv, Zone, Remembered, Owns, Idle
            <3>2. e \notin apps /\ Owns(e, {})
                  BY <2>0, <2>1 DEF CleanInv, Remembered, Idle
            <3>3. Nothing'
                  BY <1>b, <2>0, <2>1, <3>2 DEF CleanInv, Nothing, Owns, Idle
            <3> QED BY <2>0, <2>1, <3>1, <3>3 DEF CleanInv
      <2>2. CASE Stuck(e) /\ UNCHANGED <<exposure, job>>
            BY <1>7, <2>0, <2>2, FrameClean
      <2>3. ASSUME NEW k, job' = {k}, k.exp = e, k.at = "finDns",
                   UNCHANGED <<exposure, estatus>>
            PROVE  CleanInv'
            BY <1>8, <2>0, <2>3
      <2> QED BY <1>10, <2>1, <2>2, <2>3 DEF EFinalize
<1>11. CASE EAccess
      <2>1. PICK j \in job :
               /\ j.at = "access"
               /\ apps' = IF j.access THEN apps \cup {j.exp} ELSE apps \ {j.exp}
               /\ job' = {[j EXCEPT !.at = IF j.manage THEN "dns" ELSE "undns",
                                    !.app = j.access]}
               /\ UNCHANGED <<exposure, dnsId, tracked, records, usedRecords>>
            BY <1>11 DEF EAccess
      <2>2. PICK k : /\ job' = {k} /\ k.at \in {"dns", "undns"} /\ k.rec = j.rec
                     /\ k.exp = j.exp /\ k.app = j.access
            <3> DEFINE at == IF j.manage THEN "dns" ELSE "undns"
            <3> DEFINE q == [j EXCEPT !.at = at, !.app = j.access]
            <3>0. at \in {"dns", "undns"} /\ job' = {q}
                  BY <2>1
            <3> HIDE DEF at
            <3>1. q.at = at /\ q.rec = j.rec /\ q.exp = j.exp /\ q.app = j.access
                  BY <1>a DEF Job
            <3> HIDE DEF q
            <3> QED BY <3>0, <3>1
      <2>3. j.rec = dnsId[j.exp] /\ Owns(j.exp, dnsId[j.exp])
            BY <2>1 DEF CleanInv, KnowsRecords
      <2>4. Zone'
            BY <2>1 DEF CleanInv, Zone
      <2>5. KnowsRecords(k)' /\ KnowsApp(k)'
            BY <2>1, <2>2, <2>3 DEF KnowsRecords, KnowsApp, Owns
      <2> QED BY <2>1, <2>2, <2>4, <2>5, GoClean
<1>12. CASE EListDns
      BY <1>12, ListClean
<1>13. CASE EWriteDns
      BY <1>13, WriteClean
<1>14. CASE EUndoDns
      BY <1>14, UndoClean DEF EUndoDns
<1>15. CASE EFinDns
      BY <1>15, UndoClean DEF EFinDns
<1>16. CASE ESave
      <2>1. PICK j \in job :
               /\ j.at = "save" /\ job' = {}
               /\ dnsId' = [dnsId EXCEPT ![j.exp] = j.rec]
               /\ tracked' = [tracked EXCEPT ![j.exp] = j.app]
               /\ UNCHANGED <<exposure, records, apps, usedRecords>>
            BY <1>16 DEF ESave, EEnd
      <2>2. /\ Owns(j.exp, j.rec) /\ j.rec \subseteq usedRecords
            /\ \A r \in records : r.id \in j.rec => r.owner = j.exp
            /\ j.exp \in apps => j.app
            BY <2>1 DEF CleanInv, KnowsRecords, KnowsApp
      <2> QED BY <2>1, <2>2, EndClean
<1>17. CASE EFinAccess
      <2>1. PICK j \in job : /\ j.at = "finAccess" /\ apps' = apps \ {j.exp}
                             /\ job' = {[j EXCEPT !.at = "finDrop"]}
                             /\ UNCHANGED <<exposure, dnsId, tracked, records, usedRecords>>
            BY <1>17 DEF EFinAccess, EGoTo
      <2>2. PICK k : job' = {k} /\ k.at = "finDrop" /\ k.exp = j.exp
            <3> DEFINE q == [j EXCEPT !.at = "finDrop"]
            <3>1. q.at = "finDrop" /\ q.exp = j.exp
                  BY <1>a DEF Job
            <3> HIDE DEF q
            <3> QED BY <2>1, <3>1 DEF q
      <2>3. Owns(j.exp, {})
            BY <2>1 DEF CleanInv, KnowsRecords
      <2>4. Zone'
            BY <2>1 DEF CleanInv, Zone
      <2>5. KnowsRecords(k)' /\ KnowsApp(k)'
            BY <2>1, <2>2, <2>3 DEF KnowsRecords, KnowsApp, Owns
      <2> QED BY <2>1, <2>2, <2>4, <2>5, GoClean
<1>18. CASE EFinDrop
      <2>1. PICK j \in job : /\ j.at = "finDrop" /\ job' = {}
                             /\ exposure' = [exposure EXCEPT ![j.exp] = "gone"]
                             /\ UNCHANGED <<dnsId, tracked, records, apps, usedRecords>>
            BY <1>18 DEF EFinDrop, EEnd
      <2>2. Owns(j.exp, {}) /\ j.exp \notin apps
            BY <2>1 DEF CleanInv, KnowsRecords, KnowsApp
      <2>3. \A e \in Exposures \ {j.exp} : Idle(e)
            BY DEF IngressInv, JobInv, Idle
      <2>4. (Zone /\ Remembered)'
            BY <2>1, <2>2, <2>3 DEF CleanInv, Zone, Remembered, Owns
      <2>5. Nothing'
            BY <1>a, <1>b, <2>1, <2>2 DEF CleanInv, Nothing, Idle, Owns
      <2> QED BY <2>1, <2>4, <2>5 DEF CleanInv
<1> QED BY <1>2, <1>3, <1>4, <1>5, <1>6, <1>9, <1>10, <1>11, <1>12, <1>13, <1>14, <1>15,
           <1>16, <1>17, <1>18 DEF Next, ExposurePass, User, Faulty

\* When no call fails and nobody meddles, reconcileDelete lets no Exposure go
\* before its CNAME and its Access application, whatever users do in between.
THEOREM LeavesNoRecord ==
    ASSUME MaxFaults = 0
    PROVE  Spec => []NoLeftovers
<1>1. Init => CleanInv
      BY DEF Init, CleanInv, Zone, Remembered, Nothing, Idle, Owns
<1>2. TypeOK /\ IngressInv /\ CleanInv /\ [Next]_vars => CleanInv'
      BY CleanStep
<1>3. CleanInv => NoLeftovers
      BY DEF CleanInv, Nothing, NoLeftovers, Owns
<1> QED BY <1>1, <1>2, <1>3, IngressInvariance, PTL DEF Spec
=============================================================================
