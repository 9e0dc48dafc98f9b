--------------------------- MODULE IngressProofs ----------------------------
(***************************************************************************)
(* Proofs about Ingress: it implements the specification of its tunnel     *)
(* controller, so what TunnelProofs proves of any Exposures holds of the   *)
(* ones their controller and the users make; and the controller's writes   *)
(* of CNAMEs are safe, whatever the crashes, failed calls and meddling.    *)
(***************************************************************************)
EXTENDS Ingress, TunnelProofs

-----------------------------------------------------------------------------
(* What a pass knows.                                                      *)

FinSteps == {"finDns", "finAccess", "finDrop"}

\* Only an Exposure that is being deleted is finalized.
FinInv == \A j \in job : j.at \in FinSteps => exposure[j.exp] = "deleting"

\* Past its first step a pass has the application it read that it needs.
AccessInv ==
    \A j \in job : j.at \notin FinSteps \cup {"access"} /\ j.access => j.exp \in apps

\* Record ids are never given twice.
IdInv ==
    /\ \A r \in records : r.id \in usedRecords
    /\ \A r, x \in records : r.id = x.id => r = x

\* The record a pass found to be its own when it listed them still is when it
\* writes it.
WriteInv ==
    \A j \in job : j.at = "write" =>
       /\ j.rec \subseteq usedRecords
       /\ \A r \in records : r.id \in j.rec => r.owner = j.exp

\* One Exposure is reconciled at a time.
JobInv == \A j, k \in job : j = k

\* The part of TypeOK that is the Exposure controller's.
ExposureTypeOK ==
    /\ manage \in BOOLEAN
    /\ access \in [Exposures -> BOOLEAN]
    /\ dnsId \in [Exposures -> SUBSET RecordIds]
    /\ tracked \in [Exposures -> BOOLEAN]
    /\ eready \in [Exposures -> BOOLEAN]
    /\ observed \in [Exposures -> Origins \cup {NoOrigin}]
    /\ records \subseteq Record
    /\ apps \subseteq Exposures
    /\ usedRecords \subseteq RecordIds
    /\ job \subseteq Job
    /\ edits \in 0..MaxEdits

-----------------------------------------------------------------------------
(* Every step is a step of the tunnel's specification.                     *)

LEMMA ImplementsStep ==
    ASSUME TypeOK, FinInv, [Next]_vars
    PROVE  [TunnelNext]_allTunnelVars
<1> USE DEF objects, tunnelVars, tstatus, remote, workload, tpass, allTunnelVars
<1> DEFINE Same == UNCHANGED <<exposure, origin, rlife, tunnelVars, faults>>
<1>0. /\ exposure \in [Exposures -> Lives]
      /\ origin \in [Exposures -> Origins \cup {NoOrigin}]
      /\ \A j \in job : j.exp \in Exposures
      BY DEF TypeOK, TunnelTypeOK, Job
<1>1. CASE UNCHANGED vars
      BY <1>1 DEF vars
<1>2. CASE TunnelStep \/ WorkloadStep \/ DeleteTunnel \/ Meddling
      BY <1>2 DEF TunnelNext
<1>3. ASSUME NEW e \in Exposures, Apply(e)
      PROVE  ExposureChange(e)
      BY <1>0, <1>3 DEF Apply, ExposureChange, LifeSteps, Lives
<1>4. ASSUME Edit
      PROVE  Same \/ \E e \in Exposures : ExposureChange(e)
      <2>1. CASE UNCHANGED origin
            BY <1>4, <2>1 DEF Edit
      <2>2. CASE \E e \in Exposures, o \in Origins : origin' = [origin EXCEPT ![e] = o]
            <3>1. PICK e \in Exposures, o \in Origins : origin' = [origin EXCEPT ![e] = o]
                  BY <2>2
            <3>2. exposure' = [exposure EXCEPT ![e] = exposure[e]]
                  BY <1>0, <1>4 DEF Edit
            <3> QED BY <1>0, <1>4, <3>1, <3>2 DEF Edit, ExposureChange, LifeSteps
      <2> QED BY <1>4, <2>1, <2>2 DEF Edit
<1>5. ASSUME NEW e \in Exposures, DeleteExposure(e)
      PROVE  ExposureChange(e)
      <2>1. origin' = [origin EXCEPT ![e] = origin[e]]
            BY <1>0, <1>5 DEF DeleteExposure
      <2>2. PICK l \in {"gone", "deleting"} :
               /\ exposure' = [exposure EXCEPT ![e] = l]
               /\ <<exposure[e], l>> \in LifeSteps
            BY <1>0, <1>5 DEF DeleteExposure, LifeSteps
      <2> QED BY <1>0, <1>5, <2>1, <2>2 DEF DeleteExposure, ExposureChange, Lives
<1>6. ASSUME NEW e \in Exposures, EBegin(e)
      PROVE  Same \/ ExposureChange(e)
      <2>1. CASE tobj = "gone"
            BY <1>6, <2>1 DEF EBegin
      <2>2. CASE tobj # "gone"
            <3>1. exposure' = [exposure EXCEPT ![e] = "live"]
                  BY <1>6, <2>2 DEF EBegin
            <3>2. exposure[e] # "live" => <<exposure[e], "live">> \in LifeSteps
                  BY <1>6 DEF EBegin, LifeSteps
            <3>3. \E o \in Origins \cup {origin[e]} : origin' = [origin EXCEPT ![e] = o]
                  BY <1>0, <1>6, <2>2 DEF EBegin
            <3>4. UNCHANGED <<rlife, tunnelVars, faults>>
                  BY <1>6 DEF EBegin
            <3> QED BY <1>0, <3>1, <3>2, <3>3, <3>4 DEF ExposureChange, Lives
      <2> QED BY <2>1, <2>2
<1>7. ASSUME NEW e \in Exposures, EFinalize(e)
      PROVE  Same \/ ExposureChange(e)
      <2>1. CASE UNCHANGED exposure
            BY <1>7, <2>1 DEF EFinalize
      <2>2. CASE exposure' = [exposure EXCEPT ![e] = "gone"]
            <3>1. origin' = [origin EXCEPT ![e] = origin[e]]
                  BY <1>0, <1>7 DEF EFinalize
            <3> QED BY <1>0, <1>7, <2>2, <3>1
                    DEF EFinalize, ExposureChange, LifeSteps, Lives
      <2> QED BY <1>7, <2>1, <2>2 DEF EFinalize
<1>8. ASSUME EFinDrop
      PROVE  \E e \in Exposures : ExposureChange(e)
      <2>1. PICK j \in job :
               /\ j.at = "finDrop"
               /\ exposure' = [exposure EXCEPT ![j.exp] = "gone"]
               /\ UNCHANGED <<origin, rlife, tunnelVars, faults>>
            BY <1>8 DEF EFinDrop
      <2>2. exposure[j.exp] = "deleting" /\ j.exp \in Exposures
            BY <1>0, <2>1 DEF FinInv, FinSteps
      <2>3. origin' = [origin EXCEPT ![j.exp] = origin[j.exp]]
            BY <1>0, <2>1, <2>2
      <2> QED BY <1>0, <2>1, <2>2, <2>3 DEF ExposureChange, LifeSteps, Lives
<1>9. ASSUME EAccess \/ EListDns \/ EWriteDns \/ EUndoDns \/ ESave
                \/ EFinDns \/ EFinAccess
      PROVE  Same
      BY <1>9 DEF EAccess, EListDns, EWriteDns, EUndoDns, ESave, EFinDns, EFinAccess
<1>10. ASSUME EditDns \/ AbortExposure \/ EAccessFails \/ EDnsFails
       PROVE  OtherFault
      BY <1>10 DEF EditDns, AbortExposure, EAccessFails, EDnsFails, OtherFault
<1>11. Same => UNCHANGED allTunnelVars
      OBVIOUS
<1> QED BY <1>1, <1>2, <1>3, <1>4, <1>5, <1>6, <1>7, <1>8, <1>9, <1>10, <1>11
           DEF Next, ExposurePass, User, Faulty, TunnelNext

-----------------------------------------------------------------------------
(* Types.                                                                  *)

\* Reporting a status keeps its type.
LEMMA NotReadyType ==
    ASSUME ExposureTypeOK, origin \in [Exposures -> Origins \cup {NoOrigin}],
           NEW e \in Exposures, NEW rec \in SUBSET RecordIds,
           NEW app \in BOOLEAN, NotReady(e, rec, app)
    PROVE  /\ dnsId' \in [Exposures -> SUBSET RecordIds]
           /\ tracked' \in [Exposures -> BOOLEAN]
           /\ eready' \in [Exposures -> BOOLEAN]
           /\ observed' \in [Exposures -> Origins \cup {NoOrigin}]
BY DEF ExposureTypeOK, NotReady

\* The records and the pass that undoing a CNAME leaves.
LEMMA UndoType ==
    ASSUME ExposureTypeOK, origin \in [Exposures -> Origins \cup {NoOrigin}],
           NEW j \in job, NEW next \in {"save", "finAccess"}, Undo(j, next)
    PROVE  /\ records' \subseteq records
           /\ job' \subseteq {[j EXCEPT !.at = next, !.rec = {}]}
           /\ dnsId' \in [Exposures -> SUBSET RecordIds]
           /\ tracked' \in [Exposures -> BOOLEAN]
           /\ eready' \in [Exposures -> BOOLEAN]
           /\ observed' \in [Exposures -> Origins \cup {NoOrigin}]
<1>1. j.exp \in Exposures
      BY DEF ExposureTypeOK, Job
<1>2. /\ dnsId[j.exp] \in SUBSET RecordIds
      /\ tracked[j.exp] \in BOOLEAN
      BY <1>1 DEF ExposureTypeOK
<1>3. UNCHANGED estatus \/ NotReady(j.exp, dnsId[j.exp], tracked[j.exp])
      BY DEF Undo, Stuck
<1>4. /\ records' \subseteq records
      /\ job' \subseteq {[j EXCEPT !.at = next, !.rec = {}]}
      BY DEF Undo, EEnd
<1>5. CASE UNCHANGED estatus
      BY <1>4, <1>5 DEF estatus, ExposureTypeOK
<1>6. CASE NotReady(j.exp, dnsId[j.exp], tracked[j.exp])
      BY <1>1, <1>2, <1>4, <1>6, NotReadyType
<1> QED BY <1>3, <1>5, <1>6

\* A pass starts with what it has read.
LEMMA JobType ==
    ASSUME NEW at \in ExposureSteps, NEW e \in Exposures, NEW t \in SUBSET TunnelIds,
           NEW route \in BOOLEAN, NEW m \in BOOLEAN, NEW a \in BOOLEAN,
           NEW rec \in SUBSET RecordIds, NEW app \in BOOLEAN
    PROVE  {[at |-> at, exp |-> e, tid |-> t, route |-> route, manage |-> m,
             access |-> a, rec |-> rec, app |-> app]} \subseteq Job
BY DEF Job

\* It goes on with the record it has found or made.
LEMMA JobRecord ==
    ASSUME NEW j \in Job, NEW at \in ExposureSteps, NEW rec \in SUBSET RecordIds
    PROVE  {[j EXCEPT !.at = at, !.rec = rec]} \subseteq Job
BY DEF Job

LEMMA ExposureTypeStep ==
    ASSUME TypeOK, [Next]_vars
    PROVE  ExposureTypeOK'
<1>0. /\ ExposureTypeOK
      /\ origin \in [Exposures -> Origins \cup {NoOrigin}]
      /\ tid \subseteq TunnelIds
      BY DEF TypeOK, TunnelTypeOK, ExposureTypeOK
<1>a. \A j \in job :
         /\ j \in Job /\ j.exp \in Exposures /\ j.rec \in SUBSET RecordIds
         /\ j.app \in BOOLEAN /\ j.access \in BOOLEAN /\ j.manage \in BOOLEAN
         /\ j.tid \in SUBSET TunnelIds /\ HostOf[j.exp] \in Hosts
      BY <1>0 DEF ExposureTypeOK, Job, Hosts
<1> USE <1>0 DEF specs, estatus, surface, ingressVars
<1>1. CASE UNCHANGED ingressVars
      BY <1>1 DEF ExposureTypeOK
<1>2. ASSUME NEW e \in Exposures, Apply(e)
      PROVE  ExposureTypeOK'
      BY <1>2, IngressAssumption DEF Apply, ExposureTypeOK
<1>3. CASE Edit
      BY <1>3, IngressAssumption DEF Edit, ExposureTypeOK
<1>4. ASSUME NEW e \in Exposures, EBegin(e)
      PROVE  ExposureTypeOK'
      <2>1. job' \subseteq Job
            <3> DEFINE route == \E r \in troutes : r.exp = e
            <3>1. route \in BOOLEAN
                  BY Zenon
            <3>2. /\ manage \in BOOLEAN /\ access[e] \in BOOLEAN /\ tracked[e] \in BOOLEAN
                  /\ dnsId[e] \in SUBSET RecordIds /\ tid \in SUBSET TunnelIds
                  BY DEF ExposureTypeOK
            <3>3. "access" \in ExposureSteps
                  BY DEF ExposureSteps
            <3>4. {[at |-> "access", exp |-> e, tid |-> tid, route |-> route,
                    manage |-> manage, access |-> access[e],
                    rec |-> dnsId[e], app |-> tracked[e]]} \subseteq Job
                  <4> HIDE DEF route
                  <4> QED BY <3>1, <3>2, <3>3, JobType
            <3> QED BY <1>4, <3>4 DEF EBegin, ExposureTypeOK
      <2>2. UNCHANGED estatus \/ NotReady(e, dnsId[e], tracked[e])
            BY <1>4 DEF EBegin, Stuck
      <2>3. dnsId[e] \in SUBSET RecordIds /\ tracked[e] \in BOOLEAN
            BY DEF ExposureTypeOK
      <2>4. UNCHANGED <<specs, surface, edits>>
            BY <1>4 DEF EBegin
      <2>5. CASE UNCHANGED estatus
            BY <2>1, <2>4, <2>5 DEF ExposureTypeOK
      <2>6. CASE NotReady(e, dnsId[e], tracked[e])
            BY <2>1, <2>3, <2>4, <2>6, NotReadyType DEF ExposureTypeOK
      <2> QED BY <2>2, <2>5, <2>6
<1>5. ASSUME NEW e \in Exposures, EFinalize(e)
      PROVE  ExposureTypeOK'
      <2>1. job' \subseteq Job
            <3>1. {[at |-> "finDns", exp |-> e, tid |-> {}, route |-> FALSE,
                    manage |-> FALSE, access |-> FALSE, rec |-> {},
                    app |-> FALSE]} \subseteq Job
                  BY DEF Job, ExposureSteps
            <3> QED BY <1>5, <3>1 DEF EFinalize, ExposureTypeOK
      <2>2. UNCHANGED estatus \/ NotReady(e, dnsId[e], tracked[e])
            BY <1>5 DEF EFinalize, Stuck
      <2>3. dnsId[e] \in SUBSET RecordIds /\ tracked[e] \in BOOLEAN
            BY DEF ExposureTypeOK
      <2>4. UNCHANGED <<specs, surface, edits>>
            BY <1>5 DEF EFinalize
      <2>5. CASE UNCHANGED estatus
            BY <2>1, <2>4, <2>5 DEF ExposureTypeOK
      <2>6. CASE NotReady(e, dnsId[e], tracked[e])
            BY <2>1, <2>3, <2>4, <2>6, NotReadyType DEF ExposureTypeOK
      <2> QED BY <2>2, <2>5, <2>6
<1>6. CASE EAccess
      <2>1. PICK j \in job :
               /\ apps' = IF j.access THEN apps \cup {j.exp} ELSE apps \ {j.exp}
               /\ job' = {[j EXCEPT !.at = IF j.manage THEN "dns" ELSE "undns",
                                    !.app = j.access]}
               /\ UNCHANGED <<specs, estatus, records, usedRecords, edits>>
            BY <1>6 DEF EAccess
      <2>2. job' \subseteq Job
            BY <1>a, <2>1 DEF Job, ExposureSteps
      <2> QED BY <1>a, <2>1, <2>2 DEF ExposureTypeOK
<1>7. CASE EAccessFails
      <2>1. PICK j \in job : /\ NotReady(j.exp, j.rec, FALSE)
                             /\ job' = {} /\ UNCHANGED <<specs, surface, edits>>
            BY <1>7 DEF EAccessFails, EEnd
      <2> QED BY <1>a, <2>1, NotReadyType DEF ExposureTypeOK
<1>8. CASE EListDns
      <2>1. PICK j \in job :
               /\ \/ NotReady(j.exp, j.rec, j.app) /\ job' = {}
                  \/ /\ job' = {[j EXCEPT !.at = "write", !.rec = {}]}
                     /\ UNCHANGED estatus
                  \/ /\ \E r \in records :
                           job' = {[j EXCEPT !.at = IF r.target = j.tid THEN "save" ELSE "write",
                                             !.rec = {r.id}]}
                     /\ UNCHANGED estatus
               /\ UNCHANGED <<specs, surface, edits>>
            BY <1>8 DEF EListDns, EEnd, RecordsAt
      <2>2. \A r \in records : r.id \in RecordIds
            BY DEF ExposureTypeOK, Record
      <2>3. job' \subseteq Job
            <3>1. j \in Job /\ {} \in SUBSET RecordIds
                  BY <1>a
            <3>2. "write" \in ExposureSteps
                  BY DEF ExposureSteps
            <3>3. {[j EXCEPT !.at = "write", !.rec = {}]} \subseteq Job
                  BY <3>1, <3>2, JobRecord, Zenon
            <3>4. ASSUME NEW r \in records
                  PROVE  {[j EXCEPT !.at = IF r.target = j.tid THEN "save" ELSE "write",
                                    !.rec = {r.id}]} \subseteq Job
                  <4>1. {r.id} \in SUBSET RecordIds
                        BY <2>2
                  <4>2. (IF r.target = j.tid THEN "save" ELSE "write") \in ExposureSteps
                        BY DEF ExposureSteps
                  <4> QED BY <3>1, <4>1, <4>2, JobRecord, Zenon
            <3>5. CASE job' = {}
                  BY <3>5
            <3> QED BY <2>1, <3>3, <3>4, <3>5, Zenon
      <2>4. CASE NotReady(j.exp, j.rec, j.app)
            <3>1. j.exp \in Exposures /\ j.rec \in SUBSET RecordIds /\ j.app \in BOOLEAN
                  BY <1>a
            <3>2. /\ dnsId' \in [Exposures -> SUBSET RecordIds]
                  /\ tracked' \in [Exposures -> BOOLEAN]
                  /\ eready' \in [Exposures -> BOOLEAN]
                  /\ observed' \in [Exposures -> Origins \cup {NoOrigin}]
                  BY <2>4, <3>1, NotReadyType, Zenon
            <3> QED BY <2>1, <2>3, <3>2 DEF ExposureTypeOK
      <2>5. CASE UNCHANGED estatus
            BY <2>1, <2>3, <2>5 DEF ExposureTypeOK
      <2> QED BY <2>1, <2>4, <2>5
<1>9. CASE EWriteDns
      <2>1. PICK j \in job :
               LET host == HostOf[j.exp]
                   old  == {r \in records : r.id \in j.rec}
               IN \/ /\ records' = (records \ old) \cup
                           {[r EXCEPT !.target = j.tid, !.owner = j.exp] : r \in old}
                     /\ EGoTo(j, "save")
                     /\ UNCHANGED <<estatus, usedRecords, specs, apps, edits>>
                  \/ /\ \E i \in FreeRecordIds :
                           /\ records' = records \cup
                                 {[id |-> i, host |-> host, target |-> j.tid, owner |-> j.exp]}
                           /\ usedRecords' = usedRecords \cup {i}
                           /\ job' = {[j EXCEPT !.at = "save", !.rec = {i}]}
                     /\ UNCHANGED <<estatus, specs, apps, edits>>
                  \/ /\ NotReady(j.exp, dnsId[j.exp], j.app)
                     /\ EEnd
                     /\ UNCHANGED <<records, usedRecords, specs, apps, edits>>
            BY <1>9 DEF EWriteDns
      <2> DEFINE old == {r \in records : r.id \in j.rec}
      <2>2. CASE /\ records' = (records \ old) \cup
                       {[r EXCEPT !.target = j.tid, !.owner = j.exp] : r \in old}
                 /\ EGoTo(j, "save")
                 /\ UNCHANGED <<estatus, usedRecords, specs, apps, edits>>
            <3>1. records' \subseteq Record
                  <4>1. j.tid \in SUBSET TunnelIds /\ j.exp \in Exposures
                        BY <1>a
                  <4>2. \A r \in Record : [r EXCEPT !.target = j.tid, !.owner = j.exp] \in Record
                        BY <4>1 DEF Record
                  <4>3. records \subseteq Record
                        BY DEF ExposureTypeOK
                  <4> QED BY <2>2, <4>2, <4>3
            <3>2. job' \subseteq Job
                  BY <1>a, <2>2 DEF EGoTo, Job, ExposureSteps
            <3> QED BY <2>2, <3>1, <3>2 DEF ExposureTypeOK
      <2>3. CASE /\ \E i \in FreeRecordIds :
                       /\ records' = records \cup
                             {[id |-> i, host |-> HostOf[j.exp], target |-> j.tid,
                               owner |-> j.exp]}
                       /\ usedRecords' = usedRecords \cup {i}
                       /\ job' = {[j EXCEPT !.at = "save", !.rec = {i}]}
                 /\ UNCHANGED <<estatus, specs, apps, edits>>
            <3>1. /\ records' \subseteq Record
                  /\ usedRecords' \subseteq RecordIds
                  BY <1>a, <2>3 DEF ExposureTypeOK, Record, FreeRecordIds
            <3>2. job' \subseteq Job
                  <4>1. PICK i \in FreeRecordIds : job' = {[j EXCEPT !.at = "save", !.rec = {i}]}
                        BY <2>3
                  <4>2. {i} \in SUBSET RecordIds
                        BY <4>1 DEF FreeRecordIds
                  <4>3. "save" \in ExposureSteps /\ j \in Job
                        BY <1>a DEF ExposureSteps
                  <4>4. {[j EXCEPT !.at = "save", !.rec = {i}]} \subseteq Job
                        BY <4>2, <4>3, JobRecord, Zenon
                  <4> QED BY <4>1, <4>4
            <3> QED BY <2>3, <3>1, <3>2 DEF ExposureTypeOK
      <2>4. CASE /\ NotReady(j.exp, dnsId[j.exp], j.app)
                 /\ EEnd
                 /\ UNCHANGED <<records, usedRecords, specs, apps, edits>>
            <3>1. j.exp \in Exposures /\ dnsId[j.exp] \in SUBSET RecordIds /\ j.app \in BOOLEAN
                  BY <1>a DEF ExposureTypeOK
            <3>2. /\ dnsId' \in [Exposures -> SUBSET RecordIds]
                  /\ tracked' \in [Exposures -> BOOLEAN]
                  /\ eready' \in [Exposures -> BOOLEAN]
                  /\ observed' \in [Exposures -> Origins \cup {NoOrigin}]
                  BY <2>4, <3>1, NotReadyType, Zenon
            <3> QED BY <2>4, <3>2 DEF ExposureTypeOK, EEnd
      <2> QED BY <2>1, <2>2, <2>3, <2>4
<1>10. CASE EDnsFails
      <2>1. PICK j \in job : /\ NotReady(j.exp, dnsId[j.exp], j.app)
                             /\ job' = {} /\ UNCHANGED <<specs, surface, edits>>
            BY <1>10 DEF EDnsFails, EEnd
      <2>2. j.exp \in Exposures /\ dnsId[j.exp] \in SUBSET RecordIds /\ j.app \in BOOLEAN
            BY <1>a DEF ExposureTypeOK
      <2>3. /\ dnsId' \in [Exposures -> SUBSET RecordIds]
            /\ tracked' \in [Exposures -> BOOLEAN]
            /\ eready' \in [Exposures -> BOOLEAN]
            /\ observed' \in [Exposures -> Origins \cup {NoOrigin}]
            BY <2>1, <2>2, NotReadyType, Zenon
      <2> QED BY <2>1, <2>3 DEF ExposureTypeOK
<1>11. ASSUME NEW j \in job, NEW next \in {"save", "finAccess"}, Undo(j, next),
              UNCHANGED <<specs, apps, usedRecords, edits>>
       PROVE  ExposureTypeOK'
      <2>1. [j EXCEPT !.at = next, !.rec = {}] \in Job
            BY <1>a DEF Job, ExposureSteps
      <2> QED BY <1>11, <2>1, UndoType DEF ExposureTypeOK
<1>12. CASE EUndoDns \/ EFinDns
      BY <1>11, <1>12 DEF EUndoDns, EFinDns
<1>13. CASE ESave
      <2>1. PICK j \in job :
               /\ dnsId' = [dnsId EXCEPT ![j.exp] = j.rec]
               /\ tracked' = [tracked EXCEPT ![j.exp] = j.app]
               /\ eready' = [eready EXCEPT ![j.exp] =
                     j.route /\ (j.access => j.app) /\ (j.manage => j.rec # {})]
               /\ observed' = [observed EXCEPT ![j.exp] = origin[j.exp]]
               /\ job' = {} /\ UNCHANGED <<specs, surface, edits>>
            BY <1>13 DEF ESave, EEnd
      <2>2. (j.route /\ (j.access => j.app) /\ (j.manage => j.rec # {})) \in BOOLEAN
            OBVIOUS
      <2>3. origin[j.exp] \in Origins \cup {NoOrigin}
            BY <1>a
      <2> QED BY <1>a, <2>1, <2>2, <2>3 DEF ExposureTypeOK
<1>14. CASE EFinAccess
      <2>1. PICK j \in job : /\ apps' = apps \ {j.exp}
                             /\ job' = {[j EXCEPT !.at = "finDrop"]}
                             /\ UNCHANGED <<specs, estatus, records, usedRecords, edits>>
            BY <1>14 DEF EFinAccess, EGoTo
      <2>2. job' \subseteq Job
            BY <1>a, <2>1 DEF Job, ExposureSteps
      <2> QED BY <2>1, <2>2 DEF ExposureTypeOK
<1>15. CASE EFinDrop \/ AbortExposure
      BY <1>15 DEF EFinDrop, AbortExposure, EEnd, ExposureTypeOK
<1>16. CASE EditDns
      <2>1. records' \subseteq Record /\ usedRecords' \subseteq RecordIds
            BY <1>16 DEF EditDns, ExposureTypeOK, Record, FreeRecordIds
      <2> QED BY <1>16, <2>1 DEF EditDns, ExposureTypeOK
<1>17. ASSUME NEW e \in Exposures, DeleteExposure(e)
       PROVE  ExposureTypeOK'
      BY <1>17 DEF DeleteExposure, ExposureTypeOK
<1>18. CASE UNCHANGED vars
      BY <1>18 DEF vars, ExposureTypeOK
<1> QED BY <1>1, <1>2, <1>3, <1>4, <1>5, <1>6, <1>7, <1>8, <1>9, <1>10, <1>12,
           <1>13, <1>14, <1>15, <1>16, <1>17, <1>18
           DEF Next, ExposurePass, User, Faulty

-----------------------------------------------------------------------------
(* The invariants of a pass.                                               *)

IngressInv == JobInv /\ FinInv /\ AccessInv /\ IdInv /\ WriteInv

\* What a changed CNAME keeps.
LEMMA RecordNext ==
    ASSUME NEW r \in Record, NEW t, NEW e
    PROVE  /\ [r EXCEPT !.target = t].id = r.id
           /\ [r EXCEPT !.target = t].owner = r.owner
           /\ [r EXCEPT !.target = t, !.owner = e].id = r.id
           /\ [r EXCEPT !.target = t, !.owner = e].owner = e
BY DEF Record

LEMMA JobInvStep ==
    ASSUME JobInv, [Next]_vars
    PROVE  JobInv'
<1>1. CASE UNCHANGED job
      BY <1>1 DEF JobInv
<1>2. CASE job' = {} \/ \E k : job' = {k}
      BY <1>2 DEF JobInv
<1>3. job' = job \/ job' = {} \/ \E k : job' = {k}
      <2>1. CASE UNCHANGED ingressVars \/ UNCHANGED vars
            BY <2>1 DEF ingressVars, vars
      <2>2. ASSUME NEW e \in Exposures,
                   Apply(e) \/ DeleteExposure(e) \/ EBegin(e) \/ EFinalize(e)
            PROVE  job' = job \/ \E k : job' = {k}
            BY <2>2 DEF Apply, DeleteExposure, EBegin, EFinalize
      <2>3. CASE Edit \/ EditDns
            BY <2>3 DEF Edit, EditDns
      <2>4. CASE AbortExposure \/ EAccessFails \/ EDnsFails \/ ESave \/ EFinDrop
            BY <2>4 DEF AbortExposure, EAccessFails, EDnsFails, ESave, EFinDrop, EEnd
      <2>5. CASE EAccess \/ EListDns \/ EFinAccess
            BY <2>5 DEF EAccess, EListDns, EFinAccess, EEnd, EGoTo
      <2>6. CASE EWriteDns \/ EUndoDns \/ EFinDns
            BY <2>6 DEF EWriteDns, EUndoDns, EFinDns, Undo, EEnd, EGoTo
      <2> QED BY <2>1, <2>2, <2>3, <2>4, <2>5, <2>6 DEF Next, ExposurePass, User, Faulty
<1> QED BY <1>1, <1>2, <1>3

LEMMA IngressInvStep ==
    ASSUME TypeOK, IngressInv, [Next]_vars
    PROVE  IngressInv'
<1> USE DEF FinSteps, specs, estatus, surface, ingressVars, objects
<1> DEFINE Rest == FinInv /\ AccessInv /\ IdInv /\ WriteInv
<1> SUFFICES Rest'
    BY JobInvStep DEF IngressInv
<1>a. \A j \in job : j.exp \in Exposures /\ j \in Job
      BY DEF TypeOK, Job
<1>b. exposure \in [Exposures -> Lives]
      BY DEF TypeOK, TunnelTypeOK
<1>c. Rest /\ \A r \in records : r \in Record
      BY DEF IngressInv, TypeOK
<1>1. ASSUME UNCHANGED ingressVars, UNCHANGED exposure
      PROVE  Rest'
      BY <1>1, <1>c DEF FinInv, AccessInv, IdInv, WriteInv
<1>2. CASE TunnelStep /\ UNCHANGED ingressVars
      <2>1. UNCHANGED exposure
            BY <1>2 DEF TunnelStep, TBegin, GetTunnel, RenameTunnel, ListTunnels, ListLegacy,
               CreateTunnel, SaveTunnelId, UpsertTokenSecret, UpsertDaemonSet,
               BuildConfig, PutConfig, SaveConfig, CheckWorkload, TFinalize,
               StopCloudflared, FinGetTunnel, FinDeleteTunnel, FinDropTunnel
      <2> QED BY <1>1, <1>2, <2>1
<1>3. CASE (WorkloadStep \/ DeleteTunnel \/ Meddling) /\ UNCHANGED ingressVars
      <2>1. UNCHANGED exposure
            BY <1>3 DEF WorkloadStep, PodsStart, DaemonSetRemoved, PodsRemoved,
               DeleteTunnel, Meddling, AbortTunnel, EditConfig, LoseTunnel
      <2> QED BY <1>1, <1>3, <2>1
<1>4. ASSUME NEW e \in Exposures, Apply(e) \/ DeleteExposure(e)
      PROVE  Rest'
      <2>1. UNCHANGED <<job, apps, records, usedRecords>>
            BY <1>4 DEF Apply, DeleteExposure
      <2>2. \A f \in Exposures : exposure[f] = "deleting" => exposure'[f] = "deleting"
            BY <1>4, <1>b DEF Apply, DeleteExposure
      <2> QED BY <1>a, <1>c, <2>1, <2>2 DEF FinInv, AccessInv, IdInv, WriteInv
<1>5. CASE Edit
      BY <1>5, <1>c DEF Edit, FinInv, AccessInv, IdInv, WriteInv
<1>6. CASE EditDns
      <2>1. UNCHANGED <<job, apps, exposure>>
            BY <1>6 DEF EditDns
      <2>2. FinInv' /\ AccessInv'
            BY <1>c, <2>1 DEF FinInv, AccessInv
      <2>3. CASE records' \subseteq records /\ UNCHANGED usedRecords
            BY <1>c, <2>1, <2>2, <2>3 DEF IdInv, WriteInv
      <2>4. ASSUME NEW r \in records, UNCHANGED usedRecords,
                   records' = (records \ {r}) \cup {[r EXCEPT !.target = {}]}
            PROVE  IdInv' /\ WriteInv'
            <3> DEFINE q == [r EXCEPT !.target = {}]
            <3>1. q.id = r.id /\ q.owner = r.owner
                  BY <1>c, RecordNext
            <3> HIDE DEF q
            <3>2. records' = (records \ {r}) \cup {q}
                  BY <2>4 DEF q
            <3>3. IdInv'
                  BY <1>c, <2>4, <3>1, <3>2 DEF IdInv
            <3>4. WriteInv'
                  BY <1>c, <2>1, <2>4, <3>1, <3>2 DEF WriteInv
            <3> QED BY <3>3, <3>4
      <2>5. ASSUME NEW h \in Hosts, NEW i \in FreeRecordIds,
                   usedRecords' = usedRecords \cup {i},
                   records' = records \cup
                      {[id |-> i, host |-> h, target |-> {}, owner |-> Foreign]}
            PROVE  IdInv' /\ WriteInv'
            <3> DEFINE q == [id |-> i, host |-> h, target |-> {}, owner |-> Foreign]
            <3>1. q.id = i /\ i \notin usedRecords
                  BY DEF FreeRecordIds
            <3> HIDE DEF q
            <3>2. records' = records \cup {q}
                  BY <2>5 DEF q
            <3>3. IdInv'
                  BY <1>c, <2>5, <3>1, <3>2 DEF IdInv
            <3>4. WriteInv'
                  BY <1>c, <2>1, <2>5, <3>1, <3>2 DEF WriteInv
            <3> QED BY <3>3, <3>4
      <2> QED BY <1>6, <2>2, <2>3, <2>4, <2>5 DEF EditDns
<1>7. ASSUME NEW e \in Exposures, EBegin(e)
      PROVE  Rest'
      <2>1. UNCHANGED <<records, apps, usedRecords>> /\ job = {}
            BY <1>7 DEF EBegin
      <2>2. \A j \in job' : j.at = "access"
            BY <1>7 DEF EBegin
      <2> QED BY <1>c, <2>1, <2>2 DEF FinInv, AccessInv, IdInv, WriteInv
<1>8. ASSUME NEW e \in Exposures, EFinalize(e)
      PROVE  Rest'
      <2>1. UNCHANGED <<records, apps, usedRecords>> /\ job = {}
            BY <1>8 DEF EFinalize
      <2>2. \A j \in job' : j.at = "finDns" /\ j.exp = e /\ UNCHANGED exposure
            BY <1>8 DEF EFinalize
      <2>3. exposure[e] = "deleting"
            BY <1>8 DEF EFinalize
      <2> QED BY <1>c, <2>1, <2>2, <2>3 DEF FinInv, AccessInv, IdInv, WriteInv
<1>9. CASE EAccess
      <2>1. PICK j \in job :
               /\ apps' = IF j.access THEN apps \cup {j.exp} ELSE apps \ {j.exp}
               /\ job' = {[j EXCEPT !.at = IF j.manage THEN "dns" ELSE "undns",
                                    !.app = j.access]}
               /\ UNCHANGED <<exposure, records, usedRecords>>
            BY <1>9 DEF EAccess
      <2>2. \A k \in job' : /\ k.at \in {"dns", "undns"}
                            /\ k.exp = j.exp /\ k.access = j.access
            BY <1>a, <2>1 DEF Job
      <2> QED BY <1>c, <2>1, <2>2 DEF FinInv, AccessInv, IdInv, WriteInv
<1>10. CASE EAccessFails \/ EDnsFails \/ AbortExposure
      <2>1. job' = {} /\ UNCHANGED <<records, usedRecords>>
            BY <1>10 DEF EAccessFails, EDnsFails, AbortExposure, EEnd
      <2> QED BY <1>c, <2>1 DEF FinInv, AccessInv, IdInv, WriteInv
<1>11. CASE EListDns
      <2>1. UNCHANGED <<exposure, records, usedRecords, apps>>
            BY <1>11 DEF EListDns
      <2>2. PICK j \in job :
               /\ j.at = "dns"
               /\ \A k \in job' : \E step \in {"save", "write"} : \E rec :
                     /\ k = [j EXCEPT !.at = step, !.rec = rec]
                     /\ rec = {} \/ \E r \in records : r.owner = j.exp /\ rec = {r.id}
            <3>1. PICK j \in job :
                     /\ j.at = "dns"
                     /\ \/ job' = {}
                        \/ job' = {[j EXCEPT !.at = "write", !.rec = {}]}
                        \/ \E r \in records :
                              /\ r.owner = j.exp
                              /\ job' = {[j EXCEPT !.at = IF r.target = j.tid
                                                            THEN "save" ELSE "write",
                                                   !.rec = {r.id}]}
                  BY <1>11 DEF EListDns, EEnd, RecordsAt
            <3>2. CASE job' = {}
                  BY <3>1, <3>2
            <3>3. CASE job' = {[j EXCEPT !.at = "write", !.rec = {}]}
                  BY <3>1, <3>3
            <3>4. ASSUME NEW r \in records, r.owner = j.exp, NEW step \in {"save", "write"},
                         job' = {[j EXCEPT !.at = step, !.rec = {r.id}]}
                  PROVE  \A k \in job' : \E s \in {"save", "write"} : \E rec :
                            /\ k = [j EXCEPT !.at = s, !.rec = rec]
                            /\ rec = {} \/ \E x \in records : x.owner = j.exp /\ rec = {x.id}
                  BY <3>4
            <3> QED BY <3>1, <3>2, <3>3, <3>4
      <2>3. ASSUME NEW k \in job'
            PROVE  /\ k.at \in {"save", "write"} /\ k.exp = j.exp /\ k.access = j.access
                   /\ k.rec = {} \/ \E r \in records : r.owner = j.exp /\ k.rec = {r.id}
            <3>0. PICK step \in {"save", "write"} : \E rec :
                     /\ k = [j EXCEPT !.at = step, !.rec = rec]
                     /\ rec = {} \/ \E r \in records : r.owner = j.exp /\ rec = {r.id}
                  BY <2>2
            <3>1. PICK rec :
                     /\ k = [j EXCEPT !.at = step, !.rec = rec]
                     /\ rec = {} \/ \E r \in records : r.owner = j.exp /\ rec = {r.id}
                  BY <3>0
            <3>2. DOMAIN j = {"at", "exp", "tid", "route", "manage", "access", "rec", "app"}
                  BY <1>a DEF Job
            <3>3. k.at = step /\ k.exp = j.exp /\ k.access = j.access /\ k.rec = rec
                  BY <3>1, <3>2, Zenon
            <3> QED BY <3>1, <3>3
      <2>4. FinInv' /\ AccessInv' /\ IdInv'
            BY <1>c, <2>1, <2>2, <2>3 DEF FinInv, AccessInv, IdInv
      <2>5. WriteInv'
            BY <1>c, <2>1, <2>3 DEF IdInv, WriteInv
      <2> QED BY <2>4, <2>5
<1>12. CASE EWriteDns
      <2>1. PICK j \in job :
               /\ j.at = "write"
               /\ LET old == {r \in records : r.id \in j.rec}
                  IN \/ /\ records' = (records \ old) \cup
                              {[r EXCEPT !.target = j.tid, !.owner = j.exp] : r \in old}
                        /\ job' = {[j EXCEPT !.at = "save"]}
                        /\ UNCHANGED usedRecords
                     \/ \E i \in FreeRecordIds :
                           /\ records' = records \cup
                                 {[id |-> i, host |-> HostOf[j.exp], target |-> j.tid,
                                   owner |-> j.exp]}
                           /\ usedRecords' = usedRecords \cup {i}
                           /\ job' = {[j EXCEPT !.at = "save", !.rec = {i}]}
                     \/ job' = {} /\ UNCHANGED <<records, usedRecords>>
               /\ UNCHANGED <<exposure, apps>>
            BY <1>12 DEF EWriteDns, EGoTo, EEnd
      <2> DEFINE old == {r \in records : r.id \in j.rec}
                 upd(r) == [r EXCEPT !.target = j.tid, !.owner = j.exp]
      <2>2. \A k \in job' : k.at = "save" /\ k.exp = j.exp /\ k.access = j.access
            <3>1. \A k \in job' : \/ k = [j EXCEPT !.at = "save"]
                                  \/ \E i \in FreeRecordIds : k = [j EXCEPT !.at = "save", !.rec = {i}]
                  BY <2>1
            <3>2. ASSUME NEW k \in job'
                  PROVE  k.at = "save" /\ k.exp = j.exp /\ k.access = j.access
                  <4>1. DOMAIN j = {"at", "exp", "tid", "route", "manage", "access", "rec", "app"}
                        BY <1>a DEF Job
                  <4>2. CASE k = [j EXCEPT !.at = "save"]
                        BY <4>1, <4>2, Zenon
                  <4>3. ASSUME NEW i \in FreeRecordIds, k = [j EXCEPT !.at = "save", !.rec = {i}]
                        PROVE  k.at = "save" /\ k.exp = j.exp /\ k.access = j.access
                        BY <4>1, <4>3, Zenon
                  <4> QED BY <3>1, <4>2, <4>3
            <3> QED BY <3>2
      <2>3. FinInv' /\ AccessInv' /\ WriteInv'
            BY <1>c, <2>1, <2>2 DEF FinInv, AccessInv, WriteInv
      <2>4. \A r \in records : upd(r).id = r.id
            BY <1>c, RecordNext
      <2>5. CASE records' = (records \ old) \cup {upd(r) : r \in old} /\ UNCHANGED usedRecords
            <3> HIDE DEF upd
            <3>1. \A x \in records' : \/ x \in records /\ x.id \notin j.rec
                                      \/ \E r \in old : x = upd(r)
                  BY <2>5
            <3>2. \A x \in records' : x.id \in usedRecords'
                  BY <1>c, <2>4, <2>5, <3>1 DEF IdInv
            <3>3. ASSUME NEW x \in records', NEW y \in records', x.id = y.id
                  PROVE  x = y
                  BY <1>c, <2>4, <3>1, <3>3 DEF IdInv
            <3> QED BY <2>3, <3>2, <3>3 DEF IdInv
      <2>6. CASE \E i \in FreeRecordIds :
                    /\ records' = records \cup
                          {[id |-> i, host |-> HostOf[j.exp], target |-> j.tid,
                            owner |-> j.exp]}
                    /\ usedRecords' = usedRecords \cup {i}
            <3>1. PICK i \in FreeRecordIds :
                    /\ records' = records \cup
                          {[id |-> i, host |-> HostOf[j.exp], target |-> j.tid,
                            owner |-> j.exp]}
                    /\ usedRecords' = usedRecords \cup {i}
                  BY <2>6
            <3> DEFINE q == [id |-> i, host |-> HostOf[j.exp], target |-> j.tid,
                             owner |-> j.exp]
            <3>2. q.id = i /\ i \notin usedRecords
                  BY DEF FreeRecordIds
            <3> HIDE DEF q
            <3>3. records' = records \cup {q}
                  BY <3>1 DEF q
            <3>4. IdInv'
                  BY <1>c, <3>1, <3>2, <3>3 DEF IdInv
            <3> QED BY <2>3, <3>4
      <2>7. CASE UNCHANGED <<records, usedRecords>>
            BY <1>c, <2>3, <2>7 DEF IdInv
      <2> QED BY <2>1, <2>3, <2>5, <2>6, <2>7
<1>13. CASE EUndoDns \/ EFinDns
      <2>1. PICK j \in job, next \in {"save", "finAccess"} :
               /\ j.at = IF next = "save" THEN "undns" ELSE "finDns"
               /\ job' \subseteq {[j EXCEPT !.at = next, !.rec = {}]}
               /\ records' \subseteq records
               /\ UNCHANGED <<exposure, apps, usedRecords>>
            BY <1>13 DEF EUndoDns, EFinDns, Undo, EEnd
      <2>2. \A k \in job' : k.at = next /\ k.exp = j.exp /\ k.access = j.access
            BY <1>a, <2>1 DEF Job
      <2> QED BY <1>c, <2>1, <2>2 DEF FinInv, AccessInv, IdInv, WriteInv
<1>14. CASE ESave
      BY <1>14, <1>c DEF ESave, EEnd, FinInv, AccessInv, IdInv, WriteInv
<1>15. CASE EFinAccess
      <2>1. PICK j \in job : /\ j.at = "finAccess"
                             /\ job' = {[j EXCEPT !.at = "finDrop"]}
                             /\ UNCHANGED <<exposure, records, usedRecords>>
            BY <1>15 DEF EFinAccess, EGoTo
      <2>2. \A k \in job' : k.at = "finDrop" /\ k.exp = j.exp
            BY <1>a, <2>1 DEF Job
      <2> QED BY <1>c, <2>1, <2>2 DEF FinInv, AccessInv, IdInv, WriteInv
<1>16. CASE EFinDrop
      BY <1>16, <1>c DEF EFinDrop, EEnd, FinInv, AccessInv, IdInv, WriteInv
<1>17. CASE UNCHANGED vars
      BY <1>17, <1>c DEF vars, FinInv, AccessInv, IdInv, WriteInv
<1> QED BY <1>2, <1>3, <1>4, <1>5, <1>6, <1>7, <1>8, <1>9, <1>10, <1>11, <1>12,
           <1>13, <1>14, <1>15, <1>16, <1>17
           DEF Next, ExposurePass, User, Faulty

LEMMA IngressInitial == Init => TypeOK /\ IngressInv
<1> SUFFICES ASSUME Init PROVE TypeOK /\ IngressInv
    OBVIOUS
<1>1. TunnelTypeOK
      BY TunnelInitial DEF Init
<1>2. edits \in 0..MaxEdits /\ manage \in BOOLEAN
      BY IngressAssumption DEF Init
<1>3. /\ access \in [Exposures -> BOOLEAN]
      /\ tracked \in [Exposures -> BOOLEAN]
      /\ eready \in [Exposures -> BOOLEAN]
      BY DEF Init
<1>4. /\ dnsId \in [Exposures -> SUBSET RecordIds]
      /\ observed \in [Exposures -> Origins \cup {NoOrigin}]
      /\ records \subseteq Record /\ apps \subseteq Exposures
      /\ usedRecords \subseteq RecordIds /\ job \subseteq Job
      BY DEF Init
<1>5. IngressInv
      BY DEF Init, IngressInv, JobInv, FinInv, AccessInv, IdInv, WriteInv
<1> QED BY <1>1, <1>2, <1>3, <1>4, <1>5 DEF TypeOK

LEMMA IngressTypeStep ==
    ASSUME TypeOK, IngressInv, [Next]_vars
    PROVE  TypeOK'
<1>1. TunnelTypeOK'
      <2>1. [TunnelNext]_allTunnelVars
            BY ImplementsStep DEF IngressInv
      <2> QED BY <2>1, TypeStep DEF TypeOK
<1>2. ExposureTypeOK'
      BY ExposureTypeStep
<1> QED BY <1>1, <1>2 DEF TypeOK, ExposureTypeOK

\* The types of the composition, and what a pass knows of the objects, the
\* applications and the records it works on while others change them.
THEOREM IngressInvariance == Spec => [](TypeOK /\ IngressInv)
BY IngressInitial, IngressTypeStep, IngressInvStep, PTL DEF Spec

\* The two controllers together implement the tunnel's specification: to the
\* tunnel controller, the Exposure controller and the users are Exposures that
\* change, so ReadyRunsTracked and StoppedBeforeDeleted hold of the composition.
THEOREM ImplementsTunnel == Spec => TunnelSpec
<1>1. Init => TunnelInit
      BY DEF Init
<1>2. TypeOK /\ IngressInv /\ [Next]_vars => [TunnelNext]_allTunnelVars
      BY ImplementsStep DEF IngressInv
<1> QED BY <1>1, <1>2, IngressInvariance, PTL DEF Spec, TunnelSpec

THEOREM IngressReadyRuns == Spec => [](ReadyRunsTracked /\ StoppedBeforeDeleted)
BY ImplementsTunnel, ReadyTunnelRuns, StoppedFirst, PTL

\* The composition is to the route controller what TunnelLife says: what is
\* proved of the routes against TunnelLife holds beside both controllers.
THEOREM IngressKeepsLife == Spec => KeepsLife
BY ImplementsTunnel, TunnelKeepsLife, PTL

\* Without faults the hash and the routes in the tunnel's status are those of
\* the remote document, with the Exposures that the Exposure controller really
\* makes (reconcileTunnelConfig).
THEOREM IngressStatusRemote ==
    ASSUME MaxFaults = 0
    PROVE  Spec => []StatusIsRemote
BY ImplementsTunnel, StatusFollowsRemote, PTL

-----------------------------------------------------------------------------
(* What a step may not do.                                                 *)

\* The steps that write CNAMEs.
LEMMA RecordWriters ==
    ASSUME TypeOK, [Next]_vars, faults' = faults, records' # records
    PROVE  EWriteDns \/ EUndoDns \/ EFinDns
<1> USE DEF ingressVars, surface
<1>1. CASE UNCHANGED ingressVars
      BY <1>1
<1>2. ASSUME NEW e \in Exposures,
             Apply(e) \/ DeleteExposure(e) \/ EBegin(e) \/ EFinalize(e)
      PROVE  FALSE
      BY <1>2 DEF Apply, DeleteExposure, EBegin, EFinalize
<1>3. ASSUME Edit \/ EAccess \/ EListDns \/ ESave \/ EFinAccess \/ EFinDrop
      PROVE  FALSE
      BY <1>3 DEF Edit, EAccess, EListDns, ESave, EFinAccess, EFinDrop
<1>4. ASSUME EditDns \/ AbortExposure \/ EAccessFails \/ EDnsFails
      PROVE  FALSE
      <2>1. faults \in Nat
            BY TunnelAssumption DEF TypeOK, TunnelTypeOK
      <2>2. faults' = faults + 1
            BY <1>4 DEF EditDns, AbortExposure, EAccessFails, EDnsFails, Fault
      <2> QED BY <2>1, <2>2
<1>5. CASE UNCHANGED vars
      BY <1>5 DEF vars
<1> QED BY <1>1, <1>2, <1>3, <1>4, <1>5 DEF Next, ExposurePass, User, Faulty

\* No step of the controller changes a CNAME of somebody else's: the record it
\* updates is by the same id still the one it found to be its own.
THEOREM ForeignSafe == Spec => ForeignKept
<1>1. ASSUME TypeOK, IngressInv, [Next]_vars, faults' = faults
      PROVE  {r \in records : r.owner = Foreign} \subseteq records'
      <2>a. \A j \in job : j.exp # Foreign
            BY <1>1, IngressAssumption DEF TypeOK, Job
      <2>1. CASE records' = records
            BY <2>1
      <2>2. CASE EWriteDns
            <3>1. PICK j \in job :
                     /\ j.at = "write"
                     /\ records \ {r \in records : r.id \in j.rec} \subseteq records'
                        \/ records \subseteq records'
                  BY <2>2 DEF EWriteDns
            <3> QED BY <1>1, <2>a, <3>1 DEF IngressInv, WriteInv
      <2>3. CASE EUndoDns \/ EFinDns
            <3>1. PICK j \in job : \/ records' = records
                                   \/ \A r \in records \ records' : r.owner = j.exp
                  BY <2>3 DEF EUndoDns, EFinDns, Undo
            <3> QED BY <2>a, <3>1
      <2> QED BY <1>1, <2>1, <2>2, <2>3, RecordWriters
<1>2. TypeOK /\ IngressInv /\ [Next]_vars =>
         [faults' = faults => {r \in records : r.owner = Foreign} \subseteq records']_vars
      BY <1>1
<1> QED BY <1>2, IngressInvariance, PTL DEF Spec, ForeignKept

\* No step of the controller writes the CNAME of an Exposure whose Access
\* application, by what the pass has read, is still to be made.
THEOREM AccessFirst == Spec => AccessBeforeDns
<1>1. ASSUME TypeOK, IngressInv, [Next]_vars, faults' = faults, NEW j \in job,
             NEW r \in records', r.owner = j.exp, r \notin records, j.access
      PROVE  j.exp \in apps
      <2>1. CASE EWriteDns
            <3>1. j.at = "write"
                  BY <1>1, <2>1 DEF EWriteDns, IngressInv, JobInv
            <3> QED BY <1>1, <3>1 DEF IngressInv, AccessInv, FinSteps
      <2>2. CASE EUndoDns \/ EFinDns
            BY <1>1, <2>2 DEF EUndoDns, EFinDns, Undo
      <2> QED BY <1>1, <2>1, <2>2, RecordWriters
<1>2. TypeOK /\ IngressInv /\ [Next]_vars =>
         [\A j \in job :
             /\ faults' = faults
             /\ \E r \in records' : r.owner = j.exp /\ r \notin records
             => (j.access => j.exp \in apps)]_vars
      BY <1>1
<1> QED BY <1>2, IngressInvariance, PTL DEF Spec, AccessBeforeDns

-----------------------------------------------------------------------------
(* An Exposure that is served is left as it is.                            *)

\* A pass that has read the objects as they are and found nothing to change.
SeesSurface(j) ==
    /\ j.tid = tid /\ j.route /\ j.manage = manage /\ j.access = access[j.exp]
    /\ j.at \in {"access", "dns", "undns", "save"}
    /\ j.at # "access" => j.app = access[j.exp]
    /\ j.at = "dns" => manage
    /\ j.at = "undns" => ~manage
    /\ j.at = "save" => j.rec = dnsId[j.exp]

\* The CNAME is tracked, alone at its name and leads to the tunnel; or there is
\* none where it should not be.
InZone(e) ==
    IF manage
      THEN \E r \in records : /\ dnsId[e] = {r.id} /\ RecordsAt(HostOf[e]) = {r}
                              /\ r.owner = e /\ r.target = tid
      ELSE dnsId[e] = {} /\ \A r \in records : r.owner # e

Alone(e) == \A f \in Present \ {e} : HostOf[f] # HostOf[e]

Published(e) == \E r \in troutes : r.exp = e

\* What of the status, of the applications and of the zone is the Exposure's.
Own(e) == <<dnsId[e], tracked[e], eready[e], observed[e], e \in apps,
            {r \in records : r.owner = e}>>

ExposureSettled(e) ==
    /\ exposure[e] = "live" /\ origin[e] # NoOrigin /\ tobj # "gone"
    /\ Alone(e) /\ Published(e)
    /\ eready[e] /\ observed[e] = origin[e]
    /\ tracked[e] = access[e] /\ (e \in apps) = access[e]
    /\ InZone(e)
    /\ \A j \in job : j.exp = e => SeesSurface(j)

\* Its spec, its tunnel and the rule published for it stay, no other Exposure
\* claims its hostname, and nothing fails.
Undisturbed(e) ==
    /\ UNCHANGED <<exposure[e], origin[e], access[e], manage, tid, faults>>
    /\ tobj' # "gone" /\ Alone(e)' /\ Published(e)'

\* Passes over an Exposure that is served, and those over all others, leave its
\* CNAME, its application and its status as they are: nothing is deleted and
\* created again and Ready does not flap (reconcileExposureAccess, reconcileDNS,
\* deleteOwnedDNSIfPresent).
SurfaceStays ==
    [][\A e \in Exposures : ExposureSettled(e) /\ Undisturbed(e)
          => ExposureSettled(e)' /\ UNCHANGED Own(e)]_vars

\* The zone, the applications and the status are left alone, as far as they are
\* the Exposure's.
Frame(e) ==
    /\ UNCHANGED <<dnsId[e], tracked[e], eready[e], observed[e]>>
    /\ e \in apps <=> e \in apps'
    /\ \A r \in records \cup records' :
          r.owner = e \/ (manage /\ r.host = HostOf[e]) => r \in records /\ r \in records'

LEMMA SettledStays ==
    ASSUME TypeOK, NEW e \in Exposures, ExposureSettled(e), Undisturbed(e), Frame(e),
           \A j \in job' : j.exp = e => SeesSurface(j)
    PROVE  ExposureSettled(e)' /\ UNCHANGED Own(e)
<1>1. /\ UNCHANGED <<exposure[e], origin[e], access[e], manage, tid>>
      /\ UNCHANGED <<dnsId[e], tracked[e], eready[e], observed[e]>>
      /\ tobj' # "gone" /\ Alone(e)' /\ Published(e)'
      BY DEF Undisturbed, Frame
<1>2. {r \in records : r.owner = e}' = {r \in records : r.owner = e}
      BY DEF Frame
<1>3. (e \in apps') = (e \in apps)
      BY DEF Frame
<1>4. InZone(e)'
      <2>1. CASE manage
            <3>1. PICK r \in records :
                      /\ dnsId[e] = {r.id} /\ RecordsAt(HostOf[e]) = {r}
                      /\ r.owner = e /\ r.target = tid
                  BY <2>1 DEF ExposureSettled, InZone
            <3>2. RecordsAt(HostOf[e])' = RecordsAt(HostOf[e])
                  BY <2>1 DEF Frame, RecordsAt
            <3>3. r \in records'
                  BY <3>1, <3>2 DEF RecordsAt
            <3> QED BY <1>1, <2>1, <3>1, <3>2, <3>3 DEF InZone
      <2>2. CASE ~manage
            BY <1>1, <2>2 DEF ExposureSettled, InZone, Frame
      <2> QED BY <2>1, <2>2
<1>5. \A j \in job' : j.exp = e => SeesSurface(j)'
      BY <1>1 DEF SeesSurface
<1>6. ExposureSettled(e)'
      BY <1>1, <1>3, <1>4, <1>5 DEF ExposureSettled
<1> QED BY <1>1, <1>2, <1>3, <1>6 DEF Own

\* Steps that write neither the zone, the applications nor the status.
LEMMA QuietFrame ==
    ASSUME NEW e, UNCHANGED <<estatus, records, apps>>
    PROVE  Frame(e)
BY DEF Frame, estatus

\* A status write for another Exposure.
LEMMA OtherStatus ==
    ASSUME TypeOK, NEW e \in Exposures, NEW f \in Exposures \ {e}, NEW rec, NEW app,
           NotReady(f, rec, app)
    PROVE  UNCHANGED <<dnsId[e], tracked[e], eready[e], observed[e]>>
BY DEF TypeOK, NotReady

\* The pass over a settled Exposure, step by step.
LEMMA OwnPass ==
    ASSUME TypeOK, IngressInv, NEW e \in Exposures, ExposureSettled(e), Undisturbed(e),
           NEW j \in job, j.exp = e,
           \/ EAccess \/ EListDns \/ EWriteDns \/ EUndoDns \/ ESave
           \/ EFinDns \/ EFinAccess \/ EFinDrop
    PROVE  Frame(e) /\ \A k \in job' : k.exp = e => SeesSurface(k)
<1>1. /\ j \in Job /\ SeesSurface(j) /\ job = {j} /\ j.exp = e
      /\ j.manage \in BOOLEAN /\ j.access \in BOOLEAN /\ j.app \in BOOLEAN
      /\ j.route = TRUE
      BY DEF ExposureSettled, IngressInv, JobInv, TypeOK, Job, SeesSurface
<1>2. /\ eready[e] = TRUE /\ observed[e] = origin[e] /\ tracked[e] = access[e]
      /\ (e \in apps) = access[e] /\ InZone(e) /\ access[e] \in BOOLEAN
      /\ manage \in BOOLEAN
      BY DEF ExposureSettled, TypeOK
<1>3. ASSUME EAccess PROVE Frame(e) /\ \A k \in job' : k.exp = e => SeesSurface(k)
      <2> DEFINE k0 == [j EXCEPT !.at = IF j.manage THEN "dns" ELSE "undns",
                                 !.app = j.access]
      <2>1. /\ apps' = IF j.access THEN apps \cup {e} ELSE apps \ {e}
            /\ job' = {k0} /\ UNCHANGED <<estatus, records>>
            BY <1>1, <1>3 DEF EAccess
      <2>2. /\ k0.at = (IF j.manage THEN "dns" ELSE "undns") /\ k0.app = j.access
            /\ k0.exp = j.exp /\ k0.tid = j.tid /\ k0.route = j.route
            /\ k0.manage = j.manage /\ k0.access = j.access
            BY <1>1 DEF Job
      <2> HIDE DEF k0
      <2>3. SeesSurface(k0)
            BY <1>1, <1>2, <2>2 DEF SeesSurface
      <2>4. e \in apps <=> e \in apps'
            BY <1>1, <1>2, <2>1 DEF SeesSurface
      <2> QED BY <2>1, <2>3, <2>4 DEF Frame, estatus
<1>4. ASSUME EListDns PROVE Frame(e) /\ \A k \in job' : k.exp = e => SeesSurface(k)
      <2>1. j.at = "dns" /\ manage
            BY <1>1, <1>4 DEF EListDns, SeesSurface
      <2>2. PICK r \in records :
                /\ dnsId[e] = {r.id} /\ RecordsAt(HostOf[e]) = {r}
                /\ r.owner = e /\ r.target = tid
            BY <1>2, <2>1 DEF InZone
      <2> DEFINE k0 == [j EXCEPT !.at = "save", !.rec = {r.id}]
      <2>3. job' = {k0} /\ UNCHANGED <<estatus, surface>>
            <3> DEFINE Step(x) == IF x.target = j.tid THEN "save" ELSE "write"
            <3>1. \A x \in RecordsAt(HostOf[j.exp]) :
                      x = r /\ x.owner = j.exp /\ Step(x) = "save"
                  BY <1>1, <2>2 DEF SeesSurface
            <3>2. RecordsAt(HostOf[j.exp]) # {}
                  BY <1>1, <2>2
            <3>3. /\ \E x \in RecordsAt(HostOf[j.exp]) :
                        job' = {[j EXCEPT !.at = Step(x), !.rec = {x.id}]}
                  /\ UNCHANGED <<estatus, surface>>
                  <4>1. PICK k \in job :
                            /\ k.at = "dns"
                            /\ \/ \E x \in RecordsAt(HostOf[k.exp]) : x.owner # k.exp
                               \/ RecordsAt(HostOf[k.exp]) = {}
                               \/ /\ \E x \in RecordsAt(HostOf[k.exp]) :
                                        job' = {[k EXCEPT
                                          !.at = IF x.target = k.tid THEN "save" ELSE "write",
                                          !.rec = {x.id}]}
                                  /\ UNCHANGED estatus
                            /\ UNCHANGED surface
                        BY <1>4, Zenon DEF EListDns
                  <4>2. k = j
                        BY <1>1
                  <4> QED BY <3>1, <3>2, <4>1, <4>2
            <3> HIDE DEF Step
            <3> QED BY <3>1, <3>3
      <2>4. /\ k0.at = "save" /\ k0.rec = {r.id} /\ k0.app = j.app
            /\ k0.exp = j.exp /\ k0.tid = j.tid /\ k0.route = j.route
            /\ k0.manage = j.manage /\ k0.access = j.access
            BY <1>1 DEF Job
      <2> HIDE DEF k0
      <2>5. SeesSurface(k0)
            BY <1>1, <2>1, <2>2, <2>4 DEF SeesSurface
      <2> QED BY <2>3, <2>5, QuietFrame DEF surface
<1>5. ASSUME EUndoDns PROVE Frame(e) /\ \A k \in job' : k.exp = e => SeesSurface(k)
      <2>1. j.at = "undns" /\ ~manage /\ dnsId[e] = {}
            BY <1>1, <1>2, <1>5 DEF EUndoDns, SeesSurface, InZone
      <2> DEFINE k0 == [j EXCEPT !.at = "save", !.rec = {}]
      <2>2. Undo(j, "save") /\ UNCHANGED apps
            BY <1>1, <1>5 DEF EUndoDns
      <2>3. job' = {k0} /\ UNCHANGED <<estatus, records>>
            BY <1>1, <2>1, <2>2 DEF Undo
      <2>4. /\ k0.at = "save" /\ k0.rec = {} /\ k0.app = j.app
            /\ k0.exp = j.exp /\ k0.tid = j.tid /\ k0.route = j.route
            /\ k0.manage = j.manage /\ k0.access = j.access
            BY <1>1 DEF Job
      <2> HIDE DEF k0
      <2>5. SeesSurface(k0)
            BY <1>1, <2>1, <2>4 DEF SeesSurface
      <2> QED BY <2>2, <2>3, <2>5, QuietFrame
<1>6. ASSUME ESave PROVE Frame(e) /\ \A k \in job' : k.exp = e => SeesSurface(k)
      <2>1. /\ j.at = "save" /\ j.app = access[e] /\ j.access = access[e]
            /\ j.manage = manage /\ j.rec = dnsId[e]
            BY <1>1, <1>6 DEF ESave, SeesSurface
      <2>2. j.manage => j.rec # {}
            BY <1>2, <2>1 DEF InZone
      <2>3. /\ dnsId' = [dnsId EXCEPT ![e] = j.rec]
            /\ tracked' = [tracked EXCEPT ![e] = j.app]
            /\ eready' = [eready EXCEPT ![e] =
                             j.route /\ (j.access => j.app) /\ (j.manage => j.rec # {})]
            /\ observed' = [observed EXCEPT ![e] = origin[e]]
            /\ job' = {} /\ UNCHANGED <<records, apps>>
            BY <1>1, <1>6 DEF ESave, EEnd, surface
      <2>4. /\ dnsId'[e] = j.rec /\ tracked'[e] = j.app /\ observed'[e] = origin[e]
            BY <2>3 DEF TypeOK
      <2>5. eready'[e] = TRUE
            BY <1>1, <2>1, <2>2, <2>3 DEF TypeOK
      <2> QED BY <1>2, <2>1, <2>3, <2>4, <2>5 DEF Frame
<1>7. ~EWriteDns /\ ~EFinDns /\ ~EFinAccess /\ ~EFinDrop
      BY <1>1 DEF EWriteDns, EFinDns, EFinAccess, EFinDrop, SeesSurface
<1> QED BY <1>3, <1>4, <1>5, <1>6, <1>7

\* A pass over another Exposure.
LEMMA OtherPass ==
    ASSUME TypeOK, IngressInv, NEW e \in Exposures, ExposureSettled(e),
           NEW j \in job, j.exp # e, ExposurePass
    PROVE  Frame(e) /\ \A k \in job' : k.exp # e
<1> DEFINE Goal == Frame(e) /\ \A k \in job' : k.exp # e
<1>1. /\ j \in Job /\ job = {j} /\ j.exp \in Exposures \ {e}
      /\ records \subseteq Record /\ InZone(e)
      BY DEF IngressInv, JobInv, TypeOK, Job, ExposureSettled
<1>2. \A at : [j EXCEPT !.at = at].exp = j.exp
      BY <1>1 DEF Job
<1>3. \A at, rec : [j EXCEPT !.at = at, !.rec = rec].exp = j.exp
      BY <1>1 DEF Job
<1>4. CASE EAccess
      <2>1. /\ apps' = (IF j.access THEN apps \cup {j.exp} ELSE apps \ {j.exp})
            /\ job' = {[j EXCEPT !.at = IF j.manage THEN "dns" ELSE "undns",
                                 !.app = j.access]}
            /\ UNCHANGED <<estatus, records>>
            BY <1>1, <1>4 DEF EAccess
      <2>2. \A at, app : [j EXCEPT !.at = at, !.app = app].exp = j.exp
            BY <1>1 DEF Job
      <2> QED BY <1>1, <2>1, <2>2 DEF Frame, estatus
<1>5. CASE EListDns
      <2>1. /\ UNCHANGED surface
            /\ \/ NotReady(j.exp, j.rec, j.app) /\ EEnd
               \/ UNCHANGED estatus /\ \E at, rec : job' = {[j EXCEPT !.at = at, !.rec = rec]}
            <3>1. PICK k \in job :
                      /\ UNCHANGED surface
                      /\ \/ NotReady(k.exp, k.rec, k.app) /\ EEnd
                         \/ UNCHANGED estatus /\ job' = {[k EXCEPT !.at = "write", !.rec = {}]}
                         \/ /\ UNCHANGED estatus
                            /\ \E r \in RecordsAt(HostOf[k.exp]) :
                                  job' = {[k EXCEPT
                                    !.at = IF r.target = k.tid THEN "save" ELSE "write",
                                    !.rec = {r.id}]}
                  BY <1>5, Zenon DEF EListDns
            <3>2. k = j
                  BY <1>1
            <3> QED BY <3>1, <3>2
      <2>2. CASE NotReady(j.exp, j.rec, j.app) /\ EEnd
            BY <1>1, <2>1, <2>2, OtherStatus DEF Frame, EEnd, surface
      <2>3. CASE UNCHANGED estatus /\ \E at, rec : job' = {[j EXCEPT !.at = at, !.rec = rec]}
            BY <1>1, <1>3, <2>1, <2>3, QuietFrame DEF surface
      <2> QED BY <2>1, <2>2, <2>3
<1>6. CASE EWriteDns
      <2> DEFINE host == HostOf[j.exp]
                 old  == {r \in records : r.id \in j.rec}
      <2>0. /\ j.at = "write" /\ UNCHANGED apps
            /\ \/ /\ records' = (records \ old) \cup
                        {[r EXCEPT !.target = j.tid, !.owner = j.exp] : r \in old}
                  /\ EGoTo(j, "save") /\ UNCHANGED estatus
               \/ /\ RecordsAt(host) = {}
                  /\ \E i \in FreeRecordIds :
                        /\ records' = records \cup
                              {[id |-> i, host |-> host, target |-> j.tid, owner |-> j.exp]}
                        /\ job' = {[j EXCEPT !.at = "save", !.rec = {i}]}
                  /\ UNCHANGED estatus
               \/ /\ NotReady(j.exp, dnsId[j.exp], j.app) /\ EEnd
                  /\ UNCHANGED records
            BY <1>1, <1>6 DEF EWriteDns
      <2>1. \A r \in old : r.owner = j.exp
            BY <2>0 DEF IngressInv, WriteInv
      <2>2. manage => \A r \in records : r.host = HostOf[e] => r.owner = e
            BY <1>1 DEF InZone, RecordsAt
      <2>3. CASE /\ records' = (records \ old) \cup
                       {[r EXCEPT !.target = j.tid, !.owner = j.exp] : r \in old}
                 /\ EGoTo(j, "save") /\ UNCHANGED estatus
            <3>1. \A r \in old : /\ [r EXCEPT !.target = j.tid, !.owner = j.exp].owner = j.exp
                                 /\ [r EXCEPT !.target = j.tid, !.owner = j.exp].host = r.host
                  BY <1>1 DEF Record
            <3>2. \A r \in records \cup records' :
                      r.owner = e \/ (manage /\ r.host = HostOf[e])
                        => r \in records /\ r \in records'
                  BY <1>1, <2>1, <2>2, <2>3, <3>1
            <3> QED BY <1>1, <1>2, <2>0, <2>3, <3>2 DEF Frame, EGoTo, estatus
      <2>4. ASSUME RecordsAt(host) = {}, UNCHANGED estatus, NEW i \in FreeRecordIds,
                   records' = records \cup
                      {[id |-> i, host |-> host, target |-> j.tid, owner |-> j.exp]},
                   job' = {[j EXCEPT !.at = "save", !.rec = {i}]}
            PROVE  Goal
            <3>1. manage => host # HostOf[e]
                  BY <1>1, <2>4 DEF InZone, RecordsAt
            <3>2. \A r \in records \cup records' :
                      r.owner = e \/ (manage /\ r.host = HostOf[e])
                        => r \in records /\ r \in records'
                  BY <1>1, <2>4, <3>1
            <3> QED BY <1>1, <1>3, <2>0, <2>4, <3>2 DEF Frame, estatus
      <2>5. CASE NotReady(j.exp, dnsId[j.exp], j.app) /\ EEnd /\ UNCHANGED records
            BY <1>1, <2>0, <2>5, OtherStatus DEF Frame, EEnd
      <2> QED BY <2>0, <2>3, <2>4, <2>5
<1>7. CASE EUndoDns \/ EFinDns
      <2>1. UNCHANGED apps /\ \E next \in {"save", "finAccess"} : Undo(j, next)
            BY <1>1, <1>7 DEF EUndoDns, EFinDns
      <2>2. PICK next \in {"save", "finAccess"} : Undo(j, next)
            BY <2>1
      <2> DEFINE found == {r \in RecordsAt(HostOf[j.exp]) : r.id \in dnsId[j.exp]}
      <2>3. CASE \E r \in found : r.owner # j.exp
            <3>1. /\ job' = {} /\ UNCHANGED records
                  /\ UNCHANGED estatus \/ Stuck(j.exp)
                  BY <2>2, <2>3 DEF Undo, EEnd
            <3>2. Stuck(j.exp) => UNCHANGED <<dnsId[e], tracked[e], eready[e], observed[e]>>
                  BY <1>1, OtherStatus DEF Stuck
            <3> QED BY <2>1, <3>1, <3>2 DEF Frame, estatus
      <2>4. CASE \A r \in found : r.owner = j.exp
            <3>1. /\ records' = records \ found /\ UNCHANGED estatus
                  /\ job' = {[j EXCEPT !.at = next, !.rec = {}]}
                  BY <2>2, <2>4 DEF Undo
            <3>2. manage => \A r \in records : r.host = HostOf[e] => r.owner = e
                  BY <1>1 DEF InZone, RecordsAt
            <3>3. \A r \in records \cup records' :
                      r.owner = e \/ (manage /\ r.host = HostOf[e])
                        => r \in records /\ r \in records'
                  BY <1>1, <2>4, <3>1, <3>2
            <3> QED BY <1>1, <1>3, <2>1, <3>1, <3>3 DEF Frame, estatus
      <2> QED BY <2>3, <2>4
<1>8. CASE ESave
      <2>1. /\ dnsId' = [dnsId EXCEPT ![j.exp] = j.rec]
            /\ tracked' = [tracked EXCEPT ![j.exp] = j.app]
            /\ eready' = [eready EXCEPT ![j.exp] =
                             j.route /\ (j.access => j.app) /\ (j.manage => j.rec # {})]
            /\ observed' = [observed EXCEPT ![j.exp] = origin[j.exp]]
            /\ job' = {} /\ UNCHANGED <<records, apps>>
            BY <1>1, <1>8 DEF ESave, EEnd, surface
      <2>2. UNCHANGED <<dnsId[e], tracked[e], eready[e], observed[e]>>
            BY <1>1, <2>1 DEF TypeOK
      <2> QED BY <2>1, <2>2 DEF Frame
<1>9. CASE EFinAccess
      <2>1. apps' = apps \ {j.exp} /\ EGoTo(j, "finDrop") /\ UNCHANGED <<estatus, records>>
            BY <1>1, <1>9 DEF EFinAccess
      <2> QED BY <1>1, <1>2, <2>1 DEF Frame, EGoTo, estatus
<1>10. CASE EFinDrop
      BY <1>10, QuietFrame DEF EFinDrop, EEnd, surface
<1> QED BY <1>4, <1>5, <1>6, <1>7, <1>8, <1>9, <1>10 DEF ExposurePass

LEMMA SurfaceStep ==
    ASSUME TypeOK, IngressInv, NEW e \in Exposures, ExposureSettled(e), Undisturbed(e),
           [Next]_vars
    PROVE  Frame(e) /\ \A k \in job' : k.exp = e => SeesSurface(k)
<1> DEFINE Goal == Frame(e) /\ \A k \in job' : k.exp = e => SeesSurface(k)
<1>1. /\ exposure[e] = "live" /\ origin[e] # NoOrigin /\ tobj # "gone"
      /\ Alone(e) /\ Published(e)
      /\ \A j \in job : j.exp = e => SeesSurface(j)
      BY DEF ExposureSettled
<1>2. ~Fault
      BY DEF Undisturbed, Fault, TypeOK, TunnelTypeOK
<1>3. ASSUME UNCHANGED <<estatus, records, apps, job>> PROVE Goal
      BY <1>1, <1>3, QuietFrame
<1>4. ASSUME NEW f \in Exposures, EBegin(f) PROVE Goal
      <2>1. UNCHANGED <<records, apps>>
            BY <1>4 DEF EBegin, surface
      <2>2. CASE f = e
            <3>1. /\ job' = {[at |-> "access", exp |-> e, tid |-> tid,
                              route |-> \E r \in troutes : r.exp = e,
                              manage |-> manage, access |-> access[e],
                              rec |-> dnsId[e], app |-> tracked[e]]}
                  /\ UNCHANGED estatus
                  BY <1>1, <1>4, <2>2 DEF EBegin, Alone
            <3> QED BY <1>1, <2>1, <3>1, QuietFrame DEF SeesSurface, Published
      <2>3. CASE f # e
            <3>1. /\ Stuck(f) \/ UNCHANGED estatus
                  /\ \A k \in job' : k.exp = f
                  BY <1>4 DEF EBegin
            <3>2. Stuck(f) => UNCHANGED <<dnsId[e], tracked[e], eready[e], observed[e]>>
                  BY <2>3, OtherStatus DEF Stuck
            <3> QED BY <2>1, <2>3, <3>1, <3>2 DEF Frame, estatus
      <2> QED BY <2>2, <2>3
<1>5. ASSUME NEW f \in Exposures, EFinalize(f) PROVE Goal
      <2>1. f # e /\ UNCHANGED <<records, apps>>
            BY <1>1, <1>5 DEF EFinalize, surface
      <2>2. /\ Stuck(f) \/ UNCHANGED estatus
            /\ \A k \in job' : k.exp = f
            BY <1>5 DEF EFinalize
      <2>3. Stuck(f) => UNCHANGED <<dnsId[e], tracked[e], eready[e], observed[e]>>
            BY <2>1, OtherStatus DEF Stuck
      <2> QED BY <2>1, <2>2, <2>3 DEF Frame, estatus
<1>6. CASE ExposurePass
      <2>1. PICK j \in job : TRUE
            BY <1>6 DEF ExposurePass, EAccess, EListDns, EWriteDns, EUndoDns, ESave,
               EFinDns, EFinAccess, EFinDrop
      <2>2. CASE j.exp = e
            BY <1>6, <2>2, OwnPass DEF ExposurePass
      <2>3. CASE j.exp # e
            BY <1>6, <2>3, OtherPass
      <2> QED BY <2>2, <2>3
<1>7. CASE User
      <2>1. UNCHANGED <<estatus, surface, job>>
            BY <1>7 DEF User, Edit, Apply, DeleteExposure, ingressVars
      <2> QED BY <1>3, <2>1 DEF surface
<1>8. CASE Faulty
      BY <1>2, <1>8 DEF Faulty, EditDns, AbortExposure, EAccessFails, EDnsFails,
         Meddling, AbortTunnel, EditConfig, LoseTunnel
<1>9. CASE UNCHANGED vars \/ UNCHANGED ingressVars
      BY <1>3, <1>9 DEF vars, ingressVars, estatus, surface
<1> QED BY <1>4, <1>5, <1>6, <1>7, <1>8, <1>9 DEF Next

THEOREM SurfaceIsStable == Spec => SurfaceStays
<1>1. TypeOK /\ IngressInv /\ [Next]_vars =>
          [\A e \in Exposures : ExposureSettled(e) /\ Undisturbed(e)
             => ExposureSettled(e)' /\ UNCHANGED Own(e)]_vars
      BY SurfaceStep, SettledStays
<1> QED BY <1>1, IngressInvariance, PTL DEF Spec, SurfaceStays

\* So does the tunnel, as the composition implements its specification.
THEOREM IngressTunnelStable == Spec => TunnelStays
BY ImplementsTunnel, TunnelIsStable
=============================================================================
