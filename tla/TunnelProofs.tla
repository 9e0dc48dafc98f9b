---------------------------- MODULE TunnelProofs ----------------------------
(***************************************************************************)
(* Proofs about Tunnel, for every set of Exposures, routes, origins and    *)
(* tunnel ids and any number of faults.                                    *)
(***************************************************************************)
EXTENDS Tunnel, TLAPS

-----------------------------------------------------------------------------
(* Types.                                                                  *)

\* The routes that Build makes of the Exposures are routes.
LEMMA BuildType ==
    ASSUME TunnelTypeOK
    PROVE  Build \subseteq Route
BY DEF TunnelTypeOK, Build, Present, Route

\* The document of a set of routes is a set of rules.
LEMMA DocType ==
    ASSUME NEW R \in SUBSET Route
    PROVE  DocOf(R) \in SUBSET Rule
BY DEF DocOf, Route, Rule

\* The tunnels with a name have ids.
LEMMA NamedType ==
    ASSUME TunnelTypeOK, NEW n
    PROVE  Named(n) \subseteq TunnelIds
BY DEF TunnelTypeOK, Named

\* A pass that is cut short clears Ready or leaves it.
LEMMA AbortReady ==
    ASSUME TunnelTypeOK, AbortTunnel
    PROVE  tready' \in BOOLEAN /\ (tready' => tready)
<1>1. tready \in BOOLEAN
      BY DEF TunnelTypeOK
<1>2. tready' = tready \/ tready' = FALSE
      BY DEF AbortTunnel
<1>3. CASE tready' = tready
      BY <1>1, <1>3, Zenon
<1>4. CASE tready' = FALSE
      BY <1>4, Zenon
<1> QED BY <1>2, <1>3, <1>4

LEMMA TypeStep ==
    ASSUME TunnelTypeOK, [TunnelNext]_allTunnelVars
    PROVE  TunnelTypeOK'
<1> USE TunnelAssumption DEF TunnelTypeOK, objects, tstatus, remote, workload,
        tpass, tunnelVars, Names, Lives, TunnelSteps
<1>1. CASE UNCHANGED allTunnelVars
      BY <1>1 DEF allTunnelVars
<1>2. CASE TBegin
      BY <1>2 DEF TBegin
<1>3. CASE GetTunnel
      <2>1. tpc' \in TunnelSteps /\ lid' \subseteq TunnelIds /\ lroutes' \subseteq Route
            BY <1>3 DEF GetTunnel, TNotReady, TEnd, TGoTo
      <2>2. /\ tready' \in BOOLEAN
            /\ UNCHANGED <<tid, thash, troutes>>
            BY <1>3 DEF GetTunnel, TNotReady
      <2> QED BY <1>3, <2>1, <2>2 DEF GetTunnel
<1>27. CASE RenameTunnel
      <2>1. tunnels' \subseteq [id : TunnelIds, name : Names]
            BY <1>27 DEF RenameTunnel
      <2>2. tpc' \in TunnelSteps /\ lid' \subseteq TunnelIds /\ lroutes' \subseteq Route
            BY <1>27 DEF RenameTunnel, TEnd
      <2> QED BY <1>27, <2>1, <2>2 DEF RenameTunnel
<1>4. CASE ListTunnels
      BY <1>4, NamedType DEF ListTunnels, TForeign, TEnd, TGoTo
<1>5. CASE ListLegacy
      BY <1>5 DEF ListLegacy, TForeign, TEnd, TGoTo
<1>6. CASE CreateTunnel
      BY <1>6 DEF CreateTunnel, FreeTunnelIds
<1>7. CASE SaveTunnelId
      BY <1>7 DEF SaveTunnelId, TGoTo
<1>8. CASE UpsertTokenSecret
      BY <1>8 DEF UpsertTokenSecret, TNotReady, TEnd, TGoTo
<1>9. CASE UpsertDaemonSet
      BY <1>9 DEF UpsertDaemonSet, TGoTo
<1>10. CASE BuildConfig
      BY <1>10, BuildType DEF BuildConfig, TNotReady, TEnd
<1>11. CASE PutConfig
      <2>1. DocOf(lroutes) \in SUBSET Rule
            BY DocType
      <2>2. config' \in [TunnelIds -> SUBSET SUBSET Rule]
            <3> HIDE DEF TunnelTypeOK
            <3>1. config \in [TunnelIds -> SUBSET SUBSET Rule]
                  BY DEF TunnelTypeOK
            <3>2. \/ UNCHANGED config
                  \/ config' = [i \in TunnelIds |->
                                  IF i \in lid THEN {DocOf(lroutes)} ELSE config[i]]
                  BY <1>11 DEF PutConfig
            <3>3. {DocOf(lroutes)} \in SUBSET SUBSET Rule
                  BY <2>1
            <3> QED BY <3>1, <3>2, <3>3
      <2> QED BY <1>11, <2>2 DEF PutConfig, TEnd, TGoTo
<1>12. CASE SaveConfig
      <2>1. DocOf(lroutes) \in SUBSET Rule
            BY DocType
      <2> QED BY <1>12, <2>1 DEF SaveConfig, TGoTo
<1>13. CASE CheckWorkload
      BY <1>13 DEF CheckWorkload, TEnd
<1>14. CASE TFinalize
      BY <1>14 DEF TFinalize, TNotReady, TEnd, TGoTo
<1>15. CASE StopCloudflared
      BY <1>15 DEF StopCloudflared, TNotReady, TEnd, TGoTo
<1>16. CASE FinGetTunnel
      BY <1>16 DEF FinGetTunnel, TNotReady, TEnd, TGoTo
<1>17. CASE FinDeleteTunnel
      BY <1>17 DEF FinDeleteTunnel, TGoTo
<1>18. CASE FinDropTunnel
      BY <1>18 DEF FinDropTunnel, TEnd
<1>19. CASE WorkloadStep
      BY <1>19 DEF WorkloadStep, PodsStart, DaemonSetRemoved, PodsRemoved
<1>20. CASE AbortTunnel
      <2>1. tready' \in BOOLEAN
            BY <1>20, AbortReady
      <2>2. UNCHANGED <<objects, tobj, tid, thash, troutes, remote, workload>>
            BY <1>20 DEF AbortTunnel
      <2>3. faults' \in 0..MaxFaults
            BY <1>20 DEF AbortTunnel, Fault
      <2>4. tpc' = "idle" /\ lid' = {} /\ lroutes' = {}
            BY <1>20 DEF AbortTunnel, TEnd
      <2> QED BY <2>1, <2>2, <2>3, <2>4
<1>21. CASE EditConfig
      BY <1>21 DEF EditConfig, Fault, RemoteIds
<1>22. CASE LoseTunnel
      BY <1>22 DEF LoseTunnel, Fault
<1>23. CASE DeleteTunnel
      BY <1>23 DEF DeleteTunnel
<1>24. CASE OtherFault
      BY <1>24 DEF OtherFault, Fault
<1>25. CASE \E e \in Exposures : ExposureChange(e)
      BY <1>25 DEF ExposureChange
<1>26. CASE \E r \in Routes : RouteChange(r)
      BY <1>26 DEF RouteChange
<1> QED BY <1>1, <1>2, <1>3, <1>4, <1>5, <1>6, <1>7, <1>8, <1>9, <1>10, <1>11,
           <1>12, <1>13, <1>14, <1>15, <1>16, <1>17, <1>18, <1>19, <1>20,
           <1>21, <1>22, <1>23, <1>24, <1>25, <1>26, <1>27
           DEF TunnelNext, TunnelStep, Meddling

\* It starts well typed.
LEMMA TunnelInitial == TunnelInit => TunnelTypeOK
<1> SUFFICES ASSUME TunnelInit PROVE TunnelTypeOK
    OBVIOUS
<1>1. PICK old \in {{}} \cup IF Legacy THEN {{i} : i \in TunnelIds} ELSE {} :
         /\ tunnels = {[id |-> i, name |-> "legacy"] : i \in old}
         /\ tid \in {{}, old}
         /\ used = old
      BY DEF TunnelInit
<1>2. old \subseteq TunnelIds
      OBVIOUS
<1>3. /\ tid \subseteq TunnelIds /\ used \subseteq TunnelIds
      /\ tunnels \subseteq [id : TunnelIds, name : Names]
      BY <1>1, <1>2 DEF Names
<1>4. faults \in 0..MaxFaults
      BY TunnelAssumption DEF TunnelInit
<1>5. config \in [TunnelIds -> SUBSET SUBSET Rule]
      BY DEF TunnelInit
<1>6. /\ exposure \in [Exposures -> Lives]
      /\ origin \in [Exposures -> Origins \cup {NoOrigin}]
      /\ rlife \in [Routes -> Lives]
      /\ tobj \in {"new", "live", "deleting", "gone"}
      BY DEF TunnelInit, Lives
<1>7. /\ thash \subseteq SUBSET Rule /\ troutes \subseteq Route
      /\ tready \in BOOLEAN
      BY DEF TunnelInit
<1>8. /\ secret \subseteq TunnelIds /\ dtoken \subseteq TunnelIds
      /\ pods \subseteq TunnelIds /\ lid \subseteq TunnelIds
      /\ daemon \in {"none", "up", "terminating"}
      /\ tpc \in TunnelSteps /\ lroutes \subseteq Route
      BY DEF TunnelInit, TunnelSteps
<1> QED BY <1>3, <1>4, <1>5, <1>6, <1>7, <1>8 DEF TunnelTypeOK

\* Every variable of the tunnel controller, its workload and the tunnels at
\* Cloudflare keeps its type through passes, crashes and meddling.
THEOREM TunnelTypeCorrect == TunnelSpec => []TunnelTypeOK
BY TunnelInitial, TypeStep, PTL DEF TunnelSpec

-----------------------------------------------------------------------------
(* The pass and the workload.                                              *)

\* The steps of a finalizer pass, and those that follow the tunnel's identity.
DeleteSteps == RemovalSteps \cup {"stop"}

BuiltSteps == {"config", "put", "saveConfig", "workload"}

\* A pass that has its tunnel works on the one in the status, and the Secret and
\* the DaemonSet follow it in this order.
PassInv ==
    /\ tpc \in {"get", "rename"} => tid # {}
    /\ tpc = "saveId" => lid # {}
    /\ tpc \in {"token", "daemonSet"} \cup BuiltSteps => lid = tid /\ lid # {}
    /\ tpc \in {"daemonSet"} \cup BuiltSteps => secret = lid
    /\ tpc \in BuiltSteps => dtoken = lid /\ daemon = "up"
    /\ tpc = "workload" => thash # {}

\* Only a finalizer pass takes the DaemonSet down, after Ready has gone.
StopInv ==
    /\ daemon = "none" => dtoken = {}
    /\ tpc \in DeleteSteps => tobj = "deleting"
    /\ daemon = "terminating" =>
          /\ ~tready
          /\ tobj \in {"deleting", "gone"}
          /\ tpc \in DeleteSteps \cup {"idle"}
    /\ tpc \in RemovalSteps => ~tready

\* Whatever runs, is tracked or is found was assigned by Cloudflare.
AssignedInv ==
    /\ RemoteIds \subseteq used
    /\ tid \subseteq used /\ lid \subseteq used
    /\ dtoken \subseteq used /\ pods \subseteq used

\* A hash in the status, or about to be there, is that of a document that some
\* assigned tunnel still has, until the finalizer deletes the tracked one.
WrittenInv ==
    /\ tpc = "saveConfig" => \E i \in used : config[i] # {}
    /\ /\ thash # {}
       /\ tready \/ tobj \in {"new", "live"} \/ tpc \notin DeleteSteps \cup {"idle"}
       => \E i \in used : config[i] # {}

\* A Ready tunnel has its workload.
ReadyInv ==
    tready => /\ tid # {} /\ secret = tid /\ dtoken = tid
              /\ daemon = "up" /\ pods # {} /\ thash # {}

TunnelInv == PassInv /\ StopInv /\ ReadyInv /\ StoppedBeforeDeleted

LEMMA TunnelInvStep ==
    ASSUME TunnelTypeOK, TunnelInv, [TunnelNext]_allTunnelVars
    PROVE  TunnelInv'
<1> USE DEF TunnelTypeOK, TunnelInv, PassInv, StopInv, ReadyInv,
        StoppedBeforeDeleted, DeleteSteps, BuiltSteps, RemovalSteps,
        objects, tstatus, remote, workload, tpass, tunnelVars
<1>1. CASE UNCHANGED allTunnelVars
      BY <1>1 DEF allTunnelVars
<1>2. CASE TBegin
      BY <1>2 DEF TBegin
<1>3. CASE GetTunnel
      BY <1>3 DEF GetTunnel, TNotReady, TEnd, TGoTo
<1>27. CASE RenameTunnel
      BY <1>27 DEF RenameTunnel, TEnd
<1>4. CASE ListTunnels
      BY <1>4 DEF ListTunnels, TForeign, TEnd, TGoTo
<1>5. CASE ListLegacy
      BY <1>5 DEF ListLegacy, TForeign, TEnd, TGoTo
<1>6. CASE CreateTunnel
      BY <1>6 DEF CreateTunnel
<1>7. CASE SaveTunnelId
      BY <1>7 DEF SaveTunnelId, TGoTo
<1>8. CASE UpsertTokenSecret
      BY <1>8 DEF UpsertTokenSecret, TNotReady, TEnd, TGoTo
<1>9. CASE UpsertDaemonSet
      BY <1>9 DEF UpsertDaemonSet, TGoTo
<1>10. CASE BuildConfig
      BY <1>10 DEF BuildConfig, TNotReady, TEnd
<1>11. CASE PutConfig
      BY <1>11 DEF PutConfig, TEnd, TGoTo
<1>12. CASE SaveConfig
      BY <1>12 DEF SaveConfig, TGoTo
<1>13. CASE CheckWorkload
      BY <1>13 DEF CheckWorkload, TEnd
<1>14. CASE TFinalize
      BY <1>14 DEF TFinalize, TNotReady, TEnd, TGoTo
<1>15. CASE StopCloudflared
      BY <1>15 DEF StopCloudflared, TNotReady, TEnd, TGoTo
<1>16. CASE FinGetTunnel
      BY <1>16 DEF FinGetTunnel, TNotReady, TEnd, TGoTo
<1>17. CASE FinDeleteTunnel
      BY <1>17 DEF FinDeleteTunnel, TGoTo
<1>18. CASE FinDropTunnel
      BY <1>18 DEF FinDropTunnel, TEnd
<1>19. CASE WorkloadStep
      BY <1>19 DEF WorkloadStep, PodsStart, DaemonSetRemoved, PodsRemoved
<1>20. CASE AbortTunnel
      <2>1. tready' => tready
            BY <1>20, AbortReady
      <2>2. UNCHANGED <<objects, tobj, tid, thash, troutes, remote, workload>>
            BY <1>20 DEF AbortTunnel
      <2>3. tpc' = "idle" /\ lid' = {} /\ lroutes' = {}
            BY <1>20 DEF AbortTunnel, TEnd
      <2> QED BY <2>1, <2>2, <2>3
<1>21. CASE EditConfig
      BY <1>21 DEF EditConfig
<1>22. CASE LoseTunnel
      BY <1>22 DEF LoseTunnel
<1>23. CASE DeleteTunnel
      BY <1>23 DEF DeleteTunnel
<1>24. CASE OtherFault
      BY <1>24 DEF OtherFault
<1>25. CASE \E e \in Exposures : ExposureChange(e)
      BY <1>25 DEF ExposureChange
<1>26. CASE \E r \in Routes : RouteChange(r)
      BY <1>26 DEF RouteChange
<1> QED BY <1>1, <1>2, <1>3, <1>4, <1>5, <1>6, <1>7, <1>8, <1>9, <1>10, <1>11,
           <1>12, <1>13, <1>14, <1>15, <1>16, <1>17, <1>18, <1>19, <1>20,
           <1>21, <1>22, <1>23, <1>24, <1>25, <1>26, <1>27
           DEF TunnelNext, TunnelStep, Meddling

THEOREM TunnelInvariance == TunnelSpec => []TunnelInv
<1>1. TunnelInit => TunnelInv
      BY DEF TunnelInit, TunnelInv, PassInv, StopInv, ReadyInv,
             StoppedBeforeDeleted, DeleteSteps, BuiltSteps, RemovalSteps
<1> QED BY <1>1, TunnelTypeCorrect, TunnelInvStep, PTL DEF TunnelSpec

\* The rename leaves the ids of the tunnels what they are.
LEMMA RenameKeepsIds ==
    ASSUME RenameTunnel
    PROVE  RemoteIds' = RemoteIds
<1>1. CASE UNCHANGED tunnels
      BY <1>1 DEF RemoteIds
<1>2. CASE /\ tid \subseteq RemoteIds
           /\ tunnels' = {t \in tunnels : t.id \notin tid}
                         \cup {[id |-> i, name |-> "generated"] : i \in tid}
      <2>1. ASSUME NEW t \in tunnels
            PROVE  t.id \in RemoteIds'
            <3>1. CASE t.id \notin tid
                  <4>1. t \in tunnels'
                        BY <1>2, <3>1
                  <4> QED BY <4>1 DEF RemoteIds
            <3>2. CASE t.id \in tid
                  <4> DEFINE u == [id |-> t.id, name |-> "generated"]
                  <4>1. u \in tunnels' /\ u.id = t.id
                        BY <1>2, <3>2
                  <4> HIDE DEF u
                  <4> QED BY <4>1 DEF RemoteIds
            <3> QED BY <3>1, <3>2
      <2>2. ASSUME NEW u \in tunnels'
            PROVE  u.id \in RemoteIds
            <3>1. CASE u \in tunnels
                  BY <3>1 DEF RemoteIds
            <3>2. CASE \E i \in tid : u = [id |-> i, name |-> "generated"]
                  BY <1>2, <3>2
            <3> QED BY <1>2, <2>2, <3>1, <3>2
      <2>3. RemoteIds \subseteq RemoteIds'
            BY <2>1 DEF RemoteIds
      <2>4. RemoteIds' \subseteq RemoteIds
            BY <2>2 DEF RemoteIds
      <2> QED BY <2>3, <2>4
<1> QED BY <1>1, <1>2 DEF RenameTunnel

LEMMA AssignedStep ==
    ASSUME TunnelTypeOK, AssignedInv, [TunnelNext]_allTunnelVars
    PROVE  AssignedInv'
<1> USE DEF AssignedInv, objects, tstatus, remote, workload, tpass, tunnelVars
<1>1. CASE CreateTunnel
      <2>1. PICK i \in FreeTunnelIds :
               /\ tunnels' = tunnels \cup {[id |-> i, name |-> "generated"]}
               /\ used' = used \cup {i}
               /\ lid' = {i}
            BY <1>1 DEF CreateTunnel
      <2>2. ASSUME NEW u \in tunnels'
            PROVE  u.id \in used'
            <3>1. CASE u \in tunnels
                  BY <2>1, <3>1 DEF RemoteIds
            <3>2. CASE u = [id |-> i, name |-> "generated"]
                  BY <2>1, <3>2
            <3> QED BY <2>1, <2>2, <3>1, <3>2
      <2>3. RemoteIds' \subseteq used'
            BY <2>2 DEF RemoteIds
      <2> QED BY <1>1, <2>1, <2>3 DEF CreateTunnel
<1>2. CASE RenameTunnel
      BY <1>2, RenameKeepsIds DEF RenameTunnel, TEnd
<1>3. CASE ListTunnels
      <2>1. Named("generated") \subseteq RemoteIds
            BY DEF Named, RemoteIds
      <2> QED BY <1>3, <2>1 DEF ListTunnels, TForeign, TEnd, TGoTo, RemoteIds
<1>4. CASE LoseTunnel
      <2>1. PICK t \in tunnels : tunnels' \in {tunnels \ {t},
                  (tunnels \ {t}) \cup {[id |-> t.id, name |-> "other"]}}
            BY <1>4 DEF LoseTunnel
      <2>2. ASSUME NEW u \in tunnels'
            PROVE  u.id \in RemoteIds
            <3>1. CASE u \in tunnels
                  BY <3>1 DEF RemoteIds
            <3>2. CASE u = [id |-> t.id, name |-> "other"]
                  <4>1. u.id = t.id
                        BY <3>2
                  <4> QED BY <4>1 DEF RemoteIds
            <3> QED BY <2>1, <2>2, <3>1, <3>2
      <2>3. RemoteIds' \subseteq RemoteIds
            BY <2>2 DEF RemoteIds
      <2> QED BY <1>4, <2>3 DEF LoseTunnel
<1>5. CASE FinDeleteTunnel
      BY <1>5 DEF FinDeleteTunnel, TGoTo, RemoteIds
<1>6. CASE UNCHANGED allTunnelVars
      BY <1>6 DEF allTunnelVars, RemoteIds
<1>7. CASE TBegin \/ GetTunnel
      BY <1>7 DEF TBegin, GetTunnel, TNotReady, TEnd, TGoTo, RemoteIds
<1>8. CASE ListLegacy \/ SaveTunnelId
      BY <1>8 DEF ListLegacy, SaveTunnelId, TForeign, TEnd, TGoTo, RemoteIds
<1>9. CASE UpsertTokenSecret \/ UpsertDaemonSet
      BY <1>9 DEF UpsertTokenSecret, UpsertDaemonSet, TNotReady, TEnd, TGoTo, RemoteIds
<1>10. CASE BuildConfig \/ PutConfig
      BY <1>10 DEF BuildConfig, PutConfig, TNotReady, TEnd, TGoTo, RemoteIds
<1>11. CASE SaveConfig \/ CheckWorkload
      BY <1>11 DEF SaveConfig, CheckWorkload, TEnd, TGoTo, RemoteIds
<1>12. CASE TFinalize \/ StopCloudflared
      BY <1>12 DEF TFinalize, StopCloudflared, TNotReady, TEnd, TGoTo, RemoteIds
<1>13. CASE FinGetTunnel \/ FinDropTunnel
      BY <1>13 DEF FinGetTunnel, FinDropTunnel, TNotReady, TEnd, TGoTo, RemoteIds
<1>14. CASE WorkloadStep
      BY <1>14 DEF WorkloadStep, PodsStart, DaemonSetRemoved, PodsRemoved, RemoteIds
<1>15. CASE AbortTunnel
      BY <1>15 DEF AbortTunnel, TEnd, RemoteIds
<1>16. CASE EditConfig \/ DeleteTunnel \/ OtherFault
      BY <1>16 DEF EditConfig, DeleteTunnel, OtherFault, RemoteIds
<1>17. CASE \E e \in Exposures : ExposureChange(e)
      BY <1>17 DEF ExposureChange, RemoteIds
<1>18. CASE \E r \in Routes : RouteChange(r)
      BY <1>18 DEF RouteChange, RemoteIds
<1> QED BY <1>1, <1>2, <1>3, <1>4, <1>5, <1>6, <1>7, <1>8, <1>9, <1>10, <1>11,
           <1>12, <1>13, <1>14, <1>15, <1>16, <1>17, <1>18
           DEF TunnelNext, TunnelStep, Meddling

\* A document stays as long as nobody deletes its tunnel.
LEMMA WrittenFrame ==
    ASSUME WrittenInv, UNCHANGED <<config, used>>,
           tpc' = "saveConfig" => tpc = "saveConfig",
           thash' = thash,
           (\/ tready' \/ tobj' \in {"new", "live"}
            \/ tpc' \notin DeleteSteps \cup {"idle"})
             => \/ tready \/ tobj \in {"new", "live"}
                \/ tpc \notin DeleteSteps \cup {"idle"}
    PROVE  WrittenInv'
BY DEF WrittenInv, DeleteSteps, RemovalSteps

LEMMA WrittenStep ==
    ASSUME TunnelTypeOK, TunnelInv, AssignedInv, WrittenInv,
           [TunnelNext]_allTunnelVars
    PROVE  WrittenInv'
<1> USE DEF DeleteSteps, RemovalSteps, objects, tstatus, remote, workload,
        tpass, tunnelVars
<1>1. CASE PutConfig
      <2>1. CASE lid \subseteq RemoteIds
            <3>1. PICK i \in lid : i \in used
                  BY <1>1 DEF PutConfig, TunnelInv, PassInv, BuiltSteps, AssignedInv
            <3>2. i \in TunnelIds
                  BY <3>1 DEF TunnelTypeOK
            <3>3. config'[i] = {DocOf(lroutes)} /\ used' = used
                  BY <1>1, <2>1, <3>1, <3>2 DEF PutConfig
            <3> QED BY <3>1, <3>3 DEF WrittenInv
      <2>2. CASE ~(lid \subseteq RemoteIds)
            BY <1>1, <2>2, WrittenFrame DEF PutConfig, TEnd
      <2> QED BY <2>1, <2>2
<1>2. CASE SaveConfig
      BY <1>2 DEF SaveConfig, TGoTo, WrittenInv
<1>3. CASE CreateTunnel
      BY <1>3 DEF CreateTunnel, WrittenInv
<1>4. CASE EditConfig
      <2>1. PICK i \in RemoteIds : config' = [config EXCEPT ![i] = {{}}]
            BY <1>4 DEF EditConfig
      <2>2. \A j \in used : config[j] # {} => config'[j] # {}
            BY <2>1 DEF TunnelTypeOK
      <2> QED BY <1>4, <2>2 DEF EditConfig, WrittenInv
<1>5. CASE FinDeleteTunnel
      BY <1>5 DEF FinDeleteTunnel, TGoTo, WrittenInv, TunnelInv, StopInv
<1>6. CASE AbortTunnel
      <2>1. tready' => tready
            BY <1>6, AbortReady
      <2>2. UNCHANGED <<thash, config, used, tobj>> /\ tpc' = "idle"
            BY <1>6 DEF AbortTunnel, TEnd
      <2> QED BY <2>1, <2>2, WrittenFrame
<1>7. CASE UNCHANGED allTunnelVars
      BY <1>7, WrittenFrame DEF allTunnelVars
<1>8. CASE TBegin
      BY <1>8, WrittenFrame DEF TBegin
<1>9. CASE GetTunnel \/ RenameTunnel
      BY <1>9, WrittenFrame DEF GetTunnel, RenameTunnel, TNotReady, TEnd, TGoTo
<1>10. CASE ListTunnels \/ ListLegacy
      BY <1>10, WrittenFrame DEF ListTunnels, ListLegacy, TForeign, TEnd, TGoTo
<1>11. CASE SaveTunnelId \/ UpsertDaemonSet
      BY <1>11, WrittenFrame DEF SaveTunnelId, UpsertDaemonSet, TGoTo
<1>12. CASE UpsertTokenSecret \/ BuildConfig
      BY <1>12, WrittenFrame DEF UpsertTokenSecret, BuildConfig, TNotReady, TEnd, TGoTo
<1>13. CASE CheckWorkload
      BY <1>13, WrittenFrame DEF CheckWorkload, TEnd
<1>14. CASE TFinalize \/ StopCloudflared
      BY <1>14, WrittenFrame DEF TFinalize, StopCloudflared, TNotReady, TEnd, TGoTo
<1>15. CASE FinGetTunnel \/ FinDropTunnel
      BY <1>15, WrittenFrame DEF FinGetTunnel, FinDropTunnel, TNotReady, TEnd, TGoTo
<1>16. CASE WorkloadStep
      BY <1>16, WrittenFrame DEF WorkloadStep, PodsStart, DaemonSetRemoved, PodsRemoved
<1>17. CASE LoseTunnel \/ DeleteTunnel \/ OtherFault
      BY <1>17, WrittenFrame DEF LoseTunnel, DeleteTunnel, OtherFault
<1>18. CASE \E e \in Exposures : ExposureChange(e)
      BY <1>18, WrittenFrame DEF ExposureChange
<1>19. CASE \E r \in Routes : RouteChange(r)
      BY <1>19, WrittenFrame DEF RouteChange
<1> QED BY <1>1, <1>2, <1>3, <1>4, <1>5, <1>6, <1>7, <1>8, <1>9, <1>10, <1>11,
           <1>12, <1>13, <1>14, <1>15, <1>16, <1>17, <1>18, <1>19
           DEF TunnelNext, TunnelStep, Meddling

LEMMA AssignedInitial == TunnelInit => AssignedInv /\ WrittenInv
<1> SUFFICES ASSUME TunnelInit PROVE AssignedInv /\ WrittenInv
    OBVIOUS
<1>1. PICK old \in {{}} \cup IF Legacy THEN {{i} : i \in TunnelIds} ELSE {} :
         /\ tunnels = {[id |-> i, name |-> "legacy"] : i \in old}
         /\ tid \in {{}, old}
         /\ used = old
      BY DEF TunnelInit
<1>2. RemoteIds \subseteq used
      BY <1>1 DEF RemoteIds
<1>3. lid = {} /\ dtoken = {} /\ pods = {} /\ tpc = "idle" /\ thash = {}
      BY DEF TunnelInit
<1> QED BY <1>1, <1>2, <1>3 DEF AssignedInv, WrittenInv

\* A Ready tunnel runs the Secret and the DaemonSet of the tunnel its status
\* tracks, however often it is lost, recreated and its passes cut short; and as
\* long as it was never recreated, its pods run that tunnel and a document has
\* been written to it (Reconcile, daemonSetReady).
THEOREM ReadyTunnelRuns == TunnelSpec => []ReadyRunsTracked
<1>1. TunnelInit => AssignedInv /\ WrittenInv
      BY AssignedInitial
<1>2. TunnelTypeOK /\ AssignedInv /\ [TunnelNext]_allTunnelVars => AssignedInv'
      BY AssignedStep
<1>3. TunnelTypeOK /\ TunnelInv /\ AssignedInv /\ WrittenInv
        /\ [TunnelNext]_allTunnelVars => WrittenInv'
      BY WrittenStep
<1>4. TunnelInv /\ AssignedInv /\ WrittenInv => ReadyRunsTracked
      BY DEF TunnelInv, ReadyInv, AssignedInv, WrittenInv, ReadyRunsTracked
<1> QED BY <1>1, <1>2, <1>3, <1>4, TunnelTypeCorrect, TunnelInvariance, PTL
        DEF TunnelSpec

\* The finalizer never deletes a tunnel that a DaemonSet or a pod still runs.
THEOREM StoppedFirst == TunnelSpec => []StoppedBeforeDeleted
BY TunnelInvariance, PTL DEF TunnelInv

-----------------------------------------------------------------------------
(* The document and its record in the status.                              *)

\* The steps of a pass that has no tunnel yet.
SearchSteps == {"list", "listLegacy", "create", "saveId"}

\* Without faults: a tracked tunnel is there until the finalizer deletes it, so
\* that only a pass without an id looks for one; nothing is recorded without an
\* id; and the record is that of the remote document, or is about to be.
RecordInv ==
    /\ tpc # "delSecret" /\ tobj # "gone" => tid \subseteq RemoteIds
    /\ tpc \in SearchSteps => tid = {}
    /\ tid = {} => thash = {}
    /\ thash # {} => thash = {DocOf(troutes)}
    /\ /\ tpc \notin {"saveConfig", "delSecret"} /\ tobj # "gone"
       /\ thash # {}
       => \A i \in tid : config[i] = thash
    /\ tpc = "saveId" => lid \subseteq RemoteIds
    /\ tpc = "saveConfig" => \A i \in tid : config[i] = {DocOf(lroutes)}
    /\ tpc # "idle" => tobj \in {"live", "deleting"}

LEMMA RecordStep ==
    ASSUME MaxFaults = 0, TunnelTypeOK, TunnelInv, RecordInv,
           [TunnelNext]_allTunnelVars
    PROVE  RecordInv'
<1> USE DEF RecordInv, SearchSteps, BuiltSteps, objects, tstatus, remote,
        workload, tpass, tunnelVars
<1>a. /\ tpc \in {"get", "rename"} => tid # {}
      /\ tpc \in {"token", "daemonSet"} \cup BuiltSteps => lid = tid /\ lid # {}
      /\ tid \subseteq TunnelIds /\ lid \subseteq TunnelIds
      BY DEF TunnelTypeOK, TunnelInv, PassInv
<1>b. ~Fault
      BY DEF Fault, TunnelTypeOK
<1>1. CASE UNCHANGED allTunnelVars
      BY <1>1 DEF allTunnelVars, RemoteIds
<1>2. CASE TBegin
      BY <1>2 DEF TBegin, RemoteIds
<1>3. CASE GetTunnel
      <2>1. tid \cap RemoteIds # {}
            BY <1>3, <1>a DEF GetTunnel
      <2>2. tpc' \in {"token", "rename", "idle"}
            BY <1>3, <2>1 DEF GetTunnel, TNotReady, TEnd, TGoTo
      <2>3. UNCHANGED <<tid, thash, troutes, config, tobj, tunnels>>
            BY <1>3 DEF GetTunnel, TNotReady
      <2>4. tpc = "get"
            BY <1>3 DEF GetTunnel
      <2> QED BY <2>2, <2>3, <2>4 DEF RemoteIds
<1>24. CASE RenameTunnel
      <2>1. /\ tpc = "rename" /\ tpc' \in {"token", "idle"}
            /\ UNCHANGED <<tid, thash, troutes, config, tobj>>
            BY <1>24 DEF RenameTunnel, TEnd
      <2> QED BY <1>24, <2>1, RenameKeepsIds
<1>4. CASE ListTunnels
      <2>1. Named("generated") \subseteq RemoteIds
            BY DEF Named, RemoteIds
      <2>2. /\ tpc = "list" /\ UNCHANGED <<tobj, config, tunnels, thash, troutes>>
            /\ tid' = {} /\ tpc' \in {"listLegacy", "saveId", "idle"}
            /\ tpc' = "saveId" => lid' = Named("generated")
            BY <1>4 DEF ListTunnels, TForeign, TEnd, TGoTo
      <2> QED BY <2>1, <2>2 DEF RemoteIds
<1>5. CASE ListLegacy
      BY <1>5 DEF ListLegacy, TForeign, TEnd, TGoTo, RemoteIds
<1>6. CASE CreateTunnel
      <2>1. /\ tpc = "create" /\ tpc' = "saveId"
            /\ UNCHANGED <<tid, thash, troutes, config, tobj>>
            BY <1>6 DEF CreateTunnel
      <2>2. PICK i \in FreeTunnelIds :
               /\ tunnels' = tunnels \cup {[id |-> i, name |-> "generated"]}
               /\ lid' = {i}
            BY <1>6 DEF CreateTunnel
      <2>3. RemoteIds \subseteq RemoteIds'
            BY <2>2 DEF RemoteIds
      <2>4. i \in RemoteIds'
            <3> DEFINE u == [id |-> i, name |-> "generated"]
            <3>1. u \in tunnels' /\ u.id = i
                  BY <2>2
            <3> HIDE DEF u
            <3> QED BY <3>1 DEF RemoteIds
      <2> QED BY <2>1, <2>2, <2>3, <2>4
<1>7. CASE SaveTunnelId
      <2>1. thash = {} /\ lid # {}
            BY <1>7 DEF SaveTunnelId, TunnelInv, PassInv
      <2> QED BY <1>7, <2>1 DEF SaveTunnelId, TGoTo, RemoteIds
<1>8. CASE UpsertTokenSecret
      BY <1>8 DEF UpsertTokenSecret, TNotReady, TEnd, TGoTo, RemoteIds
<1>9. CASE UpsertDaemonSet
      BY <1>9 DEF UpsertDaemonSet, TGoTo, RemoteIds
<1>10. CASE BuildConfig
      BY <1>10 DEF BuildConfig, TNotReady, TEnd, RemoteIds
<1>11. CASE PutConfig
      <2>1. tpc = "put" /\ lid = tid /\ lid \subseteq RemoteIds
            BY <1>11, <1>a DEF PutConfig
      <2>2. /\ config' = [i \in TunnelIds |->
                             IF i \in lid THEN {DocOf(lroutes)} ELSE config[i]]
            /\ tpc' = "saveConfig"
            /\ UNCHANGED <<lid, lroutes, tid, thash, troutes, tobj, tunnels>>
            BY <1>11, <2>1 DEF PutConfig, TGoTo
      <2>3. DocOf(lroutes)' = DocOf(lroutes) /\ DocOf(troutes)' = DocOf(troutes)
            BY <2>2 DEF DocOf
      <2>4. \A i \in tid : config'[i] = {DocOf(lroutes)}
            BY <1>a, <2>1, <2>2
      <2> QED BY <2>1, <2>2, <2>3, <2>4 DEF RemoteIds
<1>12. CASE SaveConfig
      <2>1. /\ tpc = "saveConfig" /\ tpc' = "workload"
            /\ thash' = {DocOf(lroutes)} /\ troutes' = lroutes
            /\ UNCHANGED <<tid, lid, lroutes, config, tobj, tunnels>>
            BY <1>12 DEF SaveConfig, TGoTo
      <2>2. DocOf(troutes)' = DocOf(lroutes)
            BY <2>1 DEF DocOf
      <2> QED BY <1>a, <2>1, <2>2 DEF RemoteIds
<1>13. CASE CheckWorkload
      BY <1>13, <1>a DEF CheckWorkload, TEnd, RemoteIds
<1>14. CASE TFinalize
      BY <1>14 DEF TFinalize, TNotReady, TEnd, TGoTo, RemoteIds
<1>15. CASE StopCloudflared
      BY <1>15 DEF StopCloudflared, TNotReady, TEnd, TGoTo, RemoteIds
<1>16. CASE FinGetTunnel
      BY <1>16 DEF FinGetTunnel, TNotReady, TEnd, TGoTo, RemoteIds
<1>17. CASE FinDeleteTunnel
      BY <1>17 DEF FinDeleteTunnel, TGoTo, RemoteIds
<1>18. CASE FinDropTunnel
      BY <1>18 DEF FinDropTunnel, TEnd, RemoteIds
<1>19. CASE WorkloadStep
      BY <1>19 DEF WorkloadStep, PodsStart, DaemonSetRemoved, PodsRemoved, RemoteIds
<1>20. CASE Meddling \/ OtherFault
      BY <1>20, <1>b DEF Meddling, AbortTunnel, EditConfig, LoseTunnel, OtherFault
<1>21. CASE DeleteTunnel
      BY <1>21 DEF DeleteTunnel, RemoteIds
<1>22. CASE \E e \in Exposures : ExposureChange(e)
      BY <1>22 DEF ExposureChange, RemoteIds
<1>23. CASE \E r \in Routes : RouteChange(r)
      BY <1>23 DEF RouteChange, RemoteIds
<1> QED BY <1>1, <1>2, <1>3, <1>4, <1>5, <1>6, <1>7, <1>8, <1>9, <1>10, <1>11,
           <1>12, <1>13, <1>14, <1>15, <1>16, <1>17, <1>18, <1>19, <1>20,
           <1>21, <1>22, <1>23, <1>24
           DEF TunnelNext, TunnelStep

\* Without faults the hash and the routes in the status are those of the remote
\* document (reconcileTunnelConfig), for any Exposures and any changes of them.
THEOREM StatusFollowsRemote ==
    ASSUME MaxFaults = 0
    PROVE  TunnelSpec => []StatusIsRemote
<1>1. TunnelInit => RecordInv
      <2> SUFFICES ASSUME TunnelInit
                   PROVE  RecordInv
          OBVIOUS
      <2>1. tid \subseteq RemoteIds
            <3>1. PICK old : /\ tunnels = {[id |-> i, name |-> "legacy"] : i \in old}
                             /\ tid \in {{}, old}
                  BY DEF TunnelInit
            <3> SUFFICES ASSUME NEW i \in tid
                         PROVE  i \in RemoteIds
                OBVIOUS
            <3> DEFINE u == [id |-> i, name |-> "legacy"]
            <3>2. u \in tunnels /\ u.id = i
                  BY <3>1
            <3> HIDE DEF u
            <3> QED BY <3>2 DEF RemoteIds
      <2> QED BY <2>1 DEF TunnelInit, RecordInv, SearchSteps
<1>2. TunnelTypeOK /\ TunnelInv /\ RecordInv /\ [TunnelNext]_allTunnelVars
        => RecordInv'
      BY RecordStep
<1>3. TunnelInv /\ RecordInv => StatusIsRemote
      BY DEF RecordInv, StatusIsRemote, TunnelInv, StopInv, DeleteSteps, RemovalSteps
<1> QED BY <1>1, <1>2, <1>3, TunnelTypeCorrect, TunnelInvariance, PTL DEF TunnelSpec

-----------------------------------------------------------------------------
(* What the routes rely on.                                                *)

\* There is at most one tracked tunnel, the pass works on at most one, and it
\* runs for an object that has its finalizer.
LifeInv ==
    /\ tid \in Life!TrackedIds
    /\ lid \in Life!TrackedIds
    /\ tpc # "idle" => tobj \in {"live", "deleting"}

\* A pass that lists the tunnels works on none or on one.
LEMMA OneListed ==
    ASSUME TunnelTypeOK, ListTunnels, lid \in Life!TrackedIds
    PROVE  lid' \in Life!TrackedIds
<1>1. CASE \/ Named("generated") = {}
           \/ ~(\A i, j \in Named("generated") : i = j)
      BY <1>1 DEF ListTunnels, TGoTo, TForeign, TEnd, Life!TrackedIds
<1>2. CASE /\ Named("generated") # {}
           /\ \A i, j \in Named("generated") : i = j
      <2>1. PICK i \in Named("generated") : TRUE
            BY <1>2
      <2>2. Named("generated") = {i} /\ i \in TunnelIds
            BY <1>2, <2>1, NamedType
      <2>3. lid' = {i}
            BY <1>2, <2>2 DEF ListTunnels
      <2> QED BY <2>2, <2>3 DEF Life!TrackedIds
<1> QED BY <1>1, <1>2

LEMMA LifeInvStep ==
    ASSUME TunnelTypeOK, TunnelInv, LifeInv, [TunnelNext]_allTunnelVars
    PROVE  LifeInv'
<1> USE DEF LifeInv, TunnelInv, StopInv, DeleteSteps, RemovalSteps,
        objects, tstatus, remote, workload, tpass, tunnelVars
<1>0. {} \in Life!TrackedIds
      BY DEF Life!TrackedIds
<1>1. CASE UNCHANGED allTunnelVars
      BY <1>1 DEF allTunnelVars
<1>2. CASE TBegin
      BY <1>2 DEF TBegin
<1>3. CASE GetTunnel
      BY <1>0, <1>3 DEF GetTunnel, TNotReady, TEnd, TGoTo
<1>27. CASE RenameTunnel
      BY <1>0, <1>27 DEF RenameTunnel, TEnd
<1>4. CASE ListTunnels
      <2>1. lid' \in Life!TrackedIds
            BY <1>4, OneListed
      <2>2. tid' = tid \/ tid' = {}
            BY <1>4 DEF ListTunnels, TForeign
      <2>3. tobj' = tobj /\ tpc = "list"
            BY <1>4 DEF ListTunnels
      <2> QED BY <1>0, <2>1, <2>2, <2>3
<1>5. CASE ListLegacy
      BY <1>0, <1>5 DEF ListLegacy, TForeign, TEnd, TGoTo
<1>6. CASE CreateTunnel
      <2>1. PICK i \in TunnelIds : lid' = {i}
            BY <1>6 DEF CreateTunnel, FreeTunnelIds
      <2> QED BY <1>6, <2>1 DEF CreateTunnel, Life!TrackedIds
<1>7. CASE SaveTunnelId
      BY <1>7 DEF SaveTunnelId, TGoTo
<1>8. CASE UpsertTokenSecret
      BY <1>0, <1>8 DEF UpsertTokenSecret, TNotReady, TEnd, TGoTo
<1>9. CASE UpsertDaemonSet
      BY <1>9 DEF UpsertDaemonSet, TGoTo
<1>10. CASE BuildConfig
      BY <1>0, <1>10 DEF BuildConfig, TNotReady, TEnd
<1>11. CASE PutConfig
      BY <1>0, <1>11 DEF PutConfig, TEnd, TGoTo
<1>12. CASE SaveConfig
      BY <1>12 DEF SaveConfig, TGoTo
<1>13. CASE CheckWorkload
      BY <1>0, <1>13 DEF CheckWorkload, TEnd
<1>14. CASE TFinalize
      BY <1>0, <1>14 DEF TFinalize, TNotReady, TEnd, TGoTo
<1>15. CASE StopCloudflared
      BY <1>0, <1>15 DEF StopCloudflared, TNotReady, TEnd, TGoTo
<1>16. CASE FinGetTunnel
      BY <1>0, <1>16 DEF FinGetTunnel, TNotReady, TEnd, TGoTo
<1>17. CASE FinDeleteTunnel
      BY <1>17 DEF FinDeleteTunnel, TGoTo
<1>18. CASE FinDropTunnel
      BY <1>0, <1>18 DEF FinDropTunnel, TEnd
<1>19. CASE WorkloadStep
      BY <1>19 DEF WorkloadStep, PodsStart, DaemonSetRemoved, PodsRemoved
<1>20. CASE AbortTunnel
      BY <1>0, <1>20 DEF AbortTunnel, TEnd
<1>21. CASE EditConfig
      BY <1>21 DEF EditConfig
<1>22. CASE LoseTunnel
      BY <1>22 DEF LoseTunnel
<1>23. CASE DeleteTunnel
      BY <1>23 DEF DeleteTunnel
<1>24. CASE OtherFault
      BY <1>24 DEF OtherFault
<1>25. CASE \E e \in Exposures : ExposureChange(e)
      BY <1>25 DEF ExposureChange
<1>26. CASE \E r \in Routes : RouteChange(r)
      BY <1>26 DEF RouteChange
<1> QED BY <1>1, <1>2, <1>3, <1>4, <1>5, <1>6, <1>7, <1>8, <1>9, <1>10, <1>11,
           <1>12, <1>13, <1>14, <1>15, <1>16, <1>17, <1>18, <1>19, <1>20,
           <1>21, <1>22, <1>23, <1>24, <1>25, <1>26, <1>27
           DEF TunnelNext, TunnelStep, Meddling

\* The finalizer is at work, past the listing of those that refer to the tunnel.
Closing == tpc \in DeleteSteps

\* A step that leaves the route objects, the tunnel's object and the finalizer
\* alone leaves the id alone or changes it in a pass.
LEMMA LifeFrame ==
    ASSUME LifeInv, LifeInv', UNCHANGED <<rlife, tobj>>,
           ~Closing, ~Closing',
           tid' = tid \/ tpc # "idle"
    PROVE  [Life!LifeNext]_Life!lifeVars
<1>1. (tpc \in RemovalSteps \cup {"stop"})' <=> (tpc \in RemovalSteps \cup {"stop"})
      BY DEF Closing, DeleteSteps
<1>2. CASE tid' = tid
      BY <1>1, <1>2 DEF Life!lifeVars
<1>3. CASE tpc # "idle"
      BY <1>1, <1>3 DEF LifeInv, Closing, DeleteSteps, Life!LifeNext,
         Life!TunnelLives, Life!TunnelGetsId
<1> QED BY <1>2, <1>3

\* The steps of Reconcile, past the first.
PassStep ==
    \/ GetTunnel \/ RenameTunnel \/ ListTunnels \/ ListLegacy \/ CreateTunnel
    \/ SaveTunnelId \/ UpsertTokenSecret \/ UpsertDaemonSet \/ BuildConfig \/ PutConfig
    \/ SaveConfig \/ CheckWorkload

LEMMA PassLeavesLife ==
    ASSUME PassStep
    PROVE  /\ UNCHANGED <<rlife, tobj>>
           /\ ~Closing /\ ~Closing'
           /\ tpc # "idle"
<1> USE DEF Closing, DeleteSteps, RemovalSteps, objects
<1>1. CASE GetTunnel
      BY <1>1 DEF GetTunnel, TNotReady, TEnd, TGoTo
<1>2. CASE ListTunnels
      BY <1>2 DEF ListTunnels, TForeign, TEnd, TGoTo
<1>3. CASE ListLegacy
      BY <1>3 DEF ListLegacy, TForeign, TEnd, TGoTo
<1>4. CASE CreateTunnel
      BY <1>4 DEF CreateTunnel
<1>5. CASE SaveTunnelId
      BY <1>5 DEF SaveTunnelId, TGoTo
<1>6. CASE UpsertTokenSecret
      BY <1>6 DEF UpsertTokenSecret, TNotReady, TEnd, TGoTo
<1>7. CASE UpsertDaemonSet
      BY <1>7 DEF UpsertDaemonSet, TGoTo
<1>8. CASE BuildConfig
      BY <1>8 DEF BuildConfig, TNotReady, TEnd
<1>9. CASE PutConfig
      BY <1>9 DEF PutConfig, TEnd, TGoTo
<1>10. CASE SaveConfig
      BY <1>10 DEF SaveConfig, TGoTo
<1>11. CASE CheckWorkload
      BY <1>11 DEF CheckWorkload, TEnd
<1>12. CASE RenameTunnel
      BY <1>12 DEF RenameTunnel, TEnd
<1> QED BY <1>1, <1>2, <1>3, <1>4, <1>5, <1>6, <1>7, <1>8, <1>9, <1>10, <1>11,
           <1>12 DEF PassStep

LEMMA LifeStep ==
    ASSUME TunnelTypeOK, TunnelInv, LifeInv, LifeInv', [TunnelNext]_allTunnelVars
    PROVE  [Life!LifeNext]_Life!lifeVars
<1> USE DEF objects, tstatus, tunnelVars, tpass, Life!LifeNext, Life!TunnelLives
<1>1. CASE \/ UNCHANGED allTunnelVars
           \/ WorkloadStep \/ EditConfig \/ LoseTunnel \/ OtherFault
           \/ \E e \in Exposures : ExposureChange(e)
      <2>1. UNCHANGED <<rlife, tobj, tid, tpc>>
            BY <1>1 DEF allTunnelVars, WorkloadStep, PodsStart, DaemonSetRemoved,
               PodsRemoved, EditConfig, LoseTunnel, OtherFault, ExposureChange
      <2> QED BY <2>1 DEF Life!lifeVars
<1>2. CASE PassStep
      BY <1>2, PassLeavesLife, LifeFrame
<1>3. CASE TBegin
      <2>1. CASE tobj = "new"
            BY <1>3, <2>1 DEF TBegin, Life!TunnelGetsFinalizer
      <2>2. CASE tobj # "new"
            <3>1. UNCHANGED <<rlife, tobj, tid>> /\ ~Closing /\ ~Closing'
                  BY <1>3, <2>2 DEF TBegin, Closing, DeleteSteps, RemovalSteps
            <3> QED BY <3>1, LifeFrame
      <2> QED BY <2>1, <2>2
<1>4. CASE TFinalize
      <2>1. PresentRoutes = Life!Listing
            BY DEF PresentRoutes, Life!Listing
      <2>2. CASE Present # {} \/ PresentRoutes # {}
            <3>1. UNCHANGED <<rlife, tobj, tid>> /\ ~Closing /\ ~Closing'
                  BY <1>4, <2>2 DEF TFinalize, TNotReady, TEnd, Closing,
                     DeleteSteps, RemovalSteps
            <3> QED BY <3>1, LifeFrame
      <2>3. CASE Present = {} /\ PresentRoutes = {}
            BY <1>4, <2>1, <2>3 DEF TFinalize, TGoTo, RemovalSteps, Life!TunnelCloses
      <2> QED BY <2>2, <2>3
<1>5. CASE StopCloudflared \/ FinGetTunnel \/ FinDeleteTunnel \/ AbortTunnel
      <2>1. UNCHANGED <<rlife, tobj, tid>>
            BY <1>5 DEF StopCloudflared, FinGetTunnel, FinDeleteTunnel, AbortTunnel,
               TNotReady, TGoTo
      <2>2. Closing' => Closing
            BY <1>5 DEF StopCloudflared, FinGetTunnel, FinDeleteTunnel, AbortTunnel,
               TNotReady, TGoTo, TEnd, Closing, DeleteSteps, RemovalSteps
      <2>3. CASE Closing' <=> Closing
            BY <2>1, <2>3 DEF Closing, DeleteSteps, Life!lifeVars
      <2>4. CASE Closing /\ ~Closing'
            BY <2>1, <2>4 DEF Closing, DeleteSteps, Life!TunnelWaits
      <2> QED BY <2>2, <2>3, <2>4
<1>6. CASE FinDropTunnel
      BY <1>6 DEF FinDropTunnel, TEnd, TunnelInv, StopInv, DeleteSteps,
         RemovalSteps, Life!TunnelGoes
<1>7. CASE DeleteTunnel
      <2>1. ~Closing
            BY <1>7 DEF DeleteTunnel, TunnelInv, StopInv, Closing
      <2>2. ~Closing'
            BY <1>7, <2>1 DEF DeleteTunnel, Closing, DeleteSteps
      <2> QED BY <1>7, <2>1, <2>2 DEF DeleteTunnel, Closing, DeleteSteps,
              Life!TunnelDeleted
<1>8. CASE \E r \in Routes : RouteChange(r)
      <2>1. PICK r \in Routes : RouteChange(r)
            BY <1>8
      <2> QED BY <2>1 DEF RouteChange, Lives, Life!Lives, Life!RouteListed
<1> QED BY <1>1, <1>2, <1>3, <1>4, <1>5, <1>6, <1>7, <1>8
        DEF TunnelNext, TunnelStep, Meddling, PassStep

LEMMA LifeInitial ==
    ASSUME TunnelInit
    PROVE  LifeInv /\ Life!LifeInit
<1>1. PICK old \in {{}} \cup IF Legacy THEN {{i} : i \in TunnelIds} ELSE {} :
         tid \in {{}, old}
      BY DEF TunnelInit
<1>2. tid \in Life!TrackedIds
      BY <1>1 DEF Life!TrackedIds
<1>3. lid \in Life!TrackedIds /\ tpc = "idle"
      BY DEF TunnelInit, Life!TrackedIds
<1>4. (tpc \in RemovalSteps \cup {"stop"}) = FALSE
      BY <1>3 DEF RemovalSteps
<1> QED BY <1>2, <1>3, <1>4 DEF TunnelInit, LifeInv, Life!LifeInit

\* The tunnel is to its routes what TunnelLife says, whatever crashes, is lost
\* or is edited: every step of the controller is one of TunnelLife or none.
THEOREM TunnelKeepsLife == TunnelSpec => KeepsLife
<1>1. TunnelInit => LifeInv /\ Life!LifeInit
      BY LifeInitial
<1>2. TunnelTypeOK /\ TunnelInv /\ LifeInv /\ [TunnelNext]_allTunnelVars => LifeInv'
      BY LifeInvStep
<1>3. TunnelTypeOK /\ TunnelInv /\ LifeInv /\ LifeInv' /\ [TunnelNext]_allTunnelVars
        => [Life!LifeNext]_Life!lifeVars
      BY LifeStep
<1> QED BY <1>1, <1>2, <1>3, TunnelTypeCorrect, TunnelInvariance, PTL
        DEF TunnelSpec, KeepsLife, Life!LifeSpec

-----------------------------------------------------------------------------
(* A tunnel that runs what the objects ask for is left as it is.           *)

\* The tunnel is there under its name, its workload runs with its token, its
\* status is that of the document the Exposures make, and a pass under way has
\* found all this so far.
TunnelSettled ==
    /\ tobj = "live" /\ tid # {} /\ tready
    /\ tid \subseteq RemoteIds
    /\ \A t \in tunnels : t.id \in tid => t.name = "generated"
    /\ secret = tid /\ daemon = "up" /\ dtoken = tid /\ pods = tid
    /\ thash = {DocOf(Build)} /\ troutes = Build /\ ~HostnameConflict
    /\ tpc \in {"idle", "get", "token", "daemonSet", "config", "workload"}
    /\ tpc \notin {"idle", "get"} => lid = tid

\* The tunnel object stays, the document is to be what it is, and nothing fails.
TunnelUndisturbed == UNCHANGED <<tobj, Build, faults>> /\ ~HostnameConflict'

\* As long as the Exposures make the same document, whatever else changes about
\* them, passes over a settled tunnel leave everything as it is, at Cloudflare,
\* in the cluster and in the status: no rename, no other token, no new document,
\* and Ready does not flap (reconcileCloudflareTunnel, upsertTokenSecret,
\* upsertDaemonSet, reconcileTunnelConfig).
TunnelStays ==
    [][TunnelSettled /\ TunnelUndisturbed
          => TunnelSettled' /\ UNCHANGED <<tstatus, remote, workload>>]_allTunnelVars

LEMMA SettledFrame ==
    ASSUME TunnelSettled, TunnelUndisturbed, UNCHANGED <<tstatus, remote, workload>>,
           tpc' \in {"idle", "get", "token", "daemonSet", "config", "workload"},
           tpc' \notin {"idle", "get"} => lid' = tid
    PROVE  TunnelSettled'
BY DEF TunnelSettled, TunnelUndisturbed, tstatus, remote, workload, RemoteIds

LEMMA TunnelStaysStep ==
    ASSUME TunnelTypeOK, TunnelSettled, TunnelUndisturbed, [TunnelNext]_allTunnelVars
    PROVE  TunnelSettled' /\ UNCHANGED <<tstatus, remote, workload>>
<1> DEFINE Goal == TunnelSettled' /\ UNCHANGED <<tstatus, remote, workload>>
<1>1. /\ tobj = "live" /\ tid # {} /\ tready = TRUE /\ secret = tid /\ daemon = "up"
      /\ dtoken = tid /\ pods = tid /\ thash = {DocOf(Build)} /\ troutes = Build
      /\ ~HostnameConflict /\ tid \subseteq RemoteIds
      /\ tpc \in {"idle", "get", "token", "daemonSet", "config", "workload"}
      /\ tpc \notin {"idle", "get"} => lid = tid
      BY DEF TunnelSettled, TunnelTypeOK
<1>2. ~Fault /\ tobj' = tobj
      BY DEF TunnelUndisturbed, Fault, TunnelTypeOK
<1>3. ASSUME UNCHANGED <<tstatus, remote, workload, tpass>> PROVE Goal
      BY <1>1, <1>3, SettledFrame DEF tpass
<1>4. CASE TBegin
      BY <1>1, <1>4, SettledFrame DEF TBegin
<1>5. CASE GetTunnel
      <2>1. ~(tid \subseteq Named("legacy")) /\ ~(tid \subseteq Named("other"))
            BY <1>1 DEF TunnelSettled, Named, RemoteIds
      <2>2. tid \cap RemoteIds # {}
            BY <1>1
      <2>3. /\ tpc' = "token" /\ lid' = tid /\ UNCHANGED <<tunnels, tstatus>>
            /\ UNCHANGED <<config, used, workload>>
            BY <1>5, <2>1, <2>2 DEF GetTunnel, remote
      <2> QED BY <2>3, SettledFrame DEF remote
<1>6. CASE UpsertTokenSecret
      <2>1. lid = tid
            BY <1>1, <1>6 DEF UpsertTokenSecret
      <2>2. /\ secret' = lid /\ TGoTo("daemonSet")
            /\ UNCHANGED <<tstatus, remote, daemon, dtoken, pods>>
            BY <1>1, <1>6, <2>1 DEF UpsertTokenSecret
      <2> QED BY <1>1, <2>1, <2>2, SettledFrame DEF TGoTo, workload
<1>7. CASE UpsertDaemonSet
      <2>1. lid = tid
            BY <1>1, <1>7 DEF UpsertDaemonSet
      <2> QED BY <1>1, <1>7, <2>1, SettledFrame DEF UpsertDaemonSet, TGoTo, workload
<1>8. CASE BuildConfig
      BY <1>1, <1>8, SettledFrame DEF BuildConfig
<1>9. CASE CheckWorkload
      <2>1. lid = tid
            BY <1>1, <1>9 DEF CheckWorkload
      <2>2. UNCHANGED <<tstatus, remote, workload>> /\ tpc' = "idle"
            BY <1>1, <1>9, <2>1 DEF CheckWorkload, TEnd, tstatus
      <2> QED BY <2>2, SettledFrame
<1>10. /\ ~RenameTunnel /\ ~ListTunnels /\ ~ListLegacy /\ ~CreateTunnel /\ ~SaveTunnelId /\ ~PutConfig
       /\ ~SaveConfig /\ ~TFinalize /\ ~StopCloudflared /\ ~FinGetTunnel
       /\ ~FinDeleteTunnel /\ ~FinDropTunnel
      BY <1>1 DEF RenameTunnel, ListTunnels, ListLegacy, CreateTunnel, SaveTunnelId,
         PutConfig, SaveConfig, TFinalize, StopCloudflared, FinGetTunnel, FinDeleteTunnel,
         FinDropTunnel
<1>11. ~WorkloadStep /\ ~DeleteTunnel
      BY <1>1, <1>2 DEF WorkloadStep, PodsStart, DaemonSetRemoved, PodsRemoved,
         DeleteTunnel
<1>12. ~Meddling /\ ~OtherFault
      BY <1>2 DEF Meddling, AbortTunnel, EditConfig, LoseTunnel, OtherFault
<1>13. CASE \/ UNCHANGED allTunnelVars
            \/ \E e \in Exposures : ExposureChange(e)
            \/ \E r \in Routes : RouteChange(r)
      BY <1>3, <1>13 DEF allTunnelVars, ExposureChange, RouteChange, tunnelVars,
         tstatus, remote, workload, tpass
<1> QED BY <1>4, <1>5, <1>6, <1>7, <1>8, <1>9, <1>10, <1>11, <1>12, <1>13
        DEF TunnelNext, TunnelStep

THEOREM TunnelIsStable == TunnelSpec => TunnelStays
<1>1. TunnelTypeOK /\ [TunnelNext]_allTunnelVars =>
          [TunnelSettled /\ TunnelUndisturbed
             => TunnelSettled' /\ UNCHANGED <<tstatus, remote, workload>>]_allTunnelVars
      BY TunnelStaysStep
<1> QED BY <1>1, TunnelTypeCorrect, PTL DEF TunnelSpec, TunnelStays
=============================================================================
