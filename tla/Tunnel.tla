------------------------------- MODULE Tunnel -------------------------------
(***************************************************************************)
(* The CloudflareTunnel controller: the identity of the tunnel at          *)
(* Cloudflare, the cloudflared workload that runs it, the one ingress      *)
(* document computed from every CloudflareExposure that refers to the      *)
(* tunnel, and the finalizer that takes all of this down.                  *)
(*                                                                         *)
(* A pass is one action per call whose outcome depends on, or changes,     *)
(* what others see; there is one worker, so passes do not overlap.  The    *)
(* objects the controller lists are declared here: module Ingress writes   *)
(* the Exposures, module TunnelRoute the routes.  A value that may be      *)
(* missing is a set of at most one element.                                *)
(***************************************************************************)
EXTENDS Naturals

CONSTANTS
    Exposures,   \* names of the Exposures that may refer to the tunnel
    Routes,      \* names of the CloudflareTunnelRoutes that may refer to it
    HostOf,      \* HostOf[e]: spec.hostname, immutable
    Origins,     \* values of spec.origin
    NoOrigin,    \* spec.origin not yet defaulted from spec.sourceRef
    TunnelIds,   \* tunnel ids Cloudflare may assign
    Legacy,      \* a tunnel with the bare name may be there at the start
    Crashes,     \* passes may be cut short
    Drift,       \* the remote ingress document may be edited by others
    Loss,        \* the remote tunnel may be deleted or renamed by others
    MaxFaults    \* bound on crashes, API errors and meddling by others

ASSUME TunnelAssumption ==
    /\ NoOrigin \notin Origins
    /\ TunnelIds \subseteq Nat
    /\ Legacy \in BOOLEAN
    /\ Crashes \in BOOLEAN
    /\ Drift \in BOOLEAN
    /\ Loss \in BOOLEAN
    /\ MaxFaults \in Nat

VARIABLES
    exposure,  \* life of each Exposure object
    origin,    \* spec.origin of each Exposure
    rlife,     \* life of each CloudflareTunnelRoute, as it is listed
    tobj,      \* life of the CloudflareTunnel object
    tid,       \* status.tunnelId
    thash,     \* status.ingressDocHash, as the document it is the hash of
    troutes,   \* status.routes: the rule published for each Exposure
    tready,    \* the Ready condition
    tunnels,   \* the tunnels at Cloudflare: [id, name]
    config,    \* config[i]: the ingress document of tunnel i
    used,      \* the tunnel ids Cloudflare has assigned
    secret,    \* the token Secret: the tunnel it is the token of
    daemon,    \* the cloudflared DaemonSet
    dtoken,    \* the tunnel whose token the DaemonSet runs with
    pods,      \* the cloudflared pods: the tunnel whose token they run with
    tpc,       \* where the pass is
    lid,       \* the tunnel the pass found, recovered or created
    lroutes,   \* the routes the pass is about to publish
    faults     \* faults injected so far

objects   == <<exposure, origin, rlife>>
tstatus   == <<tid, thash, troutes, tready>>
remote    == <<tunnels, config, used>>
workload  == <<secret, daemon, dtoken, pods>>
tpass     == <<tpc, lid, lroutes>>
tunnelVars == <<tobj, tstatus, remote, workload, tpass>>

\* The name the controller gives a tunnel, the bare spec.tunnelName that older
\* versions used, and any other name.
Names == {"generated", "legacy", "other"}

Lives == {"absent", "new", "live", "deleting", "gone"}

TunnelSteps == {"idle", "get", "rename", "list", "listLegacy", "create",
                "saveId", "token", "daemonSet", "config", "put", "saveConfig",
                "workload", "stop", "delGet", "delRemote", "delSecret"}

\* The steps of a finalizer pass past the stop of cloudflared.
RemovalSteps == {"delGet", "delRemote", "delSecret"}

Rule  == [host : {HostOf[e] : e \in Exposures}, origin : Origins]
Route == [exp : Exposures, origin : Origins]

TunnelTypeOK ==
    /\ exposure \in [Exposures -> Lives]
    /\ origin \in [Exposures -> Origins \cup {NoOrigin}]
    /\ rlife \in [Routes -> Lives]
    /\ tobj \in {"new", "live", "deleting", "gone"}
    /\ tid \subseteq TunnelIds
    /\ thash \subseteq SUBSET Rule
    /\ troutes \subseteq Route
    /\ tready \in BOOLEAN
    /\ tunnels \subseteq [id : TunnelIds, name : Names]
    /\ config \in [TunnelIds -> SUBSET SUBSET Rule]
    /\ used \subseteq TunnelIds
    /\ secret \subseteq TunnelIds
    /\ daemon \in {"none", "up", "terminating"}
    /\ dtoken \subseteq TunnelIds
    /\ pods \subseteq TunnelIds
    /\ tpc \in TunnelSteps
    /\ lid \subseteq TunnelIds
    /\ lroutes \subseteq Route
    /\ faults \in 0..MaxFaults

\* A fresh object; or one of an older version whose status tracks a tunnel with
\* the bare name; or a fresh object and a stranger's tunnel with that name.
TunnelInit ==
    /\ exposure = [e \in Exposures |-> "absent"]
    /\ origin = [e \in Exposures |-> NoOrigin]
    /\ rlife = [r \in Routes |-> "absent"]
    /\ \E old \in {{}} \cup IF Legacy THEN {{i} : i \in TunnelIds} ELSE {} :
          /\ \A i \in old, j \in TunnelIds : i <= j
          /\ tunnels = {[id |-> i, name |-> "legacy"] : i \in old}
          /\ tid \in {{}, old}
          /\ used = old
    /\ tobj = IF tid = {} THEN "new" ELSE "live"
    /\ thash = {} /\ troutes = {} /\ tready = FALSE
    /\ config = [i \in TunnelIds |-> {}]
    /\ secret = {} /\ daemon = "none" /\ dtoken = {} /\ pods = {}
    /\ tpc = "idle" /\ lid = {} /\ lroutes = {}
    /\ faults = 0

-----------------------------------------------------------------------------
(* Helpers.                                                                *)

\* The Exposures a List returns: those being deleted are still there.
Present == {e \in Exposures : exposure[e] \in {"new", "live", "deleting"}}

\* The CloudflareTunnelRoutes a List returns.
PresentRoutes == {r \in Routes : rlife[r] \in {"new", "live", "deleting"}}

HostnameConflict ==
    \E e, f \in Present : e # f /\ HostOf[e] = HostOf[f]

\* Build: a rule for every Exposure that has its origin.
Build == {[exp |-> e, origin |-> origin[e]] :
             e \in {x \in Present : origin[x] # NoOrigin}}

\* The ingress document of a set of routes.
DocOf(routes) == {[host |-> HostOf[r.exp], origin |-> r.origin] : r \in routes}

Named(name) == {t.id : t \in {x \in tunnels : x.name = name}}

RemoteIds == {t.id : t \in tunnels}

\* Cloudflare never gives an id twice.
FreeTunnelIds == TunnelIds \ used

TGoTo(step) == tpc' = step /\ UNCHANGED <<lid, lroutes>>

TEnd == tpc' = "idle" /\ lid' = {} /\ lroutes' = {}

\* The pass ends with Ready=False; the rest of the status stays.
TNotReady ==
    /\ tready' = FALSE
    /\ UNCHANGED <<tid, thash, troutes>>
    /\ TEnd

\* The same where the pass has found no tunnel that is its own: the id of the
\* tunnel that is gone, dropped in memory, is dropped from the status too.
TForeign ==
    /\ tready' = FALSE
    /\ tid' = {}
    /\ UNCHANGED <<thash, troutes>>
    /\ TEnd

-----------------------------------------------------------------------------
(* The environment.                                                        *)

\* How the life of an Exposure goes on.
LifeSteps == {<<"absent", "new">>, <<"new", "live">>, <<"new", "gone">>,
              <<"live", "deleting">>, <<"deleting", "gone">>}

\* An Exposure object changes: the Exposure controller and the users do this.
ExposureChange(e) ==
    /\ \E l \in Lives, o \in Origins \cup {NoOrigin} :
          /\ exposure[e] # l => <<exposure[e], l>> \in LifeSteps
          /\ exposure[e] = "absent" \/ o \in Origins \cup {origin[e]}
          /\ exposure' = [exposure EXCEPT ![e] = l]
          /\ origin' = [origin EXCEPT ![e] = o]
    /\ UNCHANGED <<rlife, tunnelVars, faults>>

\* A CloudflareTunnelRoute is listed with another life: the users, the route
\* controller and the delivery of their writes to the cache do this.
RouteChange(r) ==
    /\ \E l \in Lives : rlife' = [rlife EXCEPT ![r] = l]
    /\ UNCHANGED <<exposure, origin, tunnelVars, faults>>

DeleteTunnel ==
    /\ tobj \in {"new", "live"}
    /\ tobj' = IF tobj = "new" THEN "gone" ELSE "deleting"
    /\ UNCHANGED <<objects, tstatus, remote, workload, tpass, faults>>

\* Kubernetes runs the DaemonSet's pods, replaces those of an older template,
\* and removes first the DaemonSet that is being deleted and then its pods.
PodsStart ==
    /\ daemon = "up" /\ pods # dtoken
    /\ pods' = dtoken
    /\ UNCHANGED <<objects, tobj, tstatus, remote, secret, daemon, dtoken,
                   tpass, faults>>

DaemonSetRemoved ==
    /\ daemon = "terminating"
    /\ daemon' = "none" /\ dtoken' = {}
    /\ UNCHANGED <<objects, tobj, tstatus, remote, secret, pods, tpass, faults>>

PodsRemoved ==
    /\ daemon = "none" /\ pods # {}
    /\ pods' = {}
    /\ UNCHANGED <<objects, tobj, tstatus, remote, secret, daemon, dtoken,
                   tpass, faults>>

Fault == faults < MaxFaults /\ faults' = faults + 1

\* The operator crashes or a call fails.  An error that is reported in the
\* status clears the Ready condition.
AbortTunnel ==
    /\ Crashes
    /\ tpc # "idle"
    /\ Fault
    /\ tready' \in {tready, FALSE}
    /\ TEnd
    /\ UNCHANGED <<objects, tobj, tid, thash, troutes, remote, workload>>

\* Somebody edits the ingress document in the dashboard.
EditConfig ==
    /\ Drift
    /\ Fault
    /\ \E i \in RemoteIds : config[i] # {{}} /\ config' = [config EXCEPT ![i] = {{}}]
    /\ UNCHANGED <<objects, tobj, tstatus, tunnels, used, workload, tpass>>

\* Somebody deletes or renames the tunnel in the dashboard.
LoseTunnel ==
    /\ Loss
    /\ Fault
    /\ \E t \in tunnels : tunnels' \in {tunnels \ {t},
           (tunnels \ {t}) \cup {[id |-> t.id, name |-> "other"]}}
    /\ UNCHANGED <<objects, tobj, tstatus, config, used, workload, tpass>>

-----------------------------------------------------------------------------
(* Reconcile: the tunnel's identity.                                       *)

TBegin ==
    /\ tpc = "idle"
    /\ \/ tobj = "new" /\ tobj' = "live" /\ UNCHANGED tpc
       \/ tobj = "live" /\ UNCHANGED tobj
          /\ tpc' = IF tid # {} THEN "get" ELSE "list"
    /\ UNCHANGED <<lid, lroutes>>
    /\ UNCHANGED <<objects, tstatus, remote, workload, faults>>

\* The tracked tunnel: as it should be, to be renamed, foreign, or gone.
GetTunnel ==
    /\ tpc = "get"
    /\ \/ /\ tid \subseteq Named("generated")
          /\ tpc' = "token" /\ lid' = tid /\ UNCHANGED lroutes
          /\ UNCHANGED tstatus
       \/ /\ tid \subseteq Named("legacy")
          /\ TGoTo("rename") /\ UNCHANGED tstatus
       \/ /\ tid \subseteq Named("other")
          /\ TNotReady
       \/ /\ tid \cap RemoteIds = {}
          /\ TGoTo("list") /\ UNCHANGED tstatus
    /\ UNCHANGED <<objects, tobj, remote, workload, faults>>

\* The rename goes by id, whatever the name has become; it fails if the tunnel
\* is gone by now, and the pass ends with the status as it was.
RenameTunnel ==
    /\ tpc = "rename"
    /\ IF tid \subseteq RemoteIds
         THEN /\ tunnels' = {t \in tunnels : t.id \notin tid}
                            \cup {[id |-> i, name |-> "generated"] : i \in tid}
              /\ tpc' = "token" /\ lid' = tid /\ UNCHANGED lroutes
         ELSE TEnd /\ UNCHANGED tunnels
    /\ UNCHANGED <<objects, tobj, tstatus, config, used, workload, faults>>

\* No tracked tunnel: recover the one with the generated name.
ListTunnels ==
    /\ tpc = "list"
    /\ LET found == Named("generated")
           one   == \A i, j \in found : i = j
       IN  \/ found = {} /\ TGoTo("listLegacy") /\ UNCHANGED tstatus
           \/ /\ found # {} /\ one
              /\ tpc' = "saveId" /\ lid' = found /\ UNCHANGED lroutes
              /\ UNCHANGED tstatus
           \/ found # {} /\ ~one /\ TForeign
    /\ UNCHANGED <<objects, tobj, remote, workload, faults>>

\* A tunnel with the bare name is nobody's to adopt.
ListLegacy ==
    /\ tpc = "listLegacy"
    /\ IF Named("legacy") = {} THEN TGoTo("create") /\ UNCHANGED tstatus
                               ELSE TForeign
    /\ UNCHANGED <<objects, tobj, remote, workload, faults>>

CreateTunnel ==
    /\ tpc = "create"
    /\ \E i \in FreeTunnelIds :
          /\ \A j \in FreeTunnelIds : i <= j
          /\ tunnels' = tunnels \cup {[id |-> i, name |-> "generated"]}
          /\ used' = used \cup {i}
          /\ lid' = {i}
    /\ tpc' = "saveId" /\ UNCHANGED lroutes
    /\ UNCHANGED <<objects, tobj, tstatus, config, workload, faults>>

\* Mutant of SaveTunnelId: the condition is left as it was.
MutantIdKeepsReady ==
    /\ tpc = "saveId"
    /\ tid' = lid
    /\ UNCHANGED <<thash, troutes, tready>>
    /\ TGoTo("token")
    /\ UNCHANGED <<objects, tobj, remote, workload, faults>>

\* The id goes to the status, with Ready=False, before anything is built on it;
\* the document's hash and the routes stay what they were.
SaveTunnelId ==
    /\ tpc = "saveId"
    /\ tid' = lid
    /\ tready' = FALSE
    /\ UNCHANGED <<thash, troutes>>
    /\ TGoTo("token")
    /\ UNCHANGED <<objects, tobj, remote, workload, faults>>

-----------------------------------------------------------------------------
(* Reconcile: the workload and the ingress document.                       *)

\* Fetch the token and upsert the Secret that holds it.
UpsertTokenSecret ==
    /\ tpc = "token"
    /\ IF lid \subseteq RemoteIds
         THEN secret' = lid /\ TGoTo("daemonSet") /\ UNCHANGED tstatus
         ELSE TNotReady /\ UNCHANGED secret
    /\ UNCHANGED <<objects, tobj, remote, daemon, dtoken, pods, faults>>

\* The DaemonSet's template carries the token's checksum.
UpsertDaemonSet ==
    /\ tpc = "daemonSet"
    /\ daemon' = IF daemon = "none" THEN "up" ELSE daemon
    /\ dtoken' = lid
    /\ TGoTo("config")
    /\ UNCHANGED <<objects, tobj, tstatus, remote, secret, pods, faults>>

\* List the Exposures and build the document.  Two that claim one hostname
\* stop it; a document whose hash and routes the status already has is not
\* written again.
BuildConfig ==
    /\ tpc = "config"
    /\ IF HostnameConflict
         THEN TNotReady
         ELSE /\ lroutes' = Build
              /\ tpc' = IF thash = {DocOf(Build)} /\ troutes = Build
                          THEN "workload" ELSE "put"
              /\ UNCHANGED <<lid, tstatus>>
    /\ UNCHANGED <<objects, tobj, remote, workload, faults>>

PutConfig ==
    /\ tpc = "put"
    /\ IF lid \subseteq RemoteIds
         THEN /\ config' = [i \in TunnelIds |->
                               IF i \in lid THEN {DocOf(lroutes)} ELSE config[i]]
              /\ TGoTo("saveConfig")
         ELSE TEnd /\ UNCHANGED config
    /\ UNCHANGED <<objects, tobj, tstatus, tunnels, used, workload, faults>>

\* Mutant of SaveConfig: the hash is taken from the Exposures of now.
MutantHashOfNow ==
    /\ tpc = "saveConfig"
    /\ thash' = {DocOf(Build)}
    /\ troutes' = Build
    /\ UNCHANGED <<tid, tready>>
    /\ TGoTo("workload")
    /\ UNCHANGED <<objects, tobj, remote, workload, faults>>

SaveConfig ==
    /\ tpc = "saveConfig"
    /\ thash' = {DocOf(lroutes)}
    /\ troutes' = lroutes
    /\ UNCHANGED <<tid, tready>>
    /\ TGoTo("workload")
    /\ UNCHANGED <<objects, tobj, remote, workload, faults>>

\* Ready once a cloudflared pod is, whatever its template.
CheckWorkload ==
    /\ tpc = "workload"
    /\ tready' = (pods # {})
    /\ tid' = lid
    /\ UNCHANGED <<thash, troutes>>
    /\ TEnd
    /\ UNCHANGED <<objects, tobj, remote, workload, faults>>

-----------------------------------------------------------------------------
(* The finalizer.                                                          *)

\* Mutant of TFinalize: only the Exposures are listed.
MutantRoutesForgotten ==
    /\ tpc = "idle"
    /\ tobj = "deleting"
    /\ IF Present # {} THEN TNotReady ELSE TGoTo("stop") /\ UNCHANGED tstatus
    /\ UNCHANGED <<objects, tobj, remote, workload, faults>>

\* Blocked while an Exposure or a CloudflareTunnelRoute refers to the tunnel.
TFinalize ==
    /\ tpc = "idle"
    /\ tobj = "deleting"
    /\ IF Present # {} \/ PresentRoutes # {}
         THEN TNotReady
         ELSE TGoTo("stop") /\ UNCHANGED tstatus
    /\ UNCHANGED <<objects, tobj, remote, workload, faults>>

\* Mutant of StopCloudflared: the pods are not waited for.
MutantPodsNotAwaited ==
    /\ tpc = "stop"
    /\ \/ /\ daemon # "none"
          /\ daemon' = "terminating"
          /\ TNotReady
       \/ /\ daemon = "none"
          /\ TGoTo(IF tid = {} THEN "delSecret" ELSE "delGet")
          /\ UNCHANGED <<daemon, tstatus>>
    /\ UNCHANGED <<objects, tobj, remote, secret, dtoken, pods, faults>>

\* Delete the DaemonSet and come back until it and its pods are gone.
StopCloudflared ==
    /\ tpc = "stop"
    /\ \/ /\ daemon # "none"
          /\ daemon' = "terminating"
          /\ TNotReady
       \/ /\ daemon = "none" /\ pods # {}
          /\ TNotReady
          /\ UNCHANGED daemon
       \/ /\ daemon = "none" /\ pods = {}
          /\ TGoTo(IF tid = {} THEN "delSecret" ELSE "delGet")
          /\ UNCHANGED <<daemon, tstatus>>
    /\ UNCHANGED <<objects, tobj, remote, secret, dtoken, pods, faults>>

\* A tracked tunnel with a foreign name blocks the deletion.
FinGetTunnel ==
    /\ tpc = "delGet"
    /\ IF tid \subseteq Named("other")
         THEN TNotReady
         ELSE TGoTo("delRemote") /\ UNCHANGED tstatus
    /\ UNCHANGED <<objects, tobj, remote, workload, faults>>

FinDeleteTunnel ==
    /\ tpc = "delRemote"
    /\ tunnels' = {t \in tunnels : t.id \notin tid}
    /\ config' = [i \in TunnelIds |-> IF i \in tid THEN {} ELSE config[i]]
    /\ TGoTo("delSecret")
    /\ UNCHANGED <<objects, tobj, tstatus, used, workload, faults>>

\* Delete the Secret and drop the finalizer.
FinDropTunnel ==
    /\ tpc = "delSecret"
    /\ secret' = {}
    /\ tobj' = "gone"
    /\ TEnd
    /\ UNCHANGED <<objects, tstatus, remote, daemon, dtoken, pods, faults>>

-----------------------------------------------------------------------------

TunnelStep ==
    \/ TBegin \/ GetTunnel \/ RenameTunnel \/ ListTunnels \/ ListLegacy
    \/ CreateTunnel \/ SaveTunnelId \/ UpsertTokenSecret \/ UpsertDaemonSet \/ BuildConfig
    \/ PutConfig \/ SaveConfig \/ CheckWorkload \/ TFinalize
    \/ StopCloudflared \/ FinGetTunnel \/ FinDeleteTunnel \/ FinDropTunnel

WorkloadStep == PodsStart \/ DaemonSetRemoved \/ PodsRemoved

Meddling == AbortTunnel \/ EditConfig \/ LoseTunnel

\* Somebody else's steps leave the pass alone; faults may also be spent on what
\* the tunnel controller does not see.
OtherFault == Fault /\ UNCHANGED <<objects, tunnelVars>>

TunnelNext ==
    \/ TunnelStep \/ WorkloadStep \/ Meddling \/ DeleteTunnel \/ OtherFault
    \/ \E e \in Exposures : ExposureChange(e)
    \/ \E r \in Routes : RouteChange(r)

allTunnelVars == <<exposure, origin, rlife, tobj, tid, thash, troutes, tready, tunnels,
                   config, used, secret, daemon, dtoken, pods, tpc, lid,
                   lroutes, faults>>

TunnelSpec == TunnelInit /\ [][TunnelNext]_allTunnelVars

-----------------------------------------------------------------------------
(* Safety.                                                                 *)

\* A tunnel that reports Ready has cloudflared running, with the Secret and the
\* DaemonSet of the tunnel in status.tunnelId; and as long as that tunnel is the
\* only one there has been, the pods run it and an ingress document has been
\* written to it.  A tunnel recreated after its loss (reconcileCloudflareTunnel)
\* goes through Ready=False before its Secret and DaemonSet change one by one;
\* Ready may then come back while the rollout still runs pods of the lost tunnel
\* (daemonSetReady counts any ready pod) and before the new tunnel has a
\* document (the hash in the status is kept), which is why the last part is
\* about the first tunnel alone.
ReadyRunsTracked ==
    tready =>
        /\ tid # {} /\ secret = tid /\ dtoken = tid
        /\ daemon = "up" /\ pods # {}
        /\ thash # {}
        /\ used = tid => pods \subseteq tid /\ \E i \in tid : config[i] # {}

\* cloudflared is stopped, its DaemonSet and every pod gone, before the
\* finalizer deletes the tunnel it runs (ensureCloudflaredStopped).
StoppedBeforeDeleted ==
    tpc \in RemovalSteps => daemon = "none" /\ pods = {}

\* Without faults the hash and the routes in the status, by which the next pass
\* decides whether to write and the Exposures whether they are served, are those
\* of the remote document, whatever Exposures came, changed and went between the
\* List it was made from and the status write (reconcileTunnelConfig).
StatusIsRemote ==
    MaxFaults = 0 /\ tobj = "live" /\ tpc # "saveConfig" /\ thash # {}
      => thash = {DocOf(troutes)} /\ \A i \in tid : config[i] = thash

-----------------------------------------------------------------------------
(* What the routes rely on.                                                *)

Life == INSTANCE TunnelLife WITH closing <- tpc \in RemovalSteps \cup {"stop"}

\* Whatever is lost, edited or cut short, the tunnel is to its routes what
\* TunnelLife says: its object goes only after a pass of the finalizer that has
\* listed no CloudflareTunnelRoute, and during that pass the id stays
\* (reconcileDelete).
KeepsLife == Life!LifeSpec
=============================================================================
