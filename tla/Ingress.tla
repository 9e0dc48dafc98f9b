------------------------------ MODULE Ingress -------------------------------
(***************************************************************************)
(* The CloudflareExposure controller for Exposures without spec.failover,  *)
(* composed with the CloudflareTunnel controller of module Tunnel.  The    *)
(* two workers share the Exposure objects, the tunnel's status and nothing *)
(* else: the Exposure pass reads the tunnel's id and published routes once *)
(* and writes the Access application and the CNAME; the tunnel pass lists  *)
(* the Exposures and writes the ingress document.                          *)
(*                                                                         *)
(* An Exposure has one Access application when spec.access.enabled.  There *)
(* is one worker, so at most one Exposure is being reconciled: job.        *)
(***************************************************************************)
EXTENDS Tunnel, FiniteSets

CONSTANTS
    RecordIds,   \* DNS record ids Cloudflare may assign
    Foreign,     \* the owner of a record that is none of the Exposures'
    Manage,      \* values of spec.dns.manage
    Access,      \* values of spec.access.enabled
    MaxEdits,    \* bound on edits of a spec
    AnyOrder,    \* Exposures may be applied before their tunnel has its
                 \* finalizer and while it is being deleted
    DnsDrift     \* CNAMEs may be edited, deleted or created by others

ASSUME IngressAssumption ==
    /\ RecordIds \subseteq Nat
    /\ Foreign \notin Exposures
    /\ Manage \subseteq BOOLEAN
    /\ Access \subseteq BOOLEAN
    /\ MaxEdits \in Nat
    /\ AnyOrder \in BOOLEAN
    /\ DnsDrift \in BOOLEAN

VARIABLES
    manage,     \* spec.dns.manage of the tunnel
    access,     \* spec.access.enabled of each Exposure
    dnsId,      \* status.cloudflare.dnsRecordId
    tracked,    \* status.cloudflare.accessApplications is not empty
    eready,     \* the Ready condition
    observed,   \* spec.origin of the generation the condition was set for
    records,    \* the CNAMEs in the zone
    apps,       \* Exposures whose Access application exists at Cloudflare
    usedRecords,\* the DNS record ids Cloudflare has assigned
    job,        \* the pass under way
    edits       \* edits made so far

specs   == <<manage, access>>
estatus == <<dnsId, tracked, eready, observed>>
surface == <<records, apps, usedRecords>>

vars == <<exposure, origin, rlife, tobj, tid, thash, troutes, tready, tunnels,
          config, used, secret, daemon, dtoken, pods, tpc, lid, lroutes, faults,
          manage, access, dnsId, tracked, eready, observed, records, apps,
          usedRecords, job, edits>>

ExposureSteps == {"access", "dns", "write", "undns", "save",
                  "finDns", "finAccess", "finDrop"}

Hosts  == {HostOf[e] : e \in Exposures}
Record == [id : RecordIds, host : Hosts, target : SUBSET TunnelIds,
           owner : Exposures \cup {Foreign}]

\* What a pass has read (the tunnel's id, whether it publishes the route, the
\* two specs) and obtained (the record, the application).
Job == [at : ExposureSteps, exp : Exposures, tid : SUBSET TunnelIds,
        route : BOOLEAN, manage : BOOLEAN, access : BOOLEAN,
        rec : SUBSET RecordIds, app : BOOLEAN]

TypeOK ==
    /\ TunnelTypeOK
    /\ manage \in BOOLEAN
    /\ access \in [Exposures -> BOOLEAN]
    /\ dnsId \in [Exposures -> SUBSET RecordIds]
    /\ tracked \in [Exposures -> BOOLEAN]
    /\ eready \in [Exposures -> BOOLEAN]
    /\ observed \in [Exposures -> Origins \cup {NoOrigin}]
    /\ records \subseteq Record
    /\ apps \subseteq Exposures
    /\ usedRecords \subseteq RecordIds
    /\ job \subseteq Job
    /\ edits \in 0..MaxEdits

Init ==
    /\ TunnelInit
    /\ manage \in Manage
    /\ access = [e \in Exposures |-> FALSE]
    /\ dnsId = [e \in Exposures |-> {}]
    /\ tracked = [e \in Exposures |-> FALSE]
    /\ eready = [e \in Exposures |-> FALSE]
    /\ observed = [e \in Exposures |-> NoOrigin]
    /\ records = {} /\ apps = {} /\ usedRecords = {}
    /\ job = {}
    /\ edits = 0

-----------------------------------------------------------------------------
(* Helpers.                                                                *)

RecordsAt(h) == {r \in records : r.host = h}

FreeRecordIds == RecordIds \ usedRecords

NextRecordId(i) == i \in FreeRecordIds /\ \A j \in FreeRecordIds : i <= j

\* setExposureStatus for a pass that does not make the Exposure ready: the
\* record and the application it passes on go to the status.
NotReady(e, rec, app) ==
    /\ eready' = [eready EXCEPT ![e] = FALSE]
    /\ dnsId' = [dnsId EXCEPT ![e] = rec]
    /\ tracked' = [tracked EXCEPT ![e] = app]
    /\ observed' = [observed EXCEPT ![e] = origin[e]]

Stuck(e) == NotReady(e, dnsId[e], tracked[e])

EEnd == job' = {}

EGoTo(j, step) == job' = {[j EXCEPT !.at = step]}

-----------------------------------------------------------------------------
(* The environment.                                                        *)

\* A user applies an Exposure, with its origin or with a sourceRef to take it
\* from.
Apply(e) ==
    /\ exposure[e] = "absent"
    /\ tobj = "live" \/ AnyOrder
    /\ exposure' = [exposure EXCEPT ![e] = "new"]
    /\ \E o \in Origins \cup {NoOrigin} : origin' = [origin EXCEPT ![e] = o]
    /\ \E a \in Access : access' = [access EXCEPT ![e] = a]
    /\ UNCHANGED <<rlife, tunnelVars, faults, manage, estatus, surface, job, edits>>

\* A user changes the origin (or the Service it is taken from changes), the
\* Access switch or spec.dns.manage.
Edit ==
    /\ edits < MaxEdits /\ edits' = edits + 1
    /\ \/ /\ \E e \in Exposures, o \in Origins :
                 /\ exposure[e] \in {"new", "live"} /\ origin[e] # NoOrigin
                 /\ o # origin[e]
                 /\ origin' = [origin EXCEPT ![e] = o]
          /\ UNCHANGED <<access, manage>>
       \/ /\ \E e \in Exposures :
                 /\ exposure[e] \in {"new", "live"}
                 /\ (~access[e]) \in Access
                 /\ access' = [access EXCEPT ![e] = ~@]
          /\ UNCHANGED <<origin, manage>>
       \/ /\ tobj \in {"new", "live"}
          /\ (~manage) \in Manage
          /\ manage' = ~manage
          /\ UNCHANGED <<origin, access>>
    /\ UNCHANGED <<exposure, rlife, tunnelVars, faults, estatus, surface, job>>

DeleteExposure(e) ==
    /\ exposure[e] \in {"new", "live"}
    /\ exposure' = [exposure EXCEPT ![e] = IF @ = "new" THEN "gone" ELSE "deleting"]
    /\ UNCHANGED <<origin, rlife, tunnelVars, faults, specs, estatus, surface, job, edits>>

\* Somebody deletes or retargets a CNAME in the dashboard, or adds one.
EditDns ==
    /\ DnsDrift
    /\ Fault
    /\ \/ \E r \in records : /\ records' = records \ {r}
                             /\ UNCHANGED usedRecords
       \/ \E r \in records : /\ records' = (records \ {r}) \cup {[r EXCEPT !.target = {}]}
                             /\ UNCHANGED usedRecords
       \/ \E h \in Hosts, i \in FreeRecordIds :
             /\ NextRecordId(i)
             /\ RecordsAt(h) = {}
             /\ records' = records \cup
                   {[id |-> i, host |-> h, target |-> {}, owner |-> Foreign]}
             /\ usedRecords' = usedRecords \cup {i}
    /\ UNCHANGED <<objects, tunnelVars, specs, estatus, apps, job, edits>>

\* The operator crashes, or a call fails and the pass returns its error.
AbortExposure ==
    /\ Crashes
    /\ job # {}
    /\ Fault
    /\ EEnd
    /\ UNCHANGED <<objects, tunnelVars, specs, estatus, surface, edits>>

-----------------------------------------------------------------------------
(* Reconcile.                                                              *)

\* Refuse, default, or read what the pass goes by.
EBegin(e) ==
    /\ job = {}
    /\ exposure[e] \in {"new", "live"}
    /\ \/ /\ tobj = "gone"
          /\ Stuck(e)
          /\ UNCHANGED <<exposure, origin, job>>
       \/ /\ tobj # "gone"
          /\ exposure' = [exposure EXCEPT ![e] = "live"]
          /\ \/ /\ origin[e] = NoOrigin
                /\ \E o \in Origins : origin' = [origin EXCEPT ![e] = o]
                /\ UNCHANGED <<estatus, job>>
             \/ /\ origin[e] # NoOrigin
                /\ \E f \in Present \ {e} : HostOf[f] = HostOf[e]
                /\ Stuck(e)
                /\ UNCHANGED <<origin, job>>
             \/ /\ origin[e] # NoOrigin
                /\ \A f \in Present \ {e} : HostOf[f] # HostOf[e]
                /\ job' = {[at |-> "access", exp |-> e, tid |-> tid,
                            route |-> \E r \in troutes : r.exp = e,
                            manage |-> manage, access |-> access[e],
                            rec |-> dnsId[e], app |-> tracked[e]]}
                /\ UNCHANGED <<origin, estatus>>
    /\ UNCHANGED <<rlife, tunnelVars, faults, specs, surface, edits>>

\* Mutant of EAccess: the application is created after the CNAME.
MutantAccessLater ==
    \E j \in job :
    /\ j.at = "access"
    /\ job' = {[j EXCEPT !.at = IF j.manage THEN "dns" ELSE "undns",
                         !.app = j.access]}
    /\ UNCHANGED <<objects, tunnelVars, faults, specs, estatus, surface, edits>>

\* Create or update the Access application, or delete it where Access is off.
EAccess ==
    \E j \in job :
    /\ j.at = "access"
    /\ apps' = IF j.access THEN apps \cup {j.exp} ELSE apps \ {j.exp}
    /\ job' = {[j EXCEPT !.at = IF j.manage THEN "dns" ELSE "undns",
                         !.app = j.access]}
    /\ UNCHANGED <<objects, tunnelVars, faults, specs, estatus, records,
                   usedRecords, edits>>

\* A failed write of the application is reported with the applications written
\* so far: none.  It may have been carried out, and its answer lost.
EAccessFails ==
    \E j \in job :
    /\ j.at \in {"access", "dns", "undns"} /\ j.access
    /\ Crashes
    /\ Fault
    /\ NotReady(j.exp, j.rec, FALSE)
    /\ EEnd
    /\ UNCHANGED <<objects, tunnelVars, specs, surface, edits>>

\* Mutant of EListDns: a record is taken for its own whoever owns it.
MutantAdopts ==
    \E j \in job :
    /\ j.at = "dns"
    /\ LET found == RecordsAt(HostOf[j.exp]) IN
       \/ /\ found = {}
          /\ job' = {[j EXCEPT !.at = "write", !.rec = {}]}
       \/ \E r \in found :
             job' = {[j EXCEPT !.at = IF r.target = j.tid /\ r.owner = j.exp
                                        THEN "save" ELSE "write",
                               !.rec = {r.id}]}
    /\ UNCHANGED <<objects, tunnelVars, faults, specs, estatus, surface, edits>>

\* Mutant of EListDns: a record of its own is never updated.
MutantKeepsTarget ==
    \E j \in job :
    /\ j.at = "dns"
    /\ LET found == RecordsAt(HostOf[j.exp]) IN
       \/ /\ \E r \in found : r.owner # j.exp
          /\ NotReady(j.exp, j.rec, j.app)
          /\ EEnd
       \/ /\ found = {}
          /\ job' = {[j EXCEPT !.at = "write", !.rec = {}]}
          /\ UNCHANGED estatus
       \/ /\ \A r \in found : r.owner = j.exp
          /\ \E r \in found : job' = {[j EXCEPT !.at = "save", !.rec = {r.id}]}
          /\ UNCHANGED estatus
    /\ UNCHANGED <<objects, tunnelVars, faults, specs, surface, edits>>

\* reconcileDNS, up to its write: a record of another owner is a conflict.
EListDns ==
    \E j \in job :
    /\ j.at = "dns"
    /\ LET found == RecordsAt(HostOf[j.exp]) IN
       \/ /\ \E r \in found : r.owner # j.exp
          /\ NotReady(j.exp, j.rec, j.app)
          /\ EEnd
       \/ /\ found = {}
          /\ job' = {[j EXCEPT !.at = "write", !.rec = {}]}
          /\ UNCHANGED estatus
       \/ /\ \A r \in found : r.owner = j.exp
          /\ \E r \in found :
                job' = {[j EXCEPT !.at = IF r.target = j.tid THEN "save" ELSE "write",
                                  !.rec = {r.id}]}
          /\ UNCHANGED estatus
    /\ UNCHANGED <<objects, tunnelVars, faults, specs, surface, edits>>

\* The write: an update by id, or a creation, which Cloudflare refuses where
\* the name is taken.  It may refuse the name that an empty tunnel id makes.
EWriteDns ==
    \E j \in job :
    /\ j.at = "write"
    /\ LET host == HostOf[j.exp]
           old  == {r \in records : r.id \in j.rec}
       IN \/ /\ j.rec # {} /\ old # {}
             /\ records' = (records \ old) \cup
                   {[r EXCEPT !.target = j.tid, !.owner = j.exp] : r \in old}
             /\ EGoTo(j, "save")
             /\ UNCHANGED <<estatus, usedRecords>>
          \/ /\ j.rec = {} /\ RecordsAt(host) = {}
             /\ \E i \in FreeRecordIds :
                   /\ NextRecordId(i)
                   /\ records' = records \cup
                         {[id |-> i, host |-> host, target |-> j.tid, owner |-> j.exp]}
                   /\ usedRecords' = usedRecords \cup {i}
                   /\ job' = {[j EXCEPT !.at = "save", !.rec = {i}]}
             /\ UNCHANGED estatus
          \/ /\ IF j.rec = {} THEN RecordsAt(host) # {} \/ j.tid = {}
                              ELSE old = {} \/ j.tid = {}
             /\ NotReady(j.exp, dnsId[j.exp], j.app)
             /\ EEnd
             /\ UNCHANGED <<records, usedRecords>>
    /\ UNCHANGED <<objects, tunnelVars, faults, specs, apps, edits>>

\* A failed write of the CNAME is reported with the application and the record
\* of before; it may have been carried out, and its answer lost.
EDnsFails ==
    \E j \in job :
    /\ j.at \in {"dns", "write"} \/ (j.at = "save" /\ j.manage)
    /\ Crashes
    /\ Fault
    /\ NotReady(j.exp, dnsId[j.exp], j.app)
    /\ EEnd
    /\ UNCHANGED <<objects, tunnelVars, specs, surface, edits>>

\* deleteOwnedDNSIfPresent: nothing to do, not ours, or deleted.
Undo(j, next) ==
    LET found == {r \in RecordsAt(HostOf[j.exp]) : r.id \in dnsId[j.exp]} IN
    IF \E r \in found : r.owner # j.exp
      THEN /\ EEnd
           /\ UNCHANGED records
           /\ IF next = "save" THEN UNCHANGED estatus ELSE Stuck(j.exp)
      ELSE /\ records' = records \ found
           /\ job' = {[j EXCEPT !.at = next, !.rec = {}]}
           /\ UNCHANGED estatus

\* spec.dns.manage is off: the CNAME goes.
EUndoDns ==
    \E j \in job :
    /\ j.at = "undns"
    /\ Undo(j, "save")
    /\ UNCHANGED <<objects, tunnelVars, faults, specs, apps, usedRecords, edits>>

\* Ready once the tunnel's status, as read at the start, has a route for this
\* Exposure, whatever its origin; the condition is for the generation of now.
ESave ==
    \E j \in job :
    /\ j.at = "save"
    /\ dnsId' = [dnsId EXCEPT ![j.exp] = j.rec]
    /\ tracked' = [tracked EXCEPT ![j.exp] = j.app]
    /\ eready' = [eready EXCEPT ![j.exp] =
                     j.route /\ (j.access => j.app) /\ (j.manage => j.rec # {})]
    /\ observed' = [observed EXCEPT ![j.exp] = origin[j.exp]]
    /\ EEnd
    /\ UNCHANGED <<objects, tunnelVars, faults, specs, surface, edits>>

-----------------------------------------------------------------------------
(* The finalizer.                                                          *)

\* Mutant of EFinalize: the tracked applications are not looked at.
MutantChecksDnsOnly(e) ==
    /\ job = {}
    /\ exposure[e] = "deleting"
    /\ \/ /\ dnsId[e] = {}
          /\ exposure' = [exposure EXCEPT ![e] = "gone"]
          /\ UNCHANGED <<estatus, job>>
       \/ /\ dnsId[e] # {}
          /\ job' = {[at |-> "finDns", exp |-> e, tid |-> {}, route |-> FALSE,
                      manage |-> FALSE, access |-> FALSE, rec |-> {},
                      app |-> FALSE]}
          /\ UNCHANGED <<exposure, estatus>>
    /\ UNCHANGED <<origin, rlife, tunnelVars, faults, specs, surface, edits>>

\* Mutant of EFinalize: the deletion timestamp is not looked at.
MutantFinalizesLive(e) ==
    /\ job = {}
    /\ exposure[e] \in {"live", "deleting"}
    /\ ~tracked[e] /\ dnsId[e] = {}
    /\ exposure' = [exposure EXCEPT ![e] = "gone"]
    /\ UNCHANGED <<origin, rlife, tunnelVars, faults, specs, estatus, surface, job, edits>>

\* Nothing in the status: done.  Otherwise it needs the tunnel's credentials.
EFinalize(e) ==
    /\ job = {}
    /\ exposure[e] = "deleting"
    /\ \/ /\ ~tracked[e] /\ dnsId[e] = {}
          /\ exposure' = [exposure EXCEPT ![e] = "gone"]
          /\ UNCHANGED <<estatus, job>>
       \/ /\ tracked[e] \/ dnsId[e] # {}
          /\ tobj = "gone"
          /\ Stuck(e)
          /\ UNCHANGED <<exposure, job>>
       \/ /\ tracked[e] \/ dnsId[e] # {}
          /\ tobj # "gone"
          /\ job' = {[at |-> "finDns", exp |-> e, tid |-> {}, route |-> FALSE,
                      manage |-> FALSE, access |-> FALSE, rec |-> {},
                      app |-> FALSE]}
          /\ UNCHANGED <<exposure, estatus>>
    /\ UNCHANGED <<origin, rlife, tunnelVars, faults, specs, surface, edits>>

\* Mutant of EFinDns: a record that is gone already is taken for a foreign one.
MutantMissingIsForeign ==
    \E j \in job :
    /\ j.at = "finDns"
    /\ IF dnsId[j.exp] \subseteq {r.id : r \in RecordsAt(HostOf[j.exp])}
         THEN Undo(j, "finAccess")
         ELSE Stuck(j.exp) /\ EEnd /\ UNCHANGED records
    /\ UNCHANGED <<objects, tunnelVars, faults, specs, apps, usedRecords, edits>>

EFinDns ==
    \E j \in job :
    /\ j.at = "finDns"
    /\ Undo(j, "finAccess")
    /\ UNCHANGED <<objects, tunnelVars, faults, specs, apps, usedRecords, edits>>

EFinAccess ==
    \E j \in job :
    /\ j.at = "finAccess"
    /\ apps' = apps \ {j.exp}
    /\ EGoTo(j, "finDrop")
    /\ UNCHANGED <<objects, tunnelVars, faults, specs, estatus, records,
                   usedRecords, edits>>

EFinDrop ==
    \E j \in job :
    /\ j.at = "finDrop"
    /\ exposure' = [exposure EXCEPT ![j.exp] = "gone"]
    /\ EEnd
    /\ UNCHANGED <<origin, rlife, tunnelVars, faults, specs, estatus, surface, edits>>

-----------------------------------------------------------------------------

ingressVars == <<specs, estatus, surface, job, edits>>

ExposurePass ==
    \/ EAccess \/ EListDns \/ EWriteDns \/ EUndoDns \/ ESave
    \/ EFinDns \/ EFinAccess \/ EFinDrop

User ==
    \/ Edit \/ (DeleteTunnel /\ UNCHANGED ingressVars)
    \/ \E e \in Exposures : Apply(e) \/ DeleteExposure(e)

Faulty ==
    \/ EditDns \/ AbortExposure \/ EAccessFails \/ EDnsFails
    \/ (Meddling /\ UNCHANGED ingressVars)

Next ==
    \/ (TunnelStep /\ UNCHANGED ingressVars)
    \/ (WorkloadStep /\ UNCHANGED ingressVars)
    \/ \E e \in Exposures : EBegin(e) \/ EFinalize(e)
    \/ ExposurePass
    \/ User
    \/ Faulty

Spec == Init /\ [][Next]_vars

\* Both work queues hand out every object again and again: changes of the
\* objects, of the tunnel and of its DaemonSet, errors, timed requeues and the
\* resync of the caches put it back, and no entry is passed over for ever.
Fairness ==
    /\ WF_vars(TunnelStep /\ UNCHANGED ingressVars)
    /\ WF_vars(WorkloadStep /\ UNCHANGED ingressVars)
    /\ WF_vars(ExposurePass)
    /\ \A e \in Exposures : SF_vars(EBegin(e)) /\ SF_vars(EFinalize(e))

FairSpec == Spec /\ Fairness

-----------------------------------------------------------------------------
(* Safety.                                                                 *)

\* The controller writes an Exposure's CNAME only once the Access application
\* that the pass read it should have is there (reconcileExposureAccess runs
\* first), even if an earlier pass died half way.
AccessBeforeDns ==
    [][\A j \in job :
          /\ faults' = faults
          /\ \E r \in records' : r.owner = j.exp /\ r \notin records
          => (j.access => j.exp \in apps)]_vars

\* The controller never changes or deletes a CNAME with somebody else's comment
\* (reconcileDNS, deleteOwnedDNSIfPresent).
ForeignKept ==
    [][faults' = faults =>
          {r \in records : r.owner = Foreign} \subseteq records']_vars

\* The object of an Exposure does not go before its CNAME and its application
\* (reconcileDelete).
NoLeftovers ==
    \A e \in Exposures : exposure[e] = "gone" =>
        e \notin apps /\ \A r \in records : r.owner # e

-----------------------------------------------------------------------------
(* Liveness.                                                               *)

\* The tunnel is to stay, no two Exposures claim a hostname, and nobody else has
\* a tunnel or a CNAME where this one's should be.
Serviceable ==
    /\ tobj = "live"
    /\ ~HostnameConflict
    /\ Named("legacy") \cap (TunnelIds \ tid) = {}
    /\ tid \cap Named("other") = {}
    /\ \A r \in records : r.owner \in Present

\* The tunnel runs, its CNAMEs and applications are what the objects ask for,
\* and the objects say so.
Surfaced ==
    /\ tid # {} /\ tready
    /\ tid \subseteq Named("generated")
    /\ pods = tid
    /\ \A e \in Exposures : exposure[e] = "live" =>
          /\ eready[e] /\ observed[e] = origin[e]
          /\ (e \in apps) = access[e]
          /\ {r.target : r \in {x \in records : x.owner = e}}
                = IF manage THEN {tid} ELSE {}

\* Whatever crashes, failed calls, lost CNAMEs, edits and deletions came before,
\* the tunnel, the CNAMEs, the applications and the conditions end up as the
\* objects ask: no pass depends on an earlier one having run to its end.
SurfaceConverges == <>[]Serviceable => <>[]Surfaced

\* A deletion that nobody blocks completes.
TeardownCompletes ==
    /\ \A e \in Exposures : exposure[e] = "deleting" ~> exposure[e] = "gone"
    /\ [](tobj = "deleting" /\ Present = {} /\ tid \cap Named("other") = {}
            => <>(tobj = "gone"))
=============================================================================
