------------------------------ MODULE Failover ------------------------------
(***************************************************************************)
(* Disaster-recovery failover of one CloudflareExposure group: one         *)
(* operator per site (cluster), each with its own Exposure object, all     *)
(* sharing the lease TXT records, the public CNAME and the Access          *)
(* application of the hostname at Cloudflare.                              *)
(*                                                                         *)
(* A reconcile pass is one action per Cloudflare call, so the passes of    *)
(* different sites interleave at every call.  Reads and writes of the      *)
(* site's own Kubernetes object are visible to that site only (one worker  *)
(* per controller) and are part of the neighbouring action; a status write *)
(* that fails is the Abort of the pass just before it.                     *)
(***************************************************************************)
EXTENDS LeaseRules

CONSTANTS
    Sites,          \* the --site-id of every operator of the group
    Ids,            \* DNS record ids Cloudflare may assign
    Tokens,         \* force-promote tokens an operator may choose
    NoToken,        \* no annotation / nothing recorded
    Skew,           \* Skew[s]: how far the clock of site s is ahead
    Manual,         \* promotionPolicy = Manual
    Refused,        \* sites with the default --site-id or dns.manage=false
    Deletable,      \* sites whose Exposure may be deleted
    Rivals,         \* sites where a second Exposure may join the group
    Alive,          \* sites that never fail for good
    CreateRetries,  \* the API client's retry may repeat a Create
    ForeignRecords, \* foreign TXT records may appear at the lease name
    MaxClock,       \* bound on the clock
    MaxFaults,      \* bound on crashes, API errors, foreign records and rivals
    MaxEdits        \* bound on edits of the force-promote annotation

ASSUME FailoverAssumption ==
    /\ Sites \subseteq Nat
    /\ Ids \subseteq Nat
    /\ NoToken \notin Tokens
    /\ Skew \in [Sites -> Nat]
    /\ Manual \in BOOLEAN
    /\ Refused \subseteq Sites
    /\ Deletable \subseteq Sites
    /\ Rivals \subseteq Sites \ Deletable
    /\ Alive \subseteq Sites
    /\ CreateRetries \in BOOLEAN
    /\ ForeignRecords \in BOOLEAN
    /\ MaxClock \in Nat
    /\ MaxFaults \in Nat
    /\ MaxEdits \in Nat

VARIABLES
    clock,    \* true time
    leases,   \* the group-owned lease TXT records
    foreign,  \* a record that is foreign or does not parse is at the lease name
    cname,    \* the public CNAME: {} or one record [id, target]
    app,      \* a group-owned Access application exists
    obj,      \* life of each site's Exposure object
    rival,    \* life of a second Exposure of the group in the site's cluster
    ann,      \* each site's force-promote annotation
    role,     \* status.failover.role
    ack,      \* status.failover.lastForcePromoteToken
    dnsId,    \* status.cloudflare.dnsRecordId: {} or one id
    ready,    \* the Ready condition
    pc,       \* where the site's reconcile pass is
    now,      \* the wall clock the pass started at
    tok,      \* the token that forces this pass
    cur,      \* the record the pass is about to write: {} or one id
    dels,     \* the lease records the pass has yet to delete
    holds,    \* a finalizer pass found its site to hold the lease
    faults,   \* faults injected so far
    edits,    \* annotation edits so far
    issued,   \* history: the tokens ever given to a site
    used      \* history: the tokens a site took the lease with

shared  == <<leases, foreign, cname, app>>
status  == <<role, ack, dnsId, ready>>
pass    == <<pc, now, tok, cur, dels, holds>>  \* lost in a crash
history == <<issued, used>>
vars    == <<clock, shared, obj, rival, ann, status, pass, faults, edits, history>>

Steps == {"idle", "list", "write", "verify", "resolve", "access", "dns",
          "dnsWrite", "final", "finList", "finLease", "finDns", "finDnsDelete",
          "finAccess", "finDrop", "rival"}

\* The steps past the role gate, where a pass writes the shared surface.
SharedSteps == {"access", "dns", "dnsWrite", "final"}

\* The steps of a finalizer pass that no longer touch the lease.
TearDownSteps == {"finDns", "finDnsDelete", "finAccess", "finDrop"}

TokenOrNone == Tokens \cup {NoToken}

LeaseRecord == [id : Ids, site : Sites, renewed : Int, expires : Int]

TypeOK ==
    /\ clock \in 0..MaxClock
    /\ leases \subseteq LeaseRecord
    /\ foreign \in BOOLEAN
    /\ cname \subseteq [id : Ids, target : Sites]
    /\ app \in BOOLEAN
    /\ obj \in [Sites -> {"new", "live", "deleting", "gone"}]
    /\ rival \in [Sites -> {"absent", "live", "deleting"}]
    /\ \A s \in Sites \ Rivals : rival[s] = "absent"
    /\ ann \in [Sites -> TokenOrNone]
    /\ role \in [Sites -> {"Unknown", "Primary", "Standby"}]
    /\ ack \in [Sites -> TokenOrNone]
    /\ dnsId \in [Sites -> SUBSET Ids]
    /\ ready \in [Sites -> BOOLEAN]
    /\ pc \in [Sites -> Steps]
    /\ now \in [Sites -> Nat]
    /\ tok \in [Sites -> TokenOrNone]
    /\ cur \in [Sites -> SUBSET Ids]
    /\ dels \in [Sites -> SUBSET Ids]
    /\ holds \in [Sites -> BOOLEAN]
    /\ faults \in 0..MaxFaults
    /\ edits \in 0..MaxEdits
    /\ issued \in [Sites -> SUBSET Tokens]
    /\ used \in [Sites -> SUBSET Tokens]

Init ==
    /\ clock = 0
    /\ leases = {} /\ foreign = FALSE /\ cname = {} /\ app = FALSE
    /\ obj = [s \in Sites |-> "new"]
    /\ rival = [s \in Sites |-> "absent"]
    /\ ann = [s \in Sites |-> NoToken]
    /\ role = [s \in Sites |-> "Unknown"]
    /\ ack = [s \in Sites |-> NoToken]
    /\ dnsId = [s \in Sites |-> {}]
    /\ ready = [s \in Sites |-> FALSE]
    /\ pc = [s \in Sites |-> "idle"]
    /\ now = [s \in Sites |-> 0]
    /\ tok = [s \in Sites |-> NoToken]
    /\ cur = [s \in Sites |-> {}]
    /\ dels = [s \in Sites |-> {}]
    /\ holds = [s \in Sites |-> FALSE]
    /\ faults = 0 /\ edits = 0
    /\ issued = [s \in Sites |-> {}]
    /\ used = [s \in Sites |-> {}]

-----------------------------------------------------------------------------
(* Helpers.                                                                *)

IdsOf(records) == {r.id : r \in records}

OwnLeases(s) == {l \in leases : l.site = s}

Duplicated == \E a, b \in leases : a # b

\* Ids that no record has and nobody remembers.  Cloudflare never reuses an
\* id; an id that nothing refers to any more is as good as a new one.
FreeIds ==
    {i \in Ids : /\ i \notin IdsOf(leases) \cup IdsOf(cname)
                 /\ \A s \in Sites : i \notin cur[s] \cup dels[s] \cup dnsId[s]}

IsFresh(i) == i \in FreeIds /\ \A j \in FreeIds : i <= j

At(s, step) == pc[s] = step

GoTo(s, step) ==
    /\ pc' = [pc EXCEPT ![s] = step]
    /\ UNCHANGED <<now, tok, cur, dels, holds>>

EndPass(s) ==
    /\ pc' = [pc EXCEPT ![s] = "idle"]
    /\ now' = [now EXCEPT ![s] = 0]
    /\ tok' = [tok EXCEPT ![s] = NoToken]
    /\ cur' = [cur EXCEPT ![s] = {}]
    /\ dels' = [dels EXCEPT ![s] = {}]
    /\ holds' = [holds EXCEPT ![s] = FALSE]

SetRole(s, r, isReady) ==
    /\ role' = [role EXCEPT ![s] = r]
    /\ ready' = [ready EXCEPT ![s] = isReady]
    /\ UNCHANGED <<ack, dnsId>>

\* The pass failed: the condition says so, the work queue retries.
Fail(s) ==
    /\ ready' = [ready EXCEPT ![s] = FALSE]
    /\ UNCHANGED <<role, ack, dnsId>>
    /\ EndPass(s)

\* What a pass for the site's Exposure never touches.
OperatorFrame == UNCHANGED <<clock, foreign, rival, ann, edits, issued>>

\* A forced pass of s takes over a lease that is not its own.
UseToken(s, taken) ==
    used' = IF tok[s] # NoToken /\ taken
              THEN [used EXCEPT ![s] = @ \cup {tok[s]}] ELSE used

-----------------------------------------------------------------------------
(* The environment: time, the operators' users, foreign records, crashes.  *)

Tick ==
    /\ clock < MaxClock
    /\ clock' = clock + 1
    /\ UNCHANGED <<shared, obj, rival, ann, status, pass, faults, edits, history>>

\* A user or GitOps sets or removes the force-promote annotation.
Annotate(s, t) ==
    /\ edits < MaxEdits
    /\ obj[s] \in {"new", "live"}
    /\ ann[s] # t
    /\ ann' = [ann EXCEPT ![s] = t]
    /\ issued' = [issued EXCEPT ![s] = @ \cup ({t} \ {NoToken})]
    /\ edits' = edits + 1
    /\ UNCHANGED <<clock, shared, obj, rival, status, pass, faults, used>>

\* The Exposure is deleted; the finalizer, once there, holds the object back.
Delete(s) ==
    /\ s \in Deletable
    /\ obj[s] \in {"new", "live"}
    /\ obj' = [obj EXCEPT ![s] = IF @ = "new" THEN "gone" ELSE "deleting"]
    /\ UNCHANGED <<clock, shared, rival, ann, status, pass, faults, edits,
                   history>>

\* A second Exposure of the same group, with a hostname of its own, is applied
\* by mistake in the cluster of s.  Its own passes back off like those of s and
\* write nothing at Cloudflare.
ApplyRival(s) ==
    /\ s \in Rivals
    /\ faults < MaxFaults
    /\ obj[s] = "live" /\ rival[s] = "absent"
    /\ rival' = [rival EXCEPT ![s] = "live"]
    /\ faults' = faults + 1
    /\ UNCHANGED <<clock, shared, obj, ann, status, pass, edits, history>>

DeleteRival(s) ==
    /\ rival[s] = "live"
    /\ rival' = [rival EXCEPT ![s] = "deleting"]
    /\ UNCHANGED <<clock, shared, obj, ann, status, pass, faults, edits, history>>

\* Somebody else puts a TXT record at the lease name, or takes it away.
ForeignRecord ==
    /\ ForeignRecords
    /\ \/ ~foreign /\ faults < MaxFaults /\ faults' = faults + 1
       \/ foreign /\ faults' = faults
    /\ foreign' = ~foreign
    /\ UNCHANGED <<clock, leases, cname, app, obj, rival, ann, status, pass,
                   edits, history>>

\* The operator crashes, or a Cloudflare or Kubernetes call fails: the rest
\* of the pass is lost.  An error that is reported clears the Ready condition.
Abort(s) ==
    /\ ~At(s, "idle")
    /\ faults < MaxFaults
    /\ faults' = faults + 1
    /\ \E r \in {ready[s], FALSE} : ready' = [ready EXCEPT ![s] = r]
    /\ UNCHANGED <<role, ack, dnsId>>
    /\ EndPass(s)
    /\ UNCHANGED <<clock, shared, obj, rival, ann, edits, history>>

-----------------------------------------------------------------------------
(* The role gate.                                                          *)

\* hasFailoverGroupConflict: another Exposure of the group, not being deleted,
\* is in this cluster.
GroupConflict(s) == rival[s] = "live"

\* A pass starts: the object is read (a token that differs from the recorded
\* one forces), the finalizer added, the wall clock read.
Begin(s) ==
    /\ At(s, "idle")
    /\ obj[s] \in {"new", "live"}
    /\ ~GroupConflict(s) /\ s \notin Refused
    /\ obj' = [obj EXCEPT ![s] = "live"]
    /\ pc' = [pc EXCEPT ![s] = "list"]
    /\ now' = [now EXCEPT ![s] = clock + Skew[s]]
    /\ tok' = [tok EXCEPT ![s] = IF ann[s] # ack[s] THEN ann[s] ELSE NoToken]
    /\ UNCHANGED <<cur, dels, holds>>
    /\ UNCHANGED <<leases, cname, app, status, faults, used>>
    /\ OperatorFrame

\* A site whose cluster has two Exposures of the group, that has no identity of
\* its own, or no managed DNS, refuses: not Ready, the role as it was.
Refuse(s) ==
    /\ At(s, "idle")
    /\ obj[s] \in {"new", "live"}
    /\ GroupConflict(s) \/ s \in Refused
    /\ obj' = [obj EXCEPT ![s] = "live"]
    /\ ready' = [ready EXCEPT ![s] = FALSE]
    /\ UNCHANGED <<role, ack, dnsId>>
    /\ UNCHANGED <<leases, cname, app, pass, faults, used>>
    /\ OperatorFrame

\* Mutant of FailClosed: the pass ends without demoting the site.
MutantConflictKeepsRole(s) ==
    /\ At(s, "list") \/ At(s, "verify")
    /\ foreign
    /\ EndPass(s)
    /\ UNCHANGED <<leases, cname, app, obj, status, faults, used>>
    /\ OperatorFrame

\* A foreign record at the lease name, in the first read or in the read-back.
FailClosed(s) ==
    /\ At(s, "list") \/ At(s, "verify")
    /\ foreign
    /\ SetRole(s, "Standby", FALSE)
    /\ EndPass(s)
    /\ UNCHANGED <<leases, cname, app, obj, faults, used>>
    /\ OperatorFrame

\* Several records: compute the deletions this site owes, from the clock the
\* pass read when it started.
ResolveDuplicates(s) ==
    /\ At(s, "list") \/ At(s, "verify")
    /\ ~foreign
    /\ Duplicated
    /\ pc' = [pc EXCEPT ![s] = "resolve"]
    /\ dels' = [dels EXCEPT ![s] = Resolve(leases, now[s], s)]
    /\ UNCHANGED <<now, tok, cur, holds>>
    /\ UNCHANGED <<leases, cname, app, obj, status, faults, used>>
    /\ OperatorFrame

\* Delete one of them; a record that is already gone is no error.
ResolveDelete(s, i) ==
    /\ At(s, "resolve")
    /\ i \in dels[s]
    /\ leases' = {l \in leases : l.id # i}
    /\ dels' = [dels EXCEPT ![s] = @ \ {i}]
    /\ UNCHANGED <<pc, now, tok, cur, holds>>
    /\ UNCHANGED <<cname, app, obj, status, faults, used>>
    /\ OperatorFrame

ResolveDone(s) ==
    /\ At(s, "resolve")
    /\ dels[s] = {}
    /\ SetRole(s, "Standby", FALSE)
    /\ EndPass(s)
    /\ UNCHANGED <<leases, cname, app, obj, faults, used>>
    /\ OperatorFrame

Verdict(s) == Decide(now[s], s, role[s], leases,
                     tok[s] # NoToken, Manual)

\* The first read found at most one record, and Decide's verdict is v.
Gate(s, v) ==
    /\ At(s, "list")
    /\ ~foreign
    /\ ~Duplicated
    /\ Verdict(s) = v

\* Mutant of StandBy: a site that awaits promotion reports Ready.
MutantAwaitingIsReady(s) ==
    /\ \E v \in {"wait", "splitBrain", "await"} :
           Gate(s, v) /\ SetRole(s, "Standby", TRUE)
    /\ EndPass(s)
    /\ UNCHANGED <<leases, cname, app, obj, faults, used>>
    /\ OperatorFrame

\* Wait or demote.  A standby whose peer serves is Ready; one that Manual
\* promotion holds back is not.
StandBy(s) ==
    /\ \E v \in {"wait", "splitBrain", "await"} :
           Gate(s, v) /\ SetRole(s, "Standby", v # "await")
    /\ EndPass(s)
    /\ UNCHANGED <<leases, cname, app, obj, faults, used>>
    /\ OperatorFrame

\* The lease is this site's and not yet due: on to the shared writes.  A
\* pending token is neither used nor recorded.
HoldPrimary(s) ==
    /\ Gate(s, "hold")
    /\ role' = [role EXCEPT ![s] = "Primary"]
    /\ UNCHANGED <<ack, dnsId, ready>>
    /\ pc' = [pc EXCEPT ![s] = "access"]
    /\ tok' = [tok EXCEPT ![s] = NoToken]
    /\ UNCHANGED <<now, cur, dels, holds>>
    /\ UNCHANGED <<leases, cname, app, obj, faults, used>>
    /\ OperatorFrame

\* Mutant of DecideWrite: the observed record's id is lost.
MutantForgetsRecord(s) ==
    /\ \E v \in {"acquire", "renew"} : Gate(s, v)
    /\ GoTo(s, "write")
    /\ UNCHANGED <<leases, cname, app, obj, status, faults, used>>
    /\ OperatorFrame

\* Acquire or renew: remember the record to update, if there is one.
DecideWrite(s) ==
    /\ \E v \in {"acquire", "renew"} : Gate(s, v)
    /\ pc' = [pc EXCEPT ![s] = "write"]
    /\ cur' = [cur EXCEPT ![s] = IdsOf(leases)]
    /\ UNCHANGED <<now, tok, dels, holds>>
    /\ UNCHANGED <<leases, cname, app, obj, status, faults, used>>
    /\ OperatorFrame

\* The lease this pass writes.
Desired(s, i) == [id |-> i, site |-> s,
                  renewed |-> Serialize(now[s]),
                  expires |-> Serialize(now[s] + LeaseTTL)]

CreateLease(s) ==
    /\ At(s, "write")
    /\ cur[s] = {}
    /\ \E i \in Ids : IsFresh(i) /\ leases' = leases \cup {Desired(s, i)}
    /\ GoTo(s, "verify")
    /\ UNCHANGED <<cname, app, obj, status, faults>>
    /\ UseToken(s, TRUE)
    /\ OperatorFrame

\* The server stored the record but answered with an error the client's
\* retry loop repeats the call on.
CreateLeaseRetried(s) ==
    /\ CreateRetries
    /\ faults < MaxFaults
    /\ At(s, "write")
    /\ cur[s] = {}
    /\ \E i, j \in Ids :
           /\ IsFresh(i)
           /\ j \in FreeIds \ {i} /\ \A k \in FreeIds \ {i} : j <= k
           /\ leases' = leases \cup {Desired(s, i), Desired(s, j)}
    /\ GoTo(s, "verify")
    /\ faults' = faults + 1
    /\ UNCHANGED <<cname, app, obj, status>>
    /\ UseToken(s, TRUE)
    /\ OperatorFrame

\* Update by record id, whoever the record names by now.
UpdateLease(s) ==
    /\ At(s, "write")
    /\ cur[s] # {}
    /\ IF cur[s] \subseteq IdsOf(leases)
         THEN /\ leases' = {IF l.id \in cur[s] THEN Desired(s, l.id) ELSE l :
                               l \in leases}
              /\ GoTo(s, "verify")
              /\ UNCHANGED status
         ELSE Fail(s) /\ UNCHANGED leases
    /\ UNCHANGED <<cname, app, obj, faults>>
    /\ UseToken(s, \E l \in leases : l.id \in cur[s] /\ l.site # s)
    /\ OperatorFrame

\* Mutant of LostRace: the token counts as honoured.
MutantLostRaceRecords(s) ==
    /\ At(s, "verify")
    /\ ~foreign
    /\ ~Duplicated
    /\ \A l \in leases : l.site # s
    /\ role' = [role EXCEPT ![s] = "Standby"]
    /\ ready' = [ready EXCEPT ![s] = TRUE]
    /\ ack' = [ack EXCEPT ![s] = IF tok[s] = NoToken THEN @ ELSE tok[s]]
    /\ UNCHANGED dnsId
    /\ EndPass(s)
    /\ UNCHANGED <<leases, cname, app, obj, faults, used>>
    /\ OperatorFrame

\* The read-back found no record, or somebody else's.
LostRace(s) ==
    /\ At(s, "verify")
    /\ ~foreign
    /\ ~Duplicated
    /\ \A l \in leases : l.site # s
    /\ SetRole(s, "Standby", TRUE)
    /\ EndPass(s)
    /\ UNCHANGED <<leases, cname, app, obj, faults, used>>
    /\ OperatorFrame

\* The read-back found this site's record alone: Primary, and the token that
\* forced the acquire is recorded with the role.
BecomePrimary(s) ==
    /\ At(s, "verify")
    /\ ~foreign
    /\ ~Duplicated
    /\ \E l \in leases : l.site = s
    /\ role' = [role EXCEPT ![s] = "Primary"]
    /\ ack' = [ack EXCEPT ![s] = IF tok[s] = NoToken THEN @ ELSE tok[s]]
    /\ UNCHANGED <<dnsId, ready>>
    /\ GoTo(s, "access")
    /\ UNCHANGED <<leases, cname, app, obj, faults, used>>
    /\ OperatorFrame

-----------------------------------------------------------------------------
(* The shared surface, written by a Primary.                               *)

ReconcileAccess(s) ==
    /\ At(s, "access")
    /\ app' = TRUE
    /\ GoTo(s, "dns")
    /\ UNCHANGED <<leases, cname, obj, status, faults, used>>
    /\ OperatorFrame

\* List the CNAME: nothing to do, or remember the record to update.
ListDns(s) ==
    /\ At(s, "dns")
    /\ pc' = [pc EXCEPT ![s] = IF \E c \in cname : c.target = s
                                 THEN "final" ELSE "dnsWrite"]
    /\ cur' = [cur EXCEPT ![s] = IdsOf(cname)]
    /\ UNCHANGED <<now, tok, dels, holds>>
    /\ UNCHANGED <<leases, cname, app, obj, status, faults, used>>
    /\ OperatorFrame

\* Create the CNAME (Cloudflare refuses a second one) or update it by id.
WriteDns(s) ==
    /\ At(s, "dnsWrite")
    /\ \/ /\ cur[s] = {} /\ cname = {}
          /\ \E i \in Ids :
                /\ IsFresh(i)
                /\ cname' = {[id |-> i, target |-> s]}
                /\ cur' = [cur EXCEPT ![s] = {i}]
          /\ pc' = [pc EXCEPT ![s] = "final"]
          /\ UNCHANGED <<now, tok, dels, holds>>
          /\ UNCHANGED status
       \/ /\ cur[s] # {} /\ cur[s] = IdsOf(cname)
          /\ cname' = {[id |-> i, target |-> s] : i \in cur[s]}
          /\ GoTo(s, "final")
          /\ UNCHANGED status
       \/ /\ cur[s] # IdsOf(cname)
          /\ Fail(s)
          /\ UNCHANGED cname
    /\ UNCHANGED <<leases, app, obj, faults, used>>
    /\ OperatorFrame

\* Save status.cloudflare and the Ready condition.
SaveStatus(s) ==
    /\ At(s, "final")
    /\ dnsId' = [dnsId EXCEPT ![s] = cur[s]]
    /\ ready' = [ready EXCEPT ![s] = TRUE]
    /\ UNCHANGED <<role, ack>>
    /\ EndPass(s)
    /\ UNCHANGED <<leases, cname, app, obj, faults, used>>
    /\ OperatorFrame

-----------------------------------------------------------------------------
(* The finalizer.                                                          *)

\* holdsLiveLease: is there exactly one record, and is it this site's?
FinHoldsLease(s) ==
    /\ At(s, "idle")
    /\ obj[s] = "deleting"
    /\ pc' = [pc EXCEPT ![s] = "finList"]
    /\ holds' = [holds EXCEPT ![s] = /\ ~foreign
                                     /\ ~Duplicated
                                     /\ \E l \in leases : l.site = s]
    /\ UNCHANGED <<now, tok, cur, dels>>
    /\ UNCHANGED <<leases, cname, app, obj, status, faults, used>>
    /\ OperatorFrame

\* Mutant of FinListLeases: only a holder cleans its lease up.
MutantOnlyHolderCleans(s) ==
    /\ At(s, "finList")
    /\ pc' = [pc EXCEPT ![s] = "finLease"]
    /\ dels' = [dels EXCEPT ![s] =
                   IF foreign \/ ~holds[s] THEN {} ELSE IdsOf(OwnLeases(s))]
    /\ UNCHANGED <<now, tok, cur, holds>>
    /\ UNCHANGED <<leases, cname, app, obj, status, faults, used>>
    /\ OperatorFrame

\* deleteOwnedLeaseIfPresent lists again; a foreign record ends it.
FinListLeases(s) ==
    /\ At(s, "finList")
    /\ pc' = [pc EXCEPT ![s] = "finLease"]
    /\ dels' = [dels EXCEPT ![s] = IF foreign THEN {} ELSE IdsOf(OwnLeases(s))]
    /\ UNCHANGED <<now, tok, cur, holds>>
    /\ UNCHANGED <<leases, cname, app, obj, status, faults, used>>
    /\ OperatorFrame

FinDeleteLease(s, i) ==
    /\ At(s, "finLease")
    /\ i \in dels[s]
    /\ leases' = {l \in leases : l.id # i}
    /\ dels' = [dels EXCEPT ![s] = @ \ {i}]
    /\ UNCHANGED <<pc, now, tok, cur, holds>>
    /\ UNCHANGED <<cname, app, obj, status, faults, used>>
    /\ OperatorFrame

\* Mutant of FinLeaseDone: a site that does not hold the lease waits for it.
MutantWaitsForLease(s) ==
    /\ At(s, "finLease")
    /\ dels[s] = {}
    /\ IF holds[s] THEN GoTo(s, "finDns") ELSE EndPass(s)
    /\ UNCHANGED <<leases, cname, app, obj, status, faults, used>>
    /\ OperatorFrame

\* Mutant of FinLeaseDone: whoever is deleted tears the shared surface down.
MutantTearsDownAnyway(s) ==
    /\ At(s, "finLease")
    /\ dels[s] = {}
    /\ GoTo(s, "finDns")
    /\ UNCHANGED <<leases, cname, app, obj, status, faults, used>>
    /\ OperatorFrame

\* A site that did not hold the lease is done; one that did goes on to the
\* shared surface.
FinLeaseDone(s) ==
    /\ At(s, "finLease")
    /\ dels[s] = {}
    /\ IF holds[s]
         THEN GoTo(s, "finDns") /\ UNCHANGED obj
         ELSE EndPass(s) /\ obj' = [obj EXCEPT ![s] = "gone"]
    /\ UNCHANGED <<leases, cname, app, status, faults, used>>
    /\ OperatorFrame

\* The CNAME is deleted only if it has the id recorded in the status.
FinListDns(s) ==
    /\ At(s, "finDns")
    /\ pc' = [pc EXCEPT ![s] = IF IdsOf(cname) \cap dnsId[s] # {}
                                 THEN "finDnsDelete" ELSE "finAccess"]
    /\ cur' = [cur EXCEPT ![s] = IdsOf(cname) \cap dnsId[s]]
    /\ UNCHANGED <<now, tok, dels, holds>>
    /\ UNCHANGED <<leases, cname, app, obj, status, faults, used>>
    /\ OperatorFrame

FinDeleteDns(s) ==
    /\ At(s, "finDnsDelete")
    /\ cname' = {c \in cname : c.id \notin cur[s]}
    /\ GoTo(s, "finAccess")
    /\ UNCHANGED <<leases, app, obj, status, faults, used>>
    /\ OperatorFrame

\* List the group-owned applications and delete them.
FinDeleteAccess(s) ==
    /\ At(s, "finAccess")
    /\ app' = FALSE
    /\ GoTo(s, "finDrop")
    /\ UNCHANGED <<leases, cname, obj, status, faults, used>>
    /\ OperatorFrame

FinDrop(s) ==
    /\ At(s, "finDrop")
    /\ obj' = [obj EXCEPT ![s] = "gone"]
    /\ EndPass(s)
    /\ UNCHANGED <<leases, cname, app, status, faults, used>>
    /\ OperatorFrame

-----------------------------------------------------------------------------
(* The finalizer of the second Exposure.  It runs on the same worker, under *)
(* the same --site-id, so the lease it cleans up is the one the site's own  *)
(* Exposure holds.  It has no CNAME and no application to delete.           *)

RivalListLeases(s) ==
    /\ At(s, "idle")
    /\ obj[s] = "live" /\ rival[s] = "deleting"
    /\ pc' = [pc EXCEPT ![s] = "rival"]
    /\ dels' = [dels EXCEPT ![s] = IF foreign THEN {} ELSE IdsOf(OwnLeases(s))]
    /\ UNCHANGED <<now, tok, cur, holds>>
    /\ UNCHANGED <<leases, cname, app, obj, status, faults, used>>
    /\ OperatorFrame

RivalDeleteLease(s, i) ==
    /\ At(s, "rival")
    /\ i \in dels[s]
    /\ leases' = {l \in leases : l.id # i}
    /\ dels' = [dels EXCEPT ![s] = @ \ {i}]
    /\ UNCHANGED <<pc, now, tok, cur, holds>>
    /\ UNCHANGED <<cname, app, obj, status, faults, used>>
    /\ OperatorFrame

RivalGone(s) ==
    /\ At(s, "rival")
    /\ dels[s] = {}
    /\ rival' = [rival EXCEPT ![s] = "absent"]
    /\ EndPass(s)
    /\ UNCHANGED <<clock, shared, obj, ann, status, faults, edits, history>>

-----------------------------------------------------------------------------

GateStep(s) ==
    \/ Begin(s) \/ Refuse(s) \/ FailClosed(s) \/ ResolveDuplicates(s)
    \/ \E i \in Ids : ResolveDelete(s, i)
    \/ ResolveDone(s) \/ StandBy(s) \/ HoldPrimary(s) \/ DecideWrite(s)
    \/ CreateLease(s) \/ UpdateLease(s) \/ LostRace(s) \/ BecomePrimary(s)

SurfaceStep(s) ==
    ReconcileAccess(s) \/ ListDns(s) \/ WriteDns(s) \/ SaveStatus(s)

FinalizerStep(s) ==
    \/ FinHoldsLease(s) \/ FinListLeases(s)
    \/ \E i \in Ids : FinDeleteLease(s, i)
    \/ FinLeaseDone(s) \/ FinListDns(s) \/ FinDeleteDns(s)
    \/ FinDeleteAccess(s) \/ FinDrop(s)

RivalStep(s) ==
    \/ RivalListLeases(s)
    \/ \E i \in Ids : RivalDeleteLease(s, i)
    \/ RivalGone(s)

OperatorStep(s) ==
    GateStep(s) \/ SurfaceStep(s) \/ FinalizerStep(s) \/ RivalStep(s)

Next ==
    \/ Tick
    \/ ForeignRecord
    \/ \E s \in Sites :
          \/ OperatorStep(s)
          \/ CreateLeaseRetried(s)
          \/ Abort(s)
          \/ Delete(s) \/ ApplyRival(s) \/ DeleteRival(s)
          \/ \E t \in TokenOrNone : Annotate(s, t)

Spec == Init /\ [][Next]_vars

\* An operator that is up keeps reconciling: each path of a pass ends in a
\* requeue, an error the work queue retries, or the object being gone.  A site
\* outside Alive may stop for good at any point.  Time passes.
Fairness == WF_vars(Tick) /\ \A s \in Alive : WF_vars(OperatorStep(s))

FairSpec == Spec /\ Fairness

-----------------------------------------------------------------------------
(* Properties.                                                             *)

\* No site ever holds two leases, however passes, crashes and clocks interleave:
\* a pass that creates saw no record of its own and one that updates addresses
\* the only record it saw (reconcileFailoverRole, writeLease).  Two records of
\* one site are one Create that the API client's retry repeated (withRetry):
\* equal but for the id, so the site has one expiry for its peers to wait for.
OneLeasePerSite ==
    \A a, b \in leases : a.site = b.site =>
        \/ a = b
        \/ /\ CreateRetries /\ faults > 0
           /\ a.renewed = b.renewed /\ a.expires = b.expires

\* Under promotionPolicy Manual a site that was never given a force-promote
\* token never holds a lease, is never Primary and never receives the CNAME
\* (Decide's two Manual branches, through every race of the write protocol).
PromotedOnlyByOperator ==
    Manual => \A s \in Sites : issued[s] = {} =>
        /\ \A l \in leases : l.site # s
        /\ role[s] # "Primary"
        /\ \A c \in cname : c.target # s

\* An Exposure whose finalizer is gone leaves no lease of its site behind, nor
\* a pass that could still write one (deleteOwnedLeaseIfPresent), as long as
\* no foreign record makes the clean-up fail closed.
GoneHoldsNoLease ==
    \A s \in Sites : obj[s] = "gone" =>
        At(s, "idle") /\ \A l \in leases : l.site # s

\* When every site's Exposure is gone, so are the CNAME and the application
\* (the finalizer's purpose: Cloudflare-side resources are cleaned up first).
NoOrphans ==
    (\A s \in Sites : obj[s] = "gone") => cname = {} /\ ~app

\* A token that made its site Primary does not overthrow the peer that takes
\* over later ("the same token never re-fires"): the role gate of a site that
\* reports Primary never decides to take a peer's live lease with a token the
\* site already took the lease with.
TokenFiresOnce ==
    \A s \in Sites :
        ~ /\ Gate(s, "acquire") /\ role[s] = "Primary" /\ tok[s] \in used[s]
          /\ \E l \in leases : ~Expired(l, now[s])

-----------------------------------------------------------------------------
(* What makes the safety properties inductive.                             *)

FinalizerSteps == {"finList", "finLease"} \cup TearDownSteps

UniqueIds == \A a, b \in leases : a.id = b.id => a = b

\* A pass about to write addresses every record its site has, and at most one.
WriteKnowsOwn ==
    \A s \in Sites : At(s, "write") =>
        /\ IdsOf(OwnLeases(s)) \subseteq cur[s]
        /\ \A i, j \in cur[s] : i = j

\* Passes run for objects that exist, finalizer passes for those being deleted;
\* a finalizer pass past its listing knows every record its site has, and past
\* the deletions there is none.
FinalizerKnows(s) ==
    /\ obj[s] \in {"new", "gone"} => At(s, "idle") /\ OwnLeases(s) = {}
    /\ pc[s] \in FinalizerSteps => obj[s] = "deleting"
    /\ At(s, "finLease") => IdsOf(OwnLeases(s)) \subseteq dels[s]
    /\ pc[s] \in TearDownSteps => OwnLeases(s) = {}

FinalizerInv == ~foreign /\ \A s \in Sites : FinalizerKnows(s)

\* Every token a site works with was given to it; under Manual a site that was
\* given none has no lease, is not Primary and is not about to write.
PromotionTraced(s) ==
    /\ {ann[s], tok[s]} \subseteq issued[s] \cup {NoToken}
    /\ Manual /\ issued[s] = {} =>
          /\ pc[s] \notin {"write"} \cup SharedSteps
          /\ OwnLeases(s) = {}
          /\ role[s] # "Primary"
          /\ \A c \in cname : c.target # s

PromotionInv == \A s \in Sites : PromotionTraced(s)

-----------------------------------------------------------------------------
(* Liveness, under FairSpec.                                               *)

\* s serves the hostname: it alone holds the lease, it knows, and the shared
\* surface is its own.
Serves(s) ==
    /\ role[s] = "Primary" /\ ready[s]
    /\ leases # {} /\ \A l \in leases : l.site = s
    /\ cname # {} /\ \A c \in cname : c.target = s
    /\ app

\* s serves, and no pass works from what it read before s did: a peer neither
\* writes nor holds the lease it tears down, nor has a deletion of this lease
\* left; a pass of s renews the lease there is.
Settled(s) ==
    /\ role[s] = "Primary"
    /\ leases # {} /\ ~Duplicated /\ \A l \in leases : l.site = s
    /\ cname # {} /\ \A c \in cname : c.target = s
    /\ app
    /\ pc[s] \notin {"resolve", "rival"} \cup FinalizerSteps
    /\ At(s, "write") => cur[s] = IdsOf(leases)
    /\ \A r \in Sites \ {s} :
          /\ pc[r] \notin {"write", "access", "dns", "dnsWrite"} \cup TearDownSteps
          /\ pc[r] \in FinalizerSteps => ~holds[r]
          /\ pc[r] \in {"resolve", "finLease", "rival"} =>
                dels[r] \cap IdsOf(leases) = {}

\* The Exposure of s stays, no second one is deleted, nothing foreign is at the lease name, and the peers
\* that read the lease read it unforced and before it expires.
Undisturbed(s) ==
    /\ obj[s] = "live" /\ rival[s] # "deleting" /\ ~foreign
    /\ \A r \in Sites \ {s} : At(r, "list") =>
          tok[r] = NoToken /\ \A l \in leases : ~Expired(l, now[r])

\* While nothing disturbs it a site that serves goes on serving: no pass of its
\* own (renewal, read-back, DNS), no peer standing by, deleting its Exposure or
\* finishing a resolution, no crash and no failed call takes the lease, the
\* CNAME, the application or the role from it (reconcileFailoverRole,
\* holdsLiveLease, deleteOwnedLeaseIfPresent).
ServingStays ==
    [][\A s \in Sites : Undisturbed(s) /\ Settled(s) => Settled(s)']_vars

\* After the last fault, edit and tick some site serves the hostname for good,
\* and every other site that is still there has stood down.
Converges ==
    <>[](\E s \in Sites :
            /\ obj[s] = "live" /\ Serves(s)
            /\ \A r \in Sites \ {s} : obj[r] = "gone" \/ role[r] = "Standby")

\* While a foreign or unparseable record stays at the lease name, every site
\* that is up ends up neither Primary nor Ready, whichever step of a pass the
\* record appeared at (failClosed, on the first read and on the read-back).  A
\* site with a group conflict is not Ready but keeps the role it had.
FailsClosed ==
    <>[]foreign => <>[](\A s \in Alive :
        ~ready[s] /\ (role[s] # "Primary" \/ GroupConflict(s)))

\* Deleting an Exposure always completes (reconcileDelete): none is being deleted
\* for ever, and one that was does not come back.
DeletionCompletes ==
    []<>(\A s \in Deletable : obj[s] # "deleting")

\* From where s stands, nobody serves: every lease is a peer's and expired.
Unserved(s) ==
    /\ obj[s] = "live" /\ ~foreign
    /\ \A l \in leases : l.site # s /\ Expired(l, clock + Skew[s])

\* Automatic: a site that is up takes over when its peers are gone; no state in
\* which nobody holds a live lease lasts, unless a foreign record, a group
\* conflict or two records of peers, which Resolve lets only the peers delete,
\* block it.  The finalizer of a second Exposure, which deletes the site's lease,
\* delays it only.
TakesOver ==
    \A s \in Alive \ Refused :
        ~Manual => []<>(~Unserved(s) \/ GroupConflict(s) \/ Duplicated)

\* A force-promote token is never lost: whatever interrupts the pass that uses
\* it (a crash, a failed call, a read-back that finds the peer's record), the
\* site that was given it becomes Primary, unless the annotation is changed
\* first or a peer has a token of its own to take the lease back with (force in
\* reconcileFailoverRole, recorded by writeAndVerifyLease only after the
\* read-back).
ForcedPromotionTakes ==
    \A s \in Alive \ Refused, t \in Tokens :
        (ann[s] = t /\ ack[s] # t)
            ~> \/ role[s] = "Primary"
               \/ ann[s] # t
               \/ \E r \in Sites \ {s} : ann[r] \notin {NoToken, ack[r]}
               \/ foreign \/ GroupConflict(s)

\* Manual: while nobody serves and no token is pending, a site that is up ends
\* up not Ready, which is what alerts the operator.
AwaitingPromotionAlerts ==
    \A s \in Alive :
        Manual => (<>[](Unserved(s) /\ ann[s] \in {NoToken, ack[s]})
                      => <>[](~ready[s]))
=============================================================================
