----------------------------- MODULE AccessPolicy ---------------------------
(***************************************************************************)
(* The CloudflareAccessPolicy controller, and the part of the Exposure     *)
(* controller that binds an Access application to the policy it names.     *)
(*                                                                         *)
(* There is one CloudflareAccessPolicy object and one policy name derived  *)
(* from it; a policy at Cloudflare carries that name or another one.  The  *)
(* two controllers have one worker each: ppass and epass are the passes    *)
(* under way, sets of at most one element, as is every value that may be   *)
(* missing.  A pass is one action per call.                                *)
(***************************************************************************)
EXTENDS Naturals, FiniteSets

CONSTANTS
    Exposures,    \* Exposures that may name the policy
    Specs,        \* the contents of spec: decision, rules, session
    RulesHash,    \* RulesHash[s]: hash of the rules in s, not of the rest
    Unsupported,  \* contents the controller cannot read
    PolicyIds,    \* policy ids Cloudflare may assign
    MaxEdits,     \* bound on edits of the spec and of the references
    MaxFaults     \* bound on failed calls, crashes and meddling by others

ASSUME PolicyAssumption ==
    /\ RulesHash \in [Specs -> {RulesHash[s] : s \in Specs}]
    /\ Unsupported \notin Specs
    /\ PolicyIds \subseteq Nat
    /\ MaxEdits \in Nat
    /\ MaxFaults \in Nat

VARIABLES
    pobj,      \* life of the CloudflareAccessPolicy object
    spec,      \* its spec
    pid,       \* status.policyId
    phash,     \* status.observedRulesHash
    pready,    \* the Ready condition
    pcurrent,  \* the condition is of the current generation
    policies,  \* the policies at Cloudflare
    used,      \* the policy ids Cloudflare has assigned
    repeats,   \* Creates that Cloudflare carried out twice
    ppass,     \* the pass of the policy controller
    ref,       \* how each Exposure names the policy
    app,       \* the policy each Exposure's application is bound to
    epass,     \* the pass of the Exposure controller
    edits,     \* edits made so far
    faults     \* faults injected so far

pstatus  == <<pid, phash, pready, pcurrent>>
remote   == <<policies, used, repeats>>
exposing == <<ref, app, epass>>

vars == <<pobj, spec, pid, phash, pready, pcurrent, policies, used, repeats,
          ppass, ref, app, epass, edits, faults>>

Hashes == {RulesHash[s] : s \in Specs}

Policy == [id : PolicyIds, own : BOOLEAN, spec : Specs \cup {Unsupported}]

PolicySteps == {"list", "match", "create", "get", "update", "save",
                "finGet", "finDelete", "finDrop"}

\* What a pass read when it began (spec), and what it will save.
PolicyPass == [at : PolicySteps, spec : Specs, id : SUBSET PolicyIds,
               hash : SUBSET Hashes, ready : BOOLEAN]

\* The policy is not named; named in spec.access while Access is off; or on.
Refs == {"none", "off", "on"}

TypeOK ==
    /\ pobj \in {"absent", "new", "live", "deleting", "gone"}
    /\ spec \in Specs
    /\ pid \subseteq PolicyIds
    /\ phash \subseteq Hashes
    /\ pready \in BOOLEAN
    /\ pcurrent \in BOOLEAN
    /\ policies \subseteq Policy
    /\ used \subseteq PolicyIds
    /\ repeats \in 0..faults
    /\ ppass \subseteq PolicyPass
    /\ ref \in [Exposures -> Refs]
    /\ app \in [Exposures -> SUBSET PolicyIds]
    /\ epass \subseteq [exp : Exposures, id : SUBSET PolicyIds]
    /\ edits \in 0..MaxEdits
    /\ faults \in 0..MaxFaults

\* Nothing is there yet, except that somebody may have a policy of that name.
Init ==
    /\ pobj = "absent"
    /\ spec \in Specs
    /\ pid = {} /\ phash = {} /\ pready = FALSE /\ pcurrent = FALSE
    /\ \/ policies = {} /\ used = {}
       \/ \E i \in PolicyIds, s \in Specs \cup {Unsupported} :
             /\ \A j \in PolicyIds : i <= j
             /\ policies = {[id |-> i, own |-> TRUE, spec |-> s]}
             /\ used = {i}
    /\ repeats = 0
    /\ ppass = {}
    /\ ref = [e \in Exposures |-> "none"]
    /\ app = [e \in Exposures |-> {}]
    /\ epass = {}
    /\ edits = 0 /\ faults = 0

-----------------------------------------------------------------------------
(* The Cloudflare client.                                                  *)

\* Get and GetMetadata: the policy with an id, if there is one.
Tracked(ids) == {p \in policies : p.id \in ids}

\* Whether fromAccessRules knows all the rules; Get fails otherwise.
Readable(p) == p.spec # Unsupported

\* List, and the policies in it that have the desired name.
Own == {p \in policies : p.own}

Fault == faults < MaxFaults /\ faults' = faults + 1

FreeIds == PolicyIds \ used

NextId(i) == i \in FreeIds /\ \A j \in FreeIds : i <= j

Made(i, s) == [id |-> i, own |-> TRUE, spec |-> s]

\* A Create returns the id i.  The client repeats it when the answer is a 5xx,
\* although the policy j may have been created.
Create(s, i) ==
    \/ /\ NextId(i)
       /\ policies' = policies \cup {Made(i, s)}
       /\ used' = used \cup {i}
       /\ UNCHANGED <<repeats, faults>>
    \/ /\ Fault
       /\ repeats' = repeats + 1
       /\ i \in FreeIds
       /\ \E j \in FreeIds \ {i} :
             /\ NextId(j)
             /\ \A k \in FreeIds \ {j} : i <= k
             /\ policies' = policies \cup {Made(j, s), Made(i, s)}
             /\ used' = used \cup {j, i}

Update(ids, s) ==
    policies' = {IF p.id \in ids THEN Made(p.id, s) ELSE p : p \in policies}

Delete(ids) == policies' = {p \in policies : p.id \notin ids}

-----------------------------------------------------------------------------
(* The environment.                                                        *)

Apply ==
    /\ pobj = "absent"
    /\ pobj' = "new"
    /\ UNCHANGED <<spec, pstatus, remote, ppass, exposing, edits, faults>>

\* An edit of the spec is a new generation.
EditSpec ==
    /\ pobj \in {"new", "live"}
    /\ edits < MaxEdits /\ edits' = edits + 1
    /\ \E s \in Specs \ {spec} : spec' = s
    /\ pcurrent' = FALSE
    /\ UNCHANGED <<pobj, pid, phash, pready, remote, ppass, exposing, faults>>

\* An Exposure starts or stops naming the policy, or turns Access on or off.
EditRef(e) ==
    /\ edits < MaxEdits /\ edits' = edits + 1
    /\ \E v \in Refs \ {ref[e]} : ref' = [ref EXCEPT ![e] = v]
    /\ UNCHANGED <<pobj, spec, pstatus, remote, ppass, app, epass, faults>>

\* Without a finalizer the object goes at once.
DeletePolicy ==
    /\ pobj \in {"new", "live"}
    /\ pobj' = IF pobj = "new" THEN "gone" ELSE "deleting"
    /\ UNCHANGED <<spec, pstatus, remote, ppass, exposing, edits, faults>>

\* Somebody else edits, renames or removes a policy.
Meddle ==
    /\ Fault
    /\ \E p \in policies :
          \/ \E s \in Specs \cup {Unsupported} :
                policies' = (policies \ {p}) \cup {[p EXCEPT !.spec = s]}
          \/ policies' = (policies \ {p}) \cup {[p EXCEPT !.own = FALSE]}
          \/ policies' = policies \ {p}
    /\ UNCHANGED <<pobj, spec, pstatus, used, repeats, ppass, exposing, edits>>

\* A call fails or the process restarts: the rest of the pass does not happen.
AbortPolicy ==
    /\ ppass # {} /\ ppass' = {}
    /\ Fault
    /\ UNCHANGED <<pobj, spec, pstatus, remote, exposing, edits>>

AbortExposure ==
    /\ epass # {} /\ epass' = {}
    /\ Fault
    /\ UNCHANGED <<pobj, spec, pstatus, remote, ppass, ref, app, edits>>

-----------------------------------------------------------------------------
(* The pass of the policy controller.                                      *)

GoTo(p, step) == ppass' = {[p EXCEPT !.at = step]}

\* The outcomes of a pass, to be saved: the policy is as the spec says, or not.
Reconciled(p, id) ==
    ppass' = {[p EXCEPT !.at = "save", !.id = id,
                        !.hash = {RulesHash[p.spec]}, !.ready = TRUE]}

NotReady(p, id, hash) ==
    ppass' = {[p EXCEPT !.at = "save", !.id = id, !.hash = hash, !.ready = FALSE]}

\* referencedBy: whether Access is on does not matter.
ReferencedBy == {e \in Exposures : ref[e] # "none"}

\* Add the finalizer and return.
AddFinalizer ==
    /\ ppass = {} /\ pobj = "new"
    /\ pobj' = "live"
    /\ UNCHANGED <<spec, pstatus, remote, ppass, exposing, edits, faults>>

\* Read the object; the credentials may be missing.
Begin ==
    /\ ppass = {} /\ pobj = "live"
    /\ \/ /\ ppass' = {[at |-> IF pid = {} THEN "list" ELSE "get", spec |-> spec,
                        id |-> pid, hash |-> phash, ready |-> FALSE]}
          /\ UNCHANGED faults
       \/ /\ Fault
          /\ ppass' = {[at |-> "save", spec |-> spec, id |-> pid,
                        hash |-> phash, ready |-> FALSE]}
    /\ UNCHANGED <<pobj, spec, pstatus, remote, exposing, edits>>

\* Mutant of ListPolicies: without an id a policy is created, listed or not.
MutantNoRecovery(p) ==
    /\ p.at = "list"
    /\ GoTo(p, "create")
    /\ UNCHANGED <<pobj, spec, pstatus, remote, exposing, edits, faults>>

\* Without an id: the first policy listed under the name, or a new one.
ListPolicies(p) ==
    /\ p.at = "list"
    /\ \/ Own = {} /\ GoTo(p, "create")
       \/ \E q \in Own : ppass' = {[p EXCEPT !.at = "match", !.id = {q.id}]}
    /\ UNCHANGED <<pobj, spec, pstatus, remote, exposing, edits, faults>>

\* accessPolicyMatches: the name and every field.
Matches(q, s) == q.own /\ q.spec = s

\* The policy found is recovered if it matches in full, foreign otherwise.
MatchPolicy(p) ==
    /\ p.at = "match"
    /\ \/ Tracked(p.id) = {} /\ ppass' = {}
       \/ \E q \in Tracked(p.id) :
             IF Matches(q, p.spec)
               THEN Reconciled(p, {q.id})
               ELSE NotReady(p, {}, {})
    /\ UNCHANGED <<pobj, spec, pstatus, remote, exposing, edits, faults>>

CreatePolicy(p) ==
    /\ p.at = "create"
    /\ \E i \in PolicyIds :
          /\ Create(p.spec, i)
          /\ Reconciled(p, {i})
    /\ UNCHANGED <<pobj, spec, pstatus, exposing, edits>>

\* Mutant of GetPolicy: the policy is compared by the hash of its rules alone.
MutantHashOnly(p) ==
    /\ p.at = "get"
    /\ \/ Tracked(p.id) = {} /\ NotReady(p, {}, {})
       \/ \E q \in Tracked(p.id) :
             \/ /\ ~Readable(q) \/ ~q.own
                /\ NotReady(p, p.id, p.hash)
             \/ /\ Readable(q) /\ q.own
                /\ IF p.hash # {RulesHash[p.spec]}
                     THEN GoTo(p, "update")
                     ELSE Reconciled(p, p.id)
    /\ UNCHANGED <<pobj, spec, pstatus, remote, exposing, edits, faults>>

\* With an id: gone, unreadable, renamed, different or as it should be.
GetPolicy(p) ==
    /\ p.at = "get"
    /\ \/ Tracked(p.id) = {} /\ NotReady(p, {}, {})
       \/ \E q \in Tracked(p.id) :
             \/ /\ ~Readable(q) \/ ~q.own
                /\ NotReady(p, p.id, p.hash)
             \/ /\ Readable(q) /\ q.own
                /\ IF p.hash # {RulesHash[p.spec]} \/ ~Matches(q, p.spec)
                     THEN GoTo(p, "update")
                     ELSE Reconciled(p, p.id)
    /\ UNCHANGED <<pobj, spec, pstatus, remote, exposing, edits, faults>>

\* Mutant of UpdatePolicy: the new hash is saved, the policy is not written.
MutantSavesOnly(p) ==
    /\ p.at = "update"
    /\ Reconciled(p, p.id)
    /\ UNCHANGED <<pobj, spec, pstatus, remote, exposing, edits, faults>>

\* The name is written with the rest.
UpdatePolicy(p) ==
    /\ p.at = "update"
    /\ \/ /\ Tracked(p.id) = {}
          /\ ppass' = {}
          /\ UNCHANGED policies
       \/ /\ Tracked(p.id) # {}
          /\ Update(p.id, p.spec)
          /\ Reconciled(p, p.id)
    /\ UNCHANGED <<pobj, spec, pstatus, used, repeats, exposing, edits, faults>>

\* setPolicyStatus reads the object again: the condition is stamped with the
\* generation it has now, whatever the pass worked from.
SetPolicyStatus(p) ==
    /\ p.at = "save"
    /\ pid' = p.id /\ phash' = p.hash /\ pready' = p.ready
    /\ pcurrent' = TRUE
    /\ ppass' = {}
    /\ UNCHANGED <<pobj, spec, remote, exposing, edits, faults>>

-----------------------------------------------------------------------------
(* The finalizer.                                                          *)

Blocked ==
    /\ pready' = FALSE /\ pcurrent' = TRUE
    /\ ppass' = {}
    /\ UNCHANGED <<pid, phash>>

\* An Exposure that names the policy blocks its deletion.
Finalize ==
    /\ ppass = {} /\ pobj = "deleting"
    /\ \/ ReferencedBy # {} /\ Blocked
       \/ /\ ReferencedBy = {}
          /\ ppass' = {[at |-> IF pid = {} THEN "finDrop" ELSE "finGet",
                        spec |-> spec, id |-> pid, hash |-> phash,
                        ready |-> FALSE]}
          /\ UNCHANGED pstatus
    /\ UNCHANGED <<pobj, spec, remote, exposing, edits, faults>>

\* Mutant of FinGetPolicy: a policy that is not there is not its own either.
MutantMissingBlocks(p) ==
    /\ p.at = "finGet"
    /\ IF \A q \in Tracked(p.id) : ~q.own
         THEN Blocked
         ELSE GoTo(p, "finDelete") /\ UNCHANGED pstatus
    /\ UNCHANGED <<pobj, spec, remote, exposing, edits, faults>>

\* Mutant of FinGetPolicy: without credentials there is nothing to delete.
MutantDropsBlind(p) ==
    /\ p.at = "finGet"
    /\ \/ Fault /\ GoTo(p, "finDrop") /\ UNCHANGED pstatus
       \/ /\ IF \E q \in Tracked(p.id) : ~q.own
               THEN Blocked
               ELSE GoTo(p, "finDelete") /\ UNCHANGED pstatus
          /\ UNCHANGED faults
    /\ UNCHANGED <<pobj, spec, remote, exposing, edits>>

\* So do missing credentials, and a tracked policy that was renamed.
FinGetPolicy(p) ==
    /\ p.at = "finGet"
    /\ \/ Fault /\ Blocked
       \/ /\ IF \E q \in Tracked(p.id) : ~q.own
               THEN Blocked
               ELSE GoTo(p, "finDelete") /\ UNCHANGED pstatus
          /\ UNCHANGED faults
    /\ UNCHANGED <<pobj, spec, remote, exposing, edits>>

\* A policy that is not there any more counts as deleted.
FinDeletePolicy(p) ==
    /\ p.at = "finDelete"
    /\ Delete(p.id)
    /\ GoTo(p, "finDrop")
    /\ UNCHANGED <<pobj, spec, pstatus, used, repeats, exposing, edits, faults>>

FinDropPolicy(p) ==
    /\ p.at = "finDrop"
    /\ pobj' = "gone"
    /\ ppass' = {}
    /\ UNCHANGED <<spec, pstatus, remote, exposing, edits, faults>>

-----------------------------------------------------------------------------
(* The pass of the Exposure controller, as far as it is about the policy.  *)

\* resolveAccessPolicyUUID: the object must be there, Ready for its current
\* generation and not on its way out.
Resolvable == pobj \in {"new", "live"} /\ pid # {} /\ pready /\ pcurrent

\* Mutant of ResolvePolicy: the policy is resolved before Access is looked at.
MutantResolvesFirst(e) ==
    /\ epass = {} /\ Resolvable
    /\ epass' = {[exp |-> e, id |-> IF ref[e] = "on" THEN pid ELSE {}]}
    /\ UNCHANGED <<pobj, spec, pstatus, remote, ppass, ref, app, edits, faults>>

\* What the application shall be bound to.  An Exposure that does not resolve
\* its policy leaves the application as it is.
ResolvePolicy(e) ==
    /\ epass = {}
    /\ \/ ref[e] = "on" /\ Resolvable /\ epass' = {[exp |-> e, id |-> pid]}
       \/ ref[e] # "on" /\ epass' = {[exp |-> e, id |-> {}]}
    /\ UNCHANGED <<pobj, spec, pstatus, remote, ppass, ref, app, edits, faults>>

\* Create, update or delete the application.
BindApplication(x) ==
    /\ app' = [app EXCEPT ![x.exp] = x.id]
    /\ epass' = {}
    /\ UNCHANGED <<pobj, spec, pstatus, remote, ppass, ref, edits, faults>>

-----------------------------------------------------------------------------

PolicyStep ==
    \/ AddFinalizer \/ Begin \/ Finalize
    \/ \E p \in ppass :
          \/ ListPolicies(p) \/ MatchPolicy(p) \/ CreatePolicy(p)
          \/ GetPolicy(p) \/ UpdatePolicy(p) \/ SetPolicyStatus(p)
          \/ FinGetPolicy(p) \/ FinDeletePolicy(p) \/ FinDropPolicy(p)

Next ==
    \/ PolicyStep
    \/ \E e \in Exposures : ResolvePolicy(e)
    \/ \E x \in epass : BindApplication(x)
    \/ Apply \/ EditSpec \/ DeletePolicy
    \/ \E e \in Exposures : EditRef(e)
    \/ Meddle \/ AbortPolicy \/ AbortExposure

\* A pass that has begun goes on, and every object is reconciled again and
\* again: on changes, on requeues and on the resync of the manager's cache.
Fairness ==
    /\ WF_vars(PolicyStep)
    /\ \A e \in Exposures : SF_vars(ResolvePolicy(e))
    /\ WF_vars(\E x \in epass : BindApplication(x))

Spec == Init /\ [][Next]_vars /\ Fairness

-----------------------------------------------------------------------------
(* Safety.                                                                 *)

\* The identity kept in the status, the recovery by name and the single worker
\* together keep the controller from creating its policy again, whatever pass
\* is cut short after a Create: there is at most one policy of the desired name,
\* and one more for each Create that the client's retry (withRetry) doubled.
OneOwnPolicy == Cardinality(Own) <= 1 + repeats

\* As long as no call fails and nobody meddles, a policy that reports Ready
\* exists at Cloudflare under its name, with the rules whose hash the status
\* shows (observedRulesHash), or is about to show.
ReadyMeansApplied ==
    faults = 0 /\ pready /\ pobj = "live" =>
        \E p \in Tracked(pid) :
            /\ p.own /\ p.spec \in Specs
            /\ \/ phash = {RulesHash[p.spec]}
               \/ \E q \in ppass : q.at = "save" /\ q.hash = {RulesHash[p.spec]}

\* The object and its policy as module Owned sees them.
Resource == INSTANCE Owned WITH
    Objects <- {"policy"},
    Ids     <- PolicyIds,
    life    <- [o \in {"policy"} |-> pobj],
    tracked <- [o \in {"policy"} |-> pid],
    marked  <- [o \in {"policy"} |-> {p.id : p \in Own}]

\* The controller keeps the promise of Owned: it names policies only for a
\* living object, deletes them only for one that is being deleted, and never
\* drops the finalizer while the tracked policy is its own (reconcileDelete).
PolicyIsOwned == Resource!Spec

-----------------------------------------------------------------------------
(* Liveness.                                                               *)

\* Nothing that the controller refuses to touch is in the way: the tracked
\* policy has its name and can be read, and without one no policy of the name
\* differs from the spec.
Unobstructed ==
    IF pid = {} THEN \A p \in Own : p.spec = spec
                ELSE \A p \in Tracked(pid) : p.own /\ Readable(p)

\* Edits, drift, removals, failed calls and crashes are all made good: the
\* policy ends up as its spec says, and the applications of the Exposures that
\* name it, and of no others, are bound to it.
ApplicationsFollow ==
    <>[](pobj = "live" /\ Unobstructed) =>
        <>[](/\ \E p \in Tracked(pid) : Matches(p, spec)
             /\ \A e \in Exposures :
                   app[e] = IF ref[e] = "on" THEN pid ELSE {})

\* Whatever becomes of the policy, which may be deleted while a pass that has
\* resolved it is about to bind an application to it, an Exposure that does not
\* name it, or has Access off, ends up without an application bound to it
\* (reconcileDelete, which blocks on names only; reconcileExposureAccess).
UnnamedUnbound == <>[](\A e \in Exposures : ref[e] # "on" => app[e] = {})

\* The deletion of a policy that no Exposure names, and that nobody renamed,
\* does not stay blocked.
PolicyDeletionCompletes ==
    []<>~(/\ pobj = "deleting"
          /\ ReferencedBy = {}
          /\ \A p \in Tracked(pid) : p.own)
=============================================================================
