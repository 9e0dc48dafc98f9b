----------------------------- MODULE AccessApps -----------------------------
(***************************************************************************)
(* The Access applications of one CloudflareExposure: the part of the      *)
(* Exposure controller that brings the applications at Cloudflare in line  *)
(* with spec.access.applications, one application per entry, and deletes   *)
(* them when Access is turned off or the object is deleted.                *)
(*                                                                         *)
(* An entry has a name, the domains (hostname paths) the application shall *)
(* protect and a body, the ordered policies.  A pass lists the             *)
(* applications once and works from that list, entry by entry in the order *)
(* of the names, with one action per call; apass is the pass under way, a  *)
(* set of at most one element.  The tunnel does not manage DNS, so that    *)
(* the applications are all the object has at Cloudflare.                  *)
(***************************************************************************)
EXTENDS Naturals, FiniteSets

CONSTANTS
    Names,      \* names of entries, in the order they are worked through
    OtherName,  \* the name of an application that is nobody's entry
    Domains,    \* what entries may give as domains
    Canonical,  \* Canonical[d]: the coverage d stands for
    Invalid,    \* what a domain outside the hostname stands for
    Bodies,     \* policies of an application
    Specs,      \* values of spec.access: [on, apps], apps a function of names
    Strangers,  \* domains an application of others may have
    AppIds,     \* application ids Cloudflare may assign
    MaxEdits,   \* bound on edits of the spec
    MaxFaults   \* bound on failed calls, crashes and meddling by others

ASSUME AppsAssumption ==
    /\ Names \subseteq Nat
    /\ OtherName \notin Names
    /\ \A s \in Specs :
          /\ s.on \in BOOLEAN
          /\ DOMAIN s.apps \subseteq Names /\ IsFiniteSet(DOMAIN s.apps)
          /\ s.apps \in [DOMAIN s.apps -> [domains : SUBSET Domains, body : Bodies]]
    /\ Strangers \subseteq SUBSET Domains
    /\ AppIds \subseteq Nat
    /\ MaxEdits \in Nat
    /\ MaxFaults \in Nat

VARIABLES
    obj,      \* life of the CloudflareExposure
    spec,     \* spec.access
    tracked,  \* status.cloudflare.accessApplications
    ready,    \* the Ready condition
    apps,     \* the applications at Cloudflare
    tags,     \* the tags that name the owner exist at Cloudflare
    used,     \* the application ids Cloudflare has assigned
    apass,    \* the pass under way
    edits,    \* edits made so far
    faults    \* faults injected so far

astatus == <<tracked, ready>>
remote  == <<apps, tags, used>>

vars == <<obj, spec, tracked, ready, apps, tags, used, apass, edits, faults>>

\* An application; own: its tags are the object's; by: the object created it.
App == [id : AppIds, name : Names \cup {OtherName}, domains : SUBSET Domains,
        body : Bodies, own : BOOLEAN, by : BOOLEAN]

Entry == [name : Names, id : AppIds]

AppSteps == {"list", "apply", "prune", "save", "unlist", "undo", "untag", "drop"}

\* What a pass has read: the spec and the own applications listed (old), without
\* those it has deleted; the entries still to do, the applications matched and
\* the status entries so far (done); and whether it is the finalizer's.
AppPass == [at : AppSteps, spec : Specs, old : SUBSET App, todo : SUBSET Names,
            matched : SUBSET AppIds, done : SUBSET Entry, fin : BOOLEAN]

TypeOK ==
    /\ obj \in {"live", "deleting", "gone"}
    /\ spec \in Specs
    /\ tracked \subseteq Entry
    /\ ready \in BOOLEAN
    /\ apps \subseteq App
    /\ tags \in BOOLEAN
    /\ used \subseteq AppIds
    /\ apass \subseteq AppPass
    /\ edits \in 0..MaxEdits
    /\ faults \in 0..MaxFaults

\* The object has its finalizer; others may have an application.
Init ==
    /\ obj = "live"
    /\ spec \in Specs
    /\ tracked = {} /\ ready = FALSE
    /\ tags = FALSE
    /\ \/ apps = {} /\ used = {}
       \/ \E i \in AppIds, ds \in Strangers, b \in Bodies :
             /\ \A j \in AppIds : i <= j
             /\ apps = {[id |-> i, name |-> OtherName, domains |-> ds, body |-> b,
                         own |-> FALSE, by |-> FALSE]}
             /\ used = {i}
    /\ apass = {}
    /\ edits = 0 /\ faults = 0

-----------------------------------------------------------------------------
(* The Cloudflare client.                                                  *)

\* List: the applications with a domain under the hostname.
Listed == {a \in apps : a.domains # {}}

OwnListed == {a \in Listed : a.own}

Fault == faults < MaxFaults /\ faults' = faults + 1

FreeIds == AppIds \ used

NextId(i) == i \in FreeIds /\ \A j \in FreeIds : i <= j

\* The application with id i that entry n of the spec s asks for.
Made(s, n, i) ==
    [id |-> i, name |-> n, domains |-> s.apps[n].domains,
     body |-> s.apps[n].body, own |-> TRUE, by |-> TRUE]

\* Create and Update make sure of the tags first.
CreateOne(s, n, i) ==
    /\ NextId(i)
    /\ tags' = TRUE
    /\ apps' = apps \cup {Made(s, n, i)}
    /\ used' = used \cup {i}

\* The client repeats a Create when the answer is a 5xx, although the application
\* j may have been created.
Create(s, n, i) ==
    /\ tags' = TRUE
    /\ \/ CreateOne(s, n, i) /\ UNCHANGED faults
       \/ /\ Fault
          /\ i \in FreeIds
          /\ \E j \in FreeIds \ {i} :
                /\ NextId(j)
                /\ \A k \in FreeIds \ {j} : i <= k
                /\ apps' = apps \cup {Made(s, n, j), Made(s, n, i)}
                /\ used' = used \cup {j, i}

Update(s, n, i) ==
    /\ tags' = TRUE
    /\ apps' = {IF a.id = i THEN [Made(s, n, i) EXCEPT !.by = a.by] ELSE a : a \in apps}

Delete(i) == apps' = {a \in apps : a.id # i}

-----------------------------------------------------------------------------
(* Users and others.                                                       *)

EditSpec ==
    /\ obj = "live"
    /\ edits < MaxEdits /\ edits' = edits + 1
    /\ \E s \in Specs \ {spec} : spec' = s
    /\ UNCHANGED <<obj, astatus, remote, apass, faults>>

DeleteExposure ==
    /\ obj = "live"
    /\ obj' = "deleting"
    /\ UNCHANGED <<spec, astatus, remote, apass, edits, faults>>

\* Somebody deletes an application, changes its policies, takes its tags away or
\* moves it to another hostname.
MeddleApp ==
    /\ Fault
    /\ \E a \in apps :
          \/ apps' = apps \ {a}
          \/ \E b \in Bodies : apps' = (apps \ {a}) \cup {[a EXCEPT !.body = b]}
          \/ apps' = (apps \ {a}) \cup {[a EXCEPT !.own = FALSE]}
          \/ apps' = (apps \ {a}) \cup {[a EXCEPT !.domains = {}]}
    /\ UNCHANGED <<obj, spec, astatus, tags, used, apass, edits>>

\* A call fails, a status write conflicts or the process restarts.
AbortPass ==
    /\ apass # {} /\ apass' = {}
    /\ Fault
    /\ UNCHANGED <<obj, spec, astatus, remote, edits>>

-----------------------------------------------------------------------------
(* The desired applications.                                               *)

Covers(domains) == {Canonical[d] : d \in domains}

\* desiredAccessApplications: there is an entry, every entry has domains, each
\* of them is under the hostname, and no coverage comes twice.
Valid(s) ==
    /\ DOMAIN s.apps # {}
    /\ \A n \in DOMAIN s.apps :
          /\ s.apps[n].domains # {}
          /\ Invalid \notin Covers(s.apps[n].domains)
          /\ \A d, e \in s.apps[n].domains : d # e => Canonical[d] # Canonical[e]
          /\ \A m \in DOMAIN s.apps \ {n} :
                Covers(s.apps[n].domains) \cap Covers(s.apps[m].domains) = {}

Desired(s) == UNION {Covers(s.apps[n].domains) : n \in DOMAIN s.apps}

Wanted(s) == IF s.on THEN DOMAIN s.apps ELSE {}

\* prepareOwnedAccessApplications: an application of others is in the way.
Conflict(s) ==
    \E a \in Listed : ~a.own /\ Covers(a.domains) \cap Desired(s) # {}

\* accessApplicationMatchesDesired, for an application of the object.
Matches(a, w, n) == a.own /\ a.name = n /\ a.domains = w.domains /\ a.body = w.body

\* The application for an entry: by its name, else by its coverage, among those
\* listed when the pass began.
Candidates(p, n) ==
    LET named == {a \in p.old : a.name = n} IN
    IF named # {} THEN named
    ELSE {a \in p.old : Covers(a.domains) = Covers(p.spec.apps[n].domains)}

-----------------------------------------------------------------------------
(* The pass.                                                               *)

AGoTo(p, step) == apass' = {[p EXCEPT !.at = step]}

\* setExposureStatus for a pass that leaves the applications as they were.
NotReady ==
    /\ ready' = FALSE
    /\ apass' = {}
    /\ UNCHANGED tracked

NewPass(step, fin) ==
    [at |-> step, spec |-> spec, old |-> {}, todo |-> {}, matched |-> {},
     done |-> {}, fin |-> fin]

\* The entries are validated and their policies resolved before anything is
\* written; policies, and before them the credentials, may be missing.
Begin ==
    /\ apass = {} /\ obj = "live"
    /\ \/ /\ spec.on /\ ~Valid(spec)
          /\ NotReady /\ UNCHANGED faults
       \/ Fault /\ NotReady
       \/ /\ spec.on => Valid(spec)
          /\ apass' = {NewPass(IF spec.on THEN "list" ELSE "unlist", FALSE)}
          /\ UNCHANGED <<astatus, faults>>
    /\ UNCHANGED <<obj, spec, remote, edits>>

\* Mutant of ListApps: whose an application is does not matter.
MutantTakesAll(p) ==
    /\ p.at = "list"
    /\ apass' = {[p EXCEPT !.at = "apply", !.old = Listed, !.todo = DOMAIN p.spec.apps]}
    /\ UNCHANGED <<obj, spec, astatus, remote, edits, faults>>

ListApps(p) ==
    /\ p.at = "list"
    /\ \/ Conflict(p.spec) /\ NotReady
       \/ /\ ~Conflict(p.spec)
          /\ apass' = {[p EXCEPT !.at = "apply", !.old = OwnListed,
                                 !.todo = DOMAIN p.spec.apps]}
          /\ UNCHANGED astatus
    /\ UNCHANGED <<obj, spec, remote, edits, faults>>

\* Mutant of Done: the application that was found is not remembered as matched.
MutantForgetsMatch(p, n, i) ==
    apass' = {[p EXCEPT !.at = IF p.todo = {n} THEN "prune" ELSE "apply",
                        !.todo = @ \ {n},
                        !.done = @ \cup {[name |-> n, id |-> i]}]}

\* Entry n is done, with the application i.
Done(p, n, i) ==
    apass' = {[p EXCEPT !.at = IF p.todo = {n} THEN "prune" ELSE "apply",
                        !.todo = @ \ {n},
                        !.done = @ \cup {[name |-> n, id |-> i]},
                        !.matched = @ \cup {a.id : a \in {b \in p.old : b.id = i}}]}

\* reconcileOwnedAccessApplications returns the entries done and the error.
Failed(p) ==
    /\ tracked' = p.done /\ ready' = FALSE
    /\ apass' = {}

\* The entry next in order: its application is as it should be, is updated, or
\* is created.
ApplyEntry(p) ==
    /\ p.at = "apply"
    /\ \E n \in p.todo :
          /\ \A m \in p.todo : n <= m
          /\ \/ \E a \in Candidates(p, n) :
                   \/ /\ Matches(a, p.spec.apps[n], n)
                      /\ Done(p, n, a.id)
                      /\ UNCHANGED <<astatus, remote, faults>>
                   \/ /\ ~Matches(a, p.spec.apps[n], n)
                      /\ \E b \in apps : b.id = a.id
                      /\ Update(p.spec, n, a.id)
                      /\ Done(p, n, a.id)
                      /\ UNCHANGED <<astatus, used, faults>>
                   \/ /\ ~Matches(a, p.spec.apps[n], n)
                      /\ \A b \in apps : b.id # a.id
                      /\ Failed(p)
                      /\ UNCHANGED <<remote, faults>>
             \/ /\ Candidates(p, n) = {}
                /\ \E i \in AppIds : Create(p.spec, n, i) /\ Done(p, n, i)
                /\ UNCHANGED astatus
    /\ UNCHANGED <<obj, spec, edits>>

\* The write of the next entry or a deletion is carried out, and its answer lost.
AnswerLost(p) ==
    \/ /\ p.at = "apply"
       /\ \E n \in p.todo, i \in AppIds :
             /\ \A m \in p.todo : n <= m
             /\ \/ /\ \E a \in Candidates(p, n) :
                          a.id = i /\ ~Matches(a, p.spec.apps[n], n)
                   /\ Update(p.spec, n, i)
                   /\ UNCHANGED used
                \/ /\ Candidates(p, n) = {}
                   /\ CreateOne(p.spec, n, i)
    \/ /\ p.at = "prune"
       /\ \E a \in p.old : a.id \notin p.matched /\ Delete(a.id)
       /\ UNCHANGED <<tags, used>>

\* A failed write or deletion is reported with what was done before it; the tags
\* may have been made, or all of it carried out.
WriteFails(p) ==
    /\ p.at \in {"apply", "prune"}
    /\ Fault
    /\ Failed(p)
    /\ \/ UNCHANGED remote
       \/ p.at = "apply" /\ tags' = TRUE /\ UNCHANGED <<apps, used>>
       \/ AnswerLost(p)
    /\ UNCHANGED <<obj, spec, edits>>

\* Mutant of PruneApp: applications that no entry asks for are kept.
MutantKeepsOld(p) ==
    /\ p.at = "prune"
    /\ AGoTo(p, "save") /\ UNCHANGED apps
    /\ UNCHANGED <<obj, spec, astatus, tags, used, edits, faults>>

\* Own applications that no entry was matched with are deleted.
PruneApp(p) ==
    /\ p.at = "prune"
    /\ LET left == {a \in p.old : a.id \notin p.matched} IN
       \/ left = {} /\ AGoTo(p, "save") /\ UNCHANGED apps
       \/ \E a \in left : /\ Delete(a.id)
                          /\ apass' = {[p EXCEPT !.old = @ \ {a}]}
    /\ UNCHANGED <<obj, spec, astatus, tags, used, edits, faults>>

\* exposureAccessReady: the status has as many entries as the spec.
SaveStatus(p) ==
    /\ p.at = "save"
    /\ tracked' = p.done
    /\ ready' = (p.spec.on => Cardinality(p.done) = Cardinality(DOMAIN p.spec.apps))
    /\ apass' = {}
    /\ UNCHANGED <<obj, spec, remote, edits, faults>>

-----------------------------------------------------------------------------
(* Deletion: Access is off, or the finalizer.                              *)

\* Mutant of Finalize: an object that is not Ready has nothing to delete.
MutantUnreadyDrops ==
    /\ apass = {} /\ obj = "deleting"
    /\ IF ~ready THEN obj' = "gone" /\ UNCHANGED apass
                 ELSE apass' = {NewPass("unlist", TRUE)} /\ UNCHANGED obj
    /\ UNCHANGED <<spec, astatus, remote, edits, faults>>

\* Without tracked applications the finalizer is dropped at once.
Finalize ==
    /\ apass = {} /\ obj = "deleting"
    /\ \/ /\ tracked = {}
          /\ obj' = "gone"
          /\ UNCHANGED <<astatus, apass, faults>>
       \/ /\ tracked # {}
          /\ \/ Fault /\ NotReady
             \/ /\ apass' = {NewPass("unlist", TRUE)}
                /\ UNCHANGED <<astatus, faults>>
          /\ UNCHANGED obj
    /\ UNCHANGED <<spec, remote, edits>>

AfterUndo(p) == IF p.fin THEN "drop" ELSE "save"

\* deleteAccessApplications: a tracked application that is somebody else's now
\* stops it; else all own ones go, tracked or not.
ListOwn(p) ==
    /\ p.at = "unlist"
    /\ IF \E t \in tracked, a \in Listed : t.id = a.id /\ ~a.own
         THEN IF p.fin THEN NotReady
                       ELSE apass' = {} /\ UNCHANGED astatus
         ELSE /\ apass' = {[p EXCEPT !.at = IF OwnListed = {} THEN AfterUndo(p) ELSE "undo",
                                     !.old = OwnListed]}
              /\ UNCHANGED astatus
    /\ UNCHANGED <<obj, spec, remote, edits, faults>>

DeleteApp(p) ==
    /\ p.at = "undo"
    /\ \E a \in p.old :
          /\ Delete(a.id)
          /\ apass' = {[p EXCEPT !.at = IF p.old = {a} THEN "untag" ELSE "undo",
                                 !.old = @ \ {a}]}
    /\ UNCHANGED <<obj, spec, astatus, tags, used, edits, faults>>

\* deleteOwnedAccessTags.
DeleteTags(p) ==
    /\ p.at = "untag"
    /\ tags' = FALSE
    /\ AGoTo(p, AfterUndo(p))
    /\ UNCHANGED <<obj, spec, astatus, apps, used, edits, faults>>

DropFinalizer(p) ==
    /\ p.at = "drop"
    /\ obj' = "gone"
    /\ apass' = {}
    /\ UNCHANGED <<spec, astatus, remote, edits, faults>>

-----------------------------------------------------------------------------

PassStep ==
    \/ Begin \/ Finalize
    \/ \E p \in apass :
          \/ ListApps(p) \/ ApplyEntry(p) \/ PruneApp(p) \/ SaveStatus(p)
          \/ ListOwn(p) \/ DeleteApp(p) \/ DeleteTags(p) \/ DropFinalizer(p)

Next ==
    \/ PassStep
    \/ \E p \in apass : WriteFails(p)
    \/ EditSpec \/ DeleteExposure \/ MeddleApp \/ AbortPass

\* A pass goes on, and passes are repeated: on changes of the object, its status
\* included, on errors, on requeues and on the resync of the cache.
Fairness == WF_vars(PassStep)

Spec == Init /\ [][Next]_vars

FairSpec == Spec /\ Fairness

-----------------------------------------------------------------------------
(* Safety.                                                                 *)

\* A step of the pass, the writes whose answer is lost included.
OwnWrite == PassStep \/ \E p \in apass : WriteFails(p)

\* A pass changes or deletes only what was created for the object, whatever
\* application has the name or the domains of an entry (MatchesTags), the
\* writes it takes for failed included.
OthersAppsKept ==
    [][OwnWrite => \A a \in apps \ apps' : a.by]_vars

\* As long as nothing fails and nobody meddles, the object goes only when its
\* applications and their tags are gone, the ones its status does not track
\* included (reconcileDelete, deleteAccessApplications).
NothingLeft ==
    faults = 0 /\ obj = "gone" => ~tags /\ \A a \in apps : ~a.by

-----------------------------------------------------------------------------
(* Liveness.                                                               *)

\* What an entry asks for is there once, is tracked, and nothing else is own;
\* nothing at all when Access is off.
InPlace ==
    /\ spec.on => ready
    /\ \A n \in Wanted(spec) : \E a \in OwnListed :
          /\ Matches(a, spec.apps[n], n)
          /\ [name |-> n, id |-> a.id] \in tracked
    /\ \A a \in OwnListed : [name |-> a.name, id |-> a.id] \in tracked
    /\ \A t \in tracked : t.name \in Wanted(spec)
    /\ \A t, u \in tracked : t.name = u.name \/ t.id = u.id => t = u

\* The spec can be carried out, and no application of others is in the way: not
\* by its domains, and not with an id that the status tracks.
Unobstructed ==
    /\ obj = "live"
    /\ spec.on => Valid(spec) /\ ~Conflict(spec)
    /\ ~spec.on => \A t \in tracked, a \in Listed : t.id = a.id => a.own

\* Everything is in place, and so is what the pass under way has seen of it.
InHand(p) ==
    /\ ~p.fin /\ p.spec = spec
    /\ p.at \in IF spec.on THEN {"list", "apply", "prune", "save"}
                          ELSE {"unlist", "save"}
    /\ p.at \in {"list", "unlist"} => p.done = {} /\ p.matched = {}
    /\ p.at = "save" => p.done = tracked
    /\ p.at \in {"apply", "prune"} =>
          /\ p.old = OwnListed
          /\ p.done = {t \in tracked : t.name \notin p.todo}
          /\ p.matched = {t.id : t \in p.done}
          /\ p.todo \subseteq DOMAIN spec.apps
          /\ p.at = "prune" <=> p.todo = {}

Settled == Unobstructed /\ InPlace /\ \A p \in apass : InHand(p)

\* Reconciling what is in place writes nothing to Cloudflare and leaves it in
\* place, at whichever entry or step the pass is (accessApplicationMatchesDesired,
\* reconcileOwnedAccessApplications), until the object or the spec changes,
\* somebody meddles or a call fails.
SettledStays ==
    [][Settled /\ UNCHANGED <<obj, spec, faults>> => Settled' /\ UNCHANGED remote]_vars

\* Renamed entries, domains that move from one entry to another, Access turned
\* off, drift, doubled applications, failed calls and crashes are all made good,
\* although a pass works from a list that its own writes have outdated.
AppsConverge == <>[]Unobstructed => <>[]InPlace
=============================================================================
