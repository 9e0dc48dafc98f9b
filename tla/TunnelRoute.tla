---------------------------- MODULE TunnelRoute -----------------------------
(***************************************************************************)
(* The CloudflareTunnelRoute controller, composed with what module         *)
(* TunnelLife says of the tunnel: each object stands for one private-      *)
(* network route at Cloudflare that leads to the tunnel.  The two          *)
(* controllers share the tunnel's status, which a route's pass reads once, *)
(* and the route objects, which the tunnel's finalizer lists.              *)
(*                                                                         *)
(* The controllers read objects from the informer cache.  stored is what   *)
(* the API server has; rlife (of TunnelLife) and seen are the cached copy, *)
(* which lags until it is delivered.  A write carries the resource         *)
(* version it was based on and fails with a conflict when it is not the    *)
(* stored one.                                                             *)
(*                                                                         *)
(* There is one worker: rpass is the pass under way, a set of at most one  *)
(* element, as is every value that may be missing.  A pass is one action   *)
(* per call.                                                               *)
(***************************************************************************)
EXTENDS TunnelLife, Naturals, FiniteSets

CONSTANTS
    Specs,        \* contents of spec: [network, vnet, note]
    Canonical,    \* Canonical[n]: the CIDR that network n denotes
    Invalid,      \* what a network that cannot be parsed denotes
    Unset,        \* no virtual network is given
    DefaultVnet,  \* the virtual network Cloudflare takes then
    Foreign,      \* the owner of a route that is no object's
    Strangers,    \* routes of others that may be there: [net, vnet]
    RouteIds,     \* route ids Cloudflare may assign
    Crashes,      \* passes may be cut short, Creates may be repeated
    Drift,        \* routes may be edited or deleted by others
    MaxEdits,     \* bound on edits of a spec
    MaxFaults     \* bound on crashes, API errors and meddling by others

ASSUME RouteAssumption ==
    /\ \A s \in Specs : s = [network |-> s.network, vnet |-> s.vnet, note |-> s.note]
    /\ DefaultVnet # Unset /\ \A t \in Strangers : t.vnet # Unset
    /\ Foreign \notin Routes
    /\ RouteIds \subseteq Nat
    /\ Crashes \in BOOLEAN
    /\ Drift \in BOOLEAN
    /\ MaxEdits \in Nat
    /\ MaxFaults \in Nat

VARIABLES
    stored,      \* each object as the API server has it
    seen,        \* spec and status of the cached copy
    fresh,       \* whether the cached copy is the stored one
    rroutes,     \* the routes at Cloudflare
    usedRoutes,  \* the route ids Cloudflare has assigned
    repeats,     \* Creates that Cloudflare carried out twice
    rpass,       \* the pass of the route controller
    edits,       \* edits made so far
    faults       \* faults injected so far

cache   == <<rlife, seen, fresh>>
account == <<rroutes, usedRoutes, repeats>>

tunnel  == <<tobj, tid, closing>>

vars == <<rlife, tobj, tid, closing, stored, seen, fresh, rroutes, usedRoutes,
          repeats, rpass, edits, faults>>

Nets   == {Canonical[s.network] : s \in Specs} \cup {t.net : t \in Strangers}
Vnets  == {v \in {s.vnet : s \in Specs} : v # Unset}
          \cup {t.vnet : t \in Strangers} \cup {DefaultVnet}
Notes  == {s.note : s \in Specs}
Owners == Routes \cup {Foreign}

\* A route at Cloudflare.  Its comment names its owner and carries the note of
\* the spec; by is who created it.
RemoteRoute == [id : RouteIds, net : Nets, vnet : Vnets, tun : SUBSET TunnelIds,
                own : Owners, by : Owners, note : Notes]

Object == [life : Lives, spec : Specs, id : SUBSET RouteIds, ready : BOOLEAN]

RouteSteps == {"tunnel", "get", "preflight", "list", "edit", "create", "save",
               "finTunnel", "finGet", "finDelete", "finDrop"}

\* What a pass has read: the spec, the tracked id, the tunnel's id; what it has
\* found or made (hit) and will report (ready); and whether the object is still
\* of the version it has read (current), which only the finalizer asks.
RoutePass == [at : RouteSteps, obj : Routes, spec : Specs,
              id : SUBSET RouteIds, tun : SUBSET TunnelIds,
              hit : SUBSET RouteIds, ready : BOOLEAN, current : BOOLEAN]

TypeOK ==
    /\ LifeTypeOK
    /\ stored \in [Routes -> Object]
    /\ seen \in [Routes -> [spec : Specs, id : SUBSET RouteIds]]
    /\ fresh \in [Routes -> BOOLEAN]
    /\ rroutes \subseteq RemoteRoute
    /\ usedRoutes \subseteq RouteIds
    /\ repeats \in Nat
    /\ rpass \subseteq RoutePass
    /\ edits \in 0..MaxEdits
    /\ faults \in 0..MaxFaults

\* No object yet; others may have a route.
Init ==
    /\ LifeInit
    /\ stored \in [Routes -> [life : {"absent"}, spec : Specs, id : {{}},
                              ready : {FALSE}]]
    /\ seen = [r \in Routes |-> [spec |-> stored[r].spec, id |-> {}]]
    /\ fresh = [r \in Routes |-> TRUE]
    /\ \/ rroutes = {} /\ usedRoutes = {}
       \/ \E t \in Strangers, i \in RouteIds, n \in Notes :
             /\ \A j \in RouteIds : i <= j
             /\ rroutes = {[id |-> i, net |-> t.net, vnet |-> t.vnet, tun |-> {},
                            own |-> Foreign, by |-> Foreign, note |-> n]}
             /\ usedRoutes = {i}
    /\ repeats = 0
    /\ rpass = {}
    /\ edits = 0 /\ faults = 0

-----------------------------------------------------------------------------
(* The Cloudflare client.                                                  *)

\* Get: the route with an id.
RoutesWith(ids) == {q \in rroutes : q.id \in ids}

\* List: the routes of exactly the spec's network, in its virtual network or,
\* without one, in any.
Listed(s) ==
    {q \in rroutes : /\ q.net = Canonical[s.network]
                     /\ s.vnet = Unset \/ q.vnet = s.vnet}

Fault == faults < MaxFaults /\ faults' = faults + 1

FreeRouteIds == RouteIds \ usedRoutes

NextRouteId(i) == i \in FreeRouteIds /\ \A j \in FreeRouteIds : i <= j

\* The route with id i that a pass asks for.
Made(p, i) ==
    [id |-> i, net |-> Canonical[p.spec.network],
     vnet |-> IF p.spec.vnet = Unset THEN DefaultVnet ELSE p.spec.vnet,
     tun |-> p.tun, own |-> p.obj, by |-> p.obj, note |-> p.spec.note]

\* Create returns the route i.  The client repeats it when the answer is a 5xx,
\* although the route j may have been created.
Create(p, i) ==
    \/ /\ NextRouteId(i)
       /\ rroutes' = rroutes \cup {Made(p, i)}
       /\ usedRoutes' = usedRoutes \cup {i}
       /\ UNCHANGED <<repeats, faults>>
    \/ /\ Crashes /\ Fault
       /\ repeats' = repeats + 1
       /\ i \in FreeRouteIds
       /\ \E j \in FreeRouteIds \ {i} :
             /\ NextRouteId(j)
             /\ \A k \in FreeRouteIds \ {j} : i <= k
             /\ rroutes' = rroutes \cup {Made(p, j), Made(p, i)}
             /\ usedRoutes' = usedRoutes \cup {j, i}

\* Edit writes network, tunnel and comment; a virtual network only if given.
Edited(p, q) ==
    [q EXCEPT !.net = Canonical[p.spec.network], !.tun = p.tun, !.own = p.obj,
              !.vnet = IF p.spec.vnet = Unset THEN @ ELSE p.spec.vnet,
              !.note = p.spec.note]

Edit(p) ==
    rroutes' = {IF q.id \in p.hit THEN Edited(p, q) ELSE q : q \in rroutes}

Delete(ids) == rroutes' = {q \in rroutes : q.id \notin ids}

-----------------------------------------------------------------------------
(* The API server and the cache.                                           *)

\* An object is written: the cached copy, and what a pass has read, are old.
Write(r, o) ==
    /\ stored' = [stored EXCEPT ![r] = o]
    /\ fresh' = [fresh EXCEPT ![r] = FALSE]
    /\ UNCHANGED <<rlife, seen>>

Outdated(r) ==
    rpass' = {[p EXCEPT !.current = @ /\ p.obj # r] : p \in rpass}

\* A user applies, edits or deletes a CloudflareTunnelRoute.  Its virtual
\* network cannot be cleared; without a finalizer it goes at once.
ApplyRoute(r) ==
    /\ stored[r].life = "absent"
    /\ Write(r, [stored[r] EXCEPT !.life = "new"])
    /\ UNCHANGED <<tunnel, faults, account, rpass, edits>>

EditRoute(r) ==
    /\ stored[r].life \in {"new", "live", "deleting"}
    /\ edits < MaxEdits /\ edits' = edits + 1
    /\ \E s \in Specs \ {stored[r].spec} :
          /\ stored[r].spec.vnet # Unset => s.vnet # Unset
          /\ Write(r, [stored[r] EXCEPT !.spec = s])
    /\ Outdated(r)
    /\ UNCHANGED <<tunnel, faults, account>>

DeleteRoute(r) ==
    /\ stored[r].life \in {"new", "live"}
    /\ Write(r, [stored[r] EXCEPT !.life = IF @ = "new" THEN "gone" ELSE "deleting"])
    /\ Outdated(r)
    /\ UNCHANGED <<tunnel, faults, account, edits>>

\* The watch delivers the stored object to the cache.
Deliver(r) ==
    /\ ~fresh[r]
    /\ rlife' = [rlife EXCEPT ![r] = stored[r].life]
    /\ seen' = [seen EXCEPT ![r] = [spec |-> stored[r].spec, id |-> stored[r].id]]
    /\ fresh' = [fresh EXCEPT ![r] = TRUE]
    /\ UNCHANGED <<tunnel, faults, stored, account, rpass, edits>>

\* Somebody deletes a route, puts another comment on it or leads it elsewhere.
MeddleRoute ==
    /\ Drift
    /\ Fault
    /\ \E q \in rroutes :
          \/ rroutes' = rroutes \ {q}
          \/ rroutes' = (rroutes \ {q}) \cup {[q EXCEPT !.own = Foreign]}
          \/ rroutes' = (rroutes \ {q}) \cup {[q EXCEPT !.tun = {}]}
    /\ UNCHANGED <<tunnel, cache, stored, usedRoutes, repeats, rpass, edits>>

\* The process restarts or a call to the API server, or of the finalizer, fails:
\* the rest of the pass does not happen.
AbortRoute ==
    /\ Crashes
    /\ rpass # {} /\ rpass' = {}
    /\ Fault
    /\ UNCHANGED <<tunnel, cache, stored, account, edits>>

-----------------------------------------------------------------------------
(* Reconcile.                                                              *)

RGoTo(p, step) == rpass' = {[p EXCEPT !.at = step]}

\* The two outcomes of a pass, to be saved by setRouteStatus.
Reconciled(p, ids) ==
    rpass' = {[p EXCEPT !.at = "save", !.hit = ids, !.ready = TRUE]}

RNotReady(p) ==
    rpass' = {[p EXCEPT !.at = "save", !.hit = p.id, !.ready = FALSE]}

NewPass(r, step) ==
    [at |-> step, obj |-> r, spec |-> seen[r].spec, id |-> seen[r].id,
     tun |-> {}, hit |-> {}, ready |-> FALSE, current |-> FALSE]

\* Read the object; add the finalizer, which fails on an old copy, and go on.
RBegin(r) ==
    /\ rpass = {}
    /\ \/ /\ rlife[r] = "new" /\ fresh[r]
          /\ Write(r, [stored[r] EXCEPT !.life = "live"])
       \/ /\ rlife[r] = "live"
          /\ UNCHANGED <<stored, cache>>
    /\ rpass' = {NewPass(r, "tunnel")}
    /\ UNCHANGED <<tunnel, faults, account, edits>>

\* Mutant of ReferencedTunnel: a tunnel that is being deleted will do.
MutantDeletingWillDo(p) ==
    /\ p.at = "tunnel"
    /\ \/ /\ \/ tobj = "gone" \/ tid = {}
             \/ Canonical[p.spec.network] = Invalid
          /\ RNotReady(p)
          /\ UNCHANGED faults
       \/ /\ tobj # "gone" /\ tid # {}
          /\ Canonical[p.spec.network] # Invalid
          /\ rpass' = {[p EXCEPT !.at = IF p.id = {} THEN "list" ELSE "get",
                                 !.tun = tid]}
          /\ UNCHANGED faults
    /\ UNCHANGED <<tunnel, cache, stored, account, edits>>

\* referencedTunnel, canonicalNetwork and the credentials, which may be missing.
ReferencedTunnel(p) ==
    /\ p.at = "tunnel"
    /\ \/ /\ \/ tobj \in {"deleting", "gone"} \/ tid = {}
             \/ Canonical[p.spec.network] = Invalid
          /\ RNotReady(p)
          /\ UNCHANGED faults
       \/ /\ Crashes /\ Fault
          /\ RNotReady(p)
       \/ /\ tobj \notin {"deleting", "gone"} /\ tid # {}
          /\ Canonical[p.spec.network] # Invalid
          /\ rpass' = {[p EXCEPT !.at = IF p.id = {} THEN "list" ELSE "get",
                                 !.tun = tid]}
          /\ UNCHANGED faults
    /\ UNCHANGED <<tunnel, cache, stored, account, edits>>

\* Mutant of Matches: where the route leads is not compared.
MutantAnyTunnel(q, p) ==
    /\ q.net = Canonical[p.spec.network]
    /\ q.own = p.obj /\ q.note = p.spec.note
    /\ p.spec.vnet = Unset \/ q.vnet = p.spec.vnet

\* tunnelRouteMatches: the comment holds the owner and the note.
Matches(q, p) ==
    /\ q.net = Canonical[p.spec.network]
    /\ q.tun = p.tun
    /\ q.own = p.obj /\ q.note = p.spec.note
    /\ p.spec.vnet = Unset \/ q.vnet = p.spec.vnet

\* The tracked route: gone, somebody else's, as it should be, or not.
GetRoute(p) ==
    /\ p.at = "get"
    /\ \/ RoutesWith(p.id) = {} /\ RGoTo(p, "list")
       \/ \E q \in RoutesWith(p.id) :
             \/ q.own # p.obj /\ RNotReady(p)
             \/ Matches(q, p) /\ Reconciled(p, p.id)
             \/ q.own = p.obj /\ ~Matches(q, p) /\ RGoTo(p, "preflight")
    /\ UNCHANGED <<tunnel, faults, cache, stored, account, edits>>

\* Mutant of PreflightRouteTarget: the target is not looked at.
MutantNoPreflight(p) ==
    /\ p.at = "preflight"
    /\ rpass' = {[p EXCEPT !.at = "edit", !.hit = p.id]}
    /\ UNCHANGED <<tunnel, faults, cache, stored, account, edits>>

\* Another route at the target, whosever it is, is in the way of an Edit.
PreflightRouteTarget(p) ==
    /\ p.at = "preflight"
    /\ IF \E q \in Listed(p.spec) : q.id \notin p.id
         THEN RNotReady(p)
         ELSE rpass' = {[p EXCEPT !.at = "edit", !.hit = p.id]}
    /\ UNCHANGED <<tunnel, faults, cache, stored, account, edits>>

\* Mutant of ListRoutes: a route at the target is adopted whosever it is.
MutantAdopts(p) ==
    /\ p.at = "list"
    /\ \/ Listed(p.spec) = {} /\ RGoTo(p, "create")
       \/ \E q \in Listed(p.spec) :
             rpass' = {[p EXCEPT !.at = "edit", !.hit = {q.id}]}
    /\ UNCHANGED <<tunnel, faults, cache, stored, account, edits>>

\* No tracked route: one of another owner at the target stops the pass, an own
\* one is recovered, the last listed if there are several.
ListRoutes(p) ==
    /\ p.at = "list"
    /\ \/ /\ \E q \in Listed(p.spec) : q.own # p.obj
          /\ RNotReady(p)
       \/ /\ \A q \in Listed(p.spec) : q.own = p.obj
          /\ \E q \in Listed(p.spec) :
                IF Matches(q, p)
                  THEN Reconciled(p, {q.id})
                  ELSE rpass' = {[p EXCEPT !.at = "edit", !.hit = {q.id}]}
       \/ Listed(p.spec) = {} /\ RGoTo(p, "create")
    /\ UNCHANGED <<tunnel, faults, cache, stored, account, edits>>

\* A route that has gone since is an error: the status keeps the old id.
EditRemote(p) ==
    /\ p.at = "edit"
    /\ IF RoutesWith(p.hit) = {}
         THEN RNotReady(p) /\ UNCHANGED rroutes
         ELSE Edit(p) /\ Reconciled(p, p.hit)
    /\ UNCHANGED <<tunnel, faults, cache, stored, usedRoutes, repeats, edits>>

CreateRemote(p) ==
    /\ p.at = "create"
    /\ \E i \in RouteIds : Create(p, i) /\ Reconciled(p, {i})
    /\ UNCHANGED <<tunnel, cache, stored, edits>>

\* A call of reconcileCloudflareRoute fails, or its answer is lost after it was
\* carried out: the status is to keep the old id and say that it is not ready.
RouteCallFails(p) ==
    /\ Crashes
    /\ \/ p.at \in {"get", "preflight", "list", "edit", "create"}
       \/ p.at = "save" /\ p.ready
    /\ Fault
    /\ RNotReady(p)
    /\ UNCHANGED <<tunnel, cache, stored, account, edits>>

\* setRouteStatus reads the object again, from the cache, and updates the status
\* if it changes.  An old copy is a conflict, and an object that is gone is not
\* found: then what the pass has done is not saved.
SetRouteStatus(p) ==
    /\ p.at = "save"
    /\ rpass' = {}
    /\ \/ /\ fresh[p.obj] /\ rlife[p.obj] # "gone"
          /\ Write(p.obj, [stored[p.obj] EXCEPT !.id = p.hit, !.ready = p.ready])
       \/ /\ \/ ~fresh[p.obj] \/ rlife[p.obj] = "gone"
             \/ stored[p.obj].id = p.hit /\ stored[p.obj].ready = p.ready
          /\ UNCHANGED <<stored, cache>>
    /\ UNCHANGED <<tunnel, faults, account, edits>>

-----------------------------------------------------------------------------
(* The finalizer.                                                          *)

\* Without a tracked route there is nothing to delete.
RFinalize(r) ==
    /\ rpass = {}
    /\ rlife[r] = "deleting"
    /\ rpass' = {[NewPass(r, IF seen[r].id = {} THEN "finDrop" ELSE "finTunnel")
                    EXCEPT !.current = fresh[r]]}
    /\ UNCHANGED <<tunnel, faults, cache, stored, account, edits>>

\* Mutant of FinTunnel: the tunnel must not be on its way out.
MutantTunnelMustStay(p) ==
    /\ p.at = "finTunnel"
    /\ IF tobj \in {"deleting", "gone"} \/ tid = {} THEN RNotReady(p)
                                                  ELSE RGoTo(p, "finGet")
    /\ UNCHANGED <<tunnel, faults, cache, stored, account, edits>>

\* The tunnel, which may be on its way out too, has the credentials.
FinTunnel(p) ==
    /\ p.at = "finTunnel"
    /\ \/ /\ tobj = "gone" \/ tid = {}
          /\ RNotReady(p)
          /\ UNCHANGED faults
       \/ /\ Crashes /\ Fault
          /\ RNotReady(p)
       \/ /\ tobj # "gone" /\ tid # {}
          /\ RGoTo(p, "finGet")
          /\ UNCHANGED faults
    /\ UNCHANGED <<tunnel, cache, stored, account, edits>>

\* A route that is gone or somebody else's is left alone.
FinGetRoute(p) ==
    /\ p.at = "finGet"
    /\ RGoTo(p, IF \E q \in RoutesWith(p.id) : q.own = p.obj
                  THEN "finDelete" ELSE "finDrop")
    /\ UNCHANGED <<tunnel, faults, cache, stored, account, edits>>

FinDeleteRoute(p) ==
    /\ p.at = "finDelete"
    /\ Delete(p.id)
    /\ RGoTo(p, "finDrop")
    /\ UNCHANGED <<tunnel, faults, cache, stored, usedRoutes, repeats, edits>>

\* Mutant of FinDropRoute: the finalizer is dropped whatever the version.
MutantDropsAnyway(p) ==
    /\ p.at = "finDrop"
    /\ rpass' = {}
    /\ Write(p.obj, [stored[p.obj] EXCEPT !.life = "gone"])
    /\ UNCHANGED <<tunnel, faults, account, edits>>

\* The finalizer is dropped from the object as it was read at the beginning.
FinDropRoute(p) ==
    /\ p.at = "finDrop"
    /\ rpass' = {}
    /\ IF p.current
         THEN Write(p.obj, [stored[p.obj] EXCEPT !.life = "gone"])
         ELSE UNCHANGED <<stored, cache>>
    /\ UNCHANGED <<tunnel, faults, account, edits>>

-----------------------------------------------------------------------------

routeVars == <<stored, seen, fresh, account, rpass, edits, faults>>

RouteBegins(r) == RBegin(r) \/ RFinalize(r)

RouteStep ==
    \E p \in rpass :
       \/ ReferencedTunnel(p) \/ GetRoute(p) \/ PreflightRouteTarget(p)
       \/ ListRoutes(p) \/ EditRemote(p) \/ CreateRemote(p) \/ SetRouteStatus(p)
       \/ FinTunnel(p) \/ FinGetRoute(p) \/ FinDeleteRoute(p) \/ FinDropRoute(p)

\* Users, the watch, others.
RouteWorld ==
    \/ \E r \in Routes : ApplyRoute(r) \/ EditRoute(r) \/ DeleteRoute(r) \/ Deliver(r)
    \/ MeddleRoute \/ AbortRoute
    \/ \E p \in rpass : RouteCallFails(p)

TunnelMoves == TunnelLives /\ UNCHANGED routeVars

Next ==
    \/ \E r \in Routes : RouteBegins(r)
    \/ RouteStep \/ RouteWorld \/ TunnelMoves

\* A pass goes on, what is written is delivered, and every object's turn comes
\* again and again: on changes of the object and of its tunnel, on errors, on
\* requeues and on the resync of the cache.
Fairness ==
    /\ WF_vars(RouteStep)
    /\ \A r \in Routes : SF_vars(RouteBegins(r)) /\ WF_vars(Deliver(r))

Spec == Init /\ [][Next]_vars

FairSpec == Spec /\ Fairness

-----------------------------------------------------------------------------
(* Safety.                                                                 *)

\* The routes that carry an object's mark.
OwnRoutes(r) == {q \in rroutes : q.own = r}

\* What a route controller promises of its resource (module Owned).
Resource == INSTANCE Owned WITH
    Objects <- Routes,
    Ids     <- RouteIds,
    life    <- [r \in Routes |-> stored[r].life],
    tracked <- [r \in Routes |-> stored[r].id],
    marked  <- [r \in Routes |-> {q.id : q \in OwnRoutes(r)}]

\* The controller keeps the promise of Owned, with a cache that lags and writes
\* that conflict: routes are created for living objects, deleted for objects
\* that are being deleted, and an object goes only when the route its status
\* tracks is not its own any more (reconcileDelete, setRouteStatus).
RoutesAreOwned == Resource!Spec

\* However passes are cut short, copies are old and specs are edited, an object
\* has at most one route in a place, and one more for each Create that the
\* client's retry doubled (reconcileCloudflareRoute, preflightRouteTarget).
OneRouteInAPlace ==
    \A r \in Routes, n \in Nets, v \in Vnets :
        Cardinality({q \in OwnRoutes(r) : q.net = n /\ q.vnet = v}) <= 1 + repeats

\* A pass changes or deletes only what was created for its object: somebody
\* else's route is never adopted, by its place or by its id (MatchesComment).
OthersKept ==
    [][RouteStep => \A q \in rroutes \ rroutes', p \in rpass : q.by = p.obj]_vars

\* The tunnel does not go before its routes: with the tunnel the finalizer of a
\* route that tracks one would lose its credentials and never end.
TunnelOutlivesRoutes ==
    tobj = "gone" =>
        \A r \in Routes : stored[r].life # "gone" => stored[r].id = {}

-----------------------------------------------------------------------------
(* Liveness.                                                               *)

\* The spec can be read and nothing that the controller leaves alone is at the
\* route's place or in the place of its id.
Unobstructed(r) ==
    /\ Canonical[stored[r].spec.network] # Invalid
    /\ \A q \in RoutesWith(stored[r].id) : q.own = r
    /\ \A q \in Listed(stored[r].spec) :
          IF RoutesWith(stored[r].id) = {} THEN q.own = r
                                           ELSE q.id \in stored[r].id

\* The route is tracked, leads to the tunnel and is as the spec says.
InPlace(r) ==
    LET o == stored[r] IN
    /\ o.ready
    /\ \E q \in RoutesWith(o.id) :
          /\ q.own = r /\ q.note = o.spec.note /\ q.tun = tid
          /\ q \in Listed(o.spec)

\* Edits, drift, lost routes, tunnels lost and recreated, failed calls, crashes
\* and conflicts are all made good once the tunnel has
\* its id.
RoutesConverge ==
    \A r \in Routes, i \in TunnelIds :
        <>[](/\ stored[r].life = "live" /\ tobj = "live" /\ tid = {i}
             /\ Unobstructed(r))
        => <>[]InPlace(r)

\* A route that is being deleted goes, as long as its tunnel has an id: the
\* tunnel's own deletion waits for it.
RouteDeletionCompletes ==
    \A r \in Routes :
        []<>~(stored[r].life = "deleting" /\ (stored[r].id # {} => tid # {}))
=============================================================================
