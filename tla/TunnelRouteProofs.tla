------------------------- MODULE TunnelRouteProofs --------------------------
(***************************************************************************)
(* Proofs about TunnelRoute, for every set of objects, specs and ids and   *)
(* any number of edits and faults.                                         *)
(***************************************************************************)
EXTENDS TunnelRoute, FiniteSetTheorems, TLAPS

-----------------------------------------------------------------------------
(* The inductive invariant.                                                *)

Working    == {"tunnel", "get", "preflight", "list", "edit", "create"}
Finalizing == {"finTunnel", "finGet", "finDelete", "finDrop"}

\* At most one element.
Single(s) == \A i, j \in s : i = j

OnePass == Single(rpass)

OneTracked ==
    /\ \A r \in Routes : Single(stored[r].id) /\ Single(seen[r].id)
    /\ \A p \in rpass : Single(p.id) /\ Single(p.hit)

\* Ids are assigned once, and only its creator's object has a route's mark.
IdsUnique ==
    /\ \A q, o \in rroutes : q.id = o.id => q = o
    /\ \A q \in rroutes : q.id \in usedRoutes /\ q.own \in {q.by, Foreign}

\* The ids of the routes in a place, whosever they are.
In(n, v) == {q.id : q \in {o \in rroutes : o.net = n /\ o.vnet = v}}

PlacesBounded ==
    \A n \in Nets, v \in Vnets :
        IsFiniteSet(In(n, v)) /\ Cardinality(In(n, v)) <= 1 + repeats

\* How far the cached copy can be behind: <<what the cache has, what is stored>>.
\* An object gets its finalizer and loses it from a copy that is not old.
Lags == {<<"absent", "absent">>, <<"absent", "new">>, <<"absent", "gone">>,
         <<"new", "new">>, <<"new", "live">>, <<"new", "deleting">>,
         <<"new", "gone">>, <<"live", "live">>, <<"live", "deleting">>,
         <<"deleting", "deleting">>, <<"deleting", "gone">>, <<"gone", "gone">>}

CacheLags ==
    \A r \in Routes :
        /\ fresh[r] => rlife[r] = stored[r].life /\ seen[r].id = stored[r].id
        /\ <<rlife[r], stored[r].life>> \in Lags
        /\ rlife[r] = "absent" \/ stored[r].life \in {"absent", "new"}
              => stored[r].id = {} /\ seen[r].id = {}
        /\ stored[r].life = "gone" => seen[r].id = stored[r].id

\* An object is gone only without its tracked route.
GoneAreClean ==
    \A r \in Routes : stored[r].life = "gone" =>
        \A q \in RoutesWith(stored[r].id) : q.own # r

\* What is known of the object of a pass.
KnowsObject(p) ==
    LET o == stored[p.obj] IN
    /\ rlife[p.obj] # "absent"
    /\ o.life \in {"live", "deleting", "gone"}
    /\ p.at \in Working => o.life # "gone"
    /\ p.at \in Finalizing => o.life # "live"
    /\ o.life = "gone" =>
          p.id = o.id /\ p.at \in {"finTunnel", "finGet", "finDrop", "save"}
    /\ p.current => fresh[p.obj] /\ o.life = "deleting" /\ p.id = o.id

\* What is known of the routes a pass is about to write.
KnowsRoutes(p) ==
    /\ p.at = "finDrop" => \A q \in RoutesWith(p.id) : q.own # p.obj
    /\ p.at \in {"preflight", "finDelete"} =>
          \A q \in RoutesWith(p.id) : q.by = p.obj
    /\ p.at = "edit" =>
          \A q \in RoutesWith(p.hit) :
             /\ q.by = p.obj
             /\ \/ q \in Listed(p.spec)
                \/ \A o \in Listed(p.spec) : o.id \in p.hit
    /\ p.at = "create" => Listed(p.spec) = {}

\* An object that tracks no route and whose pass will not make one.
Late(r) ==
    /\ stored[r].id = {} /\ seen[r].id = {}
    /\ \A p \in rpass : p.obj = r =>
          p.id = {} /\ p.hit = {} /\ p.at \in {"tunnel", "save", "finDrop"}

\* Before the tunnel has its first id no object can get a route; when the
\* tunnel's finalizer has found no route, an object that is not gone is too
\* late to get one.
Closed == closing \/ tobj \in {"new", "gone"}

ClosedForAll ==
    /\ closing => tobj = "deleting"
    /\ tobj = "new" => tid = {}
    /\ Closed =>
          \A r \in Routes : stored[r].life = "gone" \/ Late(r)

Beliefs ==
    /\ OnePass /\ OneTracked /\ IdsUnique /\ CacheLags /\ GoneAreClean
    /\ \A p \in rpass : KnowsObject(p) /\ KnowsRoutes(p)

RouteInv == TypeOK /\ Beliefs /\ PlacesBounded /\ ClosedForAll

-----------------------------------------------------------------------------
(* Types, and how a pass goes on.                                          *)

\* A pass that goes on has read what it had read.
Follows(q, p) ==
    q.obj = p.obj /\ q.spec = p.spec /\ q.id = p.id /\ q.current = p.current

\* The next step of a pass, what it knows then and what it is to save.
Onward(p, q) ==
    \/ q.at = "save" /\ q.hit = p.id
    \/ /\ q.at = "save" /\ p.at \in {"list", "create"}
       /\ \E i \in RouteIds : q.hit = {i}
    \/ q.at = "save" /\ p.at = "edit" /\ q.hit = p.hit
    \/ /\ p.at = "list" /\ q.at = "edit"
       /\ \E x \in Listed(p.spec) : x.own = p.obj /\ q.hit = {x.id}
    \/ /\ p.at = "preflight" /\ q.at = "edit" /\ q.hit = p.id
       /\ \A o \in Listed(p.spec) : o.id \in p.id
    \/ /\ q.hit = p.hit
       /\ \/ /\ p.at = "tunnel" /\ q.at \in {"get", "list"}
             /\ tobj \notin {"deleting", "gone"} /\ tid # {}
          \/ p.at = "get" /\ q.at = "list"
          \/ /\ p.at = "get" /\ q.at = "preflight"
             /\ \E x \in RoutesWith(p.id) : x.own = p.obj
          \/ p.at = "list" /\ q.at = "create" /\ Listed(p.spec) = {}
          \/ p.at = "finTunnel" /\ q.at = "finGet"
          \/ /\ p.at = "finGet" /\ q.at = "finDelete"
             /\ \E x \in RoutesWith(p.id) : x.own = p.obj
          \/ /\ p.at = "finGet" /\ q.at = "finDrop"
             /\ \A x \in RoutesWith(p.id) : x.own # p.obj
          \/ p.at = "finDelete" /\ q.at = "finDrop"

GoesOn(p) ==
    \E q \in RoutePass : rpass' = {q} /\ Follows(q, p) /\ Onward(p, q)

\* The fields of a pass.
LEMMA PassFields ==
    ASSUME NEW p \in RoutePass
    PROVE  /\ p.at \in RouteSteps /\ p.obj \in Routes /\ p.spec \in Specs
           /\ p.id \in SUBSET RouteIds /\ p.hit \in SUBSET RouteIds
           /\ p.tun \in SUBSET TunnelIds /\ p.ready \in BOOLEAN
           /\ p.current \in BOOLEAN
BY DEF RoutePass

\* A pass that goes on to another step.
LEMMA GoToType ==
    ASSUME NEW p \in RoutePass, NEW step \in RouteSteps, RGoTo(p, step)
    PROVE  \E q \in RoutePass :
              rpass' = {q} /\ Follows(q, p) /\ q.at = step /\ q.hit = p.hit
<1> DEFINE q == [p EXCEPT !.at = step]
<1>1. q \in RoutePass /\ Follows(q, p) /\ q.at = step /\ q.hit = p.hit
      BY DEF RoutePass, Follows
<1>2. rpass' = {q}
      BY DEF RGoTo
<1> HIDE DEF q
<1> QED BY <1>1, <1>2

\* A pass that goes on to save what it has found.
LEMMA SaveType ==
    ASSUME NEW p \in RoutePass, NEW ids \in SUBSET RouteIds,
           (RNotReady(p) /\ ids = p.id) \/ Reconciled(p, ids)
    PROVE  \E q \in RoutePass :
              rpass' = {q} /\ Follows(q, p) /\ q.at = "save" /\ q.hit = ids
<1> DEFINE q(b) == [p EXCEPT !.at = "save", !.hit = ids, !.ready = b]
<1>1. \A b \in BOOLEAN : /\ q(b) \in RoutePass /\ Follows(q(b), p)
                         /\ q(b).at = "save" /\ q(b).hit = ids
      BY DEF RoutePass, Follows, RouteSteps
<1>2. \E b \in BOOLEAN : rpass' = {q(b)}
      BY DEF RNotReady, Reconciled
<1> HIDE DEF q
<1> QED BY <1>1, <1>2

\* A pass that goes on to edit the route it has found.
LEMMA EditType ==
    ASSUME NEW p \in RoutePass, NEW ids \in SUBSET RouteIds,
           rpass' = {[p EXCEPT !.at = "edit", !.hit = ids]}
    PROVE  \E q \in RoutePass :
              rpass' = {q} /\ Follows(q, p) /\ q.at = "edit" /\ q.hit = ids
<1> DEFINE q == [p EXCEPT !.at = "edit", !.hit = ids]
<1>1. q \in RoutePass /\ Follows(q, p) /\ q.at = "edit" /\ q.hit = ids
      BY DEF RoutePass, Follows, RouteSteps
<1>2. rpass' = {q}
      OBVIOUS
<1> HIDE DEF q
<1> QED BY <1>1, <1>2

\* The steps of a pass that end neither it nor the object.
Goes(p) ==
    \/ ReferencedTunnel(p) \/ GetRoute(p) \/ PreflightRouteTarget(p)
    \/ ListRoutes(p) \/ EditRemote(p) \/ CreateRemote(p) \/ RouteCallFails(p)
    \/ FinTunnel(p) \/ FinGetRoute(p) \/ FinDeleteRoute(p)

\* A step of a pass has the type of a step.
LEMMA StepsType ==
    {"tunnel", "get", "preflight", "list", "edit", "create", "save",
     "finTunnel", "finGet", "finDelete", "finDrop"} \subseteq RouteSteps
BY DEF RouteSteps

LEMMA StepGoesOn ==
    ASSUME TypeOK, NEW p \in rpass, Goes(p)
    PROVE  GoesOn(p)
<1>1. /\ p \in RoutePass /\ p.id \in SUBSET RouteIds /\ p.hit \in SUBSET RouteIds
      /\ tid \in SUBSET TunnelIds
      BY PassFields DEF TypeOK, LifeTypeOK, TrackedIds
<1>2. \A x \in rroutes : {x.id} \in SUBSET RouteIds
      BY DEF TypeOK, RemoteRoute
<1>3. \A n : /\ Listed(p.spec) \subseteq rroutes
             /\ RoutesWith(n) \subseteq rroutes
      BY DEF Listed, RoutesWith
<1>4. RNotReady(p) \/ Reconciled(p, p.id) => GoesOn(p)
      BY <1>1, SaveType DEF GoesOn, Onward
<1>5. CASE ReferencedTunnel(p)
      <2>1. ASSUME tobj \notin {"deleting", "gone"}, tid # {}, p.at = "tunnel",
                   rpass' = {[p EXCEPT !.at = IF p.id = {} THEN "list" ELSE "get",
                                       !.tun = tid]}
            PROVE  GoesOn(p)
            <3> DEFINE step == IF p.id = {} THEN "list" ELSE "get"
                       q    == [p EXCEPT !.at = step, !.tun = tid]
            <3>1. /\ q \in RoutePass /\ Follows(q, p)
                  /\ q.at \in {"get", "list"} /\ q.hit = p.hit
                  BY <1>1, StepsType DEF RoutePass, Follows
            <3>2. rpass' = {q}
                  BY <2>1
            <3> HIDE DEF q
            <3> QED BY <2>1, <3>1, <3>2 DEF GoesOn, Onward
      <2> QED BY <1>4, <1>5, <2>1 DEF ReferencedTunnel
<1>6. CASE GetRoute(p)
      <2>1. CASE RGoTo(p, "list") \/ RNotReady(p) \/ Reconciled(p, p.id)
            BY <1>1, <1>4, <1>6, <2>1, GoToType, StepsType DEF GetRoute, GoesOn, Onward
      <2>2. CASE RGoTo(p, "preflight") /\ \E x \in RoutesWith(p.id) : x.own = p.obj
            BY <1>1, <1>6, <2>2, GoToType, StepsType DEF GetRoute, GoesOn, Onward
      <2> QED BY <1>6, <2>1, <2>2 DEF GetRoute
<1>7. CASE PreflightRouteTarget(p)
      <2>1. CASE RNotReady(p)
            BY <1>4, <2>1
      <2>2. CASE /\ rpass' = {[p EXCEPT !.at = "edit", !.hit = p.id]}
                 /\ \A o \in Listed(p.spec) : o.id \in p.id
            <3>1. PICK q \in RoutePass :
                      rpass' = {q} /\ Follows(q, p) /\ q.at = "edit" /\ q.hit = p.id
                  BY <1>1, <2>2, EditType
            <3> QED BY <1>7, <2>2, <3>1 DEF PreflightRouteTarget, GoesOn, Onward
      <2> QED BY <1>7, <2>1, <2>2 DEF PreflightRouteTarget
<1>8. CASE ListRoutes(p)
      <2>1. CASE RNotReady(p)
            BY <1>4, <2>1
      <2>2. ASSUME NEW x \in Listed(p.spec), x.own = p.obj,
                   \/ Reconciled(p, {x.id})
                   \/ rpass' = {[p EXCEPT !.at = "edit", !.hit = {x.id}]}
            PROVE  GoesOn(p)
            <3>1. x.id \in RouteIds /\ {x.id} \in SUBSET RouteIds
                  BY <1>2, <1>3
            <3>2. CASE Reconciled(p, {x.id})
                  <4>1. PICK q \in RoutePass :
                            /\ rpass' = {q} /\ Follows(q, p) /\ q.at = "save"
                            /\ q.hit = {x.id}
                        BY <1>1, <3>1, <3>2, SaveType
                  <4> QED BY <1>8, <3>1, <4>1 DEF ListRoutes, GoesOn, Onward
            <3>3. CASE rpass' = {[p EXCEPT !.at = "edit", !.hit = {x.id}]}
                  <4>1. PICK q \in RoutePass :
                            /\ rpass' = {q} /\ Follows(q, p) /\ q.at = "edit"
                            /\ q.hit = {x.id}
                        BY <1>1, <3>1, <3>3, EditType
                  <4> QED BY <1>8, <2>2, <4>1 DEF ListRoutes, GoesOn, Onward
            <3> QED BY <2>2, <3>2, <3>3
      <2>3. CASE Listed(p.spec) = {} /\ RGoTo(p, "create")
            BY <1>1, <1>8, <2>3, GoToType, StepsType DEF ListRoutes, GoesOn, Onward
      <2> QED BY <1>8, <2>1, <2>2, <2>3 DEF ListRoutes
<1>9. CASE EditRemote(p)
      <2>1. CASE Reconciled(p, p.hit)
            BY <1>1, <1>9, <2>1, SaveType DEF EditRemote, GoesOn, Onward
      <2> QED BY <1>4, <1>9, <2>1 DEF EditRemote
<1>10. CASE CreateRemote(p)
      <2>1. PICK i \in RouteIds : Reconciled(p, {i})
            BY <1>10 DEF CreateRemote
      <2> QED BY <1>1, <1>10, <2>1, SaveType DEF CreateRemote, GoesOn, Onward
<1>11. CASE FinTunnel(p)
      <2>1. CASE RGoTo(p, "finGet")
            BY <1>1, <1>11, <2>1, GoToType, StepsType DEF FinTunnel, GoesOn, Onward
      <2> QED BY <1>4, <1>11, <2>1 DEF FinTunnel
<1>12. CASE FinGetRoute(p)
      BY <1>1, <1>12, GoToType, StepsType DEF FinGetRoute, GoesOn, Onward
<1>13. CASE FinDeleteRoute(p)
      BY <1>1, <1>13, GoToType, StepsType DEF FinDeleteRoute, GoesOn, Onward
<1>14. CASE RouteCallFails(p)
      BY <1>4, <1>14 DEF RouteCallFails
<1> QED BY <1>5, <1>6, <1>7, <1>8, <1>9, <1>10, <1>11, <1>12, <1>13, <1>14 DEF Goes

-----------------------------------------------------------------------------
(* What the calls do to the routes at Cloudflare.                          *)

\* The network and the virtual network of a spec.
LEMMA SpecType ==
    ASSUME NEW s \in Specs
    PROVE  /\ Canonical[s.network] \in Nets /\ s.note \in Notes
           /\ s.vnet # Unset => s.vnet \in Vnets
           /\ DefaultVnet \in Vnets
BY DEF Nets, Notes, Vnets

\* A new route, at the place the spec names.
LEMMA MadeType ==
    ASSUME NEW p \in RoutePass, NEW i \in RouteIds
    PROVE  /\ Made(p, i) \in RemoteRoute
           /\ Made(p, i).id = i /\ Made(p, i).own = p.obj /\ Made(p, i).by = p.obj
           /\ Made(p, i).net = Canonical[p.spec.network]
           /\ Made(p, i).vnet =
                 IF p.spec.vnet = Unset THEN DefaultVnet ELSE p.spec.vnet
BY PassFields, SpecType DEF Made, RemoteRoute, Owners

\* An edited route.
LEMMA EditedType ==
    ASSUME NEW p \in RoutePass, NEW o \in RemoteRoute
    PROVE  /\ Edited(p, o) \in RemoteRoute
           /\ Edited(p, o).id = o.id /\ Edited(p, o).by = o.by
           /\ Edited(p, o).own = p.obj
           /\ Edited(p, o).net = Canonical[p.spec.network]
           /\ Edited(p, o).vnet =
                 IF p.spec.vnet = Unset THEN o.vnet ELSE p.spec.vnet
BY PassFields, SpecType DEF Edited, RemoteRoute, Owners

\* Edit changes the route with the id and no other.
LEMMA EditEffect ==
    ASSUME rroutes \subseteq RemoteRoute, NEW p \in RoutePass, Edit(p)
    PROVE  /\ rroutes' \subseteq RemoteRoute
           /\ \A q \in rroutes' : \E o \in rroutes :
                 /\ q.id = o.id /\ q.by = o.by
                 /\ q = IF o.id \in p.hit THEN Edited(p, o) ELSE o
           /\ \A o \in rroutes :
                 (IF o.id \in p.hit THEN Edited(p, o) ELSE o) \in rroutes'
<1>1. \A q \in rroutes' : \E o \in rroutes :
          q = IF o.id \in p.hit THEN Edited(p, o) ELSE o
      BY DEF Edit
<1>2. \A o \in rroutes :
          (IF o.id \in p.hit THEN Edited(p, o) ELSE o) \in rroutes'
      BY DEF Edit
<1>3. \A o \in rroutes : /\ Edited(p, o) \in RemoteRoute /\ o \in RemoteRoute
                         /\ Edited(p, o).id = o.id /\ Edited(p, o).by = o.by
      BY EditedType
<1> QED BY <1>1, <1>2, <1>3

\* Others move no route and put no object's mark on one.
LEMMA MeddleEffect ==
    ASSUME rroutes \subseteq RemoteRoute, MeddleRoute
    PROVE  /\ rroutes' \subseteq RemoteRoute
           /\ \A q \in rroutes' : \E o \in rroutes :
                 /\ q.id = o.id /\ q.by = o.by /\ q.net = o.net /\ q.vnet = o.vnet
                 /\ q.own \in {o.own, Foreign}
           /\ IdsUnique => \A q, o \in rroutes' : q.id = o.id => q = o
<1>1. PICK x \in rroutes :
          \/ rroutes' = rroutes \ {x}
          \/ rroutes' = (rroutes \ {x}) \cup {[x EXCEPT !.own = Foreign]}
          \/ rroutes' = (rroutes \ {x}) \cup {[x EXCEPT !.tun = {}]}
      BY DEF MeddleRoute
<1>2. ASSUME NEW y \in RemoteRoute, rroutes' = (rroutes \ {x}) \cup {y},
             y.id = x.id, y.by = x.by, y.net = x.net, y.vnet = x.vnet,
             y.own \in {x.own, Foreign}
      PROVE  /\ rroutes' \subseteq RemoteRoute
             /\ \A q \in rroutes' : \E o \in rroutes :
                   /\ q.id = o.id /\ q.by = o.by /\ q.net = o.net /\ q.vnet = o.vnet
                   /\ q.own \in {o.own, Foreign}
             /\ IdsUnique => \A q, o \in rroutes' : q.id = o.id => q = o
      <2>1. \A q \in rroutes' : \E o \in rroutes :
                /\ q.id = o.id /\ q.by = o.by /\ q.net = o.net /\ q.vnet = o.vnet
                /\ q.own \in {o.own, Foreign}
            BY <1>2
      <2>2. IdsUnique => \A q, o \in rroutes' : q.id = o.id => q = o
            BY <1>2 DEF IdsUnique
      <2> QED BY <1>2, <2>1, <2>2
<1>3. CASE rroutes' = rroutes \ {x}
      BY <1>3 DEF IdsUnique
<1>4. CASE rroutes' = (rroutes \ {x}) \cup {[x EXCEPT !.own = Foreign]}
      <2> DEFINE y == [x EXCEPT !.own = Foreign]
      <2>1. /\ y \in RemoteRoute /\ y.own = Foreign
            /\ y.id = x.id /\ y.by = x.by /\ y.net = x.net /\ y.vnet = x.vnet
            BY DEF RemoteRoute, Owners
      <2>2. rroutes' = (rroutes \ {x}) \cup {y}
            BY <1>4
      <2> HIDE DEF y
      <2> QED BY <1>2, <2>1, <2>2
<1>5. CASE rroutes' = (rroutes \ {x}) \cup {[x EXCEPT !.tun = {}]}
      <2> DEFINE y == [x EXCEPT !.tun = {}]
      <2>1. /\ y \in RemoteRoute /\ y.own = x.own
            /\ y.id = x.id /\ y.by = x.by /\ y.net = x.net /\ y.vnet = x.vnet
            BY DEF RemoteRoute
      <2>2. rroutes' = (rroutes \ {x}) \cup {y}
            BY <1>5
      <2> HIDE DEF y
      <2> QED BY <1>2, <2>1, <2>2
<1> QED BY <1>1, <1>3, <1>4, <1>5

-----------------------------------------------------------------------------
(* Every step keeps the types.                                             *)

\* Writing an object.
LEMMA WriteType ==
    ASSUME TypeOK, NEW r \in Routes, NEW o \in Object, Write(r, o)
    PROVE  /\ stored' \in [Routes -> Object] /\ fresh' \in [Routes -> BOOLEAN]
           /\ stored'[r] = o /\ ~fresh'[r]
           /\ \A t \in Routes \ {r} : stored'[t] = stored[t] /\ fresh'[t] = fresh[t]
           /\ UNCHANGED <<rlife, seen>>
BY DEF TypeOK, Write

\* The objects that are written.
LEMMA ObjectType ==
    ASSUME NEW o \in Object
    PROVE  /\ \A l \in Lives : /\ [o EXCEPT !.life = l] \in Object
                               /\ [o EXCEPT !.life = l].life = l
                               /\ [o EXCEPT !.life = l].id = o.id
           /\ \A s \in Specs : /\ [o EXCEPT !.spec = s] \in Object
                               /\ [o EXCEPT !.spec = s].life = o.life
                               /\ [o EXCEPT !.spec = s].id = o.id
           /\ \A i \in SUBSET RouteIds, b \in BOOLEAN :
                 /\ [o EXCEPT !.id = i, !.ready = b] \in Object
                 /\ [o EXCEPT !.id = i, !.ready = b].life = o.life
                 /\ [o EXCEPT !.id = i, !.ready = b].id = i
BY DEF Object

\* A pass that has read an old version.
LEMMA OutdatedType ==
    ASSUME rpass \subseteq RoutePass, NEW r \in Routes, Outdated(r)
    PROVE  /\ rpass' \subseteq RoutePass
           /\ \A q \in rpass' : \E p \in rpass :
                 /\ q.at = p.at /\ q.obj = p.obj /\ q.spec = p.spec /\ q.id = p.id
                 /\ q.hit = p.hit /\ (q.current => p.current /\ p.obj # r)
<1>1. \A q \in rpass' : \E p \in rpass : q = [p EXCEPT !.current = @ /\ p.obj # r]
      BY DEF Outdated
<1> DEFINE Old(p) == [p EXCEPT !.current = @ /\ p.obj # r]
<1>2. ASSUME NEW p \in RoutePass
      PROVE  /\ Old(p) \in RoutePass
             /\ Old(p).at = p.at /\ Old(p).obj = p.obj /\ Old(p).spec = p.spec
             /\ Old(p).id = p.id /\ Old(p).hit = p.hit
             /\ Old(p).current => p.current /\ p.obj # r
      BY DEF RoutePass
<1>3. \A q \in rpass' : \E p \in rpass : q = Old(p)
      BY <1>1
<1> HIDE DEF Old
<1>4. /\ rpass' \subseteq RoutePass
      /\ \A q \in rpass' : \E p \in rpass :
            /\ q.at = p.at /\ q.obj = p.obj /\ q.spec = p.spec /\ q.id = p.id
            /\ q.hit = p.hit /\ (q.current => p.current /\ p.obj # r)
      BY <1>2, <1>3
<1> QED BY <1>4

\* A pass that begins with what it reads of the object.
LEMMA NewPassType ==
    ASSUME TypeOK, NEW r \in Routes, NEW step \in RouteSteps
    PROVE  /\ NewPass(r, step) \in RoutePass
           /\ NewPass(r, step).at = step /\ NewPass(r, step).obj = r
           /\ NewPass(r, step).id = seen[r].id /\ NewPass(r, step).hit = {}
           /\ ~NewPass(r, step).current
BY DEF TypeOK, NewPass, RoutePass

\* The pass of a finalizer.
LEMMA FinPassType ==
    ASSUME TypeOK, NEW r \in Routes, RFinalize(r)
    PROVE  \E q \in RoutePass :
              /\ rpass' = {q} /\ q.obj = r /\ q.id = seen[r].id /\ q.hit = {}
              /\ q.at = (IF seen[r].id = {} THEN "finDrop" ELSE "finTunnel")
              /\ q.current = fresh[r]
<1> DEFINE step == IF seen[r].id = {} THEN "finDrop" ELSE "finTunnel"
           n    == NewPass(r, step)
           q    == [n EXCEPT !.current = fresh[r]]
<1>1. step \in RouteSteps /\ fresh[r] \in BOOLEAN
      BY StepsType DEF TypeOK
<1> HIDE DEF step
<1>2. /\ n \in RoutePass /\ n.at = step /\ n.obj = r /\ n.id = seen[r].id /\ n.hit = {}
      BY <1>1, NewPassType
<1> HIDE DEF n
<1>3. /\ q \in RoutePass /\ q.at = step /\ q.obj = r /\ q.id = seen[r].id /\ q.hit = {}
      /\ q.current = fresh[r]
      BY <1>1, <1>2 DEF RoutePass
<1>4. rpass' = {q}
      BY DEF RFinalize, n, step
<1> HIDE DEF q
<1> QED BY <1>3, <1>4 DEF step

\* A fault is counted, within the bound.
LEMMA FaultType ==
    ASSUME faults \in 0..MaxFaults, Fault \/ UNCHANGED faults
    PROVE  faults' \in 0..MaxFaults
BY RouteAssumption DEF Fault

\* A step of a pass changes routes, ids and counters as the types allow.
LEMMA GoesType ==
    ASSUME TypeOK, NEW p \in rpass, Goes(p)
    PROVE  /\ rroutes' \subseteq RemoteRoute /\ usedRoutes' \subseteq RouteIds
           /\ repeats' \in Nat /\ faults' \in 0..MaxFaults
           /\ UNCHANGED <<tunnel, cache, stored, edits>>
<1> USE DEF TypeOK, account, cache, tunnel
<1>1. p \in RoutePass
      OBVIOUS
<1>2. CASE ReferencedTunnel(p) \/ FinTunnel(p) \/ RouteCallFails(p)
      <2>1. faults' \in 0..MaxFaults
            BY <1>2, FaultType DEF ReferencedTunnel, FinTunnel, RouteCallFails
      <2> QED BY <1>2, <2>1 DEF ReferencedTunnel, FinTunnel, RouteCallFails
<1>3. CASE GetRoute(p) \/ PreflightRouteTarget(p) \/ ListRoutes(p) \/ FinGetRoute(p)
      BY <1>3 DEF GetRoute, PreflightRouteTarget, ListRoutes, FinGetRoute
<1>4. CASE EditRemote(p)
      <2>1. rroutes' \subseteq RemoteRoute
            BY <1>1, <1>4, EditEffect DEF EditRemote
      <2> QED BY <1>4, <2>1 DEF EditRemote
<1>5. CASE CreateRemote(p)
      <2>1. PICK i \in RouteIds : Create(p, i)
            BY <1>5 DEF CreateRemote
      <2>2. rroutes' \subseteq RemoteRoute
            BY <1>1, <2>1, MadeType DEF Create, FreeRouteIds
      <2>3. usedRoutes' \subseteq RouteIds /\ repeats' \in Nat
            BY <2>1 DEF Create, FreeRouteIds
      <2>4. faults' \in 0..MaxFaults
            BY <2>1, FaultType DEF Create
      <2> QED BY <1>5, <2>2, <2>3, <2>4 DEF CreateRemote
<1>6. CASE FinDeleteRoute(p)
      BY <1>6 DEF FinDeleteRoute, Delete
<1> QED BY <1>2, <1>3, <1>4, <1>5, <1>6 DEF Goes

\* Every step keeps the types.
LEMMA TypeStep ==
    ASSUME TypeOK, [Next]_vars
    PROVE  TypeOK'
<1> USE RouteAssumption DEF TypeOK, account, cache, tunnel
<1>1. CASE UNCHANGED vars
      BY <1>1 DEF vars, LifeTypeOK
<1>2. ASSUME NEW r \in Routes, RBegin(r) PROVE TypeOK'
      <2>1. rpass' \subseteq RoutePass
            BY <1>2, NewPassType, StepsType DEF RBegin
      <2>2. stored' \in [Routes -> Object] /\ fresh' \in [Routes -> BOOLEAN]
            /\ UNCHANGED <<rlife, seen>>
            BY <1>2, WriteType, ObjectType DEF RBegin, Lives
      <2> QED BY <1>2, <2>1, <2>2 DEF RBegin, LifeTypeOK
<1>3. ASSUME NEW r \in Routes, RFinalize(r) PROVE TypeOK'
      <2>1. rpass' \subseteq RoutePass
            BY <1>3, FinPassType
      <2>2. UNCHANGED <<tunnel, faults, cache, stored, account, edits>>
            BY <1>3 DEF RFinalize
      <2> QED BY <2>1, <2>2 DEF LifeTypeOK
<1>4. ASSUME NEW p \in rpass, Goes(p) PROVE TypeOK'
      <2>1. rpass' \subseteq RoutePass
            BY <1>4, StepGoesOn DEF GoesOn
      <2> QED BY <1>4, <2>1, GoesType DEF LifeTypeOK
<1>5. ASSUME NEW p \in rpass, SetRouteStatus(p) \/ FinDropRoute(p) PROVE TypeOK'
      <2>1. p \in RoutePass /\ p.obj \in Routes
            BY PassFields
      <2>2. p.hit \in SUBSET RouteIds /\ p.ready \in BOOLEAN /\ stored[p.obj] \in Object
            BY <2>1, PassFields
      <2>3. /\ [stored[p.obj] EXCEPT !.id = p.hit, !.ready = p.ready] \in Object
            /\ [stored[p.obj] EXCEPT !.life = "gone"] \in Object
            BY <2>2, ObjectType DEF Lives
      <2>4. (\E o \in Object : Write(p.obj, o)) \/ UNCHANGED <<stored, cache>>
            BY <1>5, <2>3 DEF SetRouteStatus, FinDropRoute
      <2>5. stored' \in [Routes -> Object] /\ fresh' \in [Routes -> BOOLEAN]
            /\ UNCHANGED <<rlife, seen>>
            BY <2>1, <2>4, WriteType
      <2> QED BY <1>5, <2>5 DEF SetRouteStatus, FinDropRoute, LifeTypeOK
<1>6. ASSUME NEW r \in Routes, ApplyRoute(r) \/ EditRoute(r) \/ DeleteRoute(r)
      PROVE  TypeOK'
      <2>1. rpass' \subseteq RoutePass
            BY <1>6, OutdatedType DEF ApplyRoute, EditRoute, DeleteRoute
      <2>2. \E o \in Object : Write(r, o)
            BY <1>6, ObjectType DEF ApplyRoute, EditRoute, DeleteRoute, Lives
      <2>3. stored' \in [Routes -> Object] /\ fresh' \in [Routes -> BOOLEAN]
            /\ UNCHANGED <<rlife, seen>>
            BY <2>2, WriteType
      <2>4. edits' \in 0..MaxEdits
            BY <1>6 DEF ApplyRoute, EditRoute, DeleteRoute
      <2> QED BY <1>6, <2>1, <2>3, <2>4 DEF ApplyRoute, EditRoute, DeleteRoute, LifeTypeOK
<1>7. ASSUME NEW r \in Routes, Deliver(r) PROVE TypeOK'
      <2>1. stored[r].life \in Lives
            BY DEF Object
      <2>2. [spec |-> stored[r].spec, id |-> stored[r].id]
              \in [spec : Specs, id : SUBSET RouteIds]
            BY DEF Object
      <2> QED BY <1>7, <2>1, <2>2 DEF Deliver, LifeTypeOK
<1>8. CASE MeddleRoute
      <2>1. rroutes' \subseteq RemoteRoute
            BY <1>8, MeddleEffect
      <2>2. faults' \in 0..MaxFaults
            BY <1>8, FaultType DEF MeddleRoute
      <2> QED BY <1>8, <2>1, <2>2 DEF MeddleRoute, LifeTypeOK
<1>9. CASE AbortRoute
      BY <1>9, FaultType DEF AbortRoute, LifeTypeOK
<1>10. CASE TunnelMoves
      BY <1>10 DEF TunnelMoves, routeVars, TunnelLives, TunnelGetsFinalizer,
         TunnelGetsId, TunnelDeleted, TunnelCloses, TunnelWaits, TunnelGoes,
         LifeTypeOK, Lives
<1> QED BY <1>1, <1>2, <1>3, <1>4, <1>5, <1>6, <1>7, <1>8, <1>9, <1>10
        DEF Next, RouteBegins, RouteStep, RouteWorld, Goes

-----------------------------------------------------------------------------
(* Routes, their ids and their places.                                     *)

\* The pass is the only one.
LEMMA ThePass ==
    ASSUME Beliefs, NEW p \in rpass
    PROVE  /\ rpass = {p} /\ KnowsObject(p) /\ KnowsRoutes(p)
           /\ Single(p.id) /\ Single(p.hit)
BY DEF Beliefs, OnePass, OneTracked, Single

LEMMA InPlaceIds ==
    ASSUME NEW n, NEW v, NEW i
    PROVE  i \in In(n, v) <=> \E q \in rroutes : q.id = i /\ q.net = n /\ q.vnet = v
BY DEF In

\* Places stay bounded when each keeps ids it had or has no more than one.
LEMMA PlacesShrink ==
    ASSUME TypeOK, PlacesBounded, repeats' = repeats,
           \A n \in Nets, v \in Vnets :
              In(n, v)' \subseteq In(n, v) \/ \E i : In(n, v)' \subseteq {i}
    PROVE  PlacesBounded'
<1> SUFFICES ASSUME NEW n \in Nets, NEW v \in Vnets
             PROVE  IsFiniteSet(In(n, v)') /\ Cardinality(In(n, v)') <= 1 + repeats
    BY DEF PlacesBounded, Nets, Vnets
<1>1. repeats \in Nat
      BY DEF TypeOK
<1>2. ASSUME NEW T, In(n, v)' \subseteq T, IsFiniteSet(T), Cardinality(T) <= 1 + repeats
      PROVE  IsFiniteSet(In(n, v)') /\ Cardinality(In(n, v)') <= 1 + repeats
      <2>1. IsFiniteSet(In(n, v)') /\ Cardinality(In(n, v)') <= Cardinality(T)
            BY <1>2, FS_Subset
      <2>2. Cardinality(In(n, v)') \in Nat /\ Cardinality(T) \in Nat
            BY <1>2, <2>1, FS_CardinalityType
      <2> QED BY <1>1, <1>2, <2>1, <2>2
<1>3. CASE In(n, v)' \subseteq In(n, v)
      BY <1>2, <1>3 DEF PlacesBounded
<1>4. ASSUME NEW i, In(n, v)' \subseteq {i}
      PROVE  IsFiniteSet(In(n, v)') /\ Cardinality(In(n, v)') <= 1 + repeats
      <2>1. IsFiniteSet({i}) /\ Cardinality({i}) = 1
            BY FS_Singleton
      <2>2. Cardinality({i}) <= 1 + repeats
            BY <1>1, <2>1
      <2> QED BY <1>2, <1>4, <2>1, <2>2
<1> QED BY <1>3, <1>4

\* A route with the marks and in the place of one that was there.
LEMMA RoutesStay ==
    ASSUME TypeOK, PlacesBounded, IdsUnique,
           UNCHANGED <<usedRoutes, repeats>>,
           \A q \in rroutes' : \E o \in rroutes :
              /\ q.id = o.id /\ q.by = o.by /\ q.net = o.net /\ q.vnet = o.vnet
              /\ q.own \in {o.own, Foreign},
           \A q, o \in rroutes' : q.id = o.id => q = o
    PROVE  IdsUnique' /\ PlacesBounded'
<1>1. \A n \in Nets, v \in Vnets : In(n, v)' \subseteq In(n, v)
      BY InPlaceIds DEF In
<1>2. PlacesBounded'
      BY <1>1, PlacesShrink
<1>3. IdsUnique'
      BY DEF IdsUnique
<1> QED BY <1>2, <1>3

\* An edit moves a route only to a place where there is no other.
LEMMA EditKeepsPlaces ==
    ASSUME TypeOK, Beliefs, PlacesBounded, NEW p \in rpass, p.at = "edit", Edit(p),
           UNCHANGED <<usedRoutes, repeats>>
    PROVE  IdsUnique' /\ PlacesBounded'
<1>0. /\ p \in RoutePass /\ rroutes \subseteq RemoteRoute /\ IdsUnique
      /\ Single(p.hit) /\ KnowsRoutes(p)
      BY ThePass DEF TypeOK, Beliefs
<1>1. \A q \in rroutes' : \E o \in rroutes :
          /\ q.id = o.id /\ q.by = o.by
          /\ q = IF o.id \in p.hit THEN Edited(p, o) ELSE o
      BY <1>0, EditEffect
<1>2. \A o \in rroutes : /\ Edited(p, o).own = p.obj
                         /\ Edited(p, o).net = Canonical[p.spec.network]
                         /\ Edited(p, o).vnet =
                               IF p.spec.vnet = Unset THEN o.vnet ELSE p.spec.vnet
      BY <1>0, EditedType
<1>3. \A o \in rroutes : o.id \in p.hit =>
          o.by = p.obj /\ (o \in Listed(p.spec) \/ \A x \in Listed(p.spec) : x.id \in p.hit)
      BY <1>0 DEF KnowsRoutes, RoutesWith
<1>4. IdsUnique'
      BY <1>0, <1>1, <1>2, <1>3 DEF IdsUnique
<1>5. ASSUME NEW n \in Nets, NEW v \in Vnets
      PROVE  In(n, v)' \subseteq In(n, v) \/ \E i : In(n, v)' \subseteq {i}
      <2>1. \A i \in In(n, v)' : \E q \in rroutes' : q.id = i /\ q.net = n /\ q.vnet = v
            BY DEF In
      <2>2. ASSUME NEW o \in rroutes, o.id \in p.hit, o \in Listed(p.spec)
            PROVE  Edited(p, o).net = o.net /\ Edited(p, o).vnet = o.vnet
            BY <1>2, <2>2 DEF Listed
      <2>3. CASE \A o \in rroutes : o.id \in p.hit => o \in Listed(p.spec)
            BY <1>1, <2>1, <2>2, <2>3, InPlaceIds
      <2>4. ASSUME NEW o \in rroutes, o.id \in p.hit, o \notin Listed(p.spec)
            PROVE  In(n, v)' \subseteq In(n, v) \/ \E i : In(n, v)' \subseteq {i}
            <3>1. /\ p.hit = {o.id} /\ \A x \in Listed(p.spec) : x.id \in p.hit
                  /\ \A x \in rroutes : x.id \in p.hit => x = o
                  BY <1>0, <1>3, <2>4 DEF Single, IdsUnique
            <3>2. CASE Edited(p, o).net = n /\ Edited(p, o).vnet = v
                  <4>1. \A x \in rroutes : x.net = n /\ x.vnet = v => x.id \in p.hit
                        BY <1>2, <3>1, <3>2 DEF Listed
                  <4>2. In(n, v)' \subseteq {o.id}
                        BY <1>1, <2>1, <3>1, <4>1
                  <4> QED BY <4>2
            <3>3. CASE ~(Edited(p, o).net = n /\ Edited(p, o).vnet = v)
                  <4>1. In(n, v)' \subseteq In(n, v)
                        BY <1>1, <2>1, <3>1, <3>3, InPlaceIds
                  <4> QED BY <4>1
            <3> QED BY <3>2, <3>3
      <2> QED BY <2>3, <2>4
<1>6. PlacesBounded'
      BY <1>5, PlacesShrink
<1> QED BY <1>4, <1>6

\* A Create at a place where there is no route, once or twice.
LEMMA CreateKeepsPlaces ==
    ASSUME TypeOK, Beliefs, PlacesBounded, NEW p \in rpass, CreateRemote(p)
    PROVE  IdsUnique' /\ PlacesBounded'
<1>1. /\ p \in RoutePass /\ IdsUnique /\ repeats \in Nat
      /\ Listed(p.spec) = {} /\ p.spec \in Specs
      BY ThePass, PassFields DEF TypeOK, Beliefs, KnowsRoutes, CreateRemote
<1> DEFINE net  == Canonical[p.spec.network]
           vnet == IF p.spec.vnet = Unset THEN DefaultVnet ELSE p.spec.vnet
<1>2. \A i \in RouteIds : /\ Made(p, i).id = i /\ Made(p, i).by = p.obj
                          /\ Made(p, i).own = p.obj
                          /\ Made(p, i).net = net /\ Made(p, i).vnet = vnet
      BY <1>1, MadeType
<1>3. net \in Nets /\ vnet \in Vnets
      BY <1>1, SpecType
<1>4. \A q \in rroutes : ~(q.net = net /\ q.vnet = vnet)
      BY <1>1 DEF Listed
<1> HIDE DEF net, vnet
<1>5. ASSUME NEW i \in RouteIds, i \notin usedRoutes,
             rroutes' = rroutes \cup {Made(p, i)},
             usedRoutes' = usedRoutes \cup {i}, repeats' = repeats
      PROVE  IdsUnique' /\ PlacesBounded'
      <2>1. IdsUnique'
            BY <1>1, <1>2, <1>5 DEF IdsUnique
      <2>2. ASSUME NEW n \in Nets, NEW v \in Vnets
            PROVE  In(n, v)' \subseteq In(n, v) \/ \E k : In(n, v)' \subseteq {k}
            <3>1. CASE n = net /\ v = vnet
                  <4>1. In(n, v)' \subseteq {i}
                        BY <1>2, <1>4, <1>5, <3>1 DEF In
                  <4> QED BY <4>1
            <3>2. CASE ~(n = net /\ v = vnet)
                  BY <1>2, <1>5, <3>2 DEF In
            <3> QED BY <3>1, <3>2
      <2>3. PlacesBounded'
            BY <1>5, <2>2, PlacesShrink
      <2> QED BY <2>1, <2>3
<1>6. ASSUME NEW i \in RouteIds, NEW j \in RouteIds, i # j,
             i \notin usedRoutes, j \notin usedRoutes,
             rroutes' = rroutes \cup {Made(p, j), Made(p, i)},
             usedRoutes' = usedRoutes \cup {j, i}, repeats' = repeats + 1
      PROVE  IdsUnique' /\ PlacesBounded'
      <2>1. IdsUnique'
            BY <1>1, <1>2, <1>6 DEF IdsUnique
      <2>2. ASSUME NEW n \in Nets, NEW v \in Vnets
            PROVE  IsFiniteSet(In(n, v)') /\ Cardinality(In(n, v)') <= 1 + repeats'
            <3>1. IsFiniteSet(In(n, v)) /\ Cardinality(In(n, v)) <= 1 + repeats
                  BY DEF PlacesBounded
            <3>2. Cardinality(In(n, v)) \in Nat
                  BY <3>1, FS_CardinalityType
            <3>3. CASE n = net /\ v = vnet
                  <4>1. In(n, v)' = {i} \cup {j}
                        BY <1>2, <1>4, <1>6, <3>3 DEF In
                  <4>2. IsFiniteSet({i}) /\ Cardinality({i}) = 1
                        BY FS_Singleton
                  <4>3. /\ IsFiniteSet({i} \cup {j})
                        /\ Cardinality({i} \cup {j}) =
                              IF j \in {i} THEN Cardinality({i}) ELSE Cardinality({i}) + 1
                        BY <4>2, FS_AddElement
                  <4>4. Cardinality({i} \cup {j}) <= 1 + repeats'
                        BY <1>1, <1>6, <4>2, <4>3
                  <4> QED BY <4>1, <4>3, <4>4
            <3>4. CASE ~(n = net /\ v = vnet)
                  <4>1. In(n, v)' = In(n, v)
                        BY <1>2, <1>6, <3>4 DEF In
                  <4> QED BY <1>1, <1>6, <3>1, <3>2, <4>1
            <3> QED BY <3>3, <3>4
      <2>3. Nets' = Nets /\ Vnets' = Vnets
            BY DEF Nets, Vnets
      <2>4. PlacesBounded'
            BY <2>2, <2>3 DEF PlacesBounded
      <2> QED BY <2>1, <2>4
<1> QED BY <1>5, <1>6 DEF CreateRemote, Create, FreeRouteIds, NextRouteId

\* Every step keeps ids unique and places bounded.
LEMMA RemoteStep ==
    ASSUME TypeOK, Beliefs, PlacesBounded, [Next]_vars
    PROVE  IdsUnique' /\ PlacesBounded'
<1>0. IdsUnique /\ rroutes \subseteq RemoteRoute
      BY DEF Beliefs, TypeOK
<1>1. ASSUME UNCHANGED <<usedRoutes, repeats>>, rroutes' \subseteq rroutes
      PROVE  IdsUnique' /\ PlacesBounded'
      BY <1>0, <1>1, RoutesStay DEF IdsUnique
<1>2. ASSUME NEW p \in rpass, EditRemote(p) PROVE IdsUnique' /\ PlacesBounded'
      BY <1>1, <1>2, EditKeepsPlaces DEF EditRemote
<1>3. ASSUME NEW p \in rpass, CreateRemote(p) PROVE IdsUnique' /\ PlacesBounded'
      BY <1>3, CreateKeepsPlaces
<1>4. CASE MeddleRoute
      <2>1. UNCHANGED <<usedRoutes, repeats>>
            BY <1>4 DEF MeddleRoute
      <2> QED BY <1>0, <1>4, <2>1, MeddleEffect, RoutesStay
<1>5. ASSUME NEW p \in rpass, FinDeleteRoute(p) PROVE IdsUnique' /\ PlacesBounded'
      BY <1>1, <1>5 DEF FinDeleteRoute, Delete
<1>6. CASE \/ UNCHANGED vars \/ TunnelMoves \/ AbortRoute
           \/ \E r \in Routes : \/ RouteBegins(r) \/ ApplyRoute(r) \/ EditRoute(r)
                               \/ DeleteRoute(r) \/ Deliver(r)
           \/ \E p \in rpass : \/ ReferencedTunnel(p) \/ GetRoute(p)
                               \/ PreflightRouteTarget(p) \/ ListRoutes(p)
                               \/ SetRouteStatus(p) \/ FinTunnel(p) \/ FinGetRoute(p)
                               \/ FinDropRoute(p) \/ RouteCallFails(p)
      BY <1>1, <1>6 DEF vars, TunnelMoves, routeVars, account, AbortRoute, RouteBegins,
         RBegin, RFinalize, ApplyRoute, EditRoute, DeleteRoute, Deliver,
         ReferencedTunnel, GetRoute, PreflightRouteTarget, ListRoutes,
         SetRouteStatus, FinTunnel, FinGetRoute, FinDropRoute, RouteCallFails
<1> QED BY <1>2, <1>3, <1>4, <1>5, <1>6 DEF Next, RouteStep, RouteWorld

-----------------------------------------------------------------------------
(* Objects and their cached copies.                                        *)

\* What is known of one object: CacheLags and OneTracked for it.
LEMMA ObjectKnown ==
    ASSUME Beliefs, NEW r \in Routes
    PROVE  /\ fresh[r] => rlife[r] = stored[r].life /\ seen[r].id = stored[r].id
           /\ <<rlife[r], stored[r].life>> \in Lags
           /\ rlife[r] = "absent" \/ stored[r].life \in {"absent", "new"}
                 => stored[r].id = {} /\ seen[r].id = {}
           /\ stored[r].life = "gone" => seen[r].id = stored[r].id
           /\ Single(stored[r].id) /\ Single(seen[r].id)
BY DEF Beliefs, CacheLags, OneTracked

ObjectsTracked == \A r \in Routes : Single(stored[r].id) /\ Single(seen[r].id)

\* An object is written from a copy that lags no further.
LEMMA WriteLags ==
    ASSUME TypeOK, Beliefs, NEW r \in Routes, NEW o \in Object, Write(r, o),
           Single(o.id), <<rlife[r], o.life>> \in Lags,
           rlife[r] = "absent" \/ o.life \in {"absent", "new"}
              => o.id = {} /\ seen[r].id = {},
           o.life = "gone" => seen[r].id = o.id
    PROVE  CacheLags' /\ ObjectsTracked'
<1>1. /\ stored'[r] = o /\ ~fresh'[r] /\ UNCHANGED <<rlife, seen>>
      /\ \A t \in Routes \ {r} : stored'[t] = stored[t] /\ fresh'[t] = fresh[t]
      BY WriteType
<1> SUFFICES ASSUME NEW t \in Routes
             PROVE  /\ fresh'[t] => rlife'[t] = stored'[t].life /\ seen'[t].id = stored'[t].id
                    /\ <<rlife'[t], stored'[t].life>> \in Lags
                    /\ rlife'[t] = "absent" \/ stored'[t].life \in {"absent", "new"}
                          => stored'[t].id = {} /\ seen'[t].id = {}
                    /\ stored'[t].life = "gone" => seen'[t].id = stored'[t].id
                    /\ Single(stored'[t].id) /\ Single(seen'[t].id)
    BY DEF CacheLags, ObjectsTracked
<1>2. CASE t = r
      BY <1>1, <1>2, ObjectKnown
<1>3. CASE t # r
      BY <1>1, <1>3, ObjectKnown
<1> QED BY <1>2, <1>3

\* What users write: the spec or the life of an object.
LEMMA UserWrites ==
    ASSUME TypeOK, NEW r \in Routes, ApplyRoute(r) \/ EditRoute(r) \/ DeleteRoute(r)
    PROVE  \E o \in Object :
              /\ Write(r, o) /\ o.id = stored[r].id
              /\ \/ o.life = stored[r].life /\ stored[r].life # "absent"
                 \/ <<stored[r].life, o.life>> \in
                       {<<"absent", "new">>, <<"new", "gone">>, <<"live", "deleting">>}
<1>1. stored[r] \in Object
      BY DEF TypeOK
<1>2. ASSUME NEW l \in Lives, Write(r, [stored[r] EXCEPT !.life = l]),
             <<stored[r].life, l>> \in
               {<<"absent", "new">>, <<"new", "gone">>, <<"live", "deleting">>}
      PROVE  \E o \in Object :
                /\ Write(r, o) /\ o.id = stored[r].id
                /\ <<stored[r].life, o.life>> \in
                      {<<"absent", "new">>, <<"new", "gone">>, <<"live", "deleting">>}
      <2> DEFINE o == [stored[r] EXCEPT !.life = l]
      <2>1. o \in Object /\ o.life = l /\ o.id = stored[r].id
            BY <1>1 DEF Object
      <2>2. Write(r, o)
            BY <1>2
      <2> HIDE DEF o
      <2> QED BY <1>2, <2>1, <2>2
<1>3. CASE ApplyRoute(r)
      BY <1>2, <1>3 DEF ApplyRoute, Lives
<1>4. CASE DeleteRoute(r)
      <2>1. PICK l \in {"gone", "deleting"} :
                /\ Write(r, [stored[r] EXCEPT !.life = l])
                /\ <<stored[r].life, l>> \in {<<"new", "gone">>, <<"live", "deleting">>}
            BY <1>4 DEF DeleteRoute
      <2> QED BY <1>2, <2>1 DEF Lives
<1>5. CASE EditRoute(r)
      <2>1. PICK s \in Specs : Write(r, [stored[r] EXCEPT !.spec = s])
            BY <1>5 DEF EditRoute
      <2> DEFINE o == [stored[r] EXCEPT !.spec = s]
      <2>2. o \in Object /\ o.life = stored[r].life /\ o.id = stored[r].id
            BY <1>1 DEF Object
      <2>3. Write(r, o)
            BY <2>1
      <2> HIDE DEF o
      <2> QED BY <1>5, <2>2, <2>3 DEF EditRoute
<1> QED BY <1>3, <1>4, <1>5

\* What the controller writes: the finalizer, the status.
LEMMA BeginWrites ==
    ASSUME TypeOK, NEW r \in Routes, RBegin(r)
    PROVE  \/ rlife[r] = "live" /\ UNCHANGED <<stored, cache>>
           \/ \E o \in Object :
                 /\ Write(r, o) /\ o.id = stored[r].id /\ o.life = "live"
                 /\ rlife[r] = "new" /\ fresh[r]
<1> DEFINE o == [stored[r] EXCEPT !.life = "live"]
<1>1. o \in Object /\ o.life = "live" /\ o.id = stored[r].id
      BY DEF TypeOK, Object, Lives
<1>2. \/ rlife[r] = "live" /\ UNCHANGED <<stored, cache>>
      \/ Write(r, o) /\ rlife[r] = "new" /\ fresh[r]
      BY DEF RBegin
<1> HIDE DEF o
<1> QED BY <1>1, <1>2

LEMMA SaveWrites ==
    ASSUME TypeOK, Beliefs, NEW p \in rpass, SetRouteStatus(p)
    PROVE  \/ UNCHANGED <<stored, cache>>
           \/ \E o \in Object :
                 /\ Write(p.obj, o) /\ o.id = p.hit /\ o.life = stored[p.obj].life
                 /\ fresh[p.obj] /\ rlife[p.obj] = o.life
                 /\ o.life \in {"live", "deleting"}
<1> DEFINE o == [stored[p.obj] EXCEPT !.id = p.hit, !.ready = p.ready]
<1>1. /\ p.obj \in Routes /\ p.hit \in SUBSET RouteIds /\ p.ready \in BOOLEAN
      /\ stored[p.obj] \in Object
      BY PassFields DEF TypeOK
<1>2. o \in Object /\ o.life = stored[p.obj].life /\ o.id = p.hit
      BY <1>1 DEF Object
<1>3. \/ UNCHANGED <<stored, cache>>
      \/ Write(p.obj, o) /\ fresh[p.obj] /\ rlife[p.obj] # "gone"
      BY DEF SetRouteStatus
<1> HIDE DEF o
<1>4. fresh[p.obj] => rlife[p.obj] = stored[p.obj].life
      BY <1>1, ObjectKnown
<1>5. KnowsObject(p)
      BY ThePass
<1> QED BY <1>2, <1>3, <1>4, <1>5 DEF KnowsObject

\* The finalizer is dropped from an object that has not changed meanwhile.
LEMMA DropWrites ==
    ASSUME TypeOK, Beliefs, NEW p \in rpass, FinDropRoute(p)
    PROVE  \/ UNCHANGED <<stored, cache>>
           \/ \E o \in Object :
                 /\ Write(p.obj, o) /\ o.id = stored[p.obj].id /\ o.life = "gone"
                 /\ stored[p.obj].life = "deleting" /\ rlife[p.obj] = "deleting"
                 /\ p.id = stored[p.obj].id /\ seen[p.obj].id = p.id
<1> DEFINE o == [stored[p.obj] EXCEPT !.life = "gone"]
<1>1. p.obj \in Routes /\ stored[p.obj] \in Object
      BY PassFields DEF TypeOK
<1>2. o \in Object /\ o.life = "gone" /\ o.id = stored[p.obj].id
      BY <1>1 DEF Object, Lives
<1>3. UNCHANGED <<stored, cache>> \/ (Write(p.obj, o) /\ p.current)
      BY DEF FinDropRoute
<1> HIDE DEF o
<1>4. KnowsObject(p)
      BY ThePass
<1>5. fresh[p.obj] => rlife[p.obj] = stored[p.obj].life /\ seen[p.obj].id = stored[p.obj].id
      BY <1>1, ObjectKnown
<1> QED BY <1>2, <1>3, <1>4, <1>5 DEF KnowsObject

LEMMA CacheStep ==
    ASSUME TypeOK, Beliefs, [Next]_vars
    PROVE  CacheLags' /\ ObjectsTracked'
<1> USE DEF cache
<1>1. ASSUME UNCHANGED <<stored, cache>> PROVE CacheLags' /\ ObjectsTracked'
      BY <1>1 DEF CacheLags, Beliefs, OneTracked, ObjectsTracked
<1>2. \A r \in Routes : stored[r] \in Object
      BY DEF TypeOK
<1>3. ASSUME NEW r \in Routes, RBegin(r) PROVE CacheLags' /\ ObjectsTracked'
      <2>1. ASSUME NEW o \in Object, Write(r, o), o.id = stored[r].id, o.life = "live",
                   rlife[r] = "new", fresh[r]
            PROVE  CacheLags' /\ ObjectsTracked'
            <3>1. <<rlife[r], o.life>> \in Lags
                  BY <2>1 DEF Lags
            <3>2. Single(o.id)
                  BY <2>1, ObjectKnown
            <3> QED BY <2>1, <3>1, <3>2, WriteLags
      <2> QED BY <1>1, <1>3, <2>1, BeginWrites
<1>4. ASSUME NEW p \in rpass, SetRouteStatus(p) PROVE CacheLags' /\ ObjectsTracked'
      <2>1. ASSUME NEW o \in Object, Write(p.obj, o), o.id = p.hit,
                   rlife[p.obj] = o.life, o.life \in {"live", "deleting"}
            PROVE  CacheLags' /\ ObjectsTracked'
            <3>1. <<rlife[p.obj], o.life>> \in Lags
                  BY <2>1 DEF Lags
            <3>2. Single(o.id) /\ p.obj \in Routes
                  BY <2>1, ThePass, PassFields DEF TypeOK
            <3> QED BY <2>1, <3>1, <3>2, WriteLags
      <2> QED BY <1>1, <1>4, <2>1, SaveWrites
<1>5. ASSUME NEW p \in rpass, FinDropRoute(p) PROVE CacheLags' /\ ObjectsTracked'
      <2>1. ASSUME NEW o \in Object, Write(p.obj, o), o.id = stored[p.obj].id,
                   o.life = "gone", rlife[p.obj] = "deleting",
                   seen[p.obj].id = o.id
            PROVE  CacheLags' /\ ObjectsTracked'
            <3>1. <<rlife[p.obj], o.life>> \in Lags
                  BY <2>1 DEF Lags
            <3>2. Single(o.id) /\ p.obj \in Routes
                  BY <2>1, ObjectKnown, PassFields DEF TypeOK
            <3> QED BY <2>1, <3>1, <3>2, WriteLags
      <2> QED BY <1>1, <1>5, <2>1, DropWrites
<1>6. ASSUME NEW r \in Routes, ApplyRoute(r) \/ EditRoute(r) \/ DeleteRoute(r)
      PROVE  CacheLags' /\ ObjectsTracked'
      <2>1. PICK o \in Object :
                /\ Write(r, o) /\ o.id = stored[r].id
                /\ \/ o.life = stored[r].life
                   \/ <<stored[r].life, o.life>> \in
                         {<<"absent", "new">>, <<"new", "gone">>, <<"live", "deleting">>}
            BY <1>6, UserWrites
      <2>2. <<rlife[r], o.life>> \in Lags
            BY <2>1, ObjectKnown DEF Lags
      <2>3. rlife[r] = "absent" \/ o.life \in {"absent", "new"}
              => o.id = {} /\ seen[r].id = {}
            BY <2>1, ObjectKnown
      <2>4. o.life = "gone" => seen[r].id = o.id
            BY <2>1, ObjectKnown
      <2> QED BY <2>1, <2>2, <2>3, <2>4, ObjectKnown, WriteLags
<1>7. ASSUME NEW r \in Routes, Deliver(r) PROVE CacheLags' /\ ObjectsTracked'
      <2>1. /\ rlife'[r] = stored[r].life /\ seen'[r].id = stored[r].id /\ UNCHANGED stored
            /\ \A t \in Routes \ {r} : /\ rlife'[t] = rlife[t] /\ seen'[t] = seen[t]
                                       /\ fresh'[t] = fresh[t]
            BY <1>7 DEF Deliver, TypeOK, LifeTypeOK, Object
      <2>2. <<stored[r].life, stored[r].life>> \in Lags
            BY <1>2 DEF Object, Lives, Lags
      <2> SUFFICES ASSUME NEW t \in Routes
                   PROVE  /\ fresh'[t] => rlife'[t] = stored'[t].life /\ seen'[t].id = stored'[t].id
                          /\ <<rlife'[t], stored'[t].life>> \in Lags
                          /\ rlife'[t] = "absent" \/ stored'[t].life \in {"absent", "new"}
                                => stored'[t].id = {} /\ seen'[t].id = {}
                          /\ stored'[t].life = "gone" => seen'[t].id = stored'[t].id
                          /\ Single(stored'[t].id) /\ Single(seen'[t].id)
          BY DEF CacheLags, ObjectsTracked
      <2>3. CASE t = r
            BY <2>1, <2>2, <2>3, ObjectKnown
      <2>4. CASE t # r
            BY <2>1, <2>4, ObjectKnown
      <2> QED BY <2>3, <2>4
<1>8. CASE \/ UNCHANGED vars \/ TunnelMoves \/ AbortRoute \/ MeddleRoute
           \/ \E r \in Routes : RFinalize(r)
      BY <1>1, <1>8 DEF vars, TunnelMoves, routeVars, AbortRoute, MeddleRoute, RFinalize,
         TunnelLives, TunnelGetsFinalizer, TunnelGetsId, TunnelDeleted, TunnelCloses,
         TunnelWaits, TunnelGoes
<1>9. ASSUME NEW p \in rpass, Goes(p) PROVE CacheLags' /\ ObjectsTracked'
      BY <1>1, <1>9, GoesType
<1> QED BY <1>3, <1>4, <1>5, <1>6, <1>7, <1>8, <1>9
        DEF Next, RouteBegins, RouteStep, RouteWorld, Goes

-----------------------------------------------------------------------------
(* Passes and the routes they are about to write.                          *)

\* What a pass does to the routes at each step.
LEMMA MarksMade ==
    ASSUME TypeOK, NEW p \in rpass, Goes(p)
    PROVE  /\ p.at \notin {"edit", "create", "finDelete"} => UNCHANGED rroutes
           /\ p.at = "finDelete" => rroutes' = {q \in rroutes : q.id \notin p.id}
           /\ \A q \in rroutes' : q \in rroutes
                 \/ (q.own = p.obj /\ p.at \in {"edit", "create"})
<1>1. p \in RoutePass /\ rroutes \subseteq RemoteRoute
      BY DEF TypeOK
<1>2. CASE EditRemote(p)
      BY <1>1, <1>2, EditEffect, EditedType DEF EditRemote
<1>3. CASE CreateRemote(p)
      <2>1. PICK i \in RouteIds : Create(p, i)
            BY <1>3 DEF CreateRemote
      <2>2. \A k \in RouteIds : Made(p, k).own = p.obj
            BY <1>1, MadeType
      <2>3. \A q \in rroutes' : q \in rroutes \/ \E k \in RouteIds : q = Made(p, k)
            BY <2>1 DEF Create, FreeRouteIds
      <2> QED BY <1>3, <2>2, <2>3 DEF CreateRemote
<1>4. CASE FinDeleteRoute(p)
      BY <1>4 DEF FinDeleteRoute, Delete
<1>5. CASE \/ ReferencedTunnel(p) \/ GetRoute(p) \/ PreflightRouteTarget(p)
           \/ ListRoutes(p) \/ FinTunnel(p) \/ FinGetRoute(p) \/ RouteCallFails(p)
      BY <1>5 DEF ReferencedTunnel, GetRoute, PreflightRouteTarget, ListRoutes,
         FinTunnel, FinGetRoute, RouteCallFails, account
<1> QED BY <1>2, <1>3, <1>4, <1>5 DEF Goes

\* The object of a pass after one of its steps.
LEMMA ObjectStaysKnown ==
    ASSUME TypeOK, Beliefs, NEW p \in rpass, NEW q \in RoutePass,
           Follows(q, p), Onward(p, q), UNCHANGED <<stored, cache>>
    PROVE  KnowsObject(q)'
<1>1. KnowsObject(p) /\ p.obj \in Routes
      BY ThePass, PassFields DEF TypeOK
<1>2. stored[p.obj].life = "gone" /\ p.id = stored[p.obj].id =>
          \A x \in RoutesWith(p.id) : x.own # p.obj
      BY <1>1 DEF Beliefs, GoneAreClean
<1>3. UNCHANGED <<stored, rlife, fresh>> /\ q.obj = p.obj /\ q.id = p.id
      /\ q.current = p.current
      BY DEF cache, Follows
<1>4. /\ q.at \in Working => p.at \in Working
      /\ q.at \in Finalizing => p.at \in Finalizing
      /\ stored[p.obj].life = "gone" =>
            q.at \in {"finTunnel", "finGet", "finDrop", "save"}
      BY <1>1, <1>2 DEF Onward, Working, Finalizing, KnowsObject
<1> QED BY <1>1, <1>3, <1>4 DEF KnowsObject

\* The routes of a pass after one of its steps.
LEMMA RoutesStayKnown ==
    ASSUME TypeOK, Beliefs, NEW p \in rpass, NEW q \in RoutePass, Goes(p),
           Follows(q, p), Onward(p, q)
    PROVE  KnowsRoutes(q)'
<1>1. /\ p \in RoutePass /\ Single(p.id) /\ KnowsRoutes(p) /\ p.obj \in Routes
      /\ IdsUnique /\ p.obj # Foreign
      BY ThePass, PassFields, RouteAssumption DEF TypeOK, Beliefs
<1>2. ASSUME NEW ids, Single(ids), \E x \in RoutesWith(ids) : x.own = p.obj
      PROVE  \A x \in RoutesWith(ids) : x.by = p.obj
      BY <1>1, <1>2 DEF RoutesWith, Single, IdsUnique
<1>3. q.obj = p.obj /\ q.id = p.id /\ q.spec = p.spec
      BY DEF Follows
<1>4. CASE q.at = "finDrop" /\ p.at = "finDelete"
      <2>1. RoutesWith(q.id)' = {}
            BY <1>3, <1>4, MarksMade DEF RoutesWith
      <2> QED BY <1>4, <2>1 DEF KnowsRoutes
<1>5. ASSUME UNCHANGED rroutes, ~(q.at = "finDrop" /\ p.at = "finDelete")
      PROVE  KnowsRoutes(q)'
      <2>1. /\ \A ids : RoutesWith(ids)' = RoutesWith(ids)
            /\ Listed(p.spec)' = Listed(p.spec)
            BY <1>5 DEF RoutesWith, Listed
      <2>2. CASE q.at \in {"preflight", "finDelete"}
            BY <1>1, <1>2, <1>3, <2>1, <2>2 DEF Onward, KnowsRoutes
      <2>3. CASE q.at = "finDrop"
            BY <1>3, <1>5, <2>1, <2>3 DEF Onward, KnowsRoutes
      <2>4. CASE q.at = "create"
            BY <1>3, <2>1, <2>4 DEF Onward, KnowsRoutes
      <2>5. CASE q.at = "edit" /\ p.at = "list"
            <3>1. PICK x \in Listed(p.spec) : x.own = p.obj /\ q.hit = {x.id}
                  BY <2>5 DEF Onward
            <3>2. x \in rroutes /\ x.by = p.obj
                  BY <1>1, <3>1 DEF Listed, IdsUnique
            <3>3. \A y \in RoutesWith(q.hit) : y = x
                  BY <1>1, <3>1, <3>2 DEF RoutesWith, IdsUnique
            <3> QED BY <1>3, <2>1, <2>5, <3>1, <3>2, <3>3 DEF KnowsRoutes
      <2>6. CASE q.at = "edit" /\ p.at = "preflight"
            <3>1. q.hit = p.id /\ \A o \in Listed(p.spec) : o.id \in p.id
                  BY <2>6 DEF Onward
            <3>2. \A y \in RoutesWith(p.id) : y.by = p.obj
                  BY <1>1, <2>6 DEF KnowsRoutes
            <3> QED BY <1>3, <2>1, <2>6, <3>1, <3>2 DEF KnowsRoutes
      <2> QED BY <2>2, <2>3, <2>4, <2>5, <2>6 DEF Onward, KnowsRoutes
<1>6. CASE q.at = "save"
      BY <1>6 DEF KnowsRoutes
<1>7. q.at # "save" => p.at \notin {"edit", "create"}
      BY DEF Onward
<1>8. p.at = "finDelete" => q.at \in {"save", "finDrop"}
      BY DEF Onward
<1> QED BY <1>4, <1>5, <1>6, <1>7, <1>8, MarksMade

\* Passes after a step that leaves the routes alone and at most outdates them.
LEMMA PassesStay ==
    ASSUME TypeOK, Beliefs, UNCHANGED rroutes,
           \A q \in rpass' : \E p \in rpass :
              /\ q.at = p.at /\ q.obj = p.obj /\ q.spec = p.spec /\ q.id = p.id
              /\ q.hit = p.hit
    PROVE  \A q \in rpass' : KnowsRoutes(q)' /\ Single(q.id) /\ Single(q.hit)
<1>1. /\ \A ids : RoutesWith(ids)' = RoutesWith(ids)
      /\ \A sp : Listed(sp)' = Listed(sp)
      BY DEF RoutesWith, Listed
<1>2. TAKE q \in rpass'
<1>3. PICK p \in rpass :
          /\ q.at = p.at /\ q.obj = p.obj /\ q.spec = p.spec /\ q.id = p.id
          /\ q.hit = p.hit
      OBVIOUS
<1>4. KnowsRoutes(p) /\ Single(p.id) /\ Single(p.hit)
      BY ThePass
<1> QED BY <1>1, <1>3, <1>4 DEF KnowsRoutes

\* What is believed of every pass.
Known(p) == KnowsObject(p) /\ KnowsRoutes(p) /\ Single(p.id) /\ Single(p.hit)

\* A pass that begins.
LEMMA BeginKnown ==
    ASSUME TypeOK, Beliefs, NEW r \in Routes, RBegin(r)
    PROVE  OnePass' /\ \A p \in rpass' : Known(p)'
<1>1. NewPass(r, "tunnel") \in RoutePass
      BY NewPassType, StepsType
<1>2. PICK n \in RoutePass :
          /\ rpass' = {n} /\ n.at = "tunnel" /\ n.obj = r /\ n.id = seen[r].id
          /\ n.hit = {} /\ ~n.current
      BY <1>1, NewPassType, StepsType DEF RBegin
<1>3. /\ stored'[r].life \in {"live", "deleting"} /\ rlife'[r] # "absent"
      <2>1. CASE rlife[r] = "live" /\ UNCHANGED <<stored, cache>>
            BY <2>1, ObjectKnown DEF Lags, cache
      <2>2. ASSUME NEW o \in Object, Write(r, o), o.life = "live", rlife[r] = "new"
            PROVE  /\ stored'[r].life \in {"live", "deleting"} /\ rlife'[r] # "absent"
            BY <2>2, WriteType
      <2> QED BY <2>1, <2>2, BeginWrites
<1>4. Single(seen[r].id)
      BY ObjectKnown
<1>5. ASSUME NEW p \in rpass' PROVE Known(p)'
      <2>1. p = n
            BY <1>2
      <2>2. KnowsObject(p)'
            BY <1>2, <1>3, <2>1 DEF KnowsObject, Finalizing
      <2>3. KnowsRoutes(p)'
            BY <1>2, <2>1 DEF KnowsRoutes
      <2> QED BY <1>2, <1>4, <2>1, <2>2, <2>3 DEF Known, Single
<1>6. OnePass'
      BY <1>2 DEF OnePass, Single
<1> QED BY <1>5, <1>6

LEMMA FinalizeKnown ==
    ASSUME TypeOK, Beliefs, NEW r \in Routes, RFinalize(r)
    PROVE  OnePass' /\ \A p \in rpass' : Known(p)'
<1>1. PICK q \in RoutePass :
          /\ rpass' = {q} /\ q.obj = r /\ q.id = seen[r].id /\ q.hit = {}
          /\ q.at = (IF seen[r].id = {} THEN "finDrop" ELSE "finTunnel")
          /\ q.current = fresh[r]
      BY FinPassType
<1>2. /\ rlife[r] = "deleting" /\ UNCHANGED <<rlife, stored, fresh, rroutes>>
      BY DEF RFinalize, cache, account
<1>3. stored[r].life \in {"deleting", "gone"}
      BY <1>2, ObjectKnown DEF Lags
<1>4. ASSUME NEW p \in rpass' PROVE Known(p)'
      <2>1. p = q
            BY <1>1
      <2>2. KnowsObject(p)'
            BY <1>1, <1>2, <1>3, <2>1, ObjectKnown DEF KnowsObject, Working
      <2>3. KnowsRoutes(p)'
            BY <1>1, <2>1 DEF KnowsRoutes, RoutesWith
      <2>4. Single(seen[r].id)
            BY ObjectKnown
      <2> QED BY <1>1, <2>1, <2>2, <2>3, <2>4 DEF Known, Single
<1>5. OnePass'
      BY <1>1 DEF OnePass, Single
<1> QED BY <1>4, <1>5

\* Passes while users write an object.
LEMMA UserKnown ==
    ASSUME TypeOK, Beliefs, NEW r \in Routes,
           ApplyRoute(r) \/ EditRoute(r) \/ DeleteRoute(r)
    PROVE  OnePass' /\ \A p \in rpass' : Known(p)'
<1>1. PICK o \in Object :
          /\ Write(r, o) /\ o.id = stored[r].id
          /\ \/ o.life = stored[r].life /\ stored[r].life # "absent"
             \/ <<stored[r].life, o.life>> \in
                   {<<"absent", "new">>, <<"new", "gone">>, <<"live", "deleting">>}
      BY UserWrites
<1>2. /\ stored'[r] = o /\ ~fresh'[r] /\ UNCHANGED <<rlife, seen>>
      /\ \A t \in Routes \ {r} : stored'[t] = stored[t] /\ fresh'[t] = fresh[t]
      BY <1>1, WriteType
<1>3. \A q \in rpass' : \E p \in rpass :
          /\ q.at = p.at /\ q.obj = p.obj /\ q.spec = p.spec /\ q.id = p.id
          /\ q.hit = p.hit /\ (q.current => p.current /\ p.obj # r)
      <2>1. CASE Outdated(r)
            <3>1. rpass \subseteq RoutePass
                  BY DEF TypeOK
            <3> QED BY <2>1, <3>1, OutdatedType
      <2>2. CASE ApplyRoute(r)
            <3>1. stored[r].life = "absent" /\ UNCHANGED rpass
                  BY <2>2 DEF ApplyRoute
            <3>2. \A p \in rpass : p.obj # r
                  BY <3>1, ThePass DEF KnowsObject
            <3> QED BY <3>1, <3>2
      <2> QED BY <2>1, <2>2 DEF EditRoute, DeleteRoute
<1>4. UNCHANGED rroutes
      BY DEF ApplyRoute, EditRoute, DeleteRoute, account
<1>5. OnePass'
      <2>1. CASE Outdated(r)
            BY <2>1 DEF Outdated, Beliefs, OnePass, Single
      <2> QED BY <2>1 DEF ApplyRoute, EditRoute, DeleteRoute, Beliefs, OnePass
<1>6. ASSUME NEW q \in rpass' PROVE KnowsObject(q)'
      <2>1. PICK p \in rpass :
                /\ q.at = p.at /\ q.obj = p.obj /\ q.id = p.id
                /\ (q.current => p.current /\ p.obj # r)
            BY <1>3
      <2>2. KnowsObject(p) /\ p.obj \in Routes
            BY ThePass, PassFields DEF TypeOK
      <2>3. CASE p.obj = r
            BY <1>1, <1>2, <2>1, <2>2, <2>3 DEF KnowsObject
      <2>4. CASE p.obj # r
            BY <1>2, <2>1, <2>2, <2>4 DEF KnowsObject
      <2> QED BY <2>3, <2>4
<1>7. \A q \in rpass' : KnowsRoutes(q)' /\ Single(q.id) /\ Single(q.hit)
      BY <1>3, <1>4, PassesStay
<1> QED BY <1>5, <1>6, <1>7 DEF Known

\* Passes while somebody meddles with a route.
LEMMA MeddleKnown ==
    ASSUME TypeOK, Beliefs, MeddleRoute
    PROVE  OnePass' /\ \A p \in rpass' : Known(p)'
<1>1. \A q \in rroutes' : \E o \in rroutes :
          /\ q.id = o.id /\ q.by = o.by /\ q.net = o.net /\ q.vnet = o.vnet
          /\ q.own \in {o.own, Foreign}
      BY MeddleEffect DEF TypeOK
<1>2. UNCHANGED <<rpass, stored, rlife, fresh>>
      BY DEF MeddleRoute, cache
<1>3. ASSUME NEW p \in rpass PROVE KnowsRoutes(p)'
      <2>1. KnowsRoutes(p) /\ p.obj # Foreign
            BY ThePass, PassFields, RouteAssumption DEF TypeOK
      <2>2. \A ids, q : q \in RoutesWith(ids)' =>
                \E o \in RoutesWith(ids) :
                    /\ q.by = o.by /\ q.own \in {o.own, Foreign} /\ q.id = o.id
                    /\ o \in Listed(p.spec) => q \in Listed(p.spec)'
            BY <1>1 DEF RoutesWith, Listed
      <2>3. \A q \in Listed(p.spec)' : \E o \in Listed(p.spec) : q.id = o.id
            BY <1>1 DEF Listed
      <2>4. CASE p.at = "finDrop"
            BY <2>1, <2>2, <2>4 DEF KnowsRoutes
      <2>5. CASE p.at \in {"preflight", "finDelete"}
            BY <2>1, <2>2, <2>5 DEF KnowsRoutes
      <2>6. CASE p.at = "edit"
            BY <2>1, <2>2, <2>3, <2>6 DEF KnowsRoutes
      <2>7. CASE p.at = "create"
            BY <2>1, <2>3, <2>7 DEF KnowsRoutes
      <2> QED BY <2>4, <2>5, <2>6, <2>7 DEF KnowsRoutes
<1>4. ASSUME NEW p \in rpass PROVE KnowsObject(p)'
      BY <1>2, ThePass DEF KnowsObject
<1>5. OnePass'
      BY <1>2 DEF Beliefs, OnePass
<1> QED BY <1>2, <1>3, <1>4, <1>5, ThePass DEF Known

\* Passes while a copy is delivered.
LEMMA DeliverKnown ==
    ASSUME TypeOK, Beliefs, NEW r \in Routes, Deliver(r)
    PROVE  OnePass' /\ \A p \in rpass' : Known(p)'
<1>1. /\ UNCHANGED <<stored, rpass, rroutes>>
      /\ rlife'[r] = stored[r].life /\ fresh'[r]
      /\ \A t \in Routes \ {r} : rlife'[t] = rlife[t] /\ fresh'[t] = fresh[t]
      BY DEF Deliver, TypeOK, LifeTypeOK, account
<1>2. OnePass'
      BY <1>1 DEF Beliefs, OnePass
<1>3. \A p \in rpass' : KnowsRoutes(p)' /\ Single(p.id) /\ Single(p.hit)
      BY <1>1, PassesStay
<1>4. ASSUME NEW p \in rpass PROVE KnowsObject(p)'
      <2>1. KnowsObject(p) /\ p.obj \in Routes
            BY ThePass, PassFields DEF TypeOK
      <2>2. CASE p.obj = r
            BY <1>1, <2>1, <2>2 DEF KnowsObject
      <2>3. CASE p.obj # r
            BY <1>1, <2>1, <2>3 DEF KnowsObject
      <2> QED BY <2>2, <2>3
<1> QED BY <1>1, <1>2, <1>3, <1>4 DEF Known

\* Every step leaves one pass of which the same is known.
LEMMA PassStep ==
    ASSUME TypeOK, Beliefs, [Next]_vars
    PROVE  OnePass' /\ \A p \in rpass' : Known(p)'
<1>1. ASSUME rpass' = {} PROVE OnePass' /\ \A p \in rpass' : Known(p)'
      BY <1>1 DEF OnePass, Single
<1>2. ASSUME NEW p \in rpass, Goes(p) PROVE OnePass' /\ \A q \in rpass' : Known(q)'
      <2>1. PICK q \in RoutePass : rpass' = {q} /\ Follows(q, p) /\ Onward(p, q)
            BY <1>2, StepGoesOn DEF GoesOn
      <2>2. UNCHANGED <<stored, cache>>
            BY <1>2, GoesType
      <2>3. KnowsObject(q)' /\ KnowsRoutes(q)'
            BY <1>2, <2>1, <2>2, ObjectStaysKnown, RoutesStayKnown
      <2>4. Single(q.id) /\ Single(q.hit)
            BY <2>1, ThePass DEF Follows, Onward, Single
      <2>5. OnePass'
            BY <2>1 DEF OnePass, Single
      <2>6. Known(q)'
            BY <2>3, <2>4 DEF Known
      <2> QED BY <2>1, <2>5, <2>6
<1>3. CASE \/ AbortRoute
           \/ \E p \in rpass : SetRouteStatus(p) \/ FinDropRoute(p)
      BY <1>1, <1>3 DEF AbortRoute, SetRouteStatus, FinDropRoute
<1>4. CASE UNCHANGED vars \/ TunnelMoves
      <2>1. UNCHANGED <<rpass, stored, rlife, fresh, rroutes>>
            BY <1>4 DEF vars, TunnelMoves, routeVars, account, TunnelLives,
               TunnelGetsFinalizer, TunnelGetsId, TunnelDeleted, TunnelCloses,
               TunnelWaits, TunnelGoes
      <2>2. OnePass'
            BY <2>1 DEF Beliefs, OnePass
      <2>3. \A p \in rpass' : KnowsRoutes(p)' /\ Single(p.id) /\ Single(p.hit)
            BY <2>1, PassesStay
      <2>4. \A p \in rpass : KnowsObject(p)'
            BY <2>1, ThePass DEF KnowsObject
      <2> QED BY <2>1, <2>2, <2>3, <2>4 DEF Known
<1> QED BY <1>2, <1>3, <1>4, BeginKnown, FinalizeKnown, UserKnown, MeddleKnown,
           DeliverKnown
        DEF Next, RouteBegins, RouteStep, RouteWorld, Goes

\* Every step leaves the tracked routes of the objects that are gone unmarked.
LEMMA GoneStep ==
    ASSUME TypeOK, Beliefs, [Next]_vars
    PROVE  GoneAreClean'
<1> SUFFICES ASSUME NEW r \in Routes, stored'[r].life = "gone",
                    NEW q \in rroutes', q.id \in stored'[r].id
             PROVE  q.own # r
    BY DEF GoneAreClean, RoutesWith
<1>1. \A o \in rroutes : stored[r].life = "gone" /\ o.id \in stored[r].id => o.own # r
      BY DEF Beliefs, GoneAreClean, RoutesWith
<1>2. ASSUME UNCHANGED <<stored, rroutes>> PROVE q.own # r
      BY <1>1, <1>2
<1>3. ASSUME UNCHANGED rroutes, NEW t \in Routes, NEW o \in Object, Write(t, o),
             t = r => (o.life = "gone" => \A x \in rroutes : x.id \in o.id => x.own # r)
      PROVE  q.own # r
      <2>1. /\ stored'[t] = o
            /\ \A u \in Routes \ {t} : stored'[u] = stored[u]
            BY <1>3, WriteType
      <2> QED BY <1>1, <1>3, <2>1
<1>4. ASSUME NEW p \in rpass, Goes(p) PROVE q.own # r
      <2>1. UNCHANGED stored /\ p.obj \in Routes
            BY <1>4, GoesType, PassFields DEF TypeOK
      <2>2. p.at \in {"edit", "create"} => stored[p.obj].life # "gone"
            BY ThePass DEF KnowsObject, Working
      <2> QED BY <1>1, <1>4, <2>1, <2>2, MarksMade
<1>5. CASE MeddleRoute
      <2>1. PICK o \in rroutes : q.id = o.id /\ q.own \in {o.own, Foreign}
            BY <1>5, MeddleEffect DEF TypeOK
      <2>2. UNCHANGED stored
            BY <1>5 DEF MeddleRoute
      <2> QED BY <1>1, <2>1, <2>2, RouteAssumption
<1>6. ASSUME NEW t \in Routes, RBegin(t) PROVE q.own # r
      <2>1. UNCHANGED rroutes
            BY <1>6 DEF RBegin, account
      <2> QED BY <1>2, <1>3, <1>6, <2>1, BeginWrites
<1>7. ASSUME NEW p \in rpass, SetRouteStatus(p) PROVE q.own # r
      <2>1. UNCHANGED rroutes /\ p.obj \in Routes
            BY <1>7, PassFields DEF SetRouteStatus, account, TypeOK
      <2> QED BY <1>2, <1>3, <1>7, <2>1, SaveWrites
<1>8. ASSUME NEW p \in rpass, FinDropRoute(p) PROVE q.own # r
      <2>1. UNCHANGED rroutes /\ p.obj \in Routes
            BY <1>8, PassFields DEF FinDropRoute, account, TypeOK
      <2>2. \A x \in rroutes : x.id \in p.id => x.own # p.obj
            BY <1>8, ThePass DEF FinDropRoute, KnowsRoutes, RoutesWith
      <2> QED BY <1>2, <1>3, <1>8, <2>1, <2>2, DropWrites
<1>9. ASSUME NEW t \in Routes, ApplyRoute(t) \/ EditRoute(t) \/ DeleteRoute(t)
      PROVE  q.own # r
      <2>1. UNCHANGED rroutes
            BY <1>9 DEF ApplyRoute, EditRoute, DeleteRoute, account
      <2>2. PICK o \in Object :
                /\ Write(t, o) /\ o.id = stored[t].id
                /\ o.life = "gone" => stored[t].life \in {"gone", "new"}
            BY <1>9, UserWrites
      <2>3. stored[t].life = "new" => o.id = {}
            BY <2>2, ObjectKnown
      <2>4. t = r => (o.life = "gone" => \A x \in rroutes : x.id \in o.id => x.own # r)
            BY <1>1, <2>2, <2>3
      <2> QED BY <1>3, <2>1, <2>2, <2>4
<1>10. CASE \/ UNCHANGED vars \/ TunnelMoves \/ AbortRoute
            \/ \E t \in Routes : RFinalize(t) \/ Deliver(t)
      BY <1>2, <1>10 DEF vars, TunnelMoves, routeVars, AbortRoute, RFinalize, Deliver,
         account
<1> QED BY <1>4, <1>5, <1>6, <1>7, <1>8, <1>9, <1>10
        DEF Next, RouteBegins, RouteStep, RouteWorld, Goes

-----------------------------------------------------------------------------
(* The tunnel's finalizer and the routes that come late.                   *)

LEMMA ClosedStep ==
    ASSUME TypeOK, Beliefs, ClosedForAll, [Next]_vars
    PROVE  ClosedForAll'
<1> USE DEF tunnel
<1>0. \A r \in Routes : stored[r] \in Object
      BY DEF TypeOK
<1>1. ASSUME UNCHANGED tunnel,
             Closed => \A r \in Routes :
                stored[r].life = "gone" \/ Late(r) => stored'[r].life = "gone" \/ Late(r)'
      PROVE  ClosedForAll'
      BY <1>1 DEF ClosedForAll, Closed
<1>2. ASSUME UNCHANGED <<stored, seen, rpass>>, UNCHANGED tunnel PROVE ClosedForAll'
      BY <1>1, <1>2 DEF Late
<1>3. CASE UNCHANGED vars \/ MeddleRoute
      BY <1>2, <1>3 DEF vars, MeddleRoute, cache
<1>4. CASE TunnelMoves
      <2>1. UNCHANGED <<stored, seen, rpass>>
            BY <1>4 DEF TunnelMoves, routeVars
      <2>2. \A r \in Routes : Late(r) => Late(r)'
            BY <2>1 DEF Late
      <2>3. CASE TunnelCloses
            <3>1. \A r \in Routes : rlife[r] \notin {"new", "live", "deleting"}
                  BY <2>3 DEF TunnelCloses, Listing
            <3>2. ASSUME NEW r \in Routes, stored[r].life # "gone" PROVE Late(r)
                  <4>1. rlife[r] = "absent"
                        BY <3>1, <3>2, ObjectKnown DEF Lags
                  <4>2. stored[r].id = {} /\ seen[r].id = {}
                        BY <4>1, ObjectKnown
                  <4>3. \A p \in rpass : p.obj # r
                        BY <4>1, ThePass DEF KnowsObject
                  <4> QED BY <4>2, <4>3 DEF Late
            <3> QED BY <2>1, <2>2, <2>3, <3>2 DEF TunnelCloses, ClosedForAll, Closed
      <2>4. CASE TunnelWaits \/ TunnelGoes
            BY <2>1, <2>2, <2>4 DEF TunnelWaits, TunnelGoes, ClosedForAll, Closed
      <2>5. CASE TunnelGetsFinalizer \/ TunnelGetsId \/ TunnelDeleted
            BY <2>1, <2>2, <2>5 DEF TunnelGetsFinalizer, TunnelGetsId, TunnelDeleted,
               ClosedForAll, Closed
      <2> QED BY <1>4, <2>3, <2>4, <2>5 DEF TunnelMoves, TunnelLives
<1>5. ASSUME UNCHANGED tunnel, UNCHANGED <<stored, seen>>,
             NEW p \in rpass, NEW q, rpass' = {q}, q.obj = p.obj,
             Closed =>
                (p.id = {} /\ p.hit = {} /\ p.at \in {"tunnel", "save", "finDrop"}
                 => q.id = {} /\ q.hit = {} /\ q.at \in {"tunnel", "save", "finDrop"})
      PROVE  ClosedForAll'
      BY <1>1, <1>5 DEF Late
<1>6. ASSUME NEW p \in rpass, Goes(p) PROVE ClosedForAll'
      <2>1. PICK q \in RoutePass : rpass' = {q} /\ Follows(q, p) /\ Onward(p, q)
            BY <1>6, StepGoesOn DEF GoesOn
      <2>2. UNCHANGED <<stored, seen>> /\ UNCHANGED tunnel
            BY <1>6, GoesType DEF cache
      <2>3. Closed => tobj \in {"deleting", "gone"} \/ tid = {}
            BY DEF ClosedForAll, Closed
      <2>4. Closed =>
                (p.id = {} /\ p.hit = {} /\ p.at \in {"tunnel", "save", "finDrop"}
                 => q.id = {} /\ q.hit = {} /\ q.at \in {"tunnel", "save", "finDrop"})
            BY <2>1, <2>3 DEF Follows, Onward
      <2> QED BY <1>5, <2>1, <2>2, <2>4 DEF Follows
<1>7. ASSUME NEW r \in Routes, RBegin(r) PROVE ClosedForAll'
      <2>1. /\ NewPass(r, "tunnel").at = "tunnel" /\ NewPass(r, "tunnel").obj = r
            /\ NewPass(r, "tunnel").id = seen[r].id /\ NewPass(r, "tunnel").hit = {}
            BY NewPassType, StepsType
      <2>2. rpass' = {NewPass(r, "tunnel")} /\ UNCHANGED tunnel /\ UNCHANGED seen
            BY <1>7 DEF RBegin, Write, cache
      <2>3. /\ stored'[r].id = stored[r].id
            /\ \A t \in Routes \ {r} : stored'[t] = stored[t]
            /\ stored[r].life # "gone" \/ stored'[r].life = "gone"
            <3>1. CASE UNCHANGED stored
                  BY <3>1
            <3>2. ASSUME NEW o \in Object, Write(r, o), o.id = stored[r].id,
                         rlife[r] = "new", fresh[r]
                  PROVE  /\ stored'[r].id = stored[r].id
                         /\ \A t \in Routes \ {r} : stored'[t] = stored[t]
                         /\ stored[r].life # "gone" \/ stored'[r].life = "gone"
                  BY <3>2, WriteType, ObjectKnown
            <3> QED BY <1>7, <3>1, <3>2, BeginWrites
      <2> DEFINE n == NewPass(r, "tunnel")
      <2>4. ASSUME NEW t \in Routes, stored[t].life = "gone" \/ Late(t)
            PROVE  stored'[t].life = "gone" \/ Late(t)'
            <3> HIDE DEF n
            <3>1. rpass' = {n} /\ n.at = "tunnel" /\ n.obj = r /\ n.id = seen[r].id /\ n.hit = {}
                  BY <2>1, <2>2 DEF n
            <3>2. CASE t = r
                  BY <2>2, <2>3, <2>4, <3>1, <3>2 DEF Late
            <3>3. CASE t # r
                  BY <2>2, <2>3, <2>4, <3>1, <3>3 DEF Late
            <3> QED BY <3>2, <3>3
      <2> QED BY <1>1, <2>2, <2>4
<1>8. ASSUME NEW r \in Routes, RFinalize(r) PROVE ClosedForAll'
      <2>1. PICK q \in RoutePass :
                /\ rpass' = {q} /\ q.obj = r /\ q.id = seen[r].id /\ q.hit = {}
                /\ q.at = (IF seen[r].id = {} THEN "finDrop" ELSE "finTunnel")
            BY <1>8, FinPassType
      <2>2. UNCHANGED <<stored, seen>> /\ UNCHANGED tunnel
            BY <1>8 DEF RFinalize, cache
      <2> QED BY <1>1, <2>1, <2>2 DEF Late
<1>9. ASSUME NEW r \in Routes, NEW o \in Object, Write(r, o), UNCHANGED tunnel,
             rpass' = {} \/ \A q \in rpass' : \E p \in rpass :
                q.at = p.at /\ q.obj = p.obj /\ q.id = p.id /\ q.hit = p.hit,
             stored[r].life = "gone" => o.life = "gone",
             Closed => (Late(r) => o.id = {} \/ o.life = "gone")
      PROVE  ClosedForAll'
      <2>1. /\ stored'[r] = o /\ UNCHANGED seen
            /\ \A t \in Routes \ {r} : stored'[t] = stored[t]
            BY <1>9, WriteType
      <2>2. \A t \in Routes : Late(t) =>
                (\A p \in rpass' : p.obj = t =>
                    p.id = {} /\ p.hit = {} /\ p.at \in {"tunnel", "save", "finDrop"})
            BY <1>9 DEF Late
      <2>3. ASSUME NEW t \in Routes, Closed,
                   stored[t].life = "gone" \/ Late(t)
            PROVE  stored'[t].life = "gone" \/ Late(t)'
            <3>1. CASE t = r
                  BY <1>9, <2>1, <2>2, <2>3, <3>1 DEF Late
            <3>2. CASE t # r
                  BY <2>1, <2>2, <2>3, <3>2 DEF Late
            <3> QED BY <3>1, <3>2
      <2> QED BY <1>1, <1>9, <2>3
<1>10. ASSUME NEW p \in rpass, SetRouteStatus(p) \/ FinDropRoute(p) PROVE ClosedForAll'
      <2>1. rpass' = {} /\ UNCHANGED tunnel /\ p.obj \in Routes
            BY <1>10, PassFields DEF SetRouteStatus, FinDropRoute, TypeOK
      <2>2. CASE UNCHANGED <<stored, cache>>
            BY <1>1, <2>1, <2>2 DEF Late, cache
      <2>3. Late(p.obj) => p.hit = {} /\ stored[p.obj].id = {}
            BY DEF Late
      <2>4. CASE \E o \in Object :
                    /\ Write(p.obj, o) /\ o.id = p.hit /\ o.life = stored[p.obj].life
            BY <1>9, <2>1, <2>3, <2>4
      <2>5. CASE \E o \in Object :
                    Write(p.obj, o) /\ o.id = stored[p.obj].id /\ o.life = "gone"
            BY <1>9, <2>1, <2>3, <2>5
      <2> QED BY <1>10, <2>2, <2>4, <2>5, SaveWrites, DropWrites
<1>11. ASSUME NEW r \in Routes, ApplyRoute(r) \/ EditRoute(r) \/ DeleteRoute(r)
      PROVE  ClosedForAll'
      <2>1. \A q \in rpass' : \E p \in rpass :
                q.at = p.at /\ q.obj = p.obj /\ q.id = p.id /\ q.hit = p.hit
            <3>1. rpass \subseteq RoutePass
                  BY DEF TypeOK
            <3>2. CASE Outdated(r)
                  BY <3>1, <3>2, OutdatedType
            <3> QED BY <1>11, <3>2 DEF ApplyRoute, EditRoute, DeleteRoute
      <2>2. UNCHANGED tunnel
            BY <1>11 DEF ApplyRoute, EditRoute, DeleteRoute
      <2>3. PICK o \in Object :
                /\ Write(r, o) /\ o.id = stored[r].id
                /\ stored[r].life = "gone" => o.life = "gone"
            BY <1>11, UserWrites
      <2>4. Late(r) => o.id = {}
            BY <2>3 DEF Late
      <2> QED BY <1>9, <2>1, <2>2, <2>3, <2>4
<1>12. ASSUME NEW r \in Routes, Deliver(r) PROVE ClosedForAll'
      <2>1. /\ UNCHANGED <<stored, rpass>> /\ UNCHANGED tunnel
            /\ seen'[r].id = stored[r].id
            /\ \A t \in Routes \ {r} : seen'[t] = seen[t]
            BY <1>12 DEF Deliver, TypeOK, LifeTypeOK
      <2>2. ASSUME NEW t \in Routes, stored[t].life = "gone" \/ Late(t)
            PROVE  stored'[t].life = "gone" \/ Late(t)'
            BY <2>1, <2>2 DEF Late
      <2> QED BY <1>1, <2>1, <2>2
<1>13. CASE AbortRoute
      <2>1. UNCHANGED <<stored, seen>> /\ UNCHANGED tunnel /\ rpass' = {}
            BY <1>13 DEF AbortRoute, cache
      <2> QED BY <1>1, <2>1 DEF Late
<1> QED BY <1>3, <1>4, <1>6, <1>7, <1>8, <1>10, <1>11, <1>12, <1>13
        DEF Next, RouteBegins, RouteStep, RouteWorld, Goes

-----------------------------------------------------------------------------
(* The invariant holds initially and is kept.                              *)

LEMMA InitInv == Init => RouteInv
<1> SUFFICES ASSUME Init PROVE RouteInv
    OBVIOUS
<1>1. /\ rlife = [r \in Routes |-> "absent"] /\ closing = FALSE /\ tid \in TrackedIds
      /\ tobj = (IF tid = {} THEN "new" ELSE "live") /\ rpass = {} /\ repeats = 0
      BY DEF Init, LifeInit
<1>2. /\ stored \in [Routes -> Object]
      /\ \A r \in Routes : stored[r].life = "absent" /\ stored[r].id = {}
      <2>1. [life : {"absent"}, spec : Specs, id : {{}}, ready : {FALSE}] \subseteq Object
            BY DEF Object, Lives
      <2> QED BY <2>1 DEF Init
<1>3. /\ seen \in [Routes -> [spec : Specs, id : SUBSET RouteIds]]
      /\ \A r \in Routes : seen[r].id = {}
      BY <1>2 DEF Init, Object
<1>4. \/ rroutes = {} /\ usedRoutes = {}
      \/ \E x \in RemoteRoute :
            rroutes = {x} /\ usedRoutes = {x.id} /\ x.own = x.by /\ x.own = Foreign
      <2>1. ASSUME NEW t \in Strangers, NEW i \in RouteIds, NEW n \in Notes,
                   rroutes = {[id |-> i, net |-> t.net, vnet |-> t.vnet, tun |-> {},
                               own |-> Foreign, by |-> Foreign, note |-> n]},
                   usedRoutes = {i}
            PROVE  \E x \in RemoteRoute :
                      rroutes = {x} /\ usedRoutes = {x.id} /\ x.own = x.by /\ x.own = Foreign
            <3> DEFINE x == [id |-> i, net |-> t.net, vnet |-> t.vnet, tun |-> {},
                             own |-> Foreign, by |-> Foreign, note |-> n]
            <3>1. t.net \in Nets /\ t.vnet \in Vnets
                  BY DEF Nets, Vnets
            <3>2. x \in RemoteRoute /\ x.id = i /\ x.own = x.by /\ x.own = Foreign
                  BY <3>1 DEF RemoteRoute, Owners
            <3>3. rroutes = {x}
                  BY <2>1
            <3> HIDE DEF x
            <3> QED BY <2>1, <3>2, <3>3
      <2> QED BY <2>1 DEF Init
<1>5. TypeOK
      <2>1. LifeTypeOK
            BY <1>1 DEF LifeTypeOK, Lives
      <2>2. /\ rroutes \subseteq RemoteRoute /\ usedRoutes \subseteq RouteIds
            BY <1>4 DEF RemoteRoute
      <2> QED BY <1>1, <1>2, <1>3, <2>1, <2>2, RouteAssumption DEF Init, TypeOK
<1>6. IdsUnique
      BY <1>4 DEF IdsUnique
<1>7. CacheLags /\ GoneAreClean
      BY <1>1, <1>2, <1>3 DEF CacheLags, GoneAreClean, Lags
<1>8. Beliefs
      BY <1>1, <1>2, <1>3, <1>6, <1>7 DEF Beliefs, OnePass, OneTracked, Single
<1>9. PlacesBounded
      <2> SUFFICES ASSUME NEW n \in Nets, NEW v \in Vnets
                   PROVE  IsFiniteSet(In(n, v)) /\ Cardinality(In(n, v)) <= 1
          BY <1>1 DEF PlacesBounded
      <2>1. In(n, v) = {} \/ \E i : In(n, v) = {i}
            BY <1>4 DEF In
      <2>2. \A i : IsFiniteSet({i}) /\ Cardinality({i}) <= 1
            <3> TAKE i
            <3>1. IsFiniteSet({i}) /\ Cardinality({i}) = 1
                  BY FS_Singleton
            <3> QED BY <3>1
      <2>3. IsFiniteSet({}) /\ Cardinality({}) <= 1
            <3>1. IsFiniteSet({}) /\ Cardinality({}) = 0
                  BY FS_EmptySet
            <3> QED BY <3>1
      <2> QED BY <2>1, <2>2, <2>3
<1>10. ClosedForAll
      BY <1>1, <1>2, <1>3 DEF ClosedForAll, Late
<1> QED BY <1>5, <1>8, <1>9, <1>10 DEF RouteInv

LEMMA InvStep == RouteInv /\ [Next]_vars => RouteInv'
<1> SUFFICES ASSUME RouteInv, [Next]_vars PROVE RouteInv'
    OBVIOUS
<1>0. TypeOK /\ Beliefs /\ PlacesBounded /\ ClosedForAll
      BY DEF RouteInv
<1>1. TypeOK'
      BY <1>0, TypeStep
<1>2. IdsUnique' /\ PlacesBounded'
      BY <1>0, RemoteStep
<1>3. CacheLags' /\ ObjectsTracked'
      BY <1>0, CacheStep
<1>4. OnePass' /\ \A p \in rpass' : Known(p)'
      BY <1>0, PassStep
<1>5. GoneAreClean'
      BY <1>0, GoneStep
<1>6. Beliefs'
      BY <1>2, <1>3, <1>4, <1>5 DEF Beliefs, OneTracked, ObjectsTracked, Known
<1>7. ClosedForAll'
      BY <1>0, ClosedStep
<1> QED BY <1>1, <1>2, <1>6, <1>7 DEF RouteInv

\* The invariant of the composition of the route controller with its tunnel.
THEOREM RouteInvariant == Spec => []RouteInv
BY InitInv, InvStep, PTL DEF Spec

-----------------------------------------------------------------------------
(* What follows from it.                                                   *)

\* The states of the composition are of their types.
THEOREM RouteTypes == Spec => []TypeOK
BY RouteInvariant, PTL DEF RouteInv

\* An object has one route in a place, and one more for each Create that was
\* carried out twice, however passes are cut short and copies are old.
THEOREM RoutesStaySingle == Spec => []OneRouteInAPlace
<1>1. RouteInv => OneRouteInAPlace
      <2> SUFFICES ASSUME RouteInv, NEW r \in Routes, NEW n \in Nets, NEW v \in Vnets
                   PROVE  Cardinality({q \in OwnRoutes(r) : q.net = n /\ q.vnet = v})
                            <= 1 + repeats
          BY DEF OneRouteInAPlace
      <2> DEFINE own == {q \in OwnRoutes(r) : q.net = n /\ q.vnet = v}
                 f   == [q \in own |-> q.id]
      <2>1. /\ IdsUnique /\ repeats \in Nat
            /\ IsFiniteSet(In(n, v)) /\ Cardinality(In(n, v)) <= 1 + repeats
            BY DEF RouteInv, Beliefs, PlacesBounded, TypeOK
      <2>2. f \in Injection(own, In(n, v))
            BY <2>1 DEF Injection, IsInjective, IdsUnique, OwnRoutes, In
      <2>3. IsFiniteSet(own) /\ Cardinality(own) <= Cardinality(In(n, v))
            BY <2>1, <2>2, FS_Injection
      <2>4. Cardinality(own) \in Nat /\ Cardinality(In(n, v)) \in Nat
            BY <2>1, <2>3, FS_CardinalityType
      <2> HIDE DEF own
      <2>5. Cardinality(own) <= 1 + repeats
            BY <2>1, <2>3, <2>4
      <2> QED BY <2>5 DEF own
<1> QED BY <1>1, RouteInvariant, PTL

\* The tunnel never goes while an object that is not gone tracks a route.
THEOREM TunnelGoesLast == Spec => []TunnelOutlivesRoutes
<1>1. RouteInv => TunnelOutlivesRoutes
      BY DEF RouteInv, ClosedForAll, Closed, Late, TunnelOutlivesRoutes
<1> QED BY <1>1, RouteInvariant, PTL

\* No pass changes or deletes a route that was not created for its object.
THEOREM OthersRoutesKept == Spec => OthersKept
<1>1. RouteInv /\ [Next]_vars =>
        [RouteStep => \A q \in rroutes \ rroutes', p \in rpass : q.by = p.obj]_vars
      <2> SUFFICES ASSUME RouteInv, RouteStep, NEW q \in rroutes \ rroutes', NEW p \in rpass
                   PROVE  q.by = p.obj
          OBVIOUS
      <2>1. TypeOK /\ Beliefs
            BY DEF RouteInv
      <2>2. rpass = {p} /\ KnowsRoutes(p) /\ p \in RoutePass /\ rroutes \subseteq RemoteRoute
            BY <2>1, ThePass DEF TypeOK
      <2>3. CASE EditRemote(p)
            <3>1. q \in RoutesWith(p.hit)
                  BY <2>2, <2>3, EditEffect DEF EditRemote, RoutesWith
            <3> QED BY <2>2, <2>3, <3>1 DEF EditRemote, KnowsRoutes
      <2>4. CASE CreateRemote(p)
            BY <2>4 DEF CreateRemote, Create
      <2>5. CASE FinDeleteRoute(p)
            BY <2>2, <2>5 DEF FinDeleteRoute, Delete, KnowsRoutes, RoutesWith
      <2>6. CASE SetRouteStatus(p) \/ FinDropRoute(p)
            BY <2>6 DEF SetRouteStatus, FinDropRoute, account
      <2>7. CASE \/ ReferencedTunnel(p) \/ GetRoute(p) \/ PreflightRouteTarget(p)
                 \/ ListRoutes(p) \/ FinTunnel(p) \/ FinGetRoute(p)
            BY <2>7 DEF ReferencedTunnel, GetRoute, PreflightRouteTarget, ListRoutes,
               FinTunnel, FinGetRoute, account
      <2>8. PICK x \in rpass :
                \/ ReferencedTunnel(x) \/ GetRoute(x) \/ PreflightRouteTarget(x)
                \/ ListRoutes(x) \/ EditRemote(x) \/ CreateRemote(x) \/ SetRouteStatus(x)
                \/ FinTunnel(x) \/ FinGetRoute(x) \/ FinDeleteRoute(x) \/ FinDropRoute(x)
            BY DEF RouteStep
      <2>9. x = p
            BY <2>2
      <2> QED BY <2>3, <2>4, <2>5, <2>6, <2>7, <2>8, <2>9
<1> QED BY <1>1, RouteInvariant, PTL DEF Spec, OthersKept

-----------------------------------------------------------------------------
(* The controller implements Owned.                                        *)

\* The ids of the routes that carry an object's mark.
MarksOf(r) == {q.id : q \in OwnRoutes(r)}

\* What Owned sees of the objects does not change but for those of a set.
LivesStay(s) == \A r \in Routes \ s : stored'[r].life = stored[r].life
IdsStay(s)   == \A r \in Routes \ s : stored'[r].id = stored[r].id
MarksStay(s) == \A r \in Routes \ s : MarksOf(r)' = MarksOf(r)

LEMMA MarksType == TypeOK => \A r \in Routes : MarksOf(r) \subseteq RouteIds
BY DEF TypeOK, RemoteRoute, MarksOf, OwnRoutes

\* What a step of the controller is for Owned.
LEMMA MarkSteps ==
    ASSUME LivesStay({}), IdsStay({}), TypeOK, TypeOK'
    PROVE  /\ MarksStay({}) /\ UNCHANGED faults => UNCHANGED Resource!vars
           /\ (\A r \in Routes : MarksOf(r)' \subseteq MarksOf(r)) /\ faults' = faults + 1
                 => Resource!Next
           /\ \A r \in Routes : MarksStay({r}) =>
                 /\ stored[r].life \in {"live", "deleting"} /\ UNCHANGED faults
                       /\ (\E i \in RouteIds : MarksOf(r)' = MarksOf(r) \cup {i})
                       => Resource!Next
                 /\ stored[r].life \in {"live", "deleting"} /\ faults' = faults + 1
                       /\ (\E i, j \in RouteIds : MarksOf(r)' = MarksOf(r) \cup {i, j})
                       => Resource!Next
                 /\ stored[r].life = "deleting" /\ UNCHANGED faults
                       /\ (\E i \in RouteIds : MarksOf(r)' = MarksOf(r) \ {i})
                       => Resource!Next
<1> DEFINE life    == [r \in Routes |-> stored[r].life]
           tracked == [r \in Routes |-> stored[r].id]
           marked  == [r \in Routes |-> {q.id : q \in OwnRoutes(r)}]
<1>1. UNCHANGED <<life, tracked>>
      BY DEF LivesStay, IdsStay
<1>2. /\ \A r \in Routes : marked[r] = MarksOf(r) /\ marked'[r] = MarksOf(r)'
      /\ marked' \in [Routes -> SUBSET RouteIds]
      BY MarksType DEF MarksOf, TypeOK, RemoteRoute, OwnRoutes
<1>3. ASSUME NEW r \in Routes, NEW m, MarksStay({r}), MarksOf(r)' = m
      PROVE  marked' = [marked EXCEPT ![r] = m]
      BY <1>3 DEF MarksStay, MarksOf
<1>4. MarksStay({}) => UNCHANGED marked
      BY DEF MarksStay, MarksOf
<1> HIDE DEF life, tracked, marked
<1>5. ASSUME MarksStay({}), UNCHANGED faults PROVE UNCHANGED Resource!vars
      BY <1>1, <1>4, <1>5 DEF Resource!vars, life, tracked, marked
<1>6. ASSUME \A r \in Routes : MarksOf(r)' \subseteq MarksOf(r), faults' = faults + 1
      PROVE  Resource!Next
      <2>1. \A r \in Routes : marked'[r] \subseteq marked[r]
            BY <1>2, <1>6
      <2>2. Resource!Others
            BY <1>1, <1>2, <1>6, <2>1 DEF Resource!Others, life, tracked, marked
      <2> QED BY <2>2 DEF Resource!Next
<1>7. ASSUME NEW r \in Routes, MarksStay({r}), NEW i \in RouteIds,
             stored[r].life \in {"live", "deleting"}, UNCHANGED faults,
             MarksOf(r)' = MarksOf(r) \cup {i}
      PROVE  Resource!Next
      <2>1. marked' = [marked EXCEPT ![r] = marked[r] \cup {i}]
            BY <1>2, <1>3, <1>7
      <2>2. life[r] \in {"live", "deleting"}
            BY <1>7 DEF life
      <2>3. Resource!Mark(r)
            BY <1>1, <1>7, <2>1, <2>2 DEF Resource!Mark, life, tracked, marked
      <2> QED BY <2>3 DEF Resource!Next
<1>8. ASSUME NEW r \in Routes, MarksStay({r}), NEW i \in RouteIds, NEW j \in RouteIds,
             stored[r].life \in {"live", "deleting"}, faults' = faults + 1,
             MarksOf(r)' = MarksOf(r) \cup {i, j}
      PROVE  Resource!Next
      <2>1. marked' = [marked EXCEPT ![r] = marked[r] \cup {i, j}]
            BY <1>2, <1>3, <1>8
      <2>2. life[r] \in {"live", "deleting"}
            BY <1>8 DEF life
      <2>3. Resource!Mark(r)
            BY <1>1, <1>8, <2>1, <2>2 DEF Resource!Mark, life, tracked, marked
      <2> QED BY <2>3 DEF Resource!Next
<1>9. ASSUME NEW r \in Routes, MarksStay({r}), NEW i \in RouteIds,
             stored[r].life = "deleting", UNCHANGED faults,
             MarksOf(r)' = MarksOf(r) \ {i}
      PROVE  Resource!Next
      <2>1. marked' = [marked EXCEPT ![r] = marked[r] \ {i}]
            BY <1>2, <1>3, <1>9
      <2>2. life[r] = "deleting"
            BY <1>9 DEF life
      <2>3. Resource!Remove(r)
            BY <1>1, <1>9, <2>1, <2>2 DEF Resource!Remove, life, tracked, marked
      <2> QED BY <2>3 DEF Resource!Next
<1> QED BY <1>5, <1>6, <1>7, <1>8, <1>9

\* What a write of an object is for Owned.
LEMMA WriteSteps ==
    ASSUME TypeOK, TypeOK', MarksStay({}), UNCHANGED faults,
           NEW r \in Routes, LivesStay({r}), IdsStay({r})
    PROVE  /\ stored'[r].id = stored[r].id /\ <<stored[r].life, stored'[r].life>> \in
                 {<<"absent", "new">>, <<"new", "live">>, <<"new", "gone">>,
                  <<"live", "deleting">>} => Resource!Next
           /\ stored'[r].life = stored[r].life /\ stored[r].life \in {"live", "deleting"}
                 => Resource!Next
           /\ stored'[r].id = stored[r].id /\ stored[r].life = "deleting"
                 /\ stored'[r].life = "gone" /\ stored[r].id \cap MarksOf(r) = {}
                 => Resource!Next
<1> DEFINE life    == [t \in Routes |-> stored[t].life]
           tracked == [t \in Routes |-> stored[t].id]
           marked  == [t \in Routes |-> {q.id : q \in OwnRoutes(t)}]
<1>1. UNCHANGED marked
      BY DEF MarksStay, MarksOf
<1>2. /\ life' = [life EXCEPT ![r] = stored'[r].life]
      /\ tracked' = [tracked EXCEPT ![r] = stored'[r].id]
      /\ stored'[r].life = stored[r].life => UNCHANGED life
      /\ stored'[r].id = stored[r].id => UNCHANGED tracked
      BY DEF LivesStay, IdsStay
<1>3. /\ life[r] = stored[r].life /\ tracked[r] = stored[r].id /\ marked[r] = MarksOf(r)
      /\ stored'[r].id \in SUBSET RouteIds
      BY DEF MarksOf, TypeOK, Object
<1> HIDE DEF life, tracked, marked
<1>4. ASSUME stored'[r].id = stored[r].id, <<stored[r].life, stored'[r].life>> \in
                 {<<"absent", "new">>, <<"new", "live">>, <<"new", "gone">>,
                  <<"live", "deleting">>}
      PROVE  Resource!Next
      <2>1. /\ <<life[r], stored'[r].life>> \in Resource!LifeSteps
            /\ stored'[r].life \in {"new", "live", "deleting", "gone"}
            BY <1>3, <1>4 DEF Resource!LifeSteps
      <2>2. Resource!Live(r)
            BY <1>1, <1>2, <1>4, <2>1 DEF Resource!Live, life, tracked, marked
      <2> QED BY <2>2 DEF Resource!Next
<1>5. ASSUME stored'[r].life = stored[r].life, stored[r].life \in {"live", "deleting"}
      PROVE  Resource!Next
      <2>1. Resource!Track(r)
            BY <1>1, <1>2, <1>3, <1>5 DEF Resource!Track, life, tracked, marked
      <2> QED BY <2>1 DEF Resource!Next
<1>6. ASSUME stored'[r].id = stored[r].id, stored[r].life = "deleting",
             stored'[r].life = "gone", stored[r].id \cap MarksOf(r) = {}
      PROVE  Resource!Next
      <2>1. tracked[r] \cap marked[r] = {} /\ life[r] = "deleting"
            BY <1>3, <1>6
      <2>2. Resource!Finish(r)
            BY <1>1, <1>2, <1>6, <2>1 DEF Resource!Finish, life, tracked, marked
      <2> QED BY <2>2 DEF Resource!Next
<1> QED BY <1>4, <1>5, <1>6

LEMMA OwnedStep ==
    ASSUME RouteInv, RouteInv', [Next]_vars
    PROVE  [Resource!Next]_Resource!vars
<1>0. /\ TypeOK /\ TypeOK' /\ Beliefs /\ IdsUnique
      /\ \A r \in Routes : MarksOf(r) \subseteq RouteIds
      BY MarksType DEF RouteInv, Beliefs
<1>1. UNCHANGED rroutes => MarksStay({})
      BY DEF MarksStay, MarksOf, OwnRoutes
<1>2. UNCHANGED stored => LivesStay({}) /\ IdsStay({})
      BY DEF LivesStay, IdsStay
<1>3. ASSUME UNCHANGED <<stored, rroutes>>, faults' = faults \/ faults' = faults + 1
      PROVE  [Resource!Next]_Resource!vars
      <2>1. \A r \in Routes : MarksOf(r)' \subseteq MarksOf(r)
            BY <1>1, <1>3 DEF MarksStay
      <2> QED BY <1>0, <1>1, <1>2, <1>3, <2>1, MarkSteps
<1>4. CASE \/ UNCHANGED vars \/ TunnelMoves \/ AbortRoute
           \/ \E r \in Routes : RFinalize(r) \/ Deliver(r)
           \/ \E p \in rpass : \/ ReferencedTunnel(p) \/ GetRoute(p)
                               \/ PreflightRouteTarget(p) \/ ListRoutes(p)
                               \/ FinTunnel(p) \/ FinGetRoute(p)
                               \/ RouteCallFails(p)
      BY <1>3, <1>4 DEF vars, TunnelMoves, routeVars, AbortRoute, RFinalize, Deliver,
         ReferencedTunnel, GetRoute, PreflightRouteTarget, ListRoutes, FinTunnel,
         FinGetRoute, RouteCallFails, account, cache, Fault
<1>5. CASE MeddleRoute
      <2>1. UNCHANGED stored /\ faults' = faults + 1
            BY <1>5 DEF MeddleRoute, Fault
      <2>2. \A q \in rroutes' : \E o \in rroutes : q.id = o.id /\ q.own \in {o.own, Foreign}
            BY <1>0, <1>5, MeddleEffect DEF TypeOK
      <2>3. \A r \in Routes : MarksOf(r)' \subseteq MarksOf(r)
            BY <2>2, RouteAssumption DEF MarksOf, OwnRoutes
      <2> QED BY <1>0, <1>2, <2>1, <2>3, MarkSteps
<1>6. ASSUME NEW r \in Routes, NEW o \in Object, Write(r, o)
      PROVE  LivesStay({r}) /\ IdsStay({r}) /\ stored'[r] = o
      BY <1>0, <1>6, WriteType DEF LivesStay, IdsStay
<1>7. ASSUME NEW r \in Routes, RBegin(r) PROVE [Resource!Next]_Resource!vars
      <2>1. UNCHANGED <<rroutes, faults>>
            BY <1>7 DEF RBegin, account
      <2>2. CASE UNCHANGED <<stored, cache>>
            BY <1>3, <2>1, <2>2
      <2>3. ASSUME NEW o \in Object, Write(r, o), o.id = stored[r].id, o.life = "live",
                   rlife[r] = "new", fresh[r]
            PROVE  Resource!Next
            <3>1. stored[r].life = "new"
                  BY <1>0, <2>3, ObjectKnown
            <3> QED BY <1>0, <1>1, <1>6, <2>1, <2>3, <3>1, WriteSteps
      <2> QED BY <1>0, <1>7, <2>2, <2>3, BeginWrites
<1>8. ASSUME NEW p \in rpass, SetRouteStatus(p) PROVE [Resource!Next]_Resource!vars
      <2>1. UNCHANGED <<rroutes, faults>> /\ p.obj \in Routes
            BY <1>0, <1>8, PassFields DEF SetRouteStatus, account, TypeOK
      <2>2. CASE UNCHANGED <<stored, cache>>
            BY <1>3, <2>1, <2>2
      <2>3. ASSUME NEW o \in Object, Write(p.obj, o), o.life = stored[p.obj].life,
                   o.life \in {"live", "deleting"}
            PROVE  Resource!Next
            BY <1>0, <1>1, <1>6, <2>1, <2>3, WriteSteps
      <2> QED BY <1>0, <1>8, <2>2, <2>3, SaveWrites
<1>9. ASSUME NEW p \in rpass, FinDropRoute(p) PROVE [Resource!Next]_Resource!vars
      <2>1. UNCHANGED <<rroutes, faults>> /\ p.obj \in Routes /\ p.at = "finDrop"
            BY <1>0, <1>9, PassFields DEF FinDropRoute, account, TypeOK
      <2>2. CASE UNCHANGED <<stored, cache>>
            BY <1>3, <2>1, <2>2
      <2>3. ASSUME NEW o \in Object, Write(p.obj, o), o.id = stored[p.obj].id,
                   o.life = "gone", stored[p.obj].life = "deleting",
                   p.id = stored[p.obj].id
            PROVE  Resource!Next
            <3>1. p.id \cap MarksOf(p.obj) = {}
                  BY <1>0, <2>1, ThePass DEF KnowsRoutes, RoutesWith, MarksOf, OwnRoutes
            <3> QED BY <1>0, <1>1, <1>6, <2>1, <2>3, <3>1, WriteSteps
      <2> QED BY <1>0, <1>9, <2>2, <2>3, DropWrites
<1>10. ASSUME NEW r \in Routes, ApplyRoute(r) \/ EditRoute(r) \/ DeleteRoute(r)
       PROVE  [Resource!Next]_Resource!vars
      <2>1. UNCHANGED <<rroutes, faults>>
            BY <1>10 DEF ApplyRoute, EditRoute, DeleteRoute, account
      <2>2. PICK o \in Object :
                /\ Write(r, o) /\ o.id = stored[r].id
                /\ \/ o.life = stored[r].life
                   \/ <<stored[r].life, o.life>> \in
                         {<<"absent", "new">>, <<"new", "gone">>, <<"live", "deleting">>}
            BY <1>0, <1>10, UserWrites
      <2>3. CASE o.life = stored[r].life
            <3>1. LivesStay({}) /\ IdsStay({})
                  BY <1>6, <2>2, <2>3 DEF LivesStay, IdsStay
            <3> QED BY <1>0, <1>1, <2>1, <3>1, MarkSteps
      <2>4. CASE <<stored[r].life, o.life>> \in
                   {<<"absent", "new">>, <<"new", "gone">>, <<"live", "deleting">>}
            BY <1>0, <1>1, <1>6, <2>1, <2>2, <2>4, WriteSteps
      <2> QED BY <2>2, <2>3, <2>4
<1>11. ASSUME NEW p \in rpass, EditRemote(p) PROVE [Resource!Next]_Resource!vars
      <2>1. /\ UNCHANGED <<stored, faults>> /\ p \in RoutePass /\ p.obj \in Routes
            /\ stored[p.obj].life \in {"live", "deleting"} /\ rroutes \subseteq RemoteRoute
            BY <1>0, <1>11, ThePass, PassFields
               DEF EditRemote, TypeOK, KnowsObject, Working
      <2>2. CASE UNCHANGED rroutes
            BY <1>3, <2>1, <2>2
      <2>3. CASE RoutesWith(p.hit) # {} /\ Edit(p)
            <3>1. PICK x \in rroutes : x.id \in p.hit
                  BY <2>3 DEF RoutesWith
            <3>2. p.hit = {x.id} /\ x.by = p.obj /\ x.id \in RouteIds
                  <4>1. KnowsRoutes(p) /\ Single(p.hit)
                        BY <1>0, ThePass
                  <4>2. x.by = p.obj
                        BY <1>11, <3>1, <4>1 DEF EditRemote, KnowsRoutes, RoutesWith
                  <4> QED BY <2>1, <3>1, <4>1, <4>2 DEF Single, RemoteRoute
            <3>3. /\ \A q \in rroutes' : \E o \in rroutes :
                        q.id = o.id /\ q = IF o.id \in p.hit THEN Edited(p, o) ELSE o
                  /\ \A o \in rroutes :
                        (IF o.id \in p.hit THEN Edited(p, o) ELSE o) \in rroutes'
                  BY <2>1, <2>3, EditEffect
            <3>4. Edited(p, x).own = p.obj /\ Edited(p, x).id = x.id
                  BY <2>1, EditedType
            <3>5. \A o \in rroutes : o.id \in p.hit => o = x
                  BY <1>0, <3>1, <3>2 DEF IdsUnique
            <3>6. x.own \in {p.obj, Foreign} /\ p.obj # Foreign
                  BY <1>0, <2>1, <3>2, RouteAssumption DEF IdsUnique
            <3>7. MarksOf(p.obj)' = MarksOf(p.obj) \cup {x.id}
                  BY <3>2, <3>3, <3>4, <3>5 DEF MarksOf, OwnRoutes
            <3>8. MarksStay({p.obj})
                  BY <3>2, <3>3, <3>4, <3>5, <3>6, RouteAssumption
                  DEF MarksStay, MarksOf, OwnRoutes
            <3> QED BY <1>0, <1>2, <2>1, <3>2, <3>7, <3>8, MarkSteps
      <2> QED BY <1>11, <2>2, <2>3 DEF EditRemote
<1>12. ASSUME NEW p \in rpass, CreateRemote(p) PROVE Resource!Next
      <2>1. /\ UNCHANGED stored /\ p \in RoutePass /\ p.obj \in Routes
            /\ stored[p.obj].life \in {"live", "deleting"}
            BY <1>0, <1>12, ThePass, PassFields
               DEF CreateRemote, TypeOK, KnowsObject, Working
      <2>2. PICK i \in RouteIds : Create(p, i)
            BY <1>12 DEF CreateRemote
      <2>3. \A k \in RouteIds : Made(p, k).own = p.obj /\ Made(p, k).id = k
            BY <2>1, MadeType
      <2>4. CASE rroutes' = rroutes \cup {Made(p, i)} /\ UNCHANGED faults
            <3>1. MarksOf(p.obj)' = MarksOf(p.obj) \cup {i}
                  BY <2>3, <2>4 DEF MarksOf, OwnRoutes
            <3>2. MarksStay({p.obj})
                  BY <2>3, <2>4 DEF MarksStay, MarksOf, OwnRoutes
            <3> QED BY <1>0, <1>2, <2>1, <2>4, <3>1, <3>2, MarkSteps
      <2>5. ASSUME NEW j \in RouteIds, rroutes' = rroutes \cup {Made(p, j), Made(p, i)},
                   faults' = faults + 1
            PROVE  Resource!Next
            <3>1. MarksOf(p.obj)' = MarksOf(p.obj) \cup {j, i}
                  BY <2>3, <2>5 DEF MarksOf, OwnRoutes
            <3>2. MarksStay({p.obj})
                  BY <2>3, <2>5 DEF MarksStay, MarksOf, OwnRoutes
            <3> QED BY <1>0, <1>2, <2>1, <2>5, <3>1, <3>2, MarkSteps
      <2> QED BY <2>2, <2>4, <2>5 DEF Create, Fault, FreeRouteIds
<1>13. ASSUME NEW p \in rpass, FinDeleteRoute(p) PROVE [Resource!Next]_Resource!vars
      <2>1. /\ UNCHANGED <<stored, faults>> /\ p.obj \in Routes
            /\ stored[p.obj].life = "deleting" /\ Single(p.id) /\ p.id \subseteq RouteIds
            /\ rroutes' = {q \in rroutes : q.id \notin p.id}
            /\ \A q \in rroutes : q.id \in p.id => q.by = p.obj
            <3>1. KnowsObject(p) /\ KnowsRoutes(p) /\ Single(p.id)
                  BY <1>0, ThePass
            <3> QED BY <1>0, <1>13, <3>1, PassFields
                    DEF FinDeleteRoute, Delete, TypeOK, KnowsObject, KnowsRoutes,
                        RoutesWith, Finalizing
      <2>2. MarksOf(p.obj)' = MarksOf(p.obj) \ p.id
            BY <2>1 DEF MarksOf, OwnRoutes
      <2>3. MarksStay({p.obj})
            BY <1>0, <2>1, RouteAssumption DEF MarksStay, MarksOf, OwnRoutes, IdsUnique
      <2>4. CASE p.id = {}
            BY <1>3, <2>1, <2>4
      <2>5. CASE p.id # {}
            <3>1. PICK i \in RouteIds : p.id = {i}
                  BY <2>1, <2>5 DEF Single
            <3> QED BY <1>0, <1>2, <2>1, <2>2, <2>3, <3>1, MarkSteps
      <2> QED BY <2>4, <2>5
<1> QED BY <1>4, <1>5, <1>7, <1>8, <1>9, <1>10, <1>11, <1>12, <1>13
        DEF Next, RouteBegins, RouteStep, RouteWorld

\* The controller marks routes only for living objects, deletes them only for
\* objects that are being deleted, and lets none go that tracks a route of its
\* own, although it reads from copies that lag and its writes conflict.
THEOREM RoutesKeepPromise == Spec => RoutesAreOwned
<1>1. Init => Resource!Init
      <2> SUFFICES ASSUME Init PROVE Resource!Init
          OBVIOUS
      <2>1. /\ \A r \in Routes : stored[r].life = "absent" /\ stored[r].id = {}
            /\ faults = 0
            BY DEF Init
      <2>2. \A r \in Routes : {q.id : q \in OwnRoutes(r)} \subseteq RouteIds
            BY InitInv, MarksType DEF RouteInv, MarksOf
      <2> QED BY <2>1, <2>2 DEF Resource!Init
<1>2. RouteInv /\ RouteInv' /\ [Next]_vars => [Resource!Next]_Resource!vars
      BY OwnedStep
<1> QED BY <1>1, <1>2, RouteInvariant, PTL
        DEF Spec, RoutesAreOwned, Resource!Spec

-----------------------------------------------------------------------------
(* A route that is in place stays in place.                                *)

\* A pass has read the object as it is and found nothing to do so far.
SeesPlace(p) ==
    /\ p.at \in {"tunnel", "get", "save"}
    /\ p.spec = stored[p.obj].spec /\ p.id = stored[p.obj].id
    /\ p.at = "get" => p.tun = tid
    /\ p.at = "save" => p.hit = stored[p.obj].id /\ p.ready

\* An object whose route is as its spec says, and whose cached copy and pass
\* are not behind.
RouteSettled(r) ==
    /\ tobj = "live" /\ tid # {}
    /\ stored[r].life = "live" /\ rlife[r] = "live"
    /\ seen[r] = [spec |-> stored[r].spec, id |-> stored[r].id]
    /\ Canonical[stored[r].spec.network] # Invalid
    /\ InPlace(r)
    /\ \A p \in rpass : p.obj = r => SeesPlace(p)

\* Neither the user nor the tunnel's controller changes what the route should
\* be, no call fails and nobody else meddles.
LeftAlone(r) ==
    UNCHANGED <<tobj, tid, stored[r].spec, stored[r].life, faults>>

\* The route in its object's status is written by no step.
Kept(r) ==
    \A q \in rroutes \cup rroutes' :
        q.id \in stored[r].id => q \in rroutes /\ q \in rroutes'

\* The route of a settled object.
LEMMA TheRoute ==
    ASSUME RouteInv, NEW r \in Routes, RouteSettled(r)
    PROVE  \E x \in rroutes :
              /\ stored[r].id = {x.id} /\ RoutesWith(stored[r].id) = {x}
              /\ x.own = r /\ x.by = r /\ x.note = stored[r].spec.note
              /\ x.tun = tid /\ x \in Listed(stored[r].spec)
              /\ x.id \in usedRoutes /\ stored[r].ready
<1>1. PICK x \in RoutesWith(stored[r].id) :
          /\ x.own = r /\ x.note = stored[r].spec.note
          /\ x.tun = tid /\ x \in Listed(stored[r].spec)
      BY DEF RouteSettled, InPlace
<1>2. /\ x \in rroutes /\ x.id \in stored[r].id
      /\ Single(stored[r].id) /\ IdsUnique /\ stored[r].ready
      BY <1>1 DEF RoutesWith, RouteInv, Beliefs, OneTracked, RouteSettled, InPlace
<1>3. x.by = r /\ x.id \in usedRoutes
      BY <1>1, <1>2, RouteAssumption DEF IdsUnique
<1>4. stored[r].id = {x.id}
      BY <1>2 DEF Single
<1>5. RoutesWith(stored[r].id) = {x}
      BY <1>2, <1>4 DEF RoutesWith, IdsUnique
<1> QED BY <1>1, <1>2, <1>3, <1>4, <1>5

\* No pass writes the route of a settled object.
LEMMA RouteKept ==
    ASSUME RouteInv, NEW r \in Routes, RouteSettled(r), LeftAlone(r), [Next]_vars
    PROVE  Kept(r)
<1>1. PICK x \in rroutes :
          /\ stored[r].id = {x.id} /\ RoutesWith(stored[r].id) = {x}
          /\ x.by = r /\ x.id \in usedRoutes
      BY TheRoute
<1>2. \A q \in rroutes : q.id \in stored[r].id => q = x
      BY <1>1 DEF RoutesWith
<1>3. UNCHANGED rroutes => Kept(r)
      BY DEF Kept
<1>4. TypeOK /\ Beliefs /\ UNCHANGED faults
      BY DEF RouteInv, LeftAlone
<1>5. CASE MeddleRoute \/ AbortRoute \/ \E p \in rpass : RouteCallFails(p)
      BY <1>4, <1>5 DEF MeddleRoute, AbortRoute, RouteCallFails, Fault, TypeOK
<1>6. ASSUME NEW p \in rpass, EditRemote(p) PROVE Kept(r)
      <2>1. /\ p.at = "edit" /\ p \in RoutePass /\ rroutes \subseteq RemoteRoute
            /\ KnowsRoutes(p)
            BY <1>4, <1>6, ThePass DEF EditRemote, TypeOK
      <2>2. p.obj # r
            BY <2>1 DEF RouteSettled, SeesPlace
      <2>3. x.id \notin p.hit
            BY <1>1, <2>1, <2>2 DEF KnowsRoutes, RoutesWith
      <2>4. CASE Edit(p)
            <3>1. /\ \A q \in rroutes' : \E o \in rroutes :
                        q.id = o.id /\ q = IF o.id \in p.hit THEN Edited(p, o) ELSE o
                  /\ \A o \in rroutes :
                        (IF o.id \in p.hit THEN Edited(p, o) ELSE o) \in rroutes'
                  BY <2>1, <2>4, EditEffect
            <3> QED BY <1>1, <1>2, <2>3, <3>1 DEF Kept
      <2> QED BY <1>3, <1>6, <2>4 DEF EditRemote
<1>7. ASSUME NEW p \in rpass, CreateRemote(p) PROVE Kept(r)
      <2>1. p \in RoutePass
            BY <1>4 DEF TypeOK
      <2>2. \A k \in RouteIds : Made(p, k).id = k
            BY <2>1, MadeType
      <2>3. \E i, j \in FreeRouteIds : rroutes' = rroutes \cup {Made(p, j), Made(p, i)}
            BY <1>7 DEF CreateRemote, Create, NextRouteId
      <2> QED BY <1>1, <2>2, <2>3 DEF Kept, FreeRouteIds
<1>8. ASSUME NEW p \in rpass, FinDeleteRoute(p) PROVE Kept(r)
      <2>1. /\ p.at = "finDelete" /\ KnowsRoutes(p)
            /\ rroutes' = {q \in rroutes : q.id \notin p.id}
            BY <1>4, <1>8, ThePass DEF FinDeleteRoute, Delete
      <2>2. p.obj # r
            BY <2>1 DEF RouteSettled, SeesPlace
      <2>3. x.id \notin p.id
            BY <1>1, <2>1, <2>2 DEF KnowsRoutes, RoutesWith
      <2> QED BY <1>1, <1>2, <2>1, <2>3 DEF Kept
<1>9. CASE \/ UNCHANGED vars \/ TunnelMoves
           \/ \E t \in Routes : \/ RBegin(t) \/ RFinalize(t) \/ ApplyRoute(t)
                                \/ EditRoute(t) \/ DeleteRoute(t) \/ Deliver(t)
           \/ \E p \in rpass : \/ ReferencedTunnel(p) \/ GetRoute(p)
                               \/ PreflightRouteTarget(p) \/ ListRoutes(p)
                               \/ SetRouteStatus(p) \/ FinTunnel(p) \/ FinGetRoute(p)
                               \/ FinDropRoute(p)
      BY <1>3, <1>9 DEF vars, TunnelMoves, routeVars, RBegin, RFinalize, ApplyRoute,
         EditRoute, DeleteRoute, Deliver, ReferencedTunnel, GetRoute,
         PreflightRouteTarget, ListRoutes, SetRouteStatus, FinTunnel, FinGetRoute,
         FinDropRoute, account
<1> QED BY <1>5, <1>6, <1>7, <1>8, <1>9
        DEF Next, RouteBegins, RouteStep, RouteWorld

\* The object and its cached copy are written by no step, or with what is there.
Frame(r) == stored'[r] = stored[r] /\ seen'[r] = seen[r] /\ rlife'[r] = rlife[r]

\* A write of another object.
LEMMA OtherWritten ==
    ASSUME TypeOK, NEW r \in Routes, NEW t \in Routes \ {r}, NEW o \in Object, Write(t, o)
    PROVE  Frame(r)
BY WriteType DEF Frame

LEMMA ObjectStays ==
    ASSUME RouteInv, NEW r \in Routes, RouteSettled(r), LeftAlone(r), [Next]_vars
    PROVE  Frame(r)
<1>1. TypeOK /\ Beliefs /\ UNCHANGED <<faults, stored[r].spec, stored[r].life>>
      BY DEF RouteInv, LeftAlone
<1>2. /\ stored[r].life = "live" /\ rlife[r] = "live" /\ stored[r] \in Object
      /\ seen[r] = [spec |-> stored[r].spec, id |-> stored[r].id]
      BY <1>1 DEF RouteSettled, TypeOK
<1>3. UNCHANGED <<stored, cache>> => Frame(r)
      BY DEF Frame, cache
<1>4. CASE MeddleRoute \/ AbortRoute
      BY <1>1, <1>4 DEF MeddleRoute, AbortRoute, Fault, TypeOK
<1>5. ASSUME NEW t \in Routes, RBegin(t) PROVE Frame(r)
      <2>1. CASE UNCHANGED <<stored, cache>>
            BY <1>3, <2>1
      <2>2. ASSUME NEW o \in Object, Write(t, o), rlife[t] = "new" PROVE Frame(r)
            BY <1>1, <1>2, <2>2, OtherWritten
      <2> QED BY <1>1, <1>5, <2>1, <2>2, BeginWrites
<1>6. ASSUME NEW t \in Routes, ApplyRoute(t) \/ EditRoute(t) \/ DeleteRoute(t)
      PROVE  Frame(r)
      <2>1. t # r
            <3>1. CASE ApplyRoute(t)
                  BY <1>2, <3>1 DEF ApplyRoute
            <3>2. CASE EditRoute(t)
                  <4>1. PICK s \in Specs \ {stored[t].spec} :
                            Write(t, [stored[t] EXCEPT !.spec = s])
                        BY <3>2 DEF EditRoute
                  <4>2. t = r => stored'[r].spec = s
                        BY <1>1, <1>2, <4>1 DEF Write, TypeOK, Object
                  <4> QED BY <1>1, <4>1, <4>2
            <3>3. CASE DeleteRoute(t)
                  <4>1. t = r => stored'[r].life = "deleting"
                        BY <1>1, <1>2, <3>3 DEF DeleteRoute, Write, TypeOK, Object
                  <4> QED BY <1>1, <1>2, <4>1
            <3> QED BY <1>6, <3>1, <3>2, <3>3
      <2>2. PICK o \in Object : Write(t, o)
            BY <1>1, <1>6, UserWrites
      <2> QED BY <1>1, <2>1, <2>2, OtherWritten
<1>7. ASSUME NEW t \in Routes, Deliver(t) PROVE Frame(r)
      BY <1>1, <1>2, <1>7 DEF Deliver, Frame, TypeOK, LifeTypeOK
<1>8. ASSUME NEW p \in rpass, SetRouteStatus(p) PROVE Frame(r)
      <2>1. p.obj \in Routes /\ p.at = "save"
            BY <1>1, <1>8, PassFields DEF SetRouteStatus, TypeOK
      <2>2. CASE UNCHANGED <<stored, cache>>
            BY <1>3, <2>2
      <2>3. CASE p.obj # r
            BY <1>1, <1>8, <2>1, <2>2, <2>3, SaveWrites, OtherWritten
      <2>4. CASE /\ p.obj = r
                 /\ Write(r, [stored[r] EXCEPT !.id = p.hit, !.ready = p.ready])
            <3>1. p.hit = stored[r].id /\ p.ready = TRUE /\ stored[r].ready = TRUE
                  <4>1. SeesPlace(p) /\ InPlace(r) /\ p \in RoutePass
                        BY <1>1, <2>4 DEF RouteSettled, TypeOK
                  <4> QED BY <1>2, <2>1, <2>4, <4>1, PassFields
                          DEF SeesPlace, InPlace, Object
            <3>2. [stored[r] EXCEPT !.id = p.hit, !.ready = p.ready] = stored[r]
                  BY <1>2, <3>1 DEF Object
            <3>3. Write(r, stored[r])
                  BY <2>4, <3>2
            <3> QED BY <1>1, <1>2, <3>3, WriteType DEF Frame
      <2> QED BY <1>8, <2>2, <2>3, <2>4 DEF SetRouteStatus
<1>9. ASSUME NEW p \in rpass, FinDropRoute(p) PROVE Frame(r)
      <2>1. p.obj \in Routes /\ p.obj # r
            BY <1>1, <1>9, PassFields DEF FinDropRoute, TypeOK, RouteSettled, SeesPlace
      <2> QED BY <1>1, <1>3, <1>9, <2>1, DropWrites, OtherWritten
<1>10. CASE TunnelMoves
      BY <1>10 DEF TunnelMoves, TunnelLives, TunnelGetsFinalizer, TunnelGetsId,
         TunnelDeleted, TunnelCloses, TunnelWaits, TunnelGoes, routeVars, Frame
<1>11. CASE \/ UNCHANGED vars
            \/ \E t \in Routes : RFinalize(t)
            \/ \E p \in rpass : Goes(p)
      BY <1>1, <1>3, <1>11, GoesType DEF vars, RFinalize, cache
<1> QED BY <1>4, <1>5, <1>6, <1>7, <1>8, <1>9, <1>10, <1>11
        DEF Next, RouteBegins, RouteStep, RouteWorld, Goes

\* A pass over a settled object finds nothing to do.
LEMMA PassStays ==
    ASSUME RouteInv, NEW r \in Routes, RouteSettled(r), LeftAlone(r), [Next]_vars
    PROVE  \A q \in rpass' : q.obj = r => SeesPlace(q)
<1>1. /\ TypeOK /\ Beliefs /\ UNCHANGED <<faults, tobj, tid>>
      /\ tobj = "live" /\ tid # {} /\ rlife[r] = "live"
      /\ seen[r] = [spec |-> stored[r].spec, id |-> stored[r].id]
      /\ Canonical[stored[r].spec.network] # Invalid
      /\ \A p \in rpass : p.obj = r => SeesPlace(p)
      BY DEF RouteInv, LeftAlone, RouteSettled
<1>2. PICK x \in rroutes :
          /\ stored[r].id = {x.id} /\ RoutesWith(stored[r].id) = {x}
          /\ x.own = r /\ x.note = stored[r].spec.note
          /\ x.tun = tid /\ x \in Listed(stored[r].spec)
      BY TheRoute
<1> DEFINE Goal == \A q \in rpass' : q.obj = r => SeesPlace(q)
<1>3. rpass' \subseteq rpass => Goal
      BY <1>1
<1>4. CASE MeddleRoute \/ AbortRoute
      BY <1>1, <1>4 DEF MeddleRoute, AbortRoute, Fault, TypeOK
<1>5. ASSUME NEW t \in Routes, RBegin(t) PROVE Goal
      <2>1. rpass' = {NewPass(t, "tunnel")}
            BY <1>5 DEF RBegin
      <2>2. /\ NewPass(t, "tunnel").obj = t /\ NewPass(t, "tunnel").at = "tunnel"
            /\ NewPass(t, "tunnel").spec = seen[t].spec
            /\ NewPass(t, "tunnel").id = seen[t].id
            BY DEF NewPass
      <2> QED BY <1>1, <2>1, <2>2 DEF SeesPlace
<1>6. ASSUME NEW t \in Routes, RFinalize(t) PROVE Goal
      <2>1. t # r
            BY <1>1, <1>6 DEF RFinalize
      <2> QED BY <1>1, <1>6, <2>1, FinPassType
<1>7. ASSUME NEW t \in Routes, EditRoute(t) \/ DeleteRoute(t) PROVE Goal
      <2>1. \A q \in rpass' : \E p \in rpass : q = [p EXCEPT !.current = @ /\ p.obj # t]
            BY <1>7 DEF EditRoute, DeleteRoute, Outdated
      <2>2. \A q \in rpass' : \E p \in rpass :
                /\ q.at = p.at /\ q.obj = p.obj /\ q.spec = p.spec /\ q.id = p.id
                /\ q.hit = p.hit /\ q.tun = p.tun /\ q.ready = p.ready
            BY <1>1, <2>1 DEF TypeOK, RoutePass
      <2> QED BY <1>1, <2>2 DEF SeesPlace
<1>8. ASSUME NEW p \in rpass, Goes(p), p.obj # r PROVE Goal
      BY <1>1, <1>8, StepGoesOn DEF GoesOn, Follows
<1>9. ASSUME NEW p \in rpass, p.obj = r
      PROVE  /\ p \in RoutePass /\ p.at \in {"tunnel", "get", "save"}
             /\ p.spec = stored[r].spec /\ p.id = stored[r].id
             /\ p.at = "get" => p.tun = tid
      BY <1>1, <1>9 DEF SeesPlace, TypeOK
<1>10. ASSUME NEW p \in rpass, p.obj = r, ReferencedTunnel(p) PROVE Goal
      <2> DEFINE q0 == [p EXCEPT !.at = "get", !.tun = tid]
      <2>1. p.at = "tunnel" /\ p.id # {} /\ ~Fault
            <3>1. p.at = "tunnel" /\ p.id # {}
                  BY <1>2, <1>9, <1>10 DEF ReferencedTunnel
            <3>2. ~Fault
                  BY <1>1 DEF Fault, TypeOK
            <3> QED BY <3>1, <3>2
      <2>2. rpass' = {q0}
            BY <1>1, <1>9, <1>10, <2>1 DEF ReferencedTunnel
      <2>3. /\ q0.at = "get" /\ q0.tun = tid /\ q0.obj = p.obj /\ q0.spec = p.spec
            /\ q0.id = p.id
            BY <1>9, <1>10 DEF RoutePass
      <2> HIDE DEF q0
      <2> QED BY <1>9, <1>10, <2>2, <2>3 DEF SeesPlace
<1>11. ASSUME NEW p \in rpass, p.obj = r, GetRoute(p) PROVE Goal
      <2> DEFINE q0 == [p EXCEPT !.at = "save", !.hit = p.id, !.ready = TRUE]
      <2>1. p.at = "get" /\ RoutesWith(p.id) = {x}
            BY <1>2, <1>9, <1>11 DEF GetRoute
      <2>2. Matches(x, p)
            BY <1>2, <1>9, <1>11, <2>1 DEF Matches, Listed
      <2>3. Reconciled(p, p.id)
            BY <1>2, <1>11, <2>1, <2>2 DEF GetRoute
      <2>4. rpass' = {q0}
            BY <2>3 DEF Reconciled
      <2>5. /\ q0.at = "save" /\ q0.hit = p.id /\ q0.ready /\ q0.obj = p.obj
            /\ q0.spec = p.spec /\ q0.id = p.id
            BY <1>9, <1>11 DEF RoutePass
      <2> HIDE DEF q0
      <2> QED BY <1>9, <1>11, <2>4, <2>5 DEF SeesPlace
<1>12. ASSUME NEW p \in rpass, Goes(p) PROVE Goal
      <2>1. p.obj = r => ReferencedTunnel(p) \/ GetRoute(p)
            <3>1. ~RouteCallFails(p)
                  BY <1>1 DEF RouteCallFails, Fault, TypeOK
            <3> QED BY <1>9, <1>12, <3>1 DEF Goes, PreflightRouteTarget, ListRoutes,
                    EditRemote, CreateRemote, FinTunnel, FinGetRoute, FinDeleteRoute
      <2> QED BY <1>8, <1>10, <1>11, <1>12, <2>1
<1>13. CASE \/ UNCHANGED vars \/ TunnelMoves
            \/ \E t \in Routes : ApplyRoute(t) \/ Deliver(t)
            \/ \E p \in rpass : SetRouteStatus(p) \/ FinDropRoute(p)
      BY <1>3, <1>13 DEF vars, TunnelMoves, routeVars, ApplyRoute, Deliver,
         SetRouteStatus, FinDropRoute
<1> QED BY <1>4, <1>5, <1>6, <1>7, <1>12, <1>13
        DEF Next, RouteBegins, RouteStep, RouteWorld, Goes

\* A route that is tracked, leads to the tunnel and is as its spec says is left
\* as it is by every pass, its own and those of other objects, as long as its
\* spec and its tunnel stay and no call fails: the status says Ready and the
\* caches deliver it again without a write to Cloudflare
\* (reconcileCloudflareRoute, tunnelRouteMatches, setRouteStatus).
RouteStays ==
    [][\A r \in Routes : RouteSettled(r) /\ LeftAlone(r) =>
          RouteSettled(r)' /\ RoutesWith(stored[r].id)' = RoutesWith(stored[r].id)]_vars

THEOREM RoutesAreStable == Spec => RouteStays
<1>1. ASSUME RouteInv, [Next]_vars, NEW r \in Routes, RouteSettled(r), LeftAlone(r)
      PROVE  RouteSettled(r)' /\ RoutesWith(stored[r].id)' = RoutesWith(stored[r].id)
      <2>1. Kept(r) /\ Frame(r) /\ \A q \in rpass' : q.obj = r => SeesPlace(q)
            BY <1>1, RouteKept, ObjectStays, PassStays
      <2>2. RoutesWith(stored[r].id)' = RoutesWith(stored[r].id)
            BY <2>1 DEF Kept, Frame, RoutesWith
      <2>3. UNCHANGED <<tobj, tid>> /\ InPlace(r)
            BY <1>1 DEF LeftAlone, RouteSettled
      <2>4. InPlace(r)'
            <3>1. \A s : \A q \in RoutesWith(stored[r].id) :
                      q \in Listed(s) => q \in Listed(s)'
                  BY <2>1 DEF Kept, RoutesWith, Listed
            <3> QED BY <2>1, <2>2, <2>3, <3>1 DEF InPlace, Frame
      <2>5. \A q \in rpass' : q.obj = r => SeesPlace(q)'
            BY <2>1, <2>3 DEF SeesPlace, Frame
      <2> QED BY <1>1, <2>1, <2>2, <2>3, <2>4, <2>5 DEF RouteSettled, Frame
<1>2. RouteInv /\ [Next]_vars =>
          [\A r \in Routes : RouteSettled(r) /\ LeftAlone(r) =>
              RouteSettled(r)' /\ RoutesWith(stored[r].id)' = RoutesWith(stored[r].id)]_vars
      BY <1>1
<1> QED BY <1>2, RouteInvariant, PTL DEF Spec, RouteStays
=============================================================================
