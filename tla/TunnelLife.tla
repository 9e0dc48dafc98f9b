----------------------------- MODULE TunnelLife -----------------------------
(***************************************************************************)
(* What the CloudflareTunnelRoute controller may rely on of a tunnel: the  *)
(* life of its object and the id in its status.  Module Tunnel implements  *)
(* this, module TunnelRoute is composed with it.                           *)
(*                                                                         *)
(* The id may come, go and change as long as the object lives, but not     *)
(* once the finalizer has found no route that refers to the tunnel.  The   *)
(* object goes only after such a look.  A route that is listed later comes *)
(* too late to keep the tunnel: it finds it being deleted.                 *)
(***************************************************************************)
CONSTANTS
    Routes,     \* the CloudflareTunnelRoutes that may refer to the tunnel
    TunnelIds   \* tunnel ids Cloudflare may assign

VARIABLES
    rlife,    \* life of each CloudflareTunnelRoute, as it is listed
    tobj,     \* life of the CloudflareTunnel object
    tid,      \* status.tunnelId
    closing   \* the finalizer has found no route and is at work

lifeVars == <<rlife, tobj, tid, closing>>

Lives == {"absent", "new", "live", "deleting", "gone"}

\* An id, or none.
TrackedIds == {{}} \cup {{i} : i \in TunnelIds}

LifeTypeOK ==
    /\ rlife \in [Routes -> Lives]
    /\ tobj \in {"new", "live", "deleting", "gone"}
    /\ tid \in TrackedIds
    /\ closing \in BOOLEAN

LifeInit ==
    /\ rlife = [r \in Routes |-> "absent"]
    /\ tid \in TrackedIds
    /\ tobj = IF tid = {} THEN "new" ELSE "live"
    /\ closing = FALSE

\* Those being deleted are still listed.
Listing == {r \in Routes : rlife[r] \in {"new", "live", "deleting"}}

TunnelGetsFinalizer ==
    /\ tobj = "new" /\ tobj' = "live"
    /\ UNCHANGED <<rlife, tid, closing>>

TunnelGetsId ==
    /\ tobj \in {"live", "deleting"} /\ ~closing
    /\ tid' \in TrackedIds
    /\ UNCHANGED <<rlife, tobj, closing>>

TunnelDeleted ==
    /\ tobj \in {"new", "live"} /\ ~closing
    /\ tobj' = IF tobj = "new" THEN "gone" ELSE "deleting"
    /\ UNCHANGED <<rlife, tid, closing>>

\* The finalizer lists the routes; gives up, to look again later; or ends.
TunnelCloses ==
    /\ tobj = "deleting" /\ ~closing
    /\ Listing = {}
    /\ closing' = TRUE
    /\ UNCHANGED <<rlife, tobj, tid>>

TunnelWaits ==
    /\ closing /\ closing' = FALSE
    /\ UNCHANGED <<rlife, tobj, tid>>

TunnelGoes ==
    /\ tobj = "deleting" /\ closing
    /\ tobj' = "gone" /\ closing' = FALSE
    /\ UNCHANGED <<rlife, tid>>

RouteListed(r) ==
    /\ \E l \in Lives : rlife' = [rlife EXCEPT ![r] = l]
    /\ UNCHANGED <<tobj, tid, closing>>

TunnelLives ==
    \/ TunnelGetsFinalizer \/ TunnelGetsId \/ TunnelDeleted
    \/ TunnelCloses \/ TunnelWaits \/ TunnelGoes

LifeNext == TunnelLives \/ \E r \in Routes : RouteListed(r)

LifeSpec == LifeInit /\ [][LifeNext]_lifeVars
=============================================================================
