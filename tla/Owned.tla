------------------------------- MODULE Owned --------------------------------
(***************************************************************************)
(* What the controllers promise about a resource at Cloudflare that stands *)
(* for one Kubernetes object: a policy for a CloudflareAccessPolicy, a     *)
(* route for a CloudflareTunnelRoute.  The resource carries the object's   *)
(* mark (a name, an ownership comment), the object's status tracks its id. *)
(*                                                                         *)
(* The promise: only the controller of a living object puts the mark on a  *)
(* resource; it deletes one only while its object is being deleted; and it *)
(* lets the object go only when the resource that the status tracks does   *)
(* not carry the mark any more.  Others may remove resources and marks at  *)
(* any time, and each time they do it is counted as a fault.               *)
(***************************************************************************)
EXTENDS Naturals

CONSTANTS
    Objects,  \* the Kubernetes objects
    Ids       \* the ids of resources at Cloudflare

VARIABLES
    life,     \* life of each object
    tracked,  \* the ids in the status of each object
    marked,   \* the resources that carry the mark of each object
    faults    \* what went wrong or was done by others so far

vars == <<life, tracked, marked, faults>>

Init ==
    /\ life = [o \in Objects |-> "absent"]
    /\ tracked = [o \in Objects |-> {}]
    /\ marked \in [Objects -> SUBSET Ids]
    /\ faults = 0

\* The object is applied, gets its finalizer, is deleted.
LifeSteps == {<<"absent", "new">>, <<"new", "live">>, <<"new", "gone">>,
              <<"live", "deleting">>}

Live(o) ==
    /\ \E l \in {"new", "live", "deleting", "gone"} :
          /\ <<life[o], l>> \in LifeSteps
          /\ life' = [life EXCEPT ![o] = l]
    /\ UNCHANGED <<tracked, marked, faults>>

\* A resource is created, or written with the mark it should have.  Two come
\* into being when the client repeats a request that had been carried out.
Mark(o) ==
    /\ life[o] \in {"live", "deleting"}
    /\ \/ /\ \E i \in Ids : marked' = [marked EXCEPT ![o] = @ \cup {i}]
          /\ UNCHANGED faults
       \/ /\ \E i, j \in Ids : marked' = [marked EXCEPT ![o] = @ \cup {i, j}]
          /\ faults' = faults + 1
    /\ UNCHANGED <<life, tracked>>

\* The status is written.
Track(o) ==
    /\ life[o] \in {"live", "deleting"}
    /\ \E ids \in SUBSET Ids : tracked' = [tracked EXCEPT ![o] = ids]
    /\ UNCHANGED <<life, marked, faults>>

Remove(o) ==
    /\ life[o] = "deleting"
    /\ \E i \in Ids : marked' = [marked EXCEPT ![o] = @ \ {i}]
    /\ UNCHANGED <<life, tracked, faults>>

Finish(o) ==
    /\ life[o] = "deleting"
    /\ tracked[o] \cap marked[o] = {}
    /\ life' = [life EXCEPT ![o] = "gone"]
    /\ UNCHANGED <<tracked, marked, faults>>

Others ==
    /\ \A o \in Objects : marked'[o] \subseteq marked[o]
    /\ marked' \in [Objects -> SUBSET Ids]
    /\ faults' = faults + 1
    /\ UNCHANGED <<life, tracked>>

Next ==
    \/ \E o \in Objects : Live(o) \/ Mark(o) \/ Track(o) \/ Remove(o) \/ Finish(o)
    \/ Others

Spec == Init /\ [][Next]_vars
=============================================================================
