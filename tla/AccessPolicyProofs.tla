------------------------- MODULE AccessPolicyProofs -------------------------
(***************************************************************************)
(* Proofs about AccessPolicy, for every set of Exposures, specs and policy *)
(* ids and any number of edits and faults.                                 *)
(***************************************************************************)
EXTENDS AccessPolicy, FiniteSetTheorems, TLAPS

-----------------------------------------------------------------------------
(* The inductive invariant.                                                *)

\* The ids the status or the pass under way holds.
HeldIds == pid \cup UNION {p.id : p \in ppass}

\* The policies that have the name, or that the controller may write it to.
ClaimedIds == {p.id : p \in Own} \cup {p.id : p \in Tracked(HeldIds)}

OnePass == \A p, q \in ppass : p = q

\* Ids are assigned once.
IdsUnique ==
    /\ \A p, q \in policies : p.id = q.id => p = q
    /\ \A p \in policies : p.id \in used

\* What is known of the object and its status at each step of a pass.
PassKnows ==
    /\ pobj \in {"absent", "new"} => pid = {} /\ ~pready
    /\ pobj \in {"absent", "new", "gone"} => ppass = {}
    /\ \A p \in ppass :
          /\ p.at \in {"list", "create"} => pid = {} /\ p.id = {}
          /\ p.at = "create" => Own = {}
          /\ p.at \in {"get", "update", "finGet", "finDelete"} => p.id = pid
          /\ p.at \in {"finGet", "finDelete", "finDrop"} => pobj = "deleting"

ClaimsBounded ==
    /\ IsFiniteSet(ClaimedIds)
    /\ Cardinality(ClaimedIds) <= 1 + repeats

\* Past the deletion, nothing of the name is left of the tracked policy.
DroppedLast ==
    pobj = "gone" \/ (\E p \in ppass : p.at = "finDrop") =>
        \A q \in Tracked(pid) : ~q.own

\* What a pass is about to report is the case.
SavesTruth ==
    faults = 0 /\ pobj = "live" =>
        \A q \in ppass : q.at = "save" /\ q.ready =>
            \E p \in Tracked(q.id) :
                p.own /\ p.spec \in Specs /\ q.hash = {RulesHash[p.spec]}

Beliefs ==
    /\ OnePass /\ IdsUnique /\ PassKnows /\ ClaimsBounded
    /\ DroppedLast /\ SavesTruth /\ ReadyMeansApplied

PolicyInv == TypeOK /\ Beliefs

-----------------------------------------------------------------------------
(* Types.                                                                  *)

\* A step of a pass has the type of a step.
LEMMA StepsType ==
    /\ "list" \in PolicySteps /\ "match" \in PolicySteps
    /\ "create" \in PolicySteps /\ "get" \in PolicySteps
    /\ "update" \in PolicySteps /\ "save" \in PolicySteps
    /\ "finGet" \in PolicySteps /\ "finDelete" \in PolicySteps
    /\ "finDrop" \in PolicySteps
BY DEF PolicySteps

\* The fields of a pass.
LEMMA PassFields ==
    ASSUME NEW p \in PolicyPass
    PROVE  /\ p.spec \in Specs /\ p.id \in SUBSET PolicyIds
           /\ p.hash \in SUBSET Hashes /\ p.ready \in BOOLEAN
           /\ p.at \in PolicySteps
           /\ RulesHash[p.spec] \in Hashes
           /\ {RulesHash[p.spec]} \in SUBSET Hashes
<1>1. /\ p.spec \in Specs /\ p.id \in SUBSET PolicyIds
      /\ p.hash \in SUBSET Hashes /\ p.ready \in BOOLEAN /\ p.at \in PolicySteps
      BY DEF PolicyPass
<1>2. RulesHash[p.spec] \in Hashes
      BY <1>1 DEF Hashes
<1> QED BY <1>1, <1>2

\* A pass that begins with what it read of the object.
LEMMA StartType ==
    ASSUME NEW step \in PolicySteps, NEW s \in Specs, NEW id \in SUBSET PolicyIds,
           NEW hash \in SUBSET Hashes
    PROVE  {[at |-> step, spec |-> s, id |-> id, hash |-> hash, ready |-> FALSE]}
             \subseteq PolicyPass
BY DEF PolicyPass

\* A pass that goes on to another step.
LEMMA GoToType ==
    ASSUME NEW p \in PolicyPass, NEW step \in PolicySteps, GoTo(p, step)
    PROVE  /\ ppass' \subseteq PolicyPass
           /\ \E q : ppass' = {q} /\ q.at = step /\ q.id = p.id
BY DEF GoTo, PolicyPass

\* A pass that goes on with the policy it found.
LEMMA FoundType ==
    ASSUME NEW p \in PolicyPass, NEW i \in PolicyIds,
           ppass' = {[p EXCEPT !.at = "match", !.id = {i}]}
    PROVE  /\ ppass' \subseteq PolicyPass
           /\ \E q : ppass' = {q} /\ q.at = "match" /\ q.id = {i}
<1> DEFINE q == [p EXCEPT !.at = "match", !.id = {i}]
<1>1. q \in PolicyPass
      BY StepsType DEF PolicyPass
<1>2. q.at = "match" /\ q.id = {i}
      BY DEF PolicyPass
<1>3. ppass' = {q}
      OBVIOUS
<1> HIDE DEF q
<1> QED BY <1>1, <1>2, <1>3

\* A pass that goes on to save that the policy is as the spec says.
LEMMA ReconciledType ==
    ASSUME NEW p \in PolicyPass, NEW id \in SUBSET PolicyIds, Reconciled(p, id)
    PROVE  /\ ppass' \subseteq PolicyPass
           /\ \E q : /\ ppass' = {q} /\ q.at = "save" /\ q.id = id
                     /\ q.hash = {RulesHash[p.spec]} /\ q.ready
<1> DEFINE q == [p EXCEPT !.at = "save", !.id = id,
                          !.hash = {RulesHash[p.spec]}, !.ready = TRUE]
<1>1. {RulesHash[p.spec]} \in SUBSET Hashes
      BY PassFields
<1>2. q \in PolicyPass
      BY <1>1, StepsType DEF PolicyPass
<1>3. q.at = "save" /\ q.id = id /\ q.hash = {RulesHash[p.spec]} /\ q.ready
      BY DEF PolicyPass
<1>4. ppass' = {q}
      BY DEF Reconciled
<1> HIDE DEF q
<1> QED BY <1>2, <1>3, <1>4

\* A pass that goes on to save that it is not.
LEMMA NotReadyType ==
    ASSUME NEW p \in PolicyPass, NEW id \in SUBSET PolicyIds,
           NEW hash \in SUBSET Hashes, NotReady(p, id, hash)
    PROVE  /\ ppass' \subseteq PolicyPass
           /\ \E q : ppass' = {q} /\ q.at = "save" /\ q.id = id /\ ~q.ready
<1> DEFINE q == [p EXCEPT !.at = "save", !.id = id, !.hash = hash, !.ready = FALSE]
<1>1. q \in PolicyPass
      BY StepsType DEF PolicyPass
<1>2. q.at = "save" /\ q.id = id /\ ~q.ready
      BY DEF PolicyPass
<1>3. ppass' = {q}
      BY DEF NotReady
<1> HIDE DEF q
<1> QED BY <1>1, <1>2, <1>3

\* A fault is counted, within the bound.
LEMMA FaultType ==
    ASSUME faults \in 0..MaxFaults, repeats \in 0..faults, Fault
    PROVE  faults' \in 0..MaxFaults /\ faults' # 0 /\ repeats \in 0..faults'
BY PolicyAssumption DEF Fault

\* The policies that the controller writes are policies.
LEMMA MadeType ==
    ASSUME NEW i \in PolicyIds, NEW s \in Specs
    PROVE  Made(i, s) \in Policy
BY DEF Made, Policy

\* An update keeps the ids, and makes what it writes to the controller's own.
LEMMA UpdateEffect ==
    ASSUME policies \subseteq Policy, NEW ids \in SUBSET PolicyIds,
           NEW s \in Specs, Update(ids, s)
    PROVE  /\ policies' \subseteq Policy
           /\ \A q \in policies' : \E p \in policies :
                 q.id = p.id /\ q = IF p.id \in ids THEN Made(p.id, s) ELSE p
           /\ \A p \in policies : p.id \in ids => Made(p.id, s) \in policies'
<1>1. \A p \in policies : p.id \in PolicyIds /\ p \in Policy
      BY DEF Policy
<1>2. \A i : Made(i, s).id = i
      BY DEF Made
<1>3. \A q \in policies' : \E p \in policies :
          q = IF p.id \in ids THEN Made(p.id, s) ELSE p
      BY DEF Update
<1>4. \A q \in policies' : \E p \in policies :
          q.id = p.id /\ q = IF p.id \in ids THEN Made(p.id, s) ELSE p
      BY <1>2, <1>3
<1>5. policies' \subseteq Policy
      BY <1>1, <1>3, MadeType
<1>6. \A p \in policies : p.id \in ids => Made(p.id, s) \in policies'
      BY DEF Update
<1> QED BY <1>4, <1>5, <1>6

\* Others keep the ids too, and give no policy the controller's name.
LEMMA MeddleEffect ==
    ASSUME policies \subseteq Policy, Meddle, IdsUnique
    PROVE  /\ policies' \subseteq Policy
           /\ \A q \in policies' : \E p \in policies :
                 q.id = p.id /\ (q.own => p.own)
           /\ \A q, r \in policies' : q.id = r.id => q = r
<1>1. PICK p \in policies :
          \/ \E s \in Specs \cup {Unsupported} :
                policies' = (policies \ {p}) \cup {[p EXCEPT !.spec = s]}
          \/ policies' = (policies \ {p}) \cup {[p EXCEPT !.own = FALSE]}
          \/ policies' = policies \ {p}
      BY DEF Meddle
<1>2. ASSUME NEW r, r \in Policy, r.id = p.id, r.own => p.own,
             policies' = (policies \ {p}) \cup {r}
      PROVE  /\ policies' \subseteq Policy
             /\ \A q \in policies' : \E t \in policies :
                   q.id = t.id /\ (q.own => t.own)
             /\ \A q, t \in policies' : q.id = t.id => q = t
      BY <1>2 DEF IdsUnique
<1>3. CASE \E s \in Specs \cup {Unsupported} :
              policies' = (policies \ {p}) \cup {[p EXCEPT !.spec = s]}
      <2>1. PICK s \in Specs \cup {Unsupported} :
                policies' = (policies \ {p}) \cup {[p EXCEPT !.spec = s]}
            BY <1>3
      <2> DEFINE r == [p EXCEPT !.spec = s]
      <2>2. r \in Policy /\ r.id = p.id /\ r.own = p.own
            BY DEF Policy
      <2>3. policies' = (policies \ {p}) \cup {r}
            BY <2>1
      <2> HIDE DEF r
      <2> QED BY <1>2, <2>2, <2>3
<1>4. CASE policies' = (policies \ {p}) \cup {[p EXCEPT !.own = FALSE]}
      <2> DEFINE r == [p EXCEPT !.own = FALSE]
      <2>1. r \in Policy /\ r.id = p.id /\ ~r.own
            BY DEF Policy
      <2>2. policies' = (policies \ {p}) \cup {r}
            BY <1>4
      <2> HIDE DEF r
      <2> QED BY <1>2, <2>1, <2>2
<1>5. CASE policies' = policies \ {p}
      BY <1>5 DEF IdsUnique
<1> QED BY <1>1, <1>3, <1>4, <1>5

\* Every step keeps the types.
LEMMA TypeStep ==
    ASSUME TypeOK, IdsUnique, [Next]_vars
    PROVE  TypeOK'
<1> USE PolicyAssumption DEF TypeOK, pstatus, remote, exposing
<1>1. CASE UNCHANGED vars
      BY <1>1 DEF vars
<1>2. CASE AddFinalizer
      BY <1>2 DEF AddFinalizer
<1>3. CASE Begin
      <2>1. ppass' \subseteq PolicyPass
            BY <1>3, StartType, StepsType DEF Begin
      <2>2. faults' \in 0..MaxFaults /\ repeats \in 0..faults'
            BY <1>3, FaultType DEF Begin
      <2> QED BY <1>3, <2>1, <2>2 DEF Begin
<1>4. CASE Finalize
      <2>1. ppass' \subseteq PolicyPass
            BY <1>4, StartType, StepsType DEF Finalize, Blocked
      <2>2. pready' \in BOOLEAN /\ pcurrent' \in BOOLEAN
            BY <1>4, Zenon DEF Finalize, Blocked
      <2>3. UNCHANGED <<pid, phash>>
            BY <1>4 DEF Finalize, Blocked
      <2> QED BY <1>4, <2>1, <2>2, <2>3 DEF Finalize
<1>5. ASSUME NEW p \in ppass, ListPolicies(p) PROVE TypeOK'
      <2>1. ppass' \subseteq PolicyPass
            <3>1. CASE GoTo(p, "create")
                  BY <3>1, GoToType, StepsType
            <3>2. ASSUME NEW q \in Own,
                         ppass' = {[p EXCEPT !.at = "match", !.id = {q.id}]}
                  PROVE  ppass' \subseteq PolicyPass
                  <4>1. q.id \in PolicyIds
                        BY DEF Own, Policy
                  <4> QED BY <3>2, <4>1, FoundType
            <3> QED BY <1>5, <3>1, <3>2 DEF ListPolicies
      <2> QED BY <1>5, <2>1 DEF ListPolicies
<1>6. ASSUME NEW p \in ppass, MatchPolicy(p) PROVE TypeOK'
      <2>1. p \in PolicyPass /\ {RulesHash[p.spec]} \in SUBSET Hashes
            BY PassFields
      <2>2. \A q \in Tracked(p.id) : {q.id} \in SUBSET PolicyIds
            BY DEF Tracked, Policy
      <2>3. \/ ppass' = {} \/ NotReady(p, {}, {})
            \/ \E q \in Tracked(p.id) : Reconciled(p, {q.id})
            BY <1>6 DEF MatchPolicy
      <2>4. ppass' \subseteq PolicyPass
            BY <2>1, <2>2, <2>3, ReconciledType, NotReadyType
      <2> QED BY <1>6, <2>4 DEF MatchPolicy
<1>7. ASSUME NEW p \in ppass, CreatePolicy(p) PROVE TypeOK'
      <2>1. p \in PolicyPass /\ p.spec \in Specs /\ {RulesHash[p.spec]} \in SUBSET Hashes
            BY PassFields
      <2>2. PICK i \in PolicyIds :
                Create(p.spec, i) /\ Reconciled(p, {i})
            BY <1>7 DEF CreatePolicy
      <2>3. ppass' \subseteq PolicyPass
            BY <2>1, <2>2, ReconciledType, NotReadyType
      <2>4. policies' \subseteq Policy /\ used' \subseteq PolicyIds
            BY <2>1, <2>2, MadeType DEF Create, FreeIds
      <2>5. faults' \in 0..MaxFaults /\ repeats' \in 0..faults'
            BY <2>2 DEF Create, Fault
      <2> QED BY <1>7, <2>3, <2>4, <2>5 DEF CreatePolicy
<1>8. ASSUME NEW p \in ppass, GetPolicy(p) PROVE TypeOK'
      <2>1. /\ p \in PolicyPass /\ {RulesHash[p.spec]} \in SUBSET Hashes
            /\ p.id \in SUBSET PolicyIds /\ p.hash \in SUBSET Hashes
            BY PassFields
      <2>2. \/ GoTo(p, "update") \/ NotReady(p, {}, {})
            \/ NotReady(p, p.id, p.hash)
            \/ Reconciled(p, p.id)
            BY <1>8 DEF GetPolicy
      <2>3. ppass' \subseteq PolicyPass
            BY <2>1, <2>2, GoToType, ReconciledType, NotReadyType, StepsType
      <2> QED BY <1>8, <2>3 DEF GetPolicy
<1>9. ASSUME NEW p \in ppass, UpdatePolicy(p) PROVE TypeOK'
      <2>1. /\ p \in PolicyPass /\ {RulesHash[p.spec]} \in SUBSET Hashes
            /\ p.id \in SUBSET PolicyIds /\ p.spec \in Specs
            BY PassFields
      <2>2. ppass' \subseteq PolicyPass
            BY <1>9, <2>1, ReconciledType, NotReadyType DEF UpdatePolicy
      <2>3. policies' \subseteq Policy
            BY <1>9, <2>1, UpdateEffect DEF UpdatePolicy
      <2> QED BY <1>9, <2>2, <2>3 DEF UpdatePolicy
<1>10. ASSUME NEW p \in ppass, SetPolicyStatus(p) PROVE TypeOK'
      BY <1>10, PassFields DEF SetPolicyStatus
<1>11. ASSUME NEW p \in ppass, FinGetPolicy(p) PROVE TypeOK'
      <2>1. ppass' \subseteq PolicyPass
            BY <1>11, GoToType, StepsType DEF FinGetPolicy, Blocked
      <2>2. pready' \in BOOLEAN /\ pcurrent' \in BOOLEAN
            BY <1>11, Zenon DEF FinGetPolicy, Blocked
      <2>3. UNCHANGED <<pid, phash>>
            BY <1>11 DEF FinGetPolicy, Blocked
      <2>4. faults' \in 0..MaxFaults /\ repeats \in 0..faults'
            BY <1>11, FaultType DEF FinGetPolicy
      <2> QED BY <1>11, <2>1, <2>2, <2>3, <2>4 DEF FinGetPolicy
<1>12. ASSUME NEW p \in ppass, FinDeletePolicy(p) PROVE TypeOK'
      <2>1. ppass' \subseteq PolicyPass
            BY <1>12, GoToType, StepsType DEF FinDeletePolicy
      <2> QED BY <1>12, <2>1 DEF FinDeletePolicy, Delete
<1>13. ASSUME NEW p \in ppass, FinDropPolicy(p) PROVE TypeOK'
      BY <1>13 DEF FinDropPolicy
<1>14. ASSUME NEW e \in Exposures, ResolvePolicy(e) PROVE TypeOK'
      BY <1>14 DEF ResolvePolicy
<1>15. ASSUME NEW x \in epass, BindApplication(x) PROVE TypeOK'
      BY <1>15 DEF BindApplication
<1>16. CASE Apply
      BY <1>16 DEF Apply
<1>17. CASE EditSpec
      <2>1. spec' \in Specs /\ edits' \in 0..MaxEdits /\ pcurrent' = FALSE
            BY <1>17 DEF EditSpec
      <2> QED BY <1>17, <2>1 DEF EditSpec
<1>18. CASE DeletePolicy
      BY <1>18 DEF DeletePolicy
<1>19. ASSUME NEW e \in Exposures, EditRef(e) PROVE TypeOK'
      BY <1>19 DEF EditRef, Refs
<1>20. CASE Meddle
      <2>1. policies' \subseteq Policy
            BY <1>20, MeddleEffect
      <2>2. faults' \in 0..MaxFaults /\ repeats \in 0..faults'
            BY <1>20, FaultType DEF Meddle
      <2> QED BY <1>20, <2>1, <2>2 DEF Meddle
<1>21. CASE AbortPolicy
      BY <1>21, FaultType DEF AbortPolicy
<1>22. CASE AbortExposure
      BY <1>22, FaultType DEF AbortExposure
<1> QED BY <1>1, <1>2, <1>3, <1>4, <1>5, <1>6, <1>7, <1>8, <1>9, <1>10, <1>11,
           <1>12, <1>13, <1>14, <1>15, <1>16, <1>17, <1>18, <1>19, <1>20, <1>21,
           <1>22 DEF Next, PolicyStep

-----------------------------------------------------------------------------
(* The number of claimed policies.                                         *)

\* What it means for an id to be claimed.
LEMMA InClaimedIds ==
    ASSUME NEW i
    PROVE  i \in ClaimedIds <=>
             \E p \in policies : p.id = i /\ (p.own \/ p.id \in HeldIds)
BY DEF ClaimedIds, Own, Tracked

\* A step that claims no further policy keeps the bound.
LEMMA ClaimsShrink ==
    ASSUME TypeOK, ClaimsBounded, repeats' = repeats,
           \A q \in policies' : q.own \/ q.id \in HeldIds' =>
               \E p \in policies : p.id = q.id /\ (p.own \/ p.id \in HeldIds)
    PROVE  ClaimsBounded'
<1>1. \A i : i \in ClaimedIds' =>
          \E q \in policies' : q.id = i /\ (q.own \/ q.id \in HeldIds')
      BY DEF ClaimedIds, Own, Tracked
<1>2. ClaimedIds' \in SUBSET ClaimedIds
      BY <1>1, InClaimedIds
<1>3. /\ IsFiniteSet(ClaimedIds')
      /\ Cardinality(ClaimedIds') <= Cardinality(ClaimedIds)
      BY <1>2, FS_Subset DEF ClaimsBounded
<1>4. Cardinality(ClaimedIds) \in Nat /\ Cardinality(ClaimedIds') \in Nat
      BY <1>3, FS_CardinalityType DEF ClaimsBounded
<1>5. repeats \in Nat
      BY PolicyAssumption DEF TypeOK
<1> QED BY <1>3, <1>4, <1>5 DEF ClaimsBounded

\* There are no more policies of the name than claimed ids.
LEMMA OwnBounded ==
    ASSUME TypeOK, IdsUnique, ClaimsBounded
    PROVE  OneOwnPolicy
<1> DEFINE f == [p \in Own |-> p.id]
<1>1. f \in Injection(Own, ClaimedIds)
      BY DEF Injection, IsInjective, IdsUnique, Own, ClaimedIds
<1>2. Cardinality(Own) <= Cardinality(ClaimedIds) /\ IsFiniteSet(Own)
      BY <1>1, FS_Injection DEF ClaimsBounded
<1>3. Cardinality(Own) \in Nat /\ Cardinality(ClaimedIds) \in Nat /\ repeats \in Nat
      BY <1>2, FS_CardinalityType, PolicyAssumption DEF ClaimsBounded, TypeOK
<1> QED BY <1>2, <1>3 DEF ClaimsBounded, OneOwnPolicy

-----------------------------------------------------------------------------
(* Steps that leave Cloudflare alone.                                      *)

\* A step that touches neither the object, its status, the policies nor the
\* pass.
LEMMA QuietStep ==
    ASSUME PolicyInv,
           UNCHANGED <<pobj, pid, phash, pready, policies, used, repeats, ppass>>,
           faults' = faults \/ faults' # 0
    PROVE  Beliefs'
<1> USE DEF PolicyInv, Beliefs
<1>1. OnePass' /\ IdsUnique' /\ PassKnows' /\ DroppedLast'
      BY DEF OnePass, IdsUnique, PassKnows, DroppedLast, Own, Tracked
<1>2. ClaimsBounded'
      BY DEF ClaimsBounded, ClaimedIds, HeldIds, Own, Tracked
<1>3. SavesTruth' /\ ReadyMeansApplied'
      BY DEF SavesTruth, ReadyMeansApplied, Tracked
<1> QED BY <1>1, <1>2, <1>3

\* A pass that begins, or goes on to another step than the status write.
LEMMA PassMoves ==
    ASSUME PolicyInv, NEW q,
           pobj \in {"live", "deleting"},
           \A p \in ppass : p.at # "save",
           ppass' = {q},
           UNCHANGED <<pobj, pid, phash, pready, policies, used, repeats>>,
           faults' = faults \/ faults' # 0,
           q.id \subseteq HeldIds \cup {r.id : r \in Own},
           q.at \in {"list", "create"} => pid = {} /\ q.id = {},
           q.at = "create" => Own = {},
           q.at \in {"get", "update", "finGet", "finDelete"} => q.id = pid,
           q.at \in {"finGet", "finDelete", "finDrop"} => pobj = "deleting",
           q.at = "finDrop" => \A r \in Tracked(pid) : ~r.own,
           q.at = "save" /\ q.ready /\ faults' = 0 /\ pobj = "live" =>
               \E p \in Tracked(q.id) :
                   p.own /\ p.spec \in Specs /\ q.hash = {RulesHash[p.spec]}
    PROVE  Beliefs'
<1> USE DEF PolicyInv, Beliefs
<1>1. OnePass' /\ IdsUnique'
      BY DEF OnePass, IdsUnique
<1>2. PassKnows'
      BY DEF PassKnows, Own
<1>3. ClaimsBounded'
      <2>1. HeldIds' = pid \cup q.id
            BY DEF HeldIds
      <2>2. pid \subseteq HeldIds
            BY DEF HeldIds
      <2>3. ASSUME NEW r \in policies', r.own \/ r.id \in HeldIds'
            PROVE  \E p \in policies : p.id = r.id /\ (p.own \/ p.id \in HeldIds)
            BY <2>1, <2>2, <2>3 DEF Own
      <2> QED BY <2>3, ClaimsShrink
<1>4. DroppedLast'
      BY DEF DroppedLast, Tracked
<1>5. SavesTruth'
      BY DEF SavesTruth, Tracked
<1>6. ReadyMeansApplied'
      BY DEF ReadyMeansApplied, Tracked
<1> QED BY <1>1, <1>2, <1>3, <1>4, <1>5, <1>6

\* A pass that ends without a status write, or with Ready cleared.
LEMMA PassEnds ==
    ASSUME PolicyInv, ppass' = {},
           UNCHANGED <<pobj, pid, phash, policies, used, repeats>>,
           pready' => pready,
           faults' = faults \/ faults' # 0,
           faults' # 0 \/ \A p \in ppass : p.at # "save"
    PROVE  Beliefs'
<1> USE DEF PolicyInv, Beliefs
<1>1. OnePass' /\ IdsUnique' /\ SavesTruth'
      BY DEF OnePass, IdsUnique, SavesTruth
<1>2. PassKnows' /\ DroppedLast'
      BY DEF PassKnows, DroppedLast, Tracked
<1>3. ClaimsBounded'
      <2>1. HeldIds' \subseteq HeldIds
            BY DEF HeldIds
      <2> QED BY <2>1, ClaimsShrink
<1>4. ReadyMeansApplied'
      BY DEF ReadyMeansApplied, Tracked
<1> QED BY <1>1, <1>2, <1>3, <1>4

-----------------------------------------------------------------------------
(* One lemma per step that writes to Cloudflare, the status or the object. *)

\* What OnePass means for the pass that takes a step.
LEMMA ThePass ==
    ASSUME PolicyInv, NEW p \in ppass
    PROVE  /\ ppass = {p} /\ p \in PolicyPass
           /\ pobj \in {"live", "deleting"}
           /\ pid \subseteq HeldIds /\ p.id \subseteq HeldIds
BY DEF PolicyInv, Beliefs, OnePass, PassKnows, HeldIds, TypeOK

\* A Create happens when nothing is claimed, and claims what it makes.
LEMMA CreateStep ==
    ASSUME PolicyInv, NEW p \in ppass, CreatePolicy(p)
    PROVE  Beliefs'
<1> USE DEF PolicyInv, Beliefs
<1>1. /\ ppass = {p} /\ p \in PolicyPass /\ p.at = "create"
      /\ pid = {} /\ p.id = {} /\ Own = {}
      BY ThePass DEF CreatePolicy, PassKnows
<1>2. p.spec \in Specs /\ {RulesHash[p.spec]} \in SUBSET Hashes
      BY <1>1, PassFields
<1>3. PICK i \in PolicyIds :
          Create(p.spec, i) /\ Reconciled(p, {i})
      BY DEF CreatePolicy
<1>4. PICK q : /\ ppass' = {q} /\ q.at = "save" /\ q.id = {i}
               /\ q.hash = {RulesHash[p.spec]} /\ q.ready
      <2>1. {i} \in SUBSET PolicyIds
            OBVIOUS
      <2> QED BY <1>1, <1>3, <2>1, ReconciledType
<1>5. UNCHANGED <<pobj, pid, phash, pready>>
      BY DEF CreatePolicy, pstatus
<1>6. PICK j \in PolicyIds :
          /\ i \notin used /\ j \notin used
          /\ policies' = policies \cup {Made(j, p.spec), Made(i, p.spec)}
          /\ used' = used \cup {j, i}
          /\ \/ j = i /\ repeats' = repeats /\ faults' = faults
             \/ j # i /\ repeats' = repeats + 1 /\ faults' # 0
      <2>1. CASE /\ NextId(i) /\ policies' = policies \cup {Made(i, p.spec)}
                 /\ used' = used \cup {i} /\ repeats' = repeats /\ faults' = faults
            BY <2>1 DEF NextId, FreeIds
      <2>2. CASE /\ Fault /\ repeats' = repeats + 1 /\ i \in FreeIds
                 /\ \E j \in FreeIds \ {i} :
                       /\ policies' = policies \cup {Made(j, p.spec), Made(i, p.spec)}
                       /\ used' = used \cup {j, i}
            BY <2>2, PolicyAssumption DEF FreeIds, Fault, TypeOK
      <2> QED BY <1>3, <2>1, <2>2 DEF Create
<1>7. /\ Made(i, p.spec).id = i /\ Made(j, p.spec).id = j
      /\ Made(i, p.spec).own /\ Made(i, p.spec).spec = p.spec
      BY DEF Made
<1>8. OnePass' /\ IdsUnique'
      BY <1>4, <1>6, <1>7 DEF OnePass, IdsUnique
<1>9. PassKnows'
      BY <1>1, <1>4, <1>5, ThePass DEF PassKnows
<1>10. ClaimsBounded'
      <2>1. HeldIds' = {i}
            BY <1>1, <1>4, <1>5 DEF HeldIds
      <2>2. ClaimedIds' \in SUBSET {j, i}
            BY <1>1, <1>6, <1>7, <2>1 DEF ClaimedIds, Own, Tracked, IdsUnique
      <2>3. /\ IsFiniteSet({j, i})
            /\ Cardinality({j, i}) <= IF j = i THEN 1 ELSE 2
            <3>1. IsFiniteSet({j}) /\ Cardinality({j}) = 1
                  BY FS_Singleton
            <3>2. {j, i} = {j} \cup {i}
                  OBVIOUS
            <3>3. /\ IsFiniteSet({j} \cup {i})
                  /\ Cardinality({j} \cup {i}) =
                        IF i \in {j} THEN Cardinality({j}) ELSE Cardinality({j}) + 1
                  BY <3>1, FS_AddElement
            <3> QED BY <3>1, <3>2, <3>3
      <2>4. /\ IsFiniteSet(ClaimedIds')
            /\ Cardinality(ClaimedIds') <= Cardinality({j, i})
            BY <2>2, <2>3, FS_Subset
      <2>5. Cardinality(ClaimedIds') \in Nat /\ Cardinality({j, i}) \in Nat
            BY <2>3, <2>4, FS_CardinalityType
      <2>6. repeats \in Nat
            BY PolicyAssumption DEF TypeOK
      <2> QED BY <1>6, <2>3, <2>4, <2>5, <2>6 DEF ClaimsBounded
<1>11. DroppedLast'
      BY <1>1, <1>4, <1>5, ThePass DEF DroppedLast
<1>12. SavesTruth'
      <2>1. Made(i, p.spec) \in policies'
            BY <1>6
      <2> QED BY <1>2, <1>4, <1>7, <2>1 DEF SavesTruth, Tracked
<1>13. ReadyMeansApplied'
      <2>1. ASSUME faults' = 0, pready', pobj' = "live" PROVE FALSE
            <3>1. faults = 0 /\ pready /\ pobj = "live"
                  BY <1>5, <1>6, <2>1
            <3> QED BY <1>1, <3>1 DEF ReadyMeansApplied, Tracked
      <2> QED BY <2>1 DEF ReadyMeansApplied
<1> QED BY <1>8, <1>9, <1>10, <1>11, <1>12, <1>13

\* An update writes to the tracked policy, which is claimed already.
LEMMA UpdateStep ==
    ASSUME PolicyInv, NEW p \in ppass, UpdatePolicy(p)
    PROVE  Beliefs'
<1> USE DEF PolicyInv, Beliefs
<1>1. /\ ppass = {p} /\ p \in PolicyPass /\ p.at = "update" /\ p.id = pid
      /\ pid \subseteq HeldIds
      BY ThePass DEF UpdatePolicy, PassKnows
<1>2. /\ p.spec \in Specs /\ {RulesHash[p.spec]} \in SUBSET Hashes
      /\ p.id \in SUBSET PolicyIds
      BY <1>1, PassFields
<1>3. UNCHANGED <<pobj, pid, phash, pready, used, repeats, faults>>
      BY DEF UpdatePolicy, pstatus
<1>4. CASE ppass' = {} /\ UNCHANGED policies
      BY <1>1, <1>3, <1>4, PassEnds
<1>5. CASE Update(p.id, p.spec) /\ Reconciled(p, p.id)
      <2>1. PICK q : /\ ppass' = {q} /\ q.at = "save" /\ q.id = pid
                     /\ q.hash = {RulesHash[p.spec]} /\ q.ready
            BY <1>1, <1>2, <1>5, ReconciledType
      <2>2. /\ \A r \in policies' : \E t \in policies :
                  /\ r.id = t.id
                  /\ r = IF t.id \in pid THEN Made(t.id, p.spec) ELSE t
            /\ \A t \in policies : t.id \in pid => Made(t.id, p.spec) \in policies'
            BY <1>1, <1>2, <1>5, UpdateEffect DEF TypeOK
      <2>3. \A i : /\ Made(i, p.spec).id = i /\ Made(i, p.spec).own
                   /\ Made(i, p.spec).spec = p.spec
            BY DEF Made
      <2>4. OnePass' /\ IdsUnique'
            BY <1>3, <2>1, <2>2 DEF OnePass, IdsUnique
      <2>5. PassKnows'
            BY <1>3, <2>1, ThePass DEF PassKnows
      <2>6. ClaimsBounded'
            <3>1. HeldIds' = pid
                  BY <1>3, <2>1 DEF HeldIds
            <3>2. ASSUME NEW r \in policies', r.own \/ r.id \in HeldIds'
                  PROVE  \E t \in policies : t.id = r.id /\ (t.own \/ t.id \in HeldIds)
                  BY <1>1, <2>2, <3>1, <3>2
            <3> QED BY <1>3, <3>2, ClaimsShrink
      <2>7. DroppedLast'
            BY <1>3, <2>1, ThePass DEF DroppedLast
      <2>8. PICK t \in policies : t.id \in pid
            BY <1>1, <2>1 DEF UpdatePolicy, Tracked
      <2>9. /\ Made(t.id, p.spec) \in Tracked(pid)'
            /\ Made(t.id, p.spec) \in Tracked(q.id)'
            BY <1>3, <2>1, <2>2, <2>3, <2>8 DEF Tracked
      <2>10. SavesTruth' /\ ReadyMeansApplied'
            BY <1>2, <2>1, <2>3, <2>9 DEF SavesTruth, ReadyMeansApplied
      <2> QED BY <2>4, <2>5, <2>6, <2>7, <2>10
<1> QED BY <1>4, <1>5 DEF UpdatePolicy

\* The status takes over the ids the pass held.
LEMMA SaveStep ==
    ASSUME PolicyInv, NEW p \in ppass, SetPolicyStatus(p)
    PROVE  Beliefs'
<1> USE DEF PolicyInv, Beliefs
<1>1. /\ ppass = {p} /\ p.at = "save" /\ p.id \subseteq HeldIds
      /\ pobj \in {"live", "deleting"}
      BY ThePass DEF SetPolicyStatus
<1>2. /\ pid' = p.id /\ phash' = p.hash /\ pready' = p.ready /\ ppass' = {}
      /\ UNCHANGED <<pobj, policies, used, repeats, faults>>
      BY DEF SetPolicyStatus, remote
<1>3. OnePass' /\ IdsUnique' /\ PassKnows' /\ SavesTruth'
      BY <1>1, <1>2 DEF OnePass, IdsUnique, PassKnows, SavesTruth
<1>4. ClaimsBounded'
      <2>1. HeldIds' \subseteq HeldIds
            BY <1>1, <1>2 DEF HeldIds
      <2> QED BY <1>2, <2>1, ClaimsShrink
<1>5. DroppedLast'
      BY <1>1, <1>2 DEF DroppedLast
<1>6. ReadyMeansApplied'
      BY <1>1, <1>2 DEF SavesTruth, ReadyMeansApplied, Tracked
<1> QED BY <1>3, <1>4, <1>5, <1>6

\* The tracked policy is deleted before the finalizer goes.
LEMMA DeleteStep ==
    ASSUME PolicyInv, NEW p \in ppass, FinDeletePolicy(p)
    PROVE  Beliefs'
<1> USE DEF PolicyInv, Beliefs
<1>1. /\ ppass = {p} /\ p \in PolicyPass /\ p.at = "finDelete" /\ p.id = pid
      /\ pid \subseteq HeldIds /\ pobj = "deleting"
      BY ThePass DEF FinDeletePolicy, PassKnows
<1>2. PICK q : ppass' = {q} /\ q.at = "finDrop" /\ q.id = pid
      BY <1>1, GoToType, StepsType DEF FinDeletePolicy
<1>3. /\ policies' = {r \in policies : r.id \notin pid}
      /\ UNCHANGED <<pobj, pid, phash, pready, used, repeats, faults>>
      BY <1>1 DEF FinDeletePolicy, Delete, pstatus
<1>4. OnePass' /\ IdsUnique' /\ PassKnows' /\ SavesTruth' /\ ReadyMeansApplied'
      BY <1>1, <1>2, <1>3
         DEF OnePass, IdsUnique, PassKnows, SavesTruth, ReadyMeansApplied
<1>5. ClaimsBounded'
      <2>1. HeldIds' \subseteq HeldIds
            BY <1>1, <1>2, <1>3 DEF HeldIds
      <2> QED BY <1>3, <2>1, ClaimsShrink
<1>6. DroppedLast'
      BY <1>3 DEF DroppedLast, Tracked
<1> QED BY <1>4, <1>5, <1>6

\* Others may take the name from a policy and not give it to one.
LEMMA MeddleStep ==
    ASSUME PolicyInv, Meddle
    PROVE  Beliefs'
<1> USE DEF PolicyInv, Beliefs
<1>1. /\ UNCHANGED <<pobj, pid, phash, pready, used, repeats, ppass>>
      /\ faults' # 0
      BY FaultType DEF Meddle, pstatus, TypeOK
<1>2. /\ \A q \in policies' : \E p \in policies : q.id = p.id /\ (q.own => p.own)
      /\ \A q, r \in policies' : q.id = r.id => q = r
      BY MeddleEffect DEF TypeOK
<1>3. OnePass' /\ IdsUnique' /\ SavesTruth' /\ ReadyMeansApplied'
      BY <1>1, <1>2 DEF OnePass, IdsUnique, SavesTruth, ReadyMeansApplied
<1>4. PassKnows'
      <2>1. Own = {} => Own' = {}
            BY <1>2 DEF Own
      <2> QED BY <1>1, <2>1 DEF PassKnows
<1>5. ClaimsBounded'
      <2>1. HeldIds' = HeldIds
            BY <1>1 DEF HeldIds
      <2> QED BY <1>1, <1>2, <2>1, ClaimsShrink
<1>6. DroppedLast'
      <2>1. (\A q \in Tracked(pid) : ~q.own) => (\A q \in Tracked(pid)' : ~q.own)
            BY <1>1, <1>2 DEF Tracked, IdsUnique
      <2> QED BY <1>1, <2>1 DEF DroppedLast
<1> QED BY <1>3, <1>4, <1>5, <1>6

\* The object is applied, given its finalizer, deleted or let go.
LEMMA ObjectStep ==
    ASSUME PolicyInv,
           \/ Apply \/ AddFinalizer \/ DeletePolicy
           \/ \E p \in ppass : FinDropPolicy(p)
    PROVE  Beliefs'
<1> USE DEF PolicyInv, Beliefs
<1>1. UNCHANGED <<pid, phash, pready, policies, used, repeats, faults>>
      BY DEF Apply, AddFinalizer, DeletePolicy, FinDropPolicy, pstatus, remote
<1>2. CASE Apply \/ AddFinalizer \/ DeletePolicy
      <2>1. /\ ppass' = ppass
            /\ \/ pobj = "absent" /\ pobj' = "new"
               \/ pobj = "new" /\ pobj' = "live"
               \/ pobj = "new" /\ pobj' = "gone"
               \/ pobj = "live" /\ pobj' = "deleting"
            BY <1>2 DEF Apply, AddFinalizer, DeletePolicy
      <2>2. OnePass' /\ IdsUnique'
            BY <1>1, <2>1 DEF OnePass, IdsUnique
      <2>3. PassKnows'
            BY <1>1, <2>1 DEF PassKnows, Own
      <2>4. ClaimsBounded'
            <3>1. HeldIds' = HeldIds
                  BY <1>1, <2>1 DEF HeldIds
            <3> QED BY <1>1, <3>1, ClaimsShrink
      <2>5. DroppedLast'
            BY <1>1, <2>1 DEF DroppedLast, PassKnows, Tracked
      <2>6. SavesTruth'
            BY <1>1, <2>1 DEF SavesTruth, PassKnows
      <2>7. pobj' = "live" => ~pready
            BY <2>1 DEF PassKnows, ReadyMeansApplied
      <2>8. ReadyMeansApplied'
            BY <1>1, <2>7 DEF ReadyMeansApplied
      <2> QED BY <2>2, <2>3, <2>4, <2>5, <2>6, <2>8
<1>3. ASSUME NEW p \in ppass, FinDropPolicy(p) PROVE Beliefs'
      <2>1. /\ p.at = "finDrop" /\ ppass = {p} /\ p.id \subseteq HeldIds
            /\ pobj' = "gone" /\ ppass' = {}
            BY <1>3, ThePass DEF FinDropPolicy
      <2>2. OnePass' /\ IdsUnique' /\ PassKnows' /\ SavesTruth' /\ ReadyMeansApplied'
            BY <1>1, <2>1
               DEF OnePass, IdsUnique, PassKnows, SavesTruth, ReadyMeansApplied
      <2>3. ClaimsBounded'
            <3>1. HeldIds' \subseteq HeldIds
                  BY <1>1, <2>1 DEF HeldIds
            <3> QED BY <1>1, <3>1, ClaimsShrink
      <2>4. DroppedLast'
            BY <1>1, <2>1 DEF DroppedLast, Tracked
      <2> QED BY <2>2, <2>3, <2>4
<1> QED BY <1>2, <1>3

-----------------------------------------------------------------------------
(* The steps of a pass that only read.                                     *)

\* A pass starts from what the status holds.
LEMMA BeginStep ==
    ASSUME PolicyInv, Begin
    PROVE  Beliefs'
<1>1. /\ ppass = {} /\ pobj = "live"
      /\ UNCHANGED <<pobj, pid, phash, pready, policies, used, repeats>>
      BY DEF Begin, pstatus, remote
<1>2. faults' = faults \/ faults' # 0
      BY FaultType DEF Begin, PolicyInv, TypeOK
<1>3. PICK step : /\ step \in {"list", "get", "save"} /\ (step = "list" => pid = {})
                  /\ ppass' = {[at |-> step, spec |-> spec, id |-> pid,
                                hash |-> phash, ready |-> FALSE]}
      BY DEF Begin
<1> DEFINE q == [at |-> step, spec |-> spec, id |-> pid, hash |-> phash,
                 ready |-> FALSE]
<1>4. q.at = step /\ q.id = pid /\ ~q.ready /\ ppass' = {q}
      BY <1>3
<1> HIDE DEF q
<1>5. q.id \subseteq HeldIds
      BY <1>4 DEF HeldIds
<1> QED BY <1>1, <1>2, <1>3, <1>4, <1>5, PassMoves

\* A listed policy of the name is claimed; Create is reached only without one.
LEMMA ListStep ==
    ASSUME PolicyInv, NEW p \in ppass, ListPolicies(p)
    PROVE  Beliefs'
<1>1. /\ ppass = {p} /\ p \in PolicyPass /\ p.at = "list"
      /\ pobj \in {"live", "deleting"} /\ pid = {} /\ p.id = {}
      /\ UNCHANGED <<pobj, pid, phash, pready, policies, used, repeats, faults>>
      BY ThePass DEF ListPolicies, PolicyInv, Beliefs, PassKnows, pstatus, remote
<1>2. CASE Own = {} /\ GoTo(p, "create")
      <2>1. PICK q : ppass' = {q} /\ q.at = "create" /\ q.id = p.id
            BY <1>1, <1>2, GoToType, StepsType
      <2> QED BY <1>1, <1>2, <2>1, PassMoves
<1>3. ASSUME NEW r \in Own, ppass' = {[p EXCEPT !.at = "match", !.id = {r.id}]}
      PROVE  Beliefs'
      <2>1. r.id \in PolicyIds
            BY DEF Own, Policy, PolicyInv, TypeOK
      <2>2. PICK q : ppass' = {q} /\ q.at = "match" /\ q.id = {r.id}
            BY <1>1, <1>3, <2>1, FoundType
      <2>3. q.id \subseteq HeldIds \cup {t.id : t \in Own}
            BY <2>2
      <2> QED BY <1>1, <2>2, <2>3, PassMoves
<1> QED BY <1>2, <1>3 DEF ListPolicies

\* A recovered policy is at Cloudflare with the rules about to be saved.
LEMMA MatchStep ==
    ASSUME PolicyInv, NEW p \in ppass, MatchPolicy(p)
    PROVE  Beliefs'
<1>1. /\ ppass = {p} /\ p \in PolicyPass /\ p.at = "match"
      /\ pobj \in {"live", "deleting"} /\ p.id \subseteq HeldIds
      /\ UNCHANGED <<pobj, pid, phash, pready, policies, used, repeats, faults>>
      BY ThePass DEF MatchPolicy, pstatus, remote
<1>2. CASE ppass' = {}
      BY <1>1, <1>2, PassEnds
<1>3. CASE NotReady(p, {}, {})
      <2>1. PICK q : ppass' = {q} /\ q.at = "save" /\ q.id = {} /\ ~q.ready
            BY <1>1, <1>3, NotReadyType
      <2> QED BY <1>1, <2>1, PassMoves
<1>4. ASSUME NEW r \in Tracked(p.id), Matches(r, p.spec), Reconciled(p, {r.id})
      PROVE  Beliefs'
      <2>1. {r.id} \in SUBSET PolicyIds /\ {r.id} \subseteq p.id /\ r \in Tracked({r.id})
            BY DEF Tracked, Policy, PolicyInv, TypeOK
      <2>2. PICK q : /\ ppass' = {q} /\ q.at = "save" /\ q.id = {r.id}
                     /\ q.hash = {RulesHash[p.spec]} /\ q.ready
            BY <1>1, <1>4, <2>1, ReconciledType
      <2>3. r.own /\ r.spec \in Specs /\ q.hash = {RulesHash[r.spec]}
            BY <1>1, <1>4, <2>2, PassFields DEF Matches
      <2>4. q.id \subseteq HeldIds \cup {t.id : t \in Own}
            BY <1>1, <2>1, <2>2
      <2>5. \E t \in Tracked(q.id) :
                t.own /\ t.spec \in Specs /\ q.hash = {RulesHash[t.spec]}
            BY <2>1, <2>2, <2>3
      <2>6. /\ q.at = "save" /\ ppass' = {q}
            /\ \A t \in ppass : t.at # "save"
            BY <1>1, <2>2
      <2> QED BY <1>1, <2>4, <2>5, <2>6, PassMoves
<1> QED BY <1>2, <1>3, <1>4 DEF MatchPolicy

\* The pass keeps the id of the status, unless the policy is gone.
LEMMA GetStep ==
    ASSUME PolicyInv, NEW p \in ppass, GetPolicy(p)
    PROVE  Beliefs'
<1>1. /\ ppass = {p} /\ p \in PolicyPass /\ p.at = "get" /\ p.id = pid
      /\ pobj \in {"live", "deleting"} /\ p.id \subseteq HeldIds
      /\ UNCHANGED <<pobj, pid, phash, pready, policies, used, repeats, faults>>
      BY ThePass DEF GetPolicy, PolicyInv, Beliefs, PassKnows, pstatus, remote
<1>2. p.id \in SUBSET PolicyIds /\ p.hash \in SUBSET Hashes
      BY <1>1, PassFields
<1>3. CASE NotReady(p, {}, {})
      <2>1. PICK q : ppass' = {q} /\ q.at = "save" /\ q.id = {} /\ ~q.ready
            BY <1>1, <1>3, NotReadyType
      <2> QED BY <1>1, <2>1, PassMoves
<1>4. CASE NotReady(p, p.id, p.hash)
      <2>1. PICK q : ppass' = {q} /\ q.at = "save" /\ q.id = p.id /\ ~q.ready
            BY <1>1, <1>2, <1>4, NotReadyType
      <2>2. q.id \subseteq HeldIds
            BY <1>1, <2>1
      <2> QED BY <1>1, <2>1, <2>2, PassMoves
<1>5. CASE GoTo(p, "update")
      <2>1. PICK q : ppass' = {q} /\ q.at = "update" /\ q.id = p.id
            BY <1>1, <1>5, GoToType, StepsType
      <2>2. q.id \subseteq HeldIds
            BY <1>1, <2>1
      <2> QED BY <1>1, <2>1, <2>2, PassMoves
<1>6. ASSUME NEW r \in Tracked(p.id), Matches(r, p.spec), Reconciled(p, p.id)
      PROVE  Beliefs'
      <2>1. PICK q : /\ ppass' = {q} /\ q.at = "save" /\ q.id = p.id
                     /\ q.hash = {RulesHash[p.spec]} /\ q.ready
            BY <1>1, <1>2, <1>6, ReconciledType
      <2>2. r.own /\ r.spec \in Specs /\ q.hash = {RulesHash[r.spec]}
            BY <1>1, <1>6, <2>1, PassFields DEF Matches
      <2>3. q.id \subseteq HeldIds /\ r \in Tracked(q.id)
            BY <1>1, <2>1
      <2> QED BY <1>1, <2>1, <2>2, <2>3, PassMoves
<1> QED BY <1>3, <1>4, <1>5, <1>6 DEF GetPolicy

\* The finalizer works from the id of the status and drops at once only without.
LEMMA FinalizeStep ==
    ASSUME PolicyInv, Finalize
    PROVE  Beliefs'
<1>1. /\ ppass = {} /\ pobj = "deleting"
      /\ UNCHANGED <<pobj, pid, phash, policies, used, repeats, faults>>
      BY DEF Finalize, Blocked, pstatus, remote
<1>2. CASE Blocked
      <2>1. ppass' = {} /\ ~pready'
            BY <1>2 DEF Blocked
      <2> QED BY <1>1, <2>1, PassEnds
<1>3. CASE /\ ppass' = {[at |-> IF pid = {} THEN "finDrop" ELSE "finGet",
                         spec |-> spec, id |-> pid, hash |-> phash,
                         ready |-> FALSE]}
           /\ UNCHANGED pstatus
      <2> DEFINE q == [at |-> IF pid = {} THEN "finDrop" ELSE "finGet",
                       spec |-> spec, id |-> pid, hash |-> phash, ready |-> FALSE]
      <2>1. /\ ppass' = {q} /\ q.id = pid /\ ~q.ready
            /\ q.at \in {"finDrop", "finGet"} /\ (q.at = "finDrop" => pid = {})
            BY <1>3
      <2> HIDE DEF q
      <2>2. UNCHANGED pready
            BY <1>3 DEF pstatus
      <2>3. q.id \subseteq HeldIds /\ (pid = {} => Tracked(pid) = {})
            BY <2>1 DEF HeldIds, Tracked
      <2> QED BY <1>1, <2>1, <2>2, <2>3, PassMoves
<1> QED BY <1>2, <1>3 DEF Finalize

\* The tracked policy is looked at before it is deleted.
LEMMA FinGetStep ==
    ASSUME PolicyInv, NEW p \in ppass, FinGetPolicy(p)
    PROVE  Beliefs'
<1>1. /\ ppass = {p} /\ p \in PolicyPass /\ p.at = "finGet" /\ p.id = pid
      /\ pobj = "deleting" /\ p.id \subseteq HeldIds
      /\ UNCHANGED <<pobj, pid, phash, policies, used, repeats>>
      BY ThePass
         DEF FinGetPolicy, Blocked, PolicyInv, Beliefs, PassKnows, pstatus, remote
<1>2. faults' = faults \/ faults' # 0
      BY FaultType DEF FinGetPolicy, PolicyInv, TypeOK
<1>3. CASE Blocked
      <2>1. ppass' = {} /\ ~pready'
            BY <1>3 DEF Blocked
      <2> QED BY <1>1, <1>2, <2>1, PassEnds
<1>4. CASE GoTo(p, "finDelete") /\ UNCHANGED pstatus
      <2>1. PICK q : ppass' = {q} /\ q.at = "finDelete" /\ q.id = p.id
            BY <1>1, <1>4, GoToType, StepsType
      <2>2. UNCHANGED pready
            BY <1>4 DEF pstatus
      <2>3. q.id \subseteq HeldIds
            BY <1>1, <2>1
      <2> QED BY <1>1, <1>2, <2>1, <2>2, <2>3, PassMoves
<1> QED BY <1>3, <1>4 DEF FinGetPolicy

-----------------------------------------------------------------------------
(* The theorems.                                                           *)

\* The invariant holds at the start, with or without a policy of others.
LEMMA InitInv == Init => PolicyInv
<1> SUFFICES ASSUME Init PROVE PolicyInv
    OBVIOUS
<1>1. PICK held \in SUBSET Policy :
          /\ policies = held
          /\ \A r \in held : r.own
          /\ \A r, t \in held : r.id = t.id
          /\ \A r, t \in held : r = t
          /\ used = {r.id : r \in held}
      <2>1. CASE policies = {} /\ used = {}
            BY <2>1
      <2>2. ASSUME NEW i \in PolicyIds, NEW s \in Specs \cup {Unsupported},
                   policies = {[id |-> i, own |-> TRUE, spec |-> s]}, used = {i}
            PROVE  \E held \in SUBSET Policy :
                      /\ policies = held
                      /\ \A r \in held : r.own
                      /\ \A r, t \in held : r.id = t.id
                      /\ \A r, t \in held : r = t
                      /\ used = {r.id : r \in held}
            <3> DEFINE r == [id |-> i, own |-> TRUE, spec |-> s]
            <3>1. r \in Policy /\ r.own /\ r.id = i /\ policies = {r}
                  BY <2>2 DEF Policy
            <3> HIDE DEF r
            <3> QED BY <2>2, <3>1
      <2> QED BY <2>1, <2>2 DEF Init
<1>2. /\ phash \subseteq Hashes /\ ref \in [Exposures -> Refs]
      /\ app \in [Exposures -> SUBSET PolicyIds]
      BY DEF Init, Refs
<1>3. TypeOK
      <2>1. used \subseteq PolicyIds
            BY <1>1 DEF Policy
      <2>2. /\ pobj = "absent" /\ spec \in Specs /\ pid = {} /\ pready = FALSE
            /\ pcurrent = FALSE /\ repeats = 0 /\ ppass = {} /\ epass = {}
            /\ edits = 0 /\ faults = 0
            BY DEF Init
      <2>3. edits \in 0..MaxEdits /\ faults \in 0..MaxFaults /\ repeats \in 0..faults
            BY <2>2, PolicyAssumption
      <2>4. /\ policies \subseteq Policy /\ ppass \subseteq PolicyPass
            /\ epass \subseteq [exp : Exposures, id : SUBSET PolicyIds]
            /\ pid \subseteq PolicyIds
            BY <1>1, <2>2
      <2>5. pobj \in {"absent", "new", "live", "deleting", "gone"}
            BY <2>2
      <2>6. pready \in BOOLEAN /\ pcurrent \in BOOLEAN
            BY <2>2
      <2>7. spec \in Specs
            BY <2>2
      <2> QED BY <1>2, <2>1, <2>3, <2>4, <2>5, <2>6, <2>7 DEF TypeOK
<1>4. /\ pobj = "absent" /\ pid = {} /\ ~pready /\ ppass = {} /\ repeats = 0
      BY DEF Init
<1>5. OnePass /\ PassKnows /\ DroppedLast /\ SavesTruth /\ ReadyMeansApplied
      BY <1>4 DEF OnePass, PassKnows, DroppedLast, SavesTruth, ReadyMeansApplied
<1>6. IdsUnique
      BY <1>1 DEF IdsUnique
<1>7. ClaimsBounded
      <2>1. ClaimedIds \subseteq used /\ \A i, j \in used : i = j
            BY <1>1 DEF ClaimedIds, Own, Tracked
      <2>2. CASE ClaimedIds = {}
            BY <1>4, <2>2, FS_EmptySet DEF ClaimsBounded
      <2>3. ASSUME NEW i, ClaimedIds = {i} PROVE ClaimsBounded
            <3>1. IsFiniteSet({i}) /\ Cardinality({i}) = 1
                  BY FS_Singleton
            <3> QED BY <1>4, <2>3, <3>1 DEF ClaimsBounded
      <2> QED BY <2>1, <2>2, <2>3
<1> QED BY <1>3, <1>5, <1>6, <1>7 DEF PolicyInv, Beliefs

\* Every action of either controller and of the environment preserves it.
LEMMA InvStep ==
    ASSUME PolicyInv, [Next]_vars
    PROVE  PolicyInv'
<1>1. TypeOK'
      BY TypeStep DEF PolicyInv, Beliefs
<1> SUFFICES Beliefs'
      BY <1>1 DEF PolicyInv
<1>2. CASE UNCHANGED vars
      BY <1>2, QuietStep DEF vars
<1>3. CASE PolicyStep
      BY <1>3, BeginStep, ListStep, MatchStep, CreateStep, GetStep, UpdateStep,
         SaveStep, FinalizeStep, FinGetStep, DeleteStep, ObjectStep DEF PolicyStep
<1>4. ASSUME NEW e \in Exposures, ResolvePolicy(e) PROVE Beliefs'
      BY <1>4, QuietStep DEF ResolvePolicy, pstatus, remote
<1>5. ASSUME NEW x \in epass, BindApplication(x) PROVE Beliefs'
      BY <1>5, QuietStep DEF BindApplication, pstatus, remote
<1>6. CASE EditSpec
      BY <1>6, QuietStep DEF EditSpec, remote
<1>7. ASSUME NEW e \in Exposures, EditRef(e) PROVE Beliefs'
      BY <1>7, QuietStep DEF EditRef, pstatus, remote
<1>8. CASE Apply \/ DeletePolicy
      BY <1>8, ObjectStep
<1>9. CASE Meddle
      BY <1>9, MeddleStep
<1>10. CASE AbortPolicy
      <2>1. faults' # 0
            BY <1>10, FaultType DEF AbortPolicy, PolicyInv, TypeOK
      <2> QED BY <1>10, <2>1, PassEnds DEF AbortPolicy, pstatus, remote
<1>11. CASE AbortExposure
      <2>1. faults' # 0
            BY <1>11, FaultType DEF AbortExposure, PolicyInv, TypeOK
      <2> QED BY <1>11, <2>1, QuietStep DEF AbortExposure, pstatus, remote
<1> QED BY <1>2, <1>3, <1>4, <1>5, <1>6, <1>7, <1>8, <1>9, <1>10, <1>11 DEF Next

\* The invariant holds in every state of both controllers.
THEOREM PolicyInvariant == Spec => []PolicyInv
<1>1. Init => PolicyInv
      BY InitInv
<1>2. PolicyInv /\ [Next]_vars => PolicyInv'
      BY InvStep
<1> QED BY <1>1, <1>2, PTL DEF Spec

\* Every variable of both controllers keeps its type.
THEOREM PolicyTypeCorrect == Spec => []TypeOK
<1>1. PolicyInv => TypeOK
      BY DEF PolicyInv
<1> QED BY <1>1, PolicyInvariant, PTL

\* However many passes are cut short, wherever, and whatever others do to the
\* policies, the controller has at most one policy of its name, and one more
\* for each Create that the client repeated.
THEOREM PolicyNotDuplicated == Spec => []OneOwnPolicy
<1>1. PolicyInv => OneOwnPolicy
      BY OwnBounded DEF PolicyInv, Beliefs
<1> QED BY <1>1, PolicyInvariant, PTL

\* Without faults, Ready means that the policy is at Cloudflare with the rules
\* whose hash the status shows or is about to show.
THEOREM PolicyReadyApplied == Spec => []ReadyMeansApplied
<1>1. PolicyInv => ReadyMeansApplied
      BY DEF PolicyInv, Beliefs
<1> QED BY <1>1, PolicyInvariant, PTL

-----------------------------------------------------------------------------
(* The controller keeps the promise of Owned.                              *)

\* The status and a pass hold the id of one policy at most.
OneTracked ==
    /\ \A i, j \in pid : i = j
    /\ \A p \in ppass : \A i, j \in p.id : i = j

OwnIds == {p.id : p \in Own}

LEMMA OneTrackedStep ==
    ASSUME PolicyInv, OneTracked, [Next]_vars
    PROVE  OneTracked'
<1> USE DEF OneTracked, pstatus, remote, exposing
<1>1. ppass \subseteq PolicyPass
      BY DEF PolicyInv, TypeOK
<1>2. ASSUME NEW q, ppass' = {q}, UNCHANGED pid, \A i, j \in q.id : i = j
      PROVE  OneTracked'
      BY <1>2
<1>3. CASE UNCHANGED <<pid, ppass>>
      BY <1>3
<1>4. CASE UNCHANGED pid /\ ppass' = {}
      BY <1>4
<1>5. CASE Begin
      <2>1. PICK step, s, hash :
                ppass' = {[at |-> step, spec |-> s, id |-> pid, hash |-> hash,
                           ready |-> FALSE]}
            BY <1>5 DEF Begin
      <2> QED BY <1>5, <2>1 DEF Begin
<1>6. CASE Finalize
      <2>1. UNCHANGED pid
            BY <1>6 DEF Finalize, Blocked
      <2>2. CASE ppass' = {}
            BY <1>4, <2>1, <2>2
      <2>3. CASE ppass' # {}
            <3>1. PICK step, s, hash :
                      ppass' = {[at |-> step, spec |-> s, id |-> pid, hash |-> hash,
                                 ready |-> FALSE]}
                  BY <1>6, <2>3 DEF Finalize, Blocked
            <3> QED BY <2>1, <3>1
      <2> QED BY <2>2, <2>3
<1>7. ASSUME NEW p \in ppass, ListPolicies(p) PROVE OneTracked'
      <2>0. UNCHANGED pid /\ p \in PolicyPass
            BY <1>1, <1>7 DEF ListPolicies
      <2>1. CASE GoTo(p, "create")
            <3>1. PICK q : ppass' = {q} /\ q.id = p.id
                  BY <2>0, <2>1, GoToType, StepsType
            <3> QED BY <1>2, <2>0, <3>1
      <2>2. ASSUME NEW r \in Own, ppass' = {[p EXCEPT !.at = "match", !.id = {r.id}]}
            PROVE  OneTracked'
            <3>1. r.id \in PolicyIds
                  BY DEF Own, PolicyInv, TypeOK, Policy
            <3>2. PICK q : ppass' = {q} /\ q.id = {r.id}
                  BY <2>0, <2>2, <3>1, FoundType
            <3> QED BY <1>2, <2>0, <3>2
      <2> QED BY <1>7, <2>1, <2>2 DEF ListPolicies
<1>8. ASSUME NEW p \in ppass, MatchPolicy(p) PROVE OneTracked'
      <2>1. UNCHANGED pid
            BY <1>8 DEF MatchPolicy
      <2>2. CASE ppass' = {}
            BY <1>4, <2>1, <2>2
      <2>3. CASE NotReady(p, {}, {})
            BY <1>1, <1>2, <2>1, <2>3, NotReadyType
      <2>4. ASSUME NEW q \in Tracked(p.id), Reconciled(p, {q.id}) PROVE OneTracked'
            <3>1. {q.id} \in SUBSET PolicyIds
                  BY DEF Tracked, PolicyInv, TypeOK, Policy
            <3> QED BY <1>1, <1>2, <2>1, <2>4, <3>1, ReconciledType
      <2> QED BY <1>8, <2>2, <2>3, <2>4 DEF MatchPolicy
<1>9. ASSUME NEW p \in ppass, CreatePolicy(p) PROVE OneTracked'
      <2>1. PICK i \in PolicyIds : Reconciled(p, {i})
            BY <1>9 DEF CreatePolicy
      <2>2. {i} \in SUBSET PolicyIds
            OBVIOUS
      <2> QED BY <1>1, <1>2, <1>9, <2>1, <2>2, ReconciledType DEF CreatePolicy
<1>10. ASSUME NEW p \in ppass, GetPolicy(p) PROVE OneTracked'
      <2>1. p.id \in SUBSET PolicyIds /\ p.hash \in SUBSET Hashes
            BY <1>1, PassFields
      <2>2. \/ GoTo(p, "update") \/ NotReady(p, {}, {}) \/ NotReady(p, p.id, p.hash)
            \/ Reconciled(p, p.id)
            BY <1>10 DEF GetPolicy
      <2>3. PICK q : ppass' = {q} /\ q.id \in {{}, p.id}
            BY <1>1, <2>1, <2>2, GoToType, NotReadyType, ReconciledType, StepsType
      <2> QED BY <1>2, <1>10, <2>3 DEF GetPolicy
<1>11. ASSUME NEW p \in ppass, UpdatePolicy(p) PROVE OneTracked'
      <2>1. p.id \in SUBSET PolicyIds
            BY <1>1, PassFields
      <2>2. CASE ppass' = {}
            BY <1>4, <1>11, <2>2 DEF UpdatePolicy
      <2>3. CASE Reconciled(p, p.id)
            BY <1>1, <1>2, <1>11, <2>1, <2>3, ReconciledType DEF UpdatePolicy
      <2> QED BY <1>11, <2>2, <2>3 DEF UpdatePolicy
<1>12. ASSUME NEW p \in ppass, SetPolicyStatus(p) PROVE OneTracked'
      BY <1>12 DEF SetPolicyStatus
<1>13. ASSUME NEW p \in ppass, FinGetPolicy(p) PROVE OneTracked'
      <2>1. CASE Blocked
            BY <1>4, <2>1 DEF Blocked
      <2>2. CASE GoTo(p, "finDelete") /\ UNCHANGED pstatus
            BY <1>1, <1>2, <2>2, GoToType, StepsType
      <2> QED BY <1>13, <2>1, <2>2 DEF FinGetPolicy
<1>14. ASSUME NEW p \in ppass, FinDeletePolicy(p) PROVE OneTracked'
      BY <1>1, <1>2, <1>14, GoToType, StepsType DEF FinDeletePolicy
<1>15. ASSUME NEW p \in ppass, FinDropPolicy(p) PROVE OneTracked'
      BY <1>4, <1>15 DEF FinDropPolicy
<1>16. CASE \/ UNCHANGED vars \/ AddFinalizer \/ Apply \/ EditSpec \/ DeletePolicy
            \/ Meddle \/ AbortExposure
            \/ \E e \in Exposures : EditRef(e) \/ ResolvePolicy(e)
            \/ \E x \in epass : BindApplication(x)
      BY <1>3, <1>16 DEF vars, AddFinalizer, Apply, EditSpec, DeletePolicy, Meddle,
         AbortExposure, EditRef, ResolvePolicy, BindApplication
<1>17. CASE AbortPolicy
      BY <1>4, <1>17 DEF AbortPolicy
<1> QED BY <1>5, <1>6, <1>7, <1>8, <1>9, <1>10, <1>11, <1>12, <1>13, <1>14, <1>15,
           <1>16, <1>17 DEF Next, PolicyStep

\* The steps of Owned that the controller takes, for its one object.
LEMMA ResourceStep ==
    ASSUME UNCHANGED <<pobj, pid>>, OwnIds \subseteq PolicyIds
    PROVE  /\ UNCHANGED faults /\ OwnIds' = OwnIds => UNCHANGED Resource!vars
           /\ UNCHANGED faults /\ pobj \in {"live", "deleting"}
                 /\ (\E i \in PolicyIds : OwnIds' = OwnIds \cup {i}) => Resource!Next
           /\ faults' = faults + 1 /\ pobj \in {"live", "deleting"}
                 /\ (\E i, j \in PolicyIds : OwnIds' = OwnIds \cup {i, j})
                 => Resource!Next
           /\ UNCHANGED faults /\ pobj = "deleting"
                 /\ (\E i \in PolicyIds : OwnIds' = OwnIds \ {i}) => Resource!Next
           /\ faults' = faults + 1 /\ OwnIds' \subseteq OwnIds => Resource!Next
<1> DEFINE life    == [o \in {"policy"} |-> pobj]
           tracked == [o \in {"policy"} |-> pid]
           marked  == [o \in {"policy"} |-> OwnIds]
<1>0. UNCHANGED <<life, tracked>>
      OBVIOUS
<1>1. ASSUME UNCHANGED faults, OwnIds' = OwnIds PROVE UNCHANGED Resource!vars
      BY <1>1 DEF Resource!vars, OwnIds
<1>2. ASSUME UNCHANGED faults, pobj \in {"live", "deleting"}, NEW i \in PolicyIds,
             OwnIds' = OwnIds \cup {i}
      PROVE  Resource!Next
      <2>1. marked' = [marked EXCEPT !["policy"] = @ \cup {i}]
            BY <1>2
      <2>2. Resource!Mark("policy")
            BY <1>0, <1>2, <2>1 DEF Resource!Mark, OwnIds
      <2> QED BY <2>2 DEF Resource!Next
<1>3. ASSUME faults' = faults + 1, pobj \in {"live", "deleting"},
             NEW i \in PolicyIds, NEW j \in PolicyIds, OwnIds' = OwnIds \cup {i, j}
      PROVE  Resource!Next
      <2>1. marked' = [marked EXCEPT !["policy"] = @ \cup {i, j}]
            BY <1>3
      <2>2. Resource!Mark("policy")
            BY <1>0, <1>3, <2>1 DEF Resource!Mark, OwnIds
      <2> QED BY <2>2 DEF Resource!Next
<1>4. ASSUME UNCHANGED faults, pobj = "deleting", NEW i \in PolicyIds,
             OwnIds' = OwnIds \ {i}
      PROVE  Resource!Next
      <2>1. marked' = [marked EXCEPT !["policy"] = @ \ {i}]
            BY <1>4
      <2>2. Resource!Remove("policy")
            BY <1>0, <1>4, <2>1 DEF Resource!Remove, OwnIds
      <2> QED BY <2>2 DEF Resource!Next
<1>5. ASSUME faults' = faults + 1, OwnIds' \subseteq OwnIds PROVE Resource!Next
      <2>1. Resource!Others
            BY <1>0, <1>5 DEF Resource!Others, OwnIds
      <2> QED BY <2>1 DEF Resource!Next
<1> QED BY <1>1, <1>2, <1>3, <1>4, <1>5

\* The object's life and the status are written one at a time, with nothing else.
LEMMA ObjectSteps ==
    ASSUME TypeOK, TypeOK', UNCHANGED faults, OwnIds' = OwnIds
    PROVE  /\ UNCHANGED pid /\ <<pobj, pobj'>> \in
                 {<<"absent", "new">>, <<"new", "live">>, <<"new", "gone">>,
                  <<"live", "deleting">>} => Resource!Next
           /\ UNCHANGED pobj /\ pobj \in {"live", "deleting"} => Resource!Next
           /\ UNCHANGED pid /\ pobj = "deleting" /\ pobj' = "gone"
                 /\ pid \cap OwnIds = {} => Resource!Next
<1> DEFINE life    == [o \in {"policy"} |-> pobj]
           tracked == [o \in {"policy"} |-> pid]
<1>1. ASSUME UNCHANGED pid, <<pobj, pobj'>> \in
                 {<<"absent", "new">>, <<"new", "live">>, <<"new", "gone">>,
                  <<"live", "deleting">>}
      PROVE  Resource!Next
      <2>1. life' = [life EXCEPT !["policy"] = pobj']
            OBVIOUS
      <2>2. <<life["policy"], pobj'>> \in Resource!LifeSteps
            BY <1>1 DEF Resource!LifeSteps
      <2>3. pobj' \in {"new", "live", "deleting", "gone"}
            BY <1>1
      <2>4. Resource!Live("policy")
            BY <1>1, <2>1, <2>2, <2>3 DEF Resource!Live, OwnIds
      <2> QED BY <2>4 DEF Resource!Next
<1>2. ASSUME UNCHANGED pobj, pobj \in {"live", "deleting"} PROVE Resource!Next
      <2>1. tracked' = [tracked EXCEPT !["policy"] = pid']
            OBVIOUS
      <2>2. pid' \in SUBSET PolicyIds
            BY DEF TypeOK
      <2>3. Resource!Track("policy")
            BY <1>2, <2>1, <2>2 DEF Resource!Track, OwnIds
      <2> QED BY <2>3 DEF Resource!Next
<1>3. ASSUME UNCHANGED pid, pobj = "deleting", pobj' = "gone", pid \cap OwnIds = {}
      PROVE  Resource!Next
      <2>1. life' = [life EXCEPT !["policy"] = "gone"]
            BY <1>3
      <2>2. Resource!Finish("policy")
            BY <1>3, <2>1 DEF Resource!Finish, OwnIds
      <2> QED BY <2>2 DEF Resource!Next
<1> QED BY <1>1, <1>2, <1>3

LEMMA OwnedStep ==
    ASSUME PolicyInv, PolicyInv', OneTracked, [Next]_vars
    PROVE  [Resource!Next]_Resource!vars
<1> USE DEF pstatus, remote, exposing
<1>0. /\ TypeOK /\ TypeOK' /\ ppass \subseteq PolicyPass /\ policies \subseteq Policy
      /\ OwnIds \subseteq PolicyIds
      BY DEF PolicyInv, TypeOK, OwnIds, Own, Policy
<1>1. ASSUME UNCHANGED <<pobj, pid, policies>>, faults' = faults \/ faults' = faults + 1
      PROVE  [Resource!Next]_Resource!vars
      <2>1. OwnIds' = OwnIds
            BY <1>1 DEF OwnIds, Own
      <2> QED BY <1>0, <1>1, <2>1, ResourceStep
<1>2. CASE \/ UNCHANGED vars \/ EditSpec \/ Finalize
           \/ \E e \in Exposures : EditRef(e) \/ ResolvePolicy(e)
           \/ \E x \in epass : BindApplication(x)
           \/ \E p \in ppass : ListPolicies(p) \/ MatchPolicy(p) \/ GetPolicy(p)
      BY <1>1, <1>2 DEF vars, EditSpec, Finalize, Blocked, EditRef, ResolvePolicy,
         BindApplication, ListPolicies, MatchPolicy, GetPolicy
<1>3. CASE \/ Begin \/ AbortPolicy \/ AbortExposure
           \/ \E p \in ppass : FinGetPolicy(p)
      BY <1>1, <1>3 DEF Begin, AbortPolicy, AbortExposure, FinGetPolicy, Blocked, Fault
<1>4. CASE Meddle
      <2>1. \A q \in policies' : \E p \in policies : q.id = p.id /\ (q.own => p.own)
            BY <1>0, <1>4, MeddleEffect DEF PolicyInv, Beliefs
      <2>2. OwnIds' \subseteq OwnIds
            BY <2>1 DEF OwnIds, Own
      <2> QED BY <1>0, <1>4, <2>2, ResourceStep DEF Meddle, Fault
<1>5. CASE Apply \/ AddFinalizer \/ DeletePolicy
      <2>1. UNCHANGED <<pid, policies, faults>>
            BY <1>5 DEF Apply, AddFinalizer, DeletePolicy
      <2>2. <<pobj, pobj'>> \in {<<"absent", "new">>, <<"new", "live">>,
                                <<"new", "gone">>, <<"live", "deleting">>}
            BY <1>5 DEF Apply, AddFinalizer, DeletePolicy
      <2>3. OwnIds' = OwnIds
            BY <2>1 DEF OwnIds, Own
      <2> QED BY <1>0, <2>1, <2>2, <2>3, ObjectSteps
<1>6. ASSUME NEW p \in ppass, SetPolicyStatus(p) PROVE Resource!Next
      <2>1. OwnIds' = OwnIds
            BY <1>6 DEF SetPolicyStatus, OwnIds, Own
      <2> QED BY <1>0, <1>6, <2>1, ThePass, ObjectSteps DEF SetPolicyStatus
<1>7. ASSUME NEW p \in ppass, CreatePolicy(p) PROVE Resource!Next
      <2>1. PICK i \in PolicyIds : Create(p.spec, i)
            BY <1>7 DEF CreatePolicy
      <2>2. \A k, sp : Made(k, sp).id = k /\ Made(k, sp).own
            BY DEF Made
      <2>3. CASE policies' = policies \cup {Made(i, p.spec)} /\ UNCHANGED faults
            <3>1. OwnIds' = OwnIds \cup {i}
                  BY <2>2, <2>3 DEF OwnIds, Own
            <3> QED BY <1>0, <1>7, <2>3, <3>1, ThePass, ResourceStep DEF CreatePolicy
      <2>4. ASSUME NEW j \in PolicyIds,
                   policies' = policies \cup {Made(j, p.spec), Made(i, p.spec)},
                   faults' = faults + 1
            PROVE  Resource!Next
            <3>1. OwnIds' = OwnIds \cup {j, i}
                  BY <2>2, <2>4 DEF OwnIds, Own
            <3> QED BY <1>0, <1>7, <2>4, <3>1, ThePass, ResourceStep DEF CreatePolicy
      <2> QED BY <2>1, <2>3, <2>4 DEF Create, Fault, FreeIds
<1>8. ASSUME NEW p \in ppass, UpdatePolicy(p) PROVE [Resource!Next]_Resource!vars
      <2>1. CASE UNCHANGED policies
            BY <1>1, <1>8, <2>1 DEF UpdatePolicy
      <2>2. CASE Tracked(p.id) # {} /\ Update(p.id, p.spec)
            <3>1. PICK r \in policies : r.id \in p.id
                  BY <2>2 DEF Tracked
            <3>2. p.id = {r.id} /\ r.id \in PolicyIds
                  BY <1>0, <3>1 DEF OneTracked, Policy
            <3>3. /\ \A q \in policies' : \E o \in policies :
                        q.id = o.id /\ q = IF o.id \in p.id THEN Made(o.id, p.spec) ELSE o
                  /\ \A o \in policies : o.id \in p.id => Made(o.id, p.spec) \in policies'
                  BY <1>0, <2>2, PassFields, UpdateEffect
            <3>4. \A o \in policies : o.id \notin p.id => o \in policies'
                  BY <2>2 DEF Update
            <3>5. \A k, sp : Made(k, sp).id = k /\ Made(k, sp).own
                  BY DEF Made
            <3>6. OwnIds' = OwnIds \cup {r.id}
                  BY <3>1, <3>2, <3>3, <3>4, <3>5 DEF OwnIds, Own
            <3> QED BY <1>0, <1>8, <3>2, <3>6, ThePass, ResourceStep DEF UpdatePolicy
      <2> QED BY <1>8, <2>1, <2>2 DEF UpdatePolicy
<1>9. ASSUME NEW p \in ppass, FinDeletePolicy(p) PROVE [Resource!Next]_Resource!vars
      <2>1. p.id = pid /\ pobj = "deleting"
            BY <1>9 DEF FinDeletePolicy, PolicyInv, Beliefs, PassKnows
      <2>2. OwnIds' = OwnIds \ pid
            BY <1>9, <2>1 DEF FinDeletePolicy, Delete, OwnIds, Own
      <2>3. CASE pid = {}
            <3>1. OwnIds' = OwnIds
                  BY <2>2, <2>3
            <3> QED BY <1>0, <1>9, <3>1, ResourceStep DEF FinDeletePolicy
      <2>4. CASE pid # {}
            <3>1. PICK k \in PolicyIds : pid = {k}
                  BY <1>0, <2>4 DEF OneTracked, TypeOK
            <3> QED BY <1>0, <1>9, <2>1, <2>2, <3>1, ResourceStep DEF FinDeletePolicy
      <2> QED BY <2>3, <2>4
<1>10. ASSUME NEW p \in ppass, FinDropPolicy(p) PROVE Resource!Next
      <2>1. p.at = "finDrop" /\ pobj = "deleting"
            BY <1>10 DEF FinDropPolicy, PolicyInv, Beliefs, PassKnows
      <2>2. pid \cap OwnIds = {}
            BY <2>1 DEF PolicyInv, Beliefs, DroppedLast, Tracked, OwnIds, Own
      <2>3. OwnIds' = OwnIds
            BY <1>10 DEF FinDropPolicy, OwnIds, Own
      <2> QED BY <1>0, <1>10, <2>1, <2>2, <2>3, ObjectSteps DEF FinDropPolicy
<1> QED BY <1>2, <1>3, <1>4, <1>5, <1>6, <1>7, <1>8, <1>9, <1>10 DEF Next, PolicyStep

\* The controller names policies only for a living object, deletes them only for
\* one that is being deleted, and never drops the finalizer while the tracked
\* policy is its own, whatever fails and whatever others do to the policies.
THEOREM PolicyKeepsPromise == Spec => PolicyIsOwned
<1>1. Init => OneTracked /\ Resource!Init
      <2> SUFFICES ASSUME Init PROVE OneTracked /\ Resource!Init
          OBVIOUS
      <2>1. pobj = "absent" /\ pid = {} /\ ppass = {} /\ faults = 0
            BY DEF Init
      <2>2. OwnIds \subseteq PolicyIds
            BY InitInv DEF PolicyInv, TypeOK, OwnIds, Own, Policy
      <2> QED BY <2>1, <2>2 DEF OneTracked, Resource!Init, OwnIds
<1>2. PolicyInv /\ OneTracked /\ [Next]_vars => OneTracked'
      BY OneTrackedStep
<1>3. PolicyInv /\ PolicyInv' /\ OneTracked /\ [Next]_vars
        => [Resource!Next]_Resource!vars
      BY OwnedStep
<1> QED BY <1>1, <1>2, <1>3, PolicyInvariant, PTL
        DEF Spec, PolicyIsOwned, Resource!Spec

-----------------------------------------------------------------------------
(* A policy that is as its spec says stays so, and so do its applications. *)

\* A pass that has read the object as it is and found nothing to do.
SeesPolicy(p) ==
    /\ p.at \in {"get", "save"}
    /\ p.spec = spec /\ p.id = pid /\ p.hash = phash
    /\ p.at = "save" => p.ready

\* The policy is as the spec says, the status says so, and a pass under way is
\* not behind.
PolicySettled ==
    /\ pobj = "live" /\ pid # {}
    /\ phash = {RulesHash[spec]} /\ pready /\ pcurrent
    /\ \E q \in Tracked(pid) : Matches(q, spec)
    /\ \A p \in ppass : SeesPolicy(p)

\* The application of an Exposure is bound as it should be, and the pass under
\* way will not change that.
Right(e) == IF ref[e] = "on" THEN pid ELSE {}

Bound(e) == app[e] = Right(e) /\ \A x \in epass : x.exp = e => x.id = Right(e)

\* As long as the object and its spec stay, no call fails and nobody meddles, a
\* policy that is as its spec says is not written again, at Cloudflare or in its
\* status; and as long as an Exposure names it as it does, its application stays
\* bound to it (accessPolicyMatches, setPolicyStatus, resolveAccessPolicyUUID).
PolicyStays ==
    [][PolicySettled /\ UNCHANGED <<pobj, spec, faults>> =>
          /\ PolicySettled' /\ UNCHANGED <<policies, pstatus>>
          /\ \A e \in Exposures : Bound(e) /\ UNCHANGED ref[e] => Bound(e)']_vars

\* The one policy a settled object tracks.
LEMMA ThePolicy ==
    ASSUME PolicyInv, OneTracked, PolicySettled
    PROVE  \E q \in policies : /\ Tracked(pid) = {q} /\ pid = {q.id}
                               /\ Matches(q, spec)
<1>1. PICK q \in Tracked(pid) : Matches(q, spec)
      BY DEF PolicySettled
<1>2. q \in policies /\ q.id \in pid /\ pid = {q.id}
      BY <1>1 DEF Tracked, OneTracked
<1>3. Tracked(pid) = {q}
      BY <1>1, <1>2 DEF Tracked, PolicyInv, Beliefs, IdsUnique
<1> QED BY <1>1, <1>2, <1>3

\* The passes of the policy controller.
LEMMA PolicyPassStays ==
    ASSUME PolicyInv, OneTracked, PolicySettled, UNCHANGED <<pobj, spec, faults>>,
           PolicyStep
    PROVE  PolicySettled' /\ UNCHANGED <<policies, pstatus, exposing>>
<1>1. /\ pobj = "live" /\ pid # {} /\ phash = {RulesHash[spec]} /\ pready = TRUE
      /\ pcurrent = TRUE /\ TypeOK
      /\ \A p \in ppass : SeesPolicy(p)
      BY DEF PolicySettled, PolicyInv, TypeOK
<1>2. PICK q \in policies :
          Tracked(pid) = {q} /\ pid = {q.id} /\ Matches(q, spec)
      BY ThePolicy
<1>3. ~Fault
      BY <1>1 DEF Fault, TypeOK
<1>4. ASSUME UNCHANGED <<policies, pstatus>>, \A p \in ppass' : SeesPolicy(p)
      PROVE  PolicySettled'
      <2>1. \A p \in ppass' : SeesPolicy(p)'
            BY <1>4 DEF SeesPolicy, pstatus
      <2>2. Tracked(pid)' = Tracked(pid)
            BY <1>4 DEF Tracked, pstatus
      <2> QED BY <1>1, <1>2, <1>4, <2>1, <2>2 DEF PolicySettled, pstatus, Matches
<1>5. CASE Begin
      <2>1. ppass' = {[at |-> "get", spec |-> spec, id |-> pid,
                       hash |-> phash, ready |-> FALSE]}
            BY <1>1, <1>3, <1>5 DEF Begin
      <2>2. UNCHANGED <<policies, pstatus, exposing>>
            BY <1>5 DEF Begin, remote
      <2> QED BY <1>4, <2>1, <2>2 DEF SeesPolicy
<1>6. ASSUME NEW p \in ppass, GetPolicy(p)
      PROVE  PolicySettled' /\ UNCHANGED <<policies, pstatus, exposing>>
      <2>1. /\ p.at = "get" /\ p.spec = spec /\ p.id = pid /\ p.hash = phash
            /\ p \in PolicyPass
            BY <1>1, <1>6, ThePass DEF GetPolicy, SeesPolicy
      <2>2. Readable(q) /\ q.own
            BY <1>1, <1>2, PolicyAssumption DEF Matches, Readable, TypeOK
      <2>3. Reconciled(p, p.id)
            BY <1>1, <1>2, <1>6, <2>1, <2>2 DEF GetPolicy
      <2>4. PICK o : /\ ppass' = {o} /\ o.at = "save" /\ o.id = p.id
                     /\ o.hash = {RulesHash[p.spec]} /\ o.ready /\ o.spec = p.spec
            <3> DEFINE o0 == [p EXCEPT !.at = "save", !.id = p.id,
                                 !.hash = {RulesHash[p.spec]}, !.ready = TRUE]
            <3>1. /\ o0.at = "save" /\ o0.id = p.id /\ o0.hash = {RulesHash[p.spec]}
                  /\ o0.ready /\ o0.spec = p.spec
                  BY <2>1 DEF PolicyPass
            <3>2. ppass' = {o0}
                  BY <2>3 DEF Reconciled
            <3> HIDE DEF o0
            <3> QED BY <3>1, <3>2
      <2>5. UNCHANGED <<policies, pstatus, exposing>>
            BY <1>6 DEF GetPolicy, remote
      <2> QED BY <1>1, <1>4, <2>1, <2>4, <2>5 DEF SeesPolicy
<1>7. ASSUME NEW p \in ppass, SetPolicyStatus(p)
      PROVE  PolicySettled' /\ UNCHANGED <<policies, pstatus, exposing>>
      <2>1. p.id = pid /\ p.hash = phash /\ p.ready = TRUE
            BY <1>1, <1>7, ThePass, PassFields DEF SetPolicyStatus, SeesPolicy
      <2>2. UNCHANGED <<policies, pstatus, exposing>> /\ ppass' = {}
            BY <1>1, <1>7, <2>1 DEF SetPolicyStatus, remote, pstatus
      <2> QED BY <1>4, <2>2
<1>8. ~AddFinalizer /\ ~Finalize
      BY <1>1 DEF AddFinalizer, Finalize
<1>9. ASSUME NEW p \in ppass
      PROVE  /\ ~ListPolicies(p) /\ ~MatchPolicy(p) /\ ~CreatePolicy(p)
             /\ ~UpdatePolicy(p) /\ ~FinGetPolicy(p) /\ ~FinDeletePolicy(p)
             /\ ~FinDropPolicy(p)
      BY <1>1, <1>9 DEF SeesPolicy, ListPolicies, MatchPolicy, CreatePolicy,
         UpdatePolicy, FinGetPolicy, FinDeletePolicy, FinDropPolicy
<1> QED BY <1>5, <1>6, <1>7, <1>8, <1>9 DEF PolicyStep

LEMMA StayStep ==
    ASSUME PolicyInv, OneTracked, PolicySettled, UNCHANGED <<pobj, spec, faults>>,
           [Next]_vars
    PROVE  /\ PolicySettled' /\ UNCHANGED <<policies, pstatus>>
           /\ \A e \in Exposures : Bound(e) /\ UNCHANGED ref[e] => Bound(e)'
<1>1. TypeOK /\ pobj = "live" /\ pid # {} /\ pready /\ pcurrent
      BY DEF PolicyInv, PolicySettled
<1>2. ~Fault
      BY <1>1 DEF Fault, TypeOK
<1>3. ASSUME UNCHANGED <<policies, pstatus, ppass>> PROVE PolicySettled'
      BY <1>3 DEF PolicySettled, SeesPolicy, Tracked, Matches, pstatus
<1>4. ASSUME UNCHANGED <<pid, app, epass>>
      PROVE  \A e \in Exposures : Bound(e) /\ UNCHANGED ref[e] => Bound(e)'
      BY <1>4 DEF Bound, Right
<1>5. CASE PolicyStep
      BY <1>4, <1>5, PolicyPassStays DEF pstatus, exposing
<1>6. ASSUME NEW t \in Exposures, ResolvePolicy(t)
      PROVE  /\ PolicySettled' /\ UNCHANGED <<policies, pstatus>>
             /\ \A e \in Exposures : Bound(e) /\ UNCHANGED ref[e] => Bound(e)'
      <2>1. UNCHANGED <<policies, pstatus, ppass, ref, app>> /\ UNCHANGED pid
            BY <1>6 DEF ResolvePolicy, remote, pstatus
      <2>2. epass' = {[exp |-> t, id |-> Right(t)]}
            BY <1>6 DEF ResolvePolicy, Right
      <2> QED BY <1>3, <2>1, <2>2 DEF Bound, Right
<1>7. ASSUME NEW x \in epass, BindApplication(x)
      PROVE  /\ PolicySettled' /\ UNCHANGED <<policies, pstatus>>
             /\ \A e \in Exposures : Bound(e) /\ UNCHANGED ref[e] => Bound(e)'
      <2>1. /\ UNCHANGED <<policies, pstatus, ppass, ref>> /\ UNCHANGED pid
            /\ epass' = {} /\ app' = [app EXCEPT ![x.exp] = x.id]
            BY <1>7 DEF BindApplication, remote, pstatus
      <2>2. \A e \in Exposures : app'[e] = IF e = x.exp THEN x.id ELSE app[e]
            BY <1>1, <2>1 DEF TypeOK
      <2> QED BY <1>3, <2>1, <2>2 DEF Bound, Right
<1>8. CASE UNCHANGED vars \/ \E t \in Exposures : EditRef(t)
      BY <1>3, <1>4, <1>8 DEF vars, EditRef, remote, pstatus
<1>9. CASE EditSpec \/ DeletePolicy \/ Apply
      <2>1. ~Apply /\ ~DeletePolicy /\ ~EditSpec
            BY <1>1 DEF Apply, DeletePolicy, EditSpec
      <2> QED BY <1>9, <2>1
<1>10. ~Meddle /\ ~AbortPolicy /\ ~AbortExposure
      BY <1>2 DEF Meddle, AbortPolicy, AbortExposure
<1> QED BY <1>5, <1>6, <1>7, <1>8, <1>9, <1>10 DEF Next

THEOREM PoliciesAreStable == Spec => PolicyStays
<1>1. Init => OneTracked
      BY DEF Init, OneTracked
<1>2. PolicyInv /\ OneTracked /\ [Next]_vars => OneTracked'
      BY OneTrackedStep
<1>3. PolicyInv /\ OneTracked /\ [Next]_vars =>
          [PolicySettled /\ UNCHANGED <<pobj, spec, faults>> =>
             /\ PolicySettled' /\ UNCHANGED <<policies, pstatus>>
             /\ \A e \in Exposures : Bound(e) /\ UNCHANGED ref[e] => Bound(e)']_vars
      BY StayStep
<1> QED BY <1>1, <1>2, <1>3, PolicyInvariant, PTL DEF Spec, PolicyStays
=============================================================================
