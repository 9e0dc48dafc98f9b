-------------------------- MODULE AccessAppsProofs --------------------------
(***************************************************************************)
(* Proofs about AccessApps, for every set of names, domains, specs and ids *)
(* and any number of edits and faults.                                     *)
(*                                                                         *)
(* OthersAppsKept needs what a pass knows of the applications it listed:   *)
(* ids are never given twice, so that what was the object's own when it    *)
(* was listed is still what was created for the object when it is written  *)
(* or deleted by id (KnowsOld).  NothingLeft needs what passes without     *)
(* faults keep true between them: an object that tracks nothing has        *)
(* nothing (Followed).                                                     *)
(***************************************************************************)
EXTENDS AccessApps, FiniteSetTheorems, TLAPS

-----------------------------------------------------------------------------
(* The inductive invariant.                                                *)

\* At most one pass, with entries of its spec to do; ids given once, and marks
\* only on what was created.
Marked ==
    /\ \A p, q \in apass : p = q
    /\ \A p \in apass : p.at = "apply" => p.todo \subseteq DOMAIN p.spec.apps
    /\ \A a \in apps : a.id \in used /\ (a.own => a.by)
    /\ \A a, b \in apps : a.id = b.id => a = b

\* What has the id of an application that was listed is the object's.
KnowsOld ==
    \A p \in apass : \A a \in p.old :
        /\ a.id \in used
        /\ \A b \in apps : b.id = a.id => b.by

\* The object has nothing at Cloudflare.
Clean == ~tags /\ \A a \in apps : ~a.by

\* What the pass p has listed is there, each application once.
ListStands(p) ==
    /\ \A a \in p.old : \E b \in apps : b.id = a.id
    /\ \A a, b \in p.old : a.id = b.id => a = b

\* A pass that writes has valid entries; once it has done one, an application
\* stays that it will not delete.
WritesKept(p) ==
    /\ p.at \in {"list", "apply", "prune"} => Valid(p.spec)
    /\ p.at = "apply" => p.todo # {}
    /\ p.at = "prune" => p.done # {}
    /\ p.done # {} =>
          \E a \in apps : a.by /\ \A b \in p.old : b.id = a.id => b.id \in p.matched

\* A pass that deletes knows all that is to go.
RemovesAll(p) ==
    /\ p.at \in {"list", "unlist", "undo", "untag", "drop"} => p.done = {}
    /\ p.at = "undo" => p.old # {} /\ \A b \in apps : b.by => \E a \in p.old : a.id = b.id
    /\ p.at = "untag" => \A b \in apps : ~b.by
    /\ p.at = "drop" => Clean
    /\ p.at = "save" /\ p.done = {} => Clean

Orderly(p) == ListStands(p) /\ WritesKept(p) /\ RemovesAll(p)

\* What was created is marked and is listed.
MarksWhole == \A a \in apps : a.by => a.own /\ a.domains # {}

\* Tags go with the last application.
TagsTended == tags => (\E a \in apps : a.by) \/ (\E p \in apass : p.at = "untag")

\* An object that tracks nothing, and one that is gone, have nothing.
UntrackedClean ==
    tracked = {} /\ (\A p \in apass : p.at \in {"list", "unlist"}) => Clean

GoneClean == obj = "gone" => apass = {} /\ Clean

\* What holds as long as there has been no fault.
Followed ==
    faults = 0 => /\ MarksWhole /\ TagsTended /\ UntrackedClean /\ GoneClean
                  /\ \A p \in apass : Orderly(p)

AppsInv == TypeOK /\ Marked /\ KnowsOld /\ Followed

LEMMA InitInv == Init => AppsInv
<1> SUFFICES ASSUME Init PROVE AppsInv
      OBVIOUS
<1>1. TypeOK
      <2>0. /\ Strangers \subseteq SUBSET Domains
            /\ 0 \in 0..MaxEdits /\ 0 \in 0..MaxFaults
            BY AppsAssumption
      <2>1. /\ obj \in {"live", "deleting", "gone"} /\ spec \in Specs
            /\ tracked \subseteq Entry /\ apass \subseteq AppPass
            BY DEF Init
      <2>2. ready \in BOOLEAN /\ tags \in BOOLEAN
            BY DEF Init
      <2>3. edits \in 0..MaxEdits /\ faults \in 0..MaxFaults
            BY <2>0 DEF Init
      <2>4. apps \subseteq App /\ used \subseteq AppIds
            <3>1. ASSUME NEW i \in AppIds, NEW ds \in Strangers, NEW b \in Bodies,
                         apps = {[id |-> i, name |-> OtherName, domains |-> ds,
                                  body |-> b, own |-> FALSE, by |-> FALSE]},
                         used = {i}
                  PROVE  apps \subseteq App /\ used \subseteq AppIds
                  BY <2>0, <3>1 DEF App
            <3> QED BY <3>1 DEF Init
      <2> QED BY <2>1, <2>2, <2>3, <2>4 DEF TypeOK
<1>2. /\ \A a \in apps : a.id \in used /\ ~a.own /\ ~a.by
      /\ \A a, b \in apps : a = b
      <2>1. ASSUME NEW i \in AppIds, NEW ds \in Strangers, NEW b \in Bodies,
                   apps = {[id |-> i, name |-> OtherName, domains |-> ds,
                            body |-> b, own |-> FALSE, by |-> FALSE]},
                   used = {i}
            PROVE  <1>2!1 /\ <1>2!2
            BY <2>1
      <2> QED BY <2>1 DEF Init
<1>3. apass = {} /\ ~tags /\ obj # "gone"
      BY DEF Init
<1>4. Marked /\ KnowsOld /\ Followed
      BY <1>2, <1>3 DEF Marked, KnowsOld, Followed, MarksWhole, TagsTended,
                             UntrackedClean, GoneClean, Clean
<1> QED BY <1>1, <1>4 DEF AppsInv

\* The tags, ids and types of an application that an entry asks for.
LEMMA MadeType ==
    ASSUME NEW s \in Specs, NEW n \in DOMAIN s.apps, NEW i \in AppIds
    PROVE  /\ Made(s, n, i) \in App
           /\ Made(s, n, i).id = i /\ Made(s, n, i).own /\ Made(s, n, i).by
           /\ Made(s, n, i).domains = s.apps[n].domains
<1>1. s.apps[n] \in [domains : SUBSET Domains, body : Bodies] /\ n \in Names
      BY AppsAssumption
<1> QED BY <1>1 DEF Made, App

\* The outcomes of an entry: nothing to do, updated, gone, created.
Outcome(p, n) ==
    \/ \E a \in p.old :
          \/ /\ Done(p, n, a.id)
             /\ UNCHANGED <<astatus, remote, faults>>
          \/ /\ \E b \in apps : b.id = a.id
             /\ Update(p.spec, n, a.id)
             /\ Done(p, n, a.id)
             /\ UNCHANGED <<astatus, used, faults>>
          \/ /\ \A b \in apps : b.id # a.id
             /\ Failed(p)
             /\ UNCHANGED <<remote, faults>>
    \/ /\ \E i \in AppIds : Create(p.spec, n, i) /\ Done(p, n, i)
       /\ UNCHANGED astatus

LEMMA EntryOutcome ==
    ASSUME NEW p, ApplyEntry(p)
    PROVE  /\ p.at = "apply"
           /\ UNCHANGED <<obj, spec, edits>>
           /\ \E n \in p.todo : Outcome(p, n)
<1>1. \A n : Candidates(p, n) \subseteq p.old
      BY DEF Candidates
<1>2. PICK n \in p.todo :
         \/ \E a \in Candidates(p, n) :
               \/ /\ Matches(a, p.spec.apps[n], n)
                  /\ Done(p, n, a.id)
                  /\ UNCHANGED <<astatus, remote, faults>>
               \/ /\ ~Matches(a, p.spec.apps[n], n)
                  /\ \E b \in apps : b.id = a.id
                  /\ Update(p.spec, n, a.id)
                  /\ Done(p, n, a.id)
                  /\ UNCHANGED <<astatus, used, faults>>
               \/ /\ ~Matches(a, p.spec.apps[n], n)
                  /\ \A b \in apps : b.id # a.id
                  /\ Failed(p)
                  /\ UNCHANGED <<remote, faults>>
         \/ /\ Candidates(p, n) = {}
            /\ \E i \in AppIds : Create(p.spec, n, i) /\ Done(p, n, i)
            /\ UNCHANGED astatus
      BY Zenon DEF ApplyEntry
<1>3. Outcome(p, n)
      BY <1>1, <1>2, Zenon DEF Outcome
<1> QED BY <1>2, <1>3 DEF ApplyEntry

\* What the calls of an entry do to the applications.
LEMMA CreateDoes ==
    ASSUME NEW s, NEW n, NEW i, CreateOne(s, n, i) \/ Create(s, n, i)
    PROVE  \E new \in SUBSET FreeIds :
              /\ i \in new
              /\ apps' = apps \cup {Made(s, n, j) : j \in new}
              /\ used' = used \cup new
<1>1. CASE /\ NextId(i)
           /\ apps' = apps \cup {Made(s, n, i)}
           /\ used' = used \cup {i}
      <2>1. {i} \in SUBSET FreeIds
            BY <1>1 DEF NextId
      <2> WITNESS {i} \in SUBSET FreeIds
      <2> QED BY <1>1
<1>2. ASSUME i \in FreeIds, NEW j \in FreeIds \ {i},
             apps' = apps \cup {Made(s, n, j), Made(s, n, i)},
             used' = used \cup {j, i}
      PROVE  \E new \in SUBSET FreeIds :
              /\ i \in new
              /\ apps' = apps \cup {Made(s, n, k) : k \in new}
              /\ used' = used \cup new
      <2>1. {j, i} \in SUBSET FreeIds
            BY <1>2
      <2> WITNESS {j, i} \in SUBSET FreeIds
      <2> QED BY <1>2
<1> QED BY <1>1, <1>2 DEF Create, CreateOne

\* What a write whose answer was lost did.
LEMMA LostDoes ==
    ASSUME NEW p, AnswerLost(p)
    PROVE  \/ \E a \in p.old : Delete(a.id) /\ UNCHANGED <<tags, used>>
           \/ /\ p.at = "apply"
              /\ \E n \in p.todo :
                    \/ \E a \in p.old : Update(p.spec, n, a.id) /\ UNCHANGED used
                    \/ \E i \in AppIds : CreateOne(p.spec, n, i)
<1>1. \A n : Candidates(p, n) \subseteq p.old
      BY DEF Candidates
<1> QED BY <1>1 DEF AnswerLost

\* The pass after the entry n, done with the application i.
LEMMA DoneDoes ==
    ASSUME NEW p \in AppPass, NEW n \in p.todo, NEW i \in AppIds, Done(p, n, i)
    PROVE  \E q \in AppPass :
              /\ apass' = {q}
              /\ q.at = IF p.todo = {n} THEN "prune" ELSE "apply"
              /\ q.todo = p.todo \ {n}
              /\ q.done = p.done \cup {[name |-> n, id |-> i]}
              /\ q.matched = p.matched \cup {a.id : a \in {b \in p.old : b.id = i}}
              /\ q.spec = p.spec /\ q.old = p.old /\ q.fin = p.fin
<1> DEFINE at == IF p.todo = {n} THEN "prune" ELSE "apply"
<1> DEFINE todo == p.todo \ {n}
<1> DEFINE done == p.done \cup {[name |-> n, id |-> i]}
<1> DEFINE matched == p.matched \cup {a.id : a \in {b \in p.old : b.id = i}}
<1> DEFINE q == [p EXCEPT !.at = at, !.todo = todo, !.done = done, !.matched = matched]
<1>1. at \in AppSteps
      BY DEF AppSteps
<1>2. todo \in SUBSET Names /\ [name |-> n, id |-> i] \in Entry
      BY DEF AppPass, Entry
<1>3. done \in SUBSET Entry
      BY <1>2 DEF AppPass
<1>4. matched \in SUBSET AppIds
      BY DEF AppPass
<1>5. apass' = {q}
      BY DEF Done
<1> HIDE DEF at, todo, done, matched
<1>6. /\ q \in AppPass
      /\ q.at = at /\ q.todo = todo /\ q.done = done /\ q.matched = matched
      /\ q.spec = p.spec /\ q.old = p.old /\ q.fin = p.fin
      BY <1>1, <1>2, <1>3, <1>4 DEF AppPass
<1> HIDE DEF q
<1> QED BY <1>5, <1>6 DEF at, todo, done, matched

\* The passes of the steps that follow one another without a choice of entry:
\* q is p with another step and another list.
Moved(p, q, at, old) ==
    /\ q.at = at /\ q.old = old
    /\ q.spec = p.spec /\ q.todo = p.todo /\ q.matched = p.matched
    /\ q.done = p.done /\ q.fin = p.fin

LEMMA PruneDoes ==
    ASSUME NEW p \in AppPass, PruneApp(p)
    PROVE  \E q \in AppPass :
              /\ apass' = {q}
              /\ \/ /\ \A a \in p.old : a.id \in p.matched
                    /\ apps' = apps /\ Moved(p, q, "save", p.old)
                 \/ \E a \in p.old :
                       /\ a.id \notin p.matched
                       /\ Delete(a.id) /\ Moved(p, q, "prune", p.old \ {a})
<1>0. p.at = "prune"
      BY DEF PruneApp
<1>1. CASE /\ \A a \in p.old : a.id \in p.matched
           /\ apass' = {[p EXCEPT !.at = "save"]} /\ apps' = apps
      <2> DEFINE q == [p EXCEPT !.at = "save"]
      <2>1. q \in AppPass /\ Moved(p, q, "save", p.old)
            BY DEF AppPass, AppSteps, Moved
      <2> HIDE DEF q
      <2> QED BY <1>1, <2>1 DEF q
<1>2. ASSUME NEW a \in p.old, a.id \notin p.matched, Delete(a.id),
             apass' = {[p EXCEPT !.old = @ \ {a}]}
      PROVE  \E q \in AppPass :
                apass' = {q} /\ Delete(a.id) /\ Moved(p, q, "prune", p.old \ {a})
      <2> DEFINE q == [p EXCEPT !.old = @ \ {a}]
      <2>1. q \in AppPass /\ Moved(p, q, "prune", p.old \ {a})
            BY <1>0 DEF AppPass, Moved
      <2> HIDE DEF q
      <2> QED BY <1>2, <2>1 DEF q
<1>3. \/ <1>1!1
      \/ \E a \in p.old : /\ a.id \notin p.matched /\ Delete(a.id)
                          /\ apass' = {[p EXCEPT !.old = @ \ {a}]}
      BY DEF PruneApp, AGoTo
<1> QED BY <1>1, <1>2, <1>3

LEMMA ListOwnDoes ==
    ASSUME TypeOK, NEW p \in apass, ListOwn(p)
    PROVE  \/ apass' = {}
           \/ \E q \in AppPass :
                 /\ apass' = {q}
                 /\ Moved(p, q, IF OwnListed = {} THEN AfterUndo(p) ELSE "undo", OwnListed)
                 /\ UNCHANGED astatus
<1> DEFINE at == IF OwnListed = {} THEN AfterUndo(p) ELSE "undo"
<1> DEFINE q == [p EXCEPT !.at = at, !.old = OwnListed]
<1>1. at \in AppSteps /\ OwnListed \in SUBSET App
      BY DEF AfterUndo, AppSteps, OwnListed, Listed, TypeOK
<1>2. apass' = {} \/ (apass' = {q} /\ UNCHANGED astatus)
      BY DEF ListOwn, NotReady
<1> HIDE DEF at
<1>3. q \in AppPass /\ Moved(p, q, at, OwnListed)
      BY <1>1 DEF AppPass, Moved, TypeOK
<1> HIDE DEF q
<1> QED BY <1>2, <1>3 DEF at

LEMMA DeleteDoes ==
    ASSUME NEW p \in AppPass, DeleteApp(p)
    PROVE  \E a \in p.old, q \in AppPass :
              /\ apass' = {q} /\ Delete(a.id)
              /\ Moved(p, q, IF p.old = {a} THEN "untag" ELSE "undo", p.old \ {a})
<1>1. PICK a \in p.old :
         /\ Delete(a.id)
         /\ apass' = {[p EXCEPT !.at = IF p.old = {a} THEN "untag" ELSE "undo",
                                !.old = @ \ {a}]}
      BY DEF DeleteApp
<1> DEFINE at == IF p.old = {a} THEN "untag" ELSE "undo"
<1> DEFINE old == p.old \ {a}
<1> DEFINE q == [p EXCEPT !.at = at, !.old = old]
<1>2. at \in AppSteps /\ old \in SUBSET App
      BY DEF AppSteps, AppPass
<1>3. apass' = {q}
      BY <1>1
<1> HIDE DEF at, old
<1>4. q \in AppPass /\ Moved(p, q, at, old)
      BY <1>2 DEF AppPass, Moved
<1> HIDE DEF q
<1> QED BY <1>1, <1>3, <1>4 DEF at, old

LEMMA DeleteTagsDoes ==
    ASSUME NEW p \in AppPass, DeleteTags(p)
    PROVE  \E q \in AppPass : apass' = {q} /\ Moved(p, q, AfterUndo(p), p.old)
<1> DEFINE q == [p EXCEPT !.at = AfterUndo(p)]
<1>1. AfterUndo(p) \in AppSteps
      BY DEF AfterUndo, AppSteps
<1>2. q \in AppPass /\ Moved(p, q, AfterUndo(p), p.old)
      BY <1>1 DEF AppPass, Moved
<1>3. apass' = {q}
      BY DEF DeleteTags, AGoTo
<1> HIDE DEF q
<1> QED BY <1>2, <1>3

-----------------------------------------------------------------------------
(* Types.                                                                  *)

\* What a write makes of the applications has their type.
LEMMA WriteTypes ==
    ASSUME TypeOK, NEW s \in Specs, NEW n \in DOMAIN s.apps, NEW i \in AppIds,
           \/ Update(s, n, i) /\ UNCHANGED used
           \/ CreateOne(s, n, i) \/ Create(s, n, i)
    PROVE  apps' \subseteq App /\ used' \subseteq AppIds /\ tags' \in BOOLEAN
<1>1. \A j \in AppIds : Made(s, n, j) \in App
      BY MadeType
<1>2. CASE Update(s, n, i) /\ UNCHANGED used
      <2>1. apps' \subseteq App
            <3> SUFFICES ASSUME NEW b \in apps
                         PROVE  [Made(s, n, i) EXCEPT !.by = b.by] \in App
                  BY <1>2 DEF Update, TypeOK
            <3>1. b.by \in BOOLEAN /\ Made(s, n, i) \in App
                  BY <1>1 DEF TypeOK, App
            <3> QED BY <3>1 DEF App
      <2> QED BY <1>2, <2>1 DEF Update, TypeOK
<1>3. CASE CreateOne(s, n, i) \/ Create(s, n, i)
      <2>1. apps' \subseteq App /\ used' \subseteq AppIds
            BY <1>1, <1>3, CreateDoes DEF FreeIds, TypeOK
      <2> QED BY <1>3, <2>1 DEF Create, CreateOne
<1> QED BY <1>2, <1>3

LEMMA TypeStep == TypeOK /\ Marked /\ [Next]_vars => TypeOK'
<1> SUFFICES ASSUME TypeOK, Marked, [Next]_vars PROVE TypeOK'
      OBVIOUS
<1> USE DEF astatus, remote
<1>0. MaxEdits \in Nat /\ MaxFaults \in Nat
      BY AppsAssumption
<1>1. Fault => faults' \in 0..MaxFaults
      BY <1>0 DEF Fault, TypeOK
<1>2. NotReady => tracked' \subseteq Entry /\ ready' \in BOOLEAN /\ apass' \subseteq AppPass
      BY DEF NotReady, TypeOK
<1>3. \A p \in apass : Failed(p) =>
         tracked' \subseteq Entry /\ ready' \in BOOLEAN /\ apass' \subseteq AppPass
      BY DEF Failed, TypeOK, AppPass
<1>4. \A step \in AppSteps, fin \in BOOLEAN : {NewPass(step, fin)} \subseteq AppPass
      BY DEF NewPass, TypeOK, AppPass
<1>5. OwnListed \subseteq App
      BY DEF OwnListed, Listed, TypeOK
<1>6. CASE UNCHANGED vars
      BY <1>6 DEF vars, TypeOK
<1>7. CASE EditSpec
      BY <1>0, <1>7 DEF EditSpec, TypeOK
<1>8. CASE DeleteExposure
      BY <1>8 DEF DeleteExposure, TypeOK
<1>9. CASE AbortPass
      BY <1>1, <1>9 DEF AbortPass, TypeOK
<1>10. CASE MeddleApp
      <2>1. apps' \subseteq App
            <3>1. PICK a \in apps :
                     \/ apps' = apps \ {a}
                     \/ \E b \in Bodies : apps' = (apps \ {a}) \cup {[a EXCEPT !.body = b]}
                     \/ apps' = (apps \ {a}) \cup {[a EXCEPT !.own = FALSE]}
                     \/ apps' = (apps \ {a}) \cup {[a EXCEPT !.domains = {}]}
                  BY <1>10 DEF MeddleApp
            <3>2. a \in App
                  BY DEF TypeOK
            <3>3. /\ \A b \in Bodies : [a EXCEPT !.body = b] \in App
                  /\ [a EXCEPT !.own = FALSE] \in App
                  /\ [a EXCEPT !.domains = {}] \in App
                  BY <3>2 DEF App
            <3> QED BY <3>1, <3>3 DEF TypeOK
      <2> QED BY <1>1, <1>10, <2>1 DEF MeddleApp, TypeOK
<1>11. CASE Begin
      <2>1. tracked' \subseteq Entry /\ ready' \in BOOLEAN /\ apass' \subseteq AppPass
            BY <1>2, <1>4, <1>11 DEF Begin, TypeOK, AppSteps
      <2>2. faults' \in 0..MaxFaults
            BY <1>1, <1>11 DEF Begin, TypeOK
      <2> QED BY <1>11, <2>1, <2>2 DEF Begin, TypeOK
<1>12. CASE Finalize
      <2>1. tracked' \subseteq Entry /\ ready' \in BOOLEAN /\ apass' \subseteq AppPass
            BY <1>2, <1>4, <1>12 DEF Finalize, TypeOK, AppSteps
      <2>2. faults' \in 0..MaxFaults /\ obj' \in {"live", "deleting", "gone"}
            BY <1>1, <1>12 DEF Finalize, TypeOK
      <2> QED BY <1>12, <2>1, <2>2 DEF Finalize, TypeOK
<1>13. ASSUME NEW p \in apass, WriteFails(p) PROVE TypeOK'
      <2>1. tracked' \subseteq Entry /\ ready' \in BOOLEAN /\ apass' \subseteq AppPass
            BY <1>3, <1>13 DEF WriteFails
      <2>2. faults' \in 0..MaxFaults
            BY <1>1, <1>13 DEF WriteFails
      <2>3. /\ p.spec \in Specs /\ \A a \in p.old : a.id \in AppIds
            /\ p.at = "apply" => p.todo \subseteq DOMAIN p.spec.apps
            BY DEF TypeOK, Marked, AppPass, App
      <2>4. apps' \subseteq App /\ used' \subseteq AppIds /\ tags' \in BOOLEAN
            <3>1. CASE UNCHANGED remote \/ (tags' = TRUE /\ UNCHANGED <<apps, used>>)
                  BY <3>1 DEF TypeOK
            <3>2. CASE AnswerLost(p)
                  <4>1. ASSUME NEW a \in p.old, Delete(a.id), UNCHANGED <<tags, used>>
                        PROVE  apps' \subseteq App /\ used' \subseteq AppIds /\ tags' \in BOOLEAN
                        BY <4>1 DEF Delete, TypeOK
                  <4>2. ASSUME p.at = "apply", NEW n \in p.todo, NEW i \in AppIds,
                               \/ Update(p.spec, n, i) /\ UNCHANGED used
                               \/ CreateOne(p.spec, n, i)
                        PROVE  apps' \subseteq App /\ used' \subseteq AppIds /\ tags' \in BOOLEAN
                        BY <2>3, <4>2, WriteTypes
                  <4> QED BY <2>3, <3>2, <4>1, <4>2, LostDoes
            <3> QED BY <1>13, <3>1, <3>2 DEF WriteFails
      <2> QED BY <1>13, <2>1, <2>2, <2>4 DEF WriteFails, TypeOK
<1>14. ASSUME NEW p \in apass,
              \/ ListApps(p) \/ PruneApp(p) \/ SaveStatus(p) \/ ListOwn(p)
              \/ DeleteApp(p) \/ DeleteTags(p) \/ DropFinalizer(p)
       PROVE  TypeOK'
      <2>0. p \in AppPass
            BY DEF TypeOK
      <2>1. CASE ListApps(p)
            <3>1. [p EXCEPT !.at = "apply", !.old = OwnListed,
                            !.todo = DOMAIN p.spec.apps] \in AppPass
                  BY <1>5, <2>0, AppsAssumption DEF AppPass, AppSteps
            <3>2. tracked' \subseteq Entry /\ ready' \in BOOLEAN /\ apass' \subseteq AppPass
                  BY <1>2, <2>1, <3>1 DEF ListApps, TypeOK
            <3> QED BY <2>1, <3>2 DEF ListApps, TypeOK
      <2>2. CASE PruneApp(p)
            <3>1. apass' \subseteq AppPass
                  BY <2>0, <2>2, PruneDoes
            <3> QED BY <2>2, <3>1 DEF PruneApp, Delete, TypeOK
      <2>3. CASE SaveStatus(p)
            <3>1. tracked' \subseteq Entry
                  BY <2>0, <2>3 DEF SaveStatus, AppPass
            <3>2. ready' \in BOOLEAN
                  BY <2>3 DEF SaveStatus
            <3> QED BY <2>3, <3>1, <3>2 DEF SaveStatus, TypeOK
      <2>4. CASE ListOwn(p)
            <3>1. apass' \subseteq AppPass
                  BY <2>4, ListOwnDoes
            <3>2. tracked' \subseteq Entry /\ ready' \in BOOLEAN
                  BY <1>2, <2>4 DEF ListOwn, TypeOK
            <3> QED BY <2>4, <3>1, <3>2 DEF ListOwn, TypeOK
      <2>5. CASE DeleteApp(p)
            <3>1. apass' \subseteq AppPass
                  BY <2>0, <2>5, DeleteDoes
            <3> QED BY <2>5, <3>1 DEF DeleteApp, Delete, TypeOK
      <2>6. CASE DeleteTags(p)
            <3>1. apass' \subseteq AppPass
                  BY <2>0, <2>6, DeleteTagsDoes
            <3>2. tags' \in BOOLEAN
                  BY <2>6 DEF DeleteTags
            <3> QED BY <2>6, <3>1, <3>2 DEF DeleteTags, TypeOK
      <2>7. CASE DropFinalizer(p)
            BY <2>7 DEF DropFinalizer, TypeOK
      <2> QED BY <1>14, <2>1, <2>2, <2>3, <2>4, <2>5, <2>6, <2>7
<1>15. ASSUME NEW p \in apass, ApplyEntry(p) PROVE TypeOK'
      <2>0. /\ p \in AppPass /\ p.at = "apply" /\ UNCHANGED <<obj, spec, edits>>
            /\ p.todo \subseteq DOMAIN p.spec.apps
            BY <1>15, EntryOutcome DEF TypeOK, Marked
      <2>1. PICK n \in p.todo : Outcome(p, n)
            BY <1>15, EntryOutcome
      <2>2. p.spec \in Specs
            BY <2>0 DEF AppPass
      <2>3. \A i \in AppIds : Done(p, n, i) => apass' \subseteq AppPass
            BY <2>0, DoneDoes
      <2>4. \A a \in p.old : a.id \in AppIds
            BY <2>0 DEF AppPass, App
      <2>5. ASSUME NEW a \in p.old, Done(p, n, a.id),
                   UNCHANGED <<astatus, remote, faults>>
            PROVE  TypeOK'
            BY <2>0, <2>3, <2>4, <2>5 DEF TypeOK
      <2>6. ASSUME NEW a \in p.old, Update(p.spec, n, a.id), Done(p, n, a.id),
                   UNCHANGED <<astatus, used, faults>>
            PROVE  TypeOK'
            <3>1. apps' \subseteq App /\ used' \subseteq AppIds /\ tags' \in BOOLEAN
                  BY <2>0, <2>2, <2>4, <2>6, WriteTypes
            <3>2. apass' \subseteq AppPass
                  BY <2>3, <2>4, <2>6
            <3> QED BY <2>0, <2>6, <3>1, <3>2 DEF TypeOK
      <2>7. CASE Failed(p) /\ UNCHANGED <<remote, faults>>
            BY <1>3, <2>0, <2>7 DEF TypeOK
      <2>8. ASSUME NEW i \in AppIds, Create(p.spec, n, i), Done(p, n, i), UNCHANGED astatus
            PROVE  TypeOK'
            <3>1. apps' \subseteq App /\ used' \subseteq AppIds /\ tags' \in BOOLEAN
                  BY <2>0, <2>2, <2>8, WriteTypes
            <3>2. faults' \in 0..MaxFaults
                  BY <1>1, <2>8 DEF Create, TypeOK
            <3>3. apass' \subseteq AppPass
                  BY <2>3, <2>8
            <3> QED BY <2>0, <2>8, <3>1, <3>2, <3>3 DEF TypeOK
      <2> QED BY <2>1, <2>5, <2>6, <2>7, <2>8, Zenon DEF Outcome
<1> QED BY <1>6, <1>7, <1>8, <1>9, <1>10, <1>11, <1>12, <1>13, <1>14, <1>15 DEF Next, PassStep

-----------------------------------------------------------------------------
(* What a pass writes and deletes is the object's.                         *)

\* What Update makes of the applications: they keep their ids and whose they
\* are, and the ones of other ids are left alone.
LEMMA UpdateDoes ==
    ASSUME TypeOK, NEW s \in Specs, NEW n \in DOMAIN s.apps, NEW i \in AppIds,
           Update(s, n, i)
    PROVE  /\ \A b \in apps' : \E a \in apps :
                 /\ a.id = b.id /\ a.by = b.by
                 /\ \/ b = a /\ a.id # i
                    \/ /\ a.id = i /\ b.own /\ b.domains = s.apps[n].domains
                       /\ b = [Made(s, n, i) EXCEPT !.by = a.by]
           /\ \A a \in apps : /\ a.id # i => a \in apps'
                              /\ \E b \in apps' : b.id = a.id /\ b.by = a.by
<1>1. Made(s, n, i) \in App /\ Made(s, n, i).id = i /\ Made(s, n, i).own
      BY MadeType
<1>2. Made(s, n, i).domains = s.apps[n].domains
      BY MadeType
<1> DEFINE new(a) == [Made(s, n, i) EXCEPT !.by = a.by]
<1>3. ASSUME NEW a
      PROVE  new(a).id = i /\ new(a).by = a.by /\ new(a).own
             /\ new(a).domains = s.apps[n].domains
      BY <1>1, <1>2 DEF App
<1>4. apps' = {IF a.id = i THEN new(a) ELSE a : a \in apps}
      BY DEF Update
<1> HIDE DEF new
<1>5. ASSUME NEW b \in apps'
      PROVE  \E a \in apps :
                /\ a.id = b.id /\ a.by = b.by
                /\ \/ b = a /\ a.id # i
                   \/ a.id = i /\ b.own /\ b.domains = s.apps[n].domains /\ b = new(a)
      BY <1>3, <1>4
<1>6. ASSUME NEW a \in apps
      PROVE  /\ a.id # i => a \in apps'
             /\ \E b \in apps' : b.id = a.id /\ b.by = a.by
      BY <1>3, <1>4
<1> QED BY <1>5, <1>6 DEF new

\* Nothing is created, and no pass has listed more than before.
LEMMA LessIsMarked ==
    ASSUME Marked, KnowsOld, apps' \subseteq apps, used' = used,
           \A p, q \in apass' : p = q,
           \A q \in apass' : q.at = "apply" => q.todo \subseteq DOMAIN q.spec.apps,
           \A q \in apass' : \A c \in q.old : \E p \in apass : c \in p.old
    PROVE  Marked' /\ KnowsOld'
BY DEF Marked, KnowsOld

\* A write of the pass p, which then has no more listed than before or has ended.
LEMMA WriteMarks ==
    ASSUME TypeOK, Marked, KnowsOld, NEW p \in apass, p.at = "apply", NEW n \in p.todo,
           \/ \E a \in p.old : Update(p.spec, n, a.id) /\ UNCHANGED used
           \/ \E i \in AppIds : CreateOne(p.spec, n, i) \/ Create(p.spec, n, i),
           \A q, r \in apass' : q = r,
           \A q \in apass' : q.at = "apply" => q.todo \subseteq DOMAIN q.spec.apps,
           \A q \in apass' : q.old = p.old
    PROVE  Marked' /\ KnowsOld'
<1>0. /\ p.spec \in Specs /\ p.todo \subseteq DOMAIN p.spec.apps
      /\ \A a \in p.old : a.id \in AppIds
      BY DEF TypeOK, Marked, AppPass, App
<1>1. ASSUME NEW a \in p.old, Update(p.spec, n, a.id), UNCHANGED used
      PROVE  Marked' /\ KnowsOld'
      <2>1. \A b \in apps' : \E c \in apps :
               /\ c.id = b.id /\ c.by = b.by
               /\ \/ b = c /\ c.id # a.id
                  \/ c.id = a.id /\ b = [Made(p.spec, n, a.id) EXCEPT !.by = c.by]
            BY <1>0, <1>1, UpdateDoes
      <2>2. \A b \in apps : b.id = a.id => b.by
            BY DEF KnowsOld
      <2>3. \A b \in apps' : b.id \in used' /\ (b.own => b.by)
            BY <1>1, <2>1, <2>2 DEF Marked
      <2>4. \A b, c \in apps' : b.id = c.id => b = c
            BY <2>1 DEF Marked
      <2>5. KnowsOld'
            BY <1>1, <2>1 DEF KnowsOld, Marked
      <2> QED BY <2>3, <2>4, <2>5 DEF Marked
<1>2. ASSUME NEW i \in AppIds, CreateOne(p.spec, n, i) \/ Create(p.spec, n, i)
      PROVE  Marked' /\ KnowsOld'
      <2>1. PICK new \in SUBSET FreeIds :
               /\ apps' = apps \cup {Made(p.spec, n, j) : j \in new}
               /\ used' = used \cup new
            BY <1>2, CreateDoes
      <2>2. \A j \in new : Made(p.spec, n, j).id = j /\ Made(p.spec, n, j).by
            BY <1>0, MadeType DEF FreeIds
      <2>3. \A j \in new : j \notin used
            BY DEF FreeIds
      <2>4. \A b \in apps' : b.id \in used' /\ (b.own => b.by)
            BY <2>1, <2>2 DEF Marked
      <2>5. \A b, c \in apps' : b.id = c.id => b = c
            BY <2>1, <2>2, <2>3 DEF Marked
      <2>6. KnowsOld'
            BY <2>1, <2>2, <2>3 DEF KnowsOld
      <2> QED BY <2>4, <2>5, <2>6 DEF Marked
<1> QED BY <1>1, <1>2

LEMMA MarkedStep == TypeOK /\ Marked /\ KnowsOld /\ [Next]_vars => Marked' /\ KnowsOld'
<1> SUFFICES ASSUME TypeOK, Marked, KnowsOld, [Next]_vars PROVE Marked' /\ KnowsOld'
      OBVIOUS
<1> USE DEF astatus, remote
<1>1. CASE apass' = {} /\ apps' \subseteq apps /\ used' = used
      BY <1>1, LessIsMarked
<1>2. CASE UNCHANGED <<apass, apps, used>>
      BY <1>2 DEF Marked, KnowsOld
<1>3. CASE MeddleApp
      <2>1. PICK a \in apps :
               \/ apps' = apps \ {a}
               \/ \E b \in Bodies : apps' = (apps \ {a}) \cup {[a EXCEPT !.body = b]}
               \/ apps' = (apps \ {a}) \cup {[a EXCEPT !.own = FALSE]}
               \/ apps' = (apps \ {a}) \cup {[a EXCEPT !.domains = {}]}
            BY <1>3 DEF MeddleApp
      <2>2. UNCHANGED <<apass, used>>
            BY <1>3 DEF MeddleApp
      <2>3. CASE apps' = apps \ {a}
            BY <2>2, <2>3, LessIsMarked DEF Marked
      <2>4. ASSUME NEW c, apps' = (apps \ {a}) \cup {c},
                   c.id = a.id, c.by = a.by, c.own => a.own
            PROVE  Marked' /\ KnowsOld'
            BY <2>2, <2>4 DEF Marked, KnowsOld
      <2>5. a \in App
            BY DEF TypeOK
      <2>6. ASSUME NEW b \in Bodies, apps' = (apps \ {a}) \cup {[a EXCEPT !.body = b]}
            PROVE  Marked' /\ KnowsOld'
            <3> DEFINE c == [a EXCEPT !.body = b]
            <3>1. c.id = a.id /\ c.by = a.by /\ c.own = a.own
                  BY <2>5 DEF App
            <3> HIDE DEF c
            <3> QED BY <2>4, <2>6, <3>1 DEF c
      <2>7. CASE apps' = (apps \ {a}) \cup {[a EXCEPT !.own = FALSE]}
            <3> DEFINE c == [a EXCEPT !.own = FALSE]
            <3>1. c.id = a.id /\ c.by = a.by /\ c.own = FALSE
                  BY <2>5 DEF App
            <3> HIDE DEF c
            <3> QED BY <2>4, <2>7, <3>1 DEF c
      <2>8. CASE apps' = (apps \ {a}) \cup {[a EXCEPT !.domains = {}]}
            <3> DEFINE c == [a EXCEPT !.domains = {}]
            <3>1. c.id = a.id /\ c.by = a.by /\ c.own = a.own
                  BY <2>5 DEF App
            <3> HIDE DEF c
            <3> QED BY <2>4, <2>8, <3>1 DEF c
      <2> QED BY <2>1, <2>3, <2>6, <2>7, <2>8
<1>4. CASE EditSpec \/ DeleteExposure
      BY <1>2, <1>4 DEF EditSpec, DeleteExposure
<1>5. CASE AbortPass
      BY <1>1, <1>5 DEF AbortPass
<1>6. ASSUME NEW step \in AppSteps \ {"apply"}, NEW fin,
             apass' = {NewPass(step, fin)}, UNCHANGED remote
      PROVE  Marked' /\ KnowsOld'
      BY <1>6, LessIsMarked DEF NewPass
<1>7. CASE Begin
      <2>1. UNCHANGED remote
            BY <1>7 DEF Begin
      <2>2. CASE NotReady
            BY <1>1, <2>1, <2>2 DEF NotReady
      <2>3. CASE apass' = {NewPass(IF spec.on THEN "list" ELSE "unlist", FALSE)}
            <3>1. (IF spec.on THEN "list" ELSE "unlist") \in AppSteps \ {"apply"}
                  BY DEF AppSteps
            <3> QED BY <1>6, <2>1, <2>3, <3>1
      <2> QED BY <1>7, <2>2, <2>3 DEF Begin
<1>8. CASE Finalize
      <2>1. UNCHANGED remote
            BY <1>8 DEF Finalize
      <2>2. CASE NotReady
            BY <1>1, <2>1, <2>2 DEF NotReady
      <2>3. CASE apass' = {NewPass("unlist", TRUE)}
            BY <1>6, <2>1, <2>3 DEF AppSteps
      <2>4. CASE UNCHANGED apass
            BY <1>2, <2>1, <2>4
      <2> QED BY <1>8, <2>2, <2>3, <2>4 DEF Finalize
<1>9. ASSUME NEW p \in apass, WriteFails(p) PROVE Marked' /\ KnowsOld'
      <2>0. apass' = {}
            BY <1>9 DEF WriteFails, Failed
      <2>1. CASE UNCHANGED <<apps, used>>
            BY <1>1, <2>0, <2>1
      <2>2. CASE AnswerLost(p)
            <3>1. ASSUME NEW a \in p.old, Delete(a.id), UNCHANGED used
                  PROVE  Marked' /\ KnowsOld'
                  BY <1>1, <2>0, <3>1 DEF Delete
            <3>2. ASSUME p.at = "apply", NEW n \in p.todo,
                         \/ \E a \in p.old : Update(p.spec, n, a.id) /\ UNCHANGED used
                         \/ \E i \in AppIds : CreateOne(p.spec, n, i)
                  PROVE  Marked' /\ KnowsOld'
                  BY <2>0, <3>2, WriteMarks
            <3> QED BY <2>2, <3>1, <3>2, LostDoes
      <2> QED BY <1>9, <2>1, <2>2 DEF WriteFails
<1>10. ASSUME NEW p \in apass, NEW q, apass' = {q}, q.old = OwnListed,
              q.at = "apply" => q.todo \subseteq DOMAIN q.spec.apps, UNCHANGED remote
       PROVE  Marked' /\ KnowsOld'
      BY <1>10 DEF Marked, KnowsOld, OwnListed, Listed
<1>11. ASSUME NEW p \in apass, NEW q, apass' = {q}, q.old \subseteq p.old,
              q.at # "apply", apps' \subseteq apps, UNCHANGED used
       PROVE  Marked' /\ KnowsOld'
      BY <1>11, LessIsMarked
<1>12. ASSUME NEW p \in apass,
              \/ ListApps(p) \/ PruneApp(p) \/ SaveStatus(p) \/ ListOwn(p)
              \/ DeleteApp(p) \/ DeleteTags(p) \/ DropFinalizer(p)
       PROVE  Marked' /\ KnowsOld'
      <2>0. p \in AppPass
            BY DEF TypeOK
      <2>1. CASE ListApps(p)
            <3> DEFINE q == [p EXCEPT !.at = "apply", !.old = OwnListed,
                                      !.todo = DOMAIN p.spec.apps]
            <3>1. q.old = OwnListed /\ q.spec = p.spec /\ q.todo = DOMAIN p.spec.apps
                  BY <2>0 DEF AppPass
            <3>2. UNCHANGED remote /\ (NotReady \/ apass' = {q})
                  BY <2>1 DEF ListApps
            <3> HIDE DEF q
            <3> QED BY <1>1, <1>10, <3>1, <3>2 DEF NotReady
      <2>2. CASE PruneApp(p)
            <3>0. p.at = "prune" /\ apps' \subseteq apps /\ UNCHANGED used
                  BY <2>2 DEF PruneApp, Delete
            <3>1. \E q : apass' = {q} /\ q.at # "apply" /\ q.old \subseteq p.old
                  BY <2>0, <2>2, PruneDoes DEF Moved
            <3> QED BY <1>11, <3>0, <3>1
      <2>3. CASE SaveStatus(p)
            BY <1>1, <2>3 DEF SaveStatus
      <2>4. CASE ListOwn(p)
            <3>1. UNCHANGED remote
                  BY <2>4 DEF ListOwn
            <3>2. CASE apass' = {}
                  BY <1>1, <3>1, <3>2
            <3>3. CASE \E q : apass' = {q} /\ q.at # "apply" /\ q.old = OwnListed
                  BY <1>10, <3>1, <3>3
            <3> QED BY <2>4, <3>2, <3>3, ListOwnDoes DEF Moved, AfterUndo
      <2>5. CASE DeleteApp(p)
            <3>1. apps' \subseteq apps /\ UNCHANGED used
                  BY <2>5 DEF DeleteApp, Delete
            <3>2. \E q : apass' = {q} /\ q.at # "apply" /\ q.old \subseteq p.old
                  BY <2>0, <2>5, DeleteDoes DEF Moved
            <3> QED BY <1>11, <3>1, <3>2
      <2>6. CASE DeleteTags(p)
            <3>1. UNCHANGED <<apps, used>>
                  BY <2>6 DEF DeleteTags
            <3>2. \E q : apass' = {q} /\ q.at # "apply" /\ q.old \subseteq p.old
                  BY <2>0, <2>6, DeleteTagsDoes DEF Moved, AfterUndo
            <3> QED BY <1>11, <3>1, <3>2
      <2>7. CASE DropFinalizer(p)
            BY <1>1, <2>7 DEF DropFinalizer
      <2> QED BY <1>12, <2>1, <2>2, <2>3, <2>4, <2>5, <2>6, <2>7
<1>13. ASSUME NEW p \in apass, ApplyEntry(p) PROVE Marked' /\ KnowsOld'
      <2>0. /\ p \in AppPass /\ p.at = "apply" /\ p.spec \in Specs
            /\ p.todo \subseteq DOMAIN p.spec.apps
            BY <1>13, EntryOutcome DEF TypeOK, Marked, AppPass
      <2>1. PICK n \in p.todo : Outcome(p, n)
            BY <1>13, EntryOutcome
      <2>2. \A a \in p.old : a.id \in AppIds
            BY <2>0 DEF AppPass, App
      <2>3. ASSUME NEW i \in AppIds, Done(p, n, i)
            PROVE  \E q : /\ apass' = {q} /\ q.old = p.old
                          /\ q.at = "apply" => q.todo \subseteq DOMAIN q.spec.apps
            BY <2>0, <2>3, DoneDoes
      <2>4. ASSUME NEW a \in p.old, Done(p, n, a.id), UNCHANGED remote
            PROVE  Marked' /\ KnowsOld'
            BY <2>2, <2>3, <2>4 DEF Marked, KnowsOld
      <2>5. ASSUME NEW a \in p.old, Update(p.spec, n, a.id), Done(p, n, a.id),
                   UNCHANGED used
            PROVE  Marked' /\ KnowsOld'
            <3>1. PICK q : /\ apass' = {q} /\ q.old = p.old
                           /\ q.at = "apply" => q.todo \subseteq DOMAIN q.spec.apps
                  BY <2>2, <2>3, <2>5
            <3> QED BY <2>0, <2>5, <3>1, WriteMarks
      <2>6. CASE Failed(p) /\ UNCHANGED remote
            BY <1>1, <2>6 DEF Failed
      <2>7. ASSUME NEW i \in AppIds, Create(p.spec, n, i), Done(p, n, i)
            PROVE  Marked' /\ KnowsOld'
            <3>1. PICK q : /\ apass' = {q} /\ q.old = p.old
                           /\ q.at = "apply" => q.todo \subseteq DOMAIN q.spec.apps
                  BY <2>3, <2>7
            <3> QED BY <2>0, <2>7, <3>1, WriteMarks
      <2> QED BY <2>1, <2>4, <2>5, <2>6, <2>7, Zenon DEF Outcome
<1>14. CASE UNCHANGED vars
      BY <1>2, <1>14 DEF vars
<1> QED BY <1>3, <1>4, <1>5, <1>7, <1>8, <1>9, <1>12, <1>13, <1>14 DEF Next, PassStep

-----------------------------------------------------------------------------
(* Without faults the object leaves nothing.                               *)

\* A pass that ends leaves everything to the status.
LEMMA EndFollows ==
    ASSUME Marked, NEW p \in apass, p.at # "untag", MarksWhole, TagsTended, GoneClean,
           apass' = {}, UNCHANGED <<apps, tags, obj>>, tracked' = {} => Clean
    PROVE  Followed'
BY DEF Marked, Followed, MarksWhole, TagsTended, GoneClean, UntrackedClean, Clean

\* A pass that goes on is orderly and accounts for the tags.
LEMMA StepFollows ==
    ASSUME NEW p \in apass, GoneClean, UNCHANGED obj, NEW q, apass' = {q},
           q.at \notin {"list", "unlist"}, MarksWhole', TagsTended', Orderly(q)'
    PROVE  Followed'
BY DEF Followed, GoneClean, UntrackedClean

LEMMA EntryFollows ==
    ASSUME TypeOK, Marked, KnowsOld, Followed, faults = 0, faults' = 0,
           NEW p \in apass, ApplyEntry(p)
    PROVE  Followed'
<1>0. /\ p \in AppPass /\ p.at = "apply" /\ p.spec \in Specs /\ UNCHANGED obj
      /\ p.todo \subseteq DOMAIN p.spec.apps
      BY EntryOutcome DEF TypeOK, Marked, AppPass
<1>1. PICK n \in p.todo : Outcome(p, n)
      BY EntryOutcome
<1>2. /\ MarksWhole /\ GoneClean /\ ListStands(p) /\ Valid(p.spec)
      BY <1>0 DEF Followed, Orderly, WritesKept
<1>3. \A a \in p.old : a.id \in AppIds
      BY <1>0 DEF AppPass, App
<1>4. n \in DOMAIN p.spec.apps /\ p.spec.apps[n].domains # {}
      BY <1>0, <1>2 DEF Valid
\* The application k is kept, and the list still stands.
<1>5. ASSUME NEW i \in AppIds, Done(p, n, i), MarksWhole',
             NEW k \in apps', k.by, k.id = i,
             \A a \in apps : \E b \in apps' : b.id = a.id
      PROVE  Followed'
      <2>1. PICK q : /\ apass' = {q}
                     /\ q.at = IF p.todo = {n} THEN "prune" ELSE "apply"
                     /\ q.todo = p.todo \ {n}
                     /\ q.done = p.done \cup {[name |-> n, id |-> i]}
                     /\ q.matched = p.matched \cup {a.id : a \in {b \in p.old : b.id = i}}
                     /\ q.spec = p.spec /\ q.old = p.old /\ q.fin = p.fin
            BY <1>0, <1>5, DoneDoes
      <2>2. ListStands(q)'
            BY <1>2, <1>5, <2>1 DEF ListStands
      <2>3. q.at \in {"apply", "prune"} /\ q.done # {} /\ (q.at = "apply" => q.todo # {})
            BY <2>1
      <2>4. \A b \in q.old : b.id = k.id => b.id \in q.matched
            BY <1>5, <2>1
      <2>5. WritesKept(q)'
            BY <1>2, <1>5, <2>1, <2>3, <2>4 DEF WritesKept, Valid, Covers
      <2>6. RemovesAll(q)'
            BY <2>3 DEF RemovesAll
      <2>7. TagsTended'
            BY <1>5 DEF TagsTended
      <2> QED BY <1>0, <1>2, <1>5, <2>1, <2>2, <2>3, <2>5, <2>6, <2>7, StepFollows
              DEF Orderly
<1>6. ASSUME NEW a \in p.old, Done(p, n, a.id), UNCHANGED remote
      PROVE  Followed'
      <2>1. UNCHANGED apps /\ \E k \in apps : k.id = a.id /\ k.by
            BY <1>2, <1>6 DEF ListStands, KnowsOld, remote
      <2>2. MarksWhole'
            BY <1>2, <2>1 DEF MarksWhole
      <2> QED BY <1>3, <1>5, <1>6, <2>1, <2>2
<1>7. ASSUME NEW a \in p.old, Update(p.spec, n, a.id), Done(p, n, a.id)
      PROVE  Followed'
      <2>1. /\ \A b \in apps' : \E c \in apps :
                  /\ c.id = b.id /\ c.by = b.by
                  /\ b = c \/ (b.own /\ b.domains = p.spec.apps[n].domains)
            /\ \A c \in apps : \E b \in apps' : b.id = c.id /\ b.by = c.by
            BY <1>0, <1>3, <1>4, <1>7, UpdateDoes
      <2>2. MarksWhole'
            BY <1>2, <1>4, <2>1 DEF MarksWhole
      <2>3. \E k \in apps : k.id = a.id /\ k.by
            BY <1>2 DEF ListStands, KnowsOld
      <2> QED BY <1>3, <1>5, <1>7, <2>1, <2>2, <2>3
<1>8. ASSUME NEW i \in AppIds, Create(p.spec, n, i), Done(p, n, i)
      PROVE  Followed'
      <2>1. PICK new \in SUBSET FreeIds :
               i \in new /\ apps' = apps \cup {Made(p.spec, n, j) : j \in new}
            BY <1>8, CreateDoes
      <2>2. \A j \in new : /\ Made(p.spec, n, j).id = j
                           /\ Made(p.spec, n, j).own /\ Made(p.spec, n, j).by
                           /\ Made(p.spec, n, j).domains # {}
            BY <1>0, <1>4, MadeType DEF FreeIds
      <2>3. MarksWhole'
            BY <1>2, <2>1, <2>2 DEF MarksWhole
      <2> QED BY <1>5, <1>8, <2>1, <2>2, <2>3
<1>9. ASSUME NEW a \in p.old, \A b \in apps : b.id # a.id
      PROVE  FALSE
      BY <1>2, <1>9 DEF ListStands
<1> QED BY <1>1, <1>6, <1>7, <1>8, <1>9, Zenon DEF Outcome

LEMMA FollowedStep ==
    TypeOK /\ Marked /\ KnowsOld /\ Followed /\ [Next]_vars => Followed'
<1> SUFFICES ASSUME TypeOK, Marked, KnowsOld, Followed, [Next]_vars, faults' = 0
             PROVE  Followed'
      BY DEF Followed
<1> USE DEF astatus, remote
<1>0. ~Fault
      BY DEF Fault, TypeOK
<1>1. faults = 0
      <2>1. \A s, n, i : Create(s, n, i) => UNCHANGED faults \/ Fault
            BY DEF Create
      <2>2. ASSUME NEW p \in apass, ApplyEntry(p) PROVE UNCHANGED faults \/ Fault
            BY <2>1, <2>2, EntryOutcome, Zenon DEF Outcome
      <2>3. ASSUME NEW p \in apass,
                   \/ ListApps(p) \/ PruneApp(p) \/ SaveStatus(p) \/ ListOwn(p)
                   \/ DeleteApp(p) \/ DeleteTags(p) \/ DropFinalizer(p) \/ WriteFails(p)
            PROVE  UNCHANGED faults \/ Fault
            BY <2>3 DEF ListApps, PruneApp, SaveStatus, ListOwn, DeleteApp, DeleteTags,
                        DropFinalizer, WriteFails
      <2>4. Begin \/ Finalize => UNCHANGED faults \/ Fault
            BY DEF Begin, Finalize
      <2>5. EditSpec \/ DeleteExposure => UNCHANGED faults
            BY DEF EditSpec, DeleteExposure
      <2>6. MeddleApp \/ AbortPass => Fault
            BY DEF MeddleApp, AbortPass
      <2>7. UNCHANGED vars => UNCHANGED faults
            BY DEF vars
      <2>8. UNCHANGED faults \/ Fault
            BY <2>2, <2>3, <2>4, <2>5, <2>6, <2>7 DEF Next, PassStep
      <2> QED BY <1>0, <2>8
<1>2. /\ MarksWhole /\ TagsTended /\ UntrackedClean /\ GoneClean
      /\ \A p \in apass : ListStands(p) /\ WritesKept(p) /\ RemovesAll(p)
      BY <1>1 DEF Followed, Orderly
<1>3. CASE EditSpec \/ DeleteExposure \/ UNCHANGED vars
      <2>1. UNCHANGED <<apps, tags, tracked, apass>> /\ (obj' = "gone" => obj = "gone")
            BY <1>3 DEF EditSpec, DeleteExposure, vars
      <2>2. (MarksWhole /\ TagsTended /\ UntrackedClean /\ GoneClean)'
            BY <1>2, <2>1 DEF MarksWhole, TagsTended, UntrackedClean, GoneClean, Clean
      <2>3. (\A p \in apass : Orderly(p))'
            BY <1>2, <2>1 DEF Orderly, ListStands, WritesKept, RemovesAll, Clean, Valid,
                              Covers
      <2> QED BY <2>2, <2>3 DEF Followed
\* A pass begins; it has neither listed nor done anything.
<1>4. ASSUME apass = {}, NEW step \in {"list", "unlist"}, NEW fin,
             step = "list" => Valid(spec),
             apass' = {NewPass(step, fin)}, UNCHANGED <<apps, tags, tracked, obj>>,
             obj # "gone"
      PROVE  Followed'
      <2> DEFINE r == NewPass(step, fin)
      <2>0. /\ apass' = {r}
            /\ r.at = step /\ r.spec = spec /\ r.old = {} /\ r.done = {}
            BY <1>4 DEF NewPass
      <2> HIDE DEF r
      <2>1. PICK q : /\ apass' = {q}
                     /\ q.at = step /\ q.spec = spec /\ q.old = {} /\ q.done = {}
            BY <2>0
      <2>2. Orderly(q)'
            BY <1>4, <2>1 DEF Orderly, ListStands, WritesKept, RemovesAll, Valid, Covers
      <2>3. (MarksWhole /\ TagsTended /\ UntrackedClean /\ GoneClean)'
            BY <1>2, <1>4 DEF MarksWhole, TagsTended, UntrackedClean, GoneClean, Clean
      <2> QED BY <2>1, <2>2, <2>3 DEF Followed
<1>5. CASE Begin
      <2>1. apass = {} /\ obj = "live" /\ UNCHANGED <<apps, tags, obj>>
            BY <1>5 DEF Begin
      <2>2. CASE NotReady
            BY <1>2, <2>1, <2>2 DEF NotReady, Followed, MarksWhole, TagsTended,
                                    UntrackedClean, GoneClean, Clean
      <2>3. CASE /\ spec.on => Valid(spec)
                 /\ apass' = {NewPass(IF spec.on THEN "list" ELSE "unlist", FALSE)}
                 /\ UNCHANGED astatus
            BY <1>4, <2>1, <2>3
      <2> QED BY <1>5, <2>2, <2>3 DEF Begin
<1>6. CASE Finalize
      <2>1. apass = {} /\ obj = "deleting" /\ UNCHANGED <<apps, tags>>
            BY <1>6 DEF Finalize
      <2>2. CASE tracked = {} /\ UNCHANGED <<astatus, apass>>
            BY <1>2, <2>1, <2>2 DEF Followed, MarksWhole, TagsTended, UntrackedClean,
                                    GoneClean, Clean
      <2>3. CASE apass' = {NewPass("unlist", TRUE)} /\ UNCHANGED <<astatus, obj>>
            BY <1>4, <2>1, <2>3
      <2> QED BY <1>0, <1>6, <2>2, <2>3 DEF Finalize
<1>7. ASSUME NEW p \in apass, ListApps(p) PROVE Followed'
      <2>0. p \in AppPass /\ p.at = "list" /\ UNCHANGED <<apps, tags, obj>>
            BY <1>7 DEF ListApps, TypeOK
      <2>1. CASE NotReady
            <3>1. \A q \in apass : q.at \in {"list", "unlist"}
                  BY <2>0 DEF Marked
            <3> QED BY <1>2, <2>0, <2>1, <3>1, EndFollows DEF NotReady, UntrackedClean
      <2>2. CASE apass' = {[p EXCEPT !.at = "apply", !.old = OwnListed,
                                     !.todo = DOMAIN p.spec.apps]}
            <3> DEFINE r == [p EXCEPT !.at = "apply", !.old = OwnListed,
                                      !.todo = DOMAIN p.spec.apps]
            <3>0. /\ r.at = "apply" /\ r.old = OwnListed /\ r.todo = DOMAIN p.spec.apps
                  /\ r.spec = p.spec /\ r.done = p.done
                  BY <2>0 DEF AppPass
            <3>6. apass' = {r}
                  BY <2>2
            <3> HIDE DEF r
            <3>1. PICK q : /\ apass' = {q} /\ q.at = "apply" /\ q.old = OwnListed
                           /\ q.todo = DOMAIN p.spec.apps
                           /\ q.spec = p.spec /\ q.done = p.done
                  BY <3>0, <3>6
            <3>2. Valid(p.spec) /\ p.done = {} /\ DOMAIN p.spec.apps # {}
                  BY <1>2, <2>0 DEF WritesKept, RemovesAll, Valid
            <3>3. ListStands(q)'
                  BY <2>0, <3>1 DEF ListStands, Marked, OwnListed, Listed
            <3>4. WritesKept(q)' /\ RemovesAll(q)'
                  BY <3>1, <3>2 DEF WritesKept, RemovesAll, Valid, Covers
            <3>5. (MarksWhole /\ TagsTended)'
                  BY <1>2, <2>0 DEF MarksWhole, TagsTended, Marked
            <3> QED BY <1>2, <2>0, <2>2, <3>1, <3>3, <3>4, <3>5, StepFollows
                    DEF Orderly
      <2> QED BY <1>7, <2>1, <2>2 DEF ListApps
<1>8. ASSUME NEW p \in apass, PruneApp(p) PROVE Followed'
      <2>0. /\ p \in AppPass /\ p.at = "prune" /\ UNCHANGED <<tags, obj>>
            /\ ListStands(p) /\ p.done # {} /\ Valid(p.spec)
            BY <1>2, <1>8 DEF PruneApp, TypeOK, WritesKept
      <2>1. PICK k \in apps : k.by /\ \A b \in p.old : b.id = k.id => b.id \in p.matched
            BY <1>2, <2>0 DEF WritesKept
      <2>2. PICK q \in AppPass :
               /\ apass' = {q}
               /\ \/ apps' = apps /\ Moved(p, q, "save", p.old)
                  \/ \E a \in p.old : /\ a.id \notin p.matched /\ Delete(a.id)
                                      /\ Moved(p, q, "prune", p.old \ {a})
            BY <1>8, <2>0, PruneDoes
      <2>3. k \in apps' /\ apps' \subseteq apps
            BY <2>1, <2>2 DEF Delete
      <2>4. /\ q.at \in {"save", "prune"} /\ q.done = p.done /\ q.spec = p.spec
            /\ q.matched = p.matched /\ q.old \subseteq p.old
            BY <2>2 DEF Moved
      <2>5. ListStands(q)'
            BY <2>0, <2>2 DEF ListStands, Moved, Delete
      <2>6. WritesKept(q)' /\ RemovesAll(q)'
            BY <2>0, <2>1, <2>3, <2>4 DEF WritesKept, RemovesAll, Valid, Covers
      <2>7. (MarksWhole /\ TagsTended)'
            BY <1>2, <2>1, <2>3 DEF MarksWhole, TagsTended
      <2> QED BY <1>2, <2>0, <2>2, <2>4, <2>5, <2>6, <2>7, StepFollows DEF Orderly
<1>9. ASSUME NEW p \in apass, SaveStatus(p) PROVE Followed'
      BY <1>2, <1>9, EndFollows DEF SaveStatus, RemovesAll
<1>10. ASSUME NEW p \in apass, ListOwn(p) PROVE Followed'
      <2>0. p \in AppPass /\ p.at = "unlist" /\ p.done = {} /\ UNCHANGED <<apps, tags, obj>>
            BY <1>2, <1>10 DEF ListOwn, TypeOK, RemovesAll
      <2>1. UNCHANGED tracked
            BY <1>10 DEF ListOwn, NotReady
      <2>2. CASE apass' = {}
            <3>1. \A q \in apass : q.at \in {"list", "unlist"}
                  BY <2>0 DEF Marked
            <3> QED BY <1>2, <2>0, <2>1, <2>2, <3>1, EndFollows DEF UntrackedClean
      <2>3. ASSUME NEW q, apass' = {q},
                   Moved(p, q, IF OwnListed = {} THEN AfterUndo(p) ELSE "undo", OwnListed)
            PROVE  Followed'
            <3>1. \A b \in apps : b.by => b \in OwnListed
                  BY <1>2 DEF MarksWhole, OwnListed, Listed
            <3>2. OwnListed = {} => Clean
                  BY <1>2, <2>0, <3>1 DEF TagsTended, Clean, Marked
            <3>3. /\ q.done = {} /\ q.old = OwnListed
                  /\ q.at = "undo" => OwnListed # {}
                  /\ q.at # "undo" => Clean /\ q.at \in {"save", "drop"}
                  BY <2>0, <2>3, <3>2 DEF Moved, AfterUndo
            <3>4. ListStands(q)'
                  BY <2>0, <3>3 DEF ListStands, Marked, OwnListed, Listed
            <3>5. WritesKept(q)'
                  BY <3>3 DEF WritesKept
            <3>6. RemovesAll(q)'
                  BY <2>0, <3>1, <3>3 DEF RemovesAll, Clean
            <3>7. (MarksWhole /\ TagsTended)'
                  BY <1>2, <2>0 DEF MarksWhole, TagsTended, Marked
            <3> QED BY <1>2, <2>0, <2>3, <3>3, <3>4, <3>5, <3>6, <3>7, StepFollows
                    DEF Orderly
      <2> QED BY <1>10, <2>2, <2>3, ListOwnDoes
<1>11. ASSUME NEW p \in apass, DeleteApp(p) PROVE Followed'
      <2>0. /\ p \in AppPass /\ p.at = "undo" /\ p.done = {} /\ UNCHANGED <<tags, obj>>
            /\ ListStands(p)
            /\ \A b \in apps : b.by => \E a \in p.old : a.id = b.id
            BY <1>2, <1>11 DEF DeleteApp, TypeOK, RemovesAll
      <2>1. PICK a \in p.old, q \in AppPass :
               /\ apass' = {q} /\ Delete(a.id)
               /\ Moved(p, q, IF p.old = {a} THEN "untag" ELSE "undo", p.old \ {a})
            BY <1>11, <2>0, DeleteDoes
      <2>2. apps' = {b \in apps : b.id # a.id}
            BY <2>1 DEF Delete
      <2>3. /\ q.done = {} /\ q.old = p.old \ {a}
            /\ \/ q.at = "untag" /\ p.old = {a}
               \/ q.at = "undo" /\ q.old # {}
            BY <2>0, <2>1 DEF Moved
      <2>4. ListStands(q)'
            BY <2>0, <2>2, <2>3 DEF ListStands
      <2>5. WritesKept(q)'
            BY <2>3 DEF WritesKept
      <2>6. RemovesAll(q)'
            BY <2>0, <2>2, <2>3 DEF RemovesAll
      <2>7. MarksWhole'
            BY <1>2, <2>2 DEF MarksWhole
      <2>8. TagsTended'
            <3>1. CASE q.at = "untag"
                  BY <2>1, <3>1 DEF TagsTended
            <3>2. CASE q.old # {}
                  <4>1. PICK c \in p.old : c # a
                        BY <2>3, <3>2
                  <4>2. PICK b \in apps : b.id = c.id
                        BY <2>0 DEF ListStands
                  <4>3. b.by /\ b \in apps'
                        BY <2>0, <2>2, <4>1, <4>2 DEF KnowsOld, ListStands
                  <4> QED BY <4>3 DEF TagsTended
            <3> QED BY <2>3, <3>1, <3>2
      <2> QED BY <1>2, <2>0, <2>1, <2>3, <2>4, <2>5, <2>6, <2>7, <2>8, StepFollows
              DEF Orderly
<1>12. ASSUME NEW p \in apass, DeleteTags(p) PROVE Followed'
      <2>0. /\ p \in AppPass /\ p.done = {} /\ UNCHANGED <<apps, obj>> /\ tags' = FALSE
            /\ ListStands(p) /\ \A b \in apps : ~b.by
            BY <1>2, <1>12 DEF DeleteTags, TypeOK, RemovesAll
      <2>1. PICK q \in AppPass : apass' = {q} /\ Moved(p, q, AfterUndo(p), p.old)
            BY <1>12, <2>0, DeleteTagsDoes
      <2>2. q.done = {} /\ q.old = p.old /\ q.at \in {"save", "drop"}
            BY <2>0, <2>1 DEF Moved, AfterUndo
      <2>3. ListStands(q)' /\ WritesKept(q)' /\ RemovesAll(q)'
            BY <2>0, <2>2 DEF ListStands, WritesKept, RemovesAll, Clean
      <2>4. (MarksWhole /\ TagsTended)'
            BY <2>0 DEF MarksWhole, TagsTended
      <2> QED BY <1>2, <2>0, <2>1, <2>2, <2>3, <2>4, StepFollows DEF Orderly
<1>13. ASSUME NEW p \in apass, DropFinalizer(p) PROVE Followed'
      <2>1. apass' = {} /\ Clean /\ UNCHANGED <<apps, tags>>
            BY <1>2, <1>13 DEF DropFinalizer, RemovesAll
      <2> QED BY <2>1 DEF Followed, MarksWhole, TagsTended, UntrackedClean, GoneClean, Clean
<1>14. ASSUME NEW p \in apass, ApplyEntry(p) PROVE Followed'
      BY <1>1, <1>14, EntryFollows
<1> QED BY <1>0, <1>3, <1>5, <1>6, <1>7, <1>8, <1>9, <1>10, <1>11, <1>12, <1>13, <1>14
        DEF Next, PassStep, WriteFails, MeddleApp, AbortPass

LEMMA InvStep == AppsInv /\ [Next]_vars => AppsInv'
BY TypeStep, MarkedStep, FollowedStep DEF AppsInv

LEMMA InvHolds == Spec => []AppsInv
BY InitInv, InvStep, PTL DEF Spec

-----------------------------------------------------------------------------
(* Theorems.                                                               *)

\* The variables keep their types, whatever users, others and failures do to a
\* pass of the Exposure controller over its applications.
THEOREM AppTypes == Spec => []TypeOK
<1>1. AppsInv => TypeOK
      BY DEF AppsInv
<1> QED BY <1>1, InvHolds, PTL

\* reconcileOwnedAccessApplications and deleteAccessApplications write and delete
\* by ids from a list that may be out of date, and still change only what was
\* created for the object.
THEOREM OthersApps == Spec => OthersAppsKept
<1>1. AppsInv /\ [Next]_vars => [OwnWrite => \A a \in apps \ apps' : a.by]_vars
      <2> SUFFICES ASSUME AppsInv, OwnWrite, NEW a \in apps, a \notin apps'
                   PROVE  a.by
            OBVIOUS
      <2> USE DEF AppsInv, remote
      <2>1. UNCHANGED apps \/ \E p \in apass : \/ PruneApp(p) \/ DeleteApp(p)
                                               \/ ApplyEntry(p) \/ AnswerLost(p)
            BY DEF OwnWrite, WriteFails, PassStep, Begin, Finalize, ListApps, SaveStatus, ListOwn, DeleteTags,
                   DropFinalizer
      <2>2. PICK p \in apass : PruneApp(p) \/ DeleteApp(p) \/ ApplyEntry(p) \/ AnswerLost(p)
            BY <2>1
      <2>3. ASSUME NEW c \in p.old, a.id = c.id PROVE a.by
            BY <2>3 DEF KnowsOld
      <2>4. ASSUME NEW c \in p.old, Delete(c.id) PROVE a.by
            BY <2>3, <2>4 DEF Delete
      <2>5. CASE PruneApp(p)
            BY <2>4, <2>5 DEF PruneApp
      <2>6. CASE DeleteApp(p)
            BY <2>4, <2>6 DEF DeleteApp
      <2>7. ASSUME p.at = "apply", NEW n \in p.todo, NEW c \in p.old, Update(p.spec, n, c.id)
            PROVE  a.by
            <3>1. p \in AppPass /\ p.spec \in Specs /\ p.todo \subseteq DOMAIN p.spec.apps
                  BY <2>7 DEF TypeOK, Marked, AppPass
            <3>2. a.id # c.id => a \in apps'
                  BY <2>7, <3>1, UpdateDoes DEF AppPass, App
            <3> QED BY <2>3, <3>2
      <2>8. ASSUME NEW n, NEW i, CreateOne(p.spec, n, i) \/ Create(p.spec, n, i) PROVE FALSE
            BY <2>8, CreateDoes
      <2>9. CASE ApplyEntry(p)
            <3>1. PICK n \in p.todo : Outcome(p, n)
                  BY <2>9, EntryOutcome
            <3>2. p.at = "apply"
                  BY <2>9, EntryOutcome
            <3> QED BY <2>7, <2>8, <3>1, <3>2, Zenon DEF Outcome
      <2>10. CASE AnswerLost(p)
            BY <2>4, <2>7, <2>8, <2>10, LostDoes
      <2> QED BY <2>2, <2>5, <2>6, <2>9, <2>10
<1> QED BY <1>1, InvHolds, PTL DEF Spec, OthersAppsKept

\* Without faults the finalizer's fast path (nothing tracked) and its full path
\* both leave neither application nor tags, through any edits of the spec.
THEOREM LeavesNothing == Spec => []NothingLeft
<1>1. AppsInv => NothingLeft
      BY DEF AppsInv, Followed, GoneClean, Clean, NothingLeft
<1> QED BY <1>1, InvHolds, PTL

-----------------------------------------------------------------------------
(* What is in place stays, and is not written again.                       *)

\* What is read of the object and of Cloudflare stays, and the pass that goes
\* on is in hand.
LEMMA SettledFrame ==
    ASSUME Settled, UNCHANGED <<obj, spec, tracked, ready, apps>>,
           \A q \in apass' : InHand(q)'
    PROVE  Settled'
<1>1. Unobstructed'
      BY DEF Settled, Unobstructed, Conflict, Listed
<1>2. InPlace'
      BY DEF Settled, InPlace, Wanted, OwnListed, Listed
<1> QED BY <1>1, <1>2 DEF Settled

\* Each entry has one application, and the one that is found by the entry's name
\* is as the entry asks.
LEMMA EntryInPlace ==
    ASSUME Settled, Marked, spec.on, NEW n \in DOMAIN spec.apps
    PROVE  \E a \in OwnListed :
              /\ Matches(a, spec.apps[n], n)
              /\ {b \in OwnListed : b.name = n} = {a}
              /\ {t \in tracked : t.name = n} = {[name |-> n, id |-> a.id]}
<1>1. n \in Wanted(spec)
      BY DEF Wanted
<1>2. PICK a \in OwnListed : /\ Matches(a, spec.apps[n], n)
                             /\ [name |-> n, id |-> a.id] \in tracked
      BY <1>1 DEF Settled, InPlace
<1>3. \A t \in tracked : t.name = n => t = [name |-> n, id |-> a.id]
      <2> DEFINE u == [name |-> n, id |-> a.id]
      <2>1. u \in tracked /\ u.name = n
            BY <1>2
      <2> HIDE DEF u
      <2>2. \A t \in tracked : t.name = n => t = u
            BY <2>1 DEF Settled, InPlace
      <2> QED BY <2>2 DEF u
<1>4. ASSUME NEW b \in OwnListed, b.name = n PROVE b = a
      <2> DEFINE t == [name |-> n, id |-> b.id]
      <2>1. t \in tracked
            BY <1>4 DEF Settled, InPlace
      <2>2. t.name = n /\ t.id = b.id
            OBVIOUS
      <2>3. t = [name |-> n, id |-> a.id]
            BY <1>3, <2>1, <2>2
      <2>4. b.id = a.id
            BY <2>3
      <2> QED BY <2>4 DEF Marked, OwnListed, Listed
<1>5. a.name = n
      BY <1>2 DEF Matches
<1>6. {b \in OwnListed : b.name = n} = {a}
      BY <1>4, <1>5
<1>7. {t \in tracked : t.name = n} = {[name |-> n, id |-> a.id]}
      <2> DEFINE u == [name |-> n, id |-> a.id]
      <2>1. u \in tracked /\ u.name = n
            BY <1>2
      <2>2. \A t \in tracked : t.name = n => t = u
            BY <1>3
      <2> HIDE DEF u
      <2>3. {t \in tracked : t.name = n} = {u}
            BY <2>1, <2>2
      <2> QED BY <2>3 DEF u
<1> QED BY <1>2, <1>6, <1>7

\* The status of a settled object has as many entries as the spec.
LEMMA TracksEach ==
    ASSUME TypeOK, Settled, spec.on
    PROVE  Cardinality(tracked) = Cardinality(DOMAIN spec.apps)
<1> DEFINE D == DOMAIN spec.apps
<1> DEFINE f == [t \in tracked |-> t.name]
<1>1. IsFiniteSet(D)
      BY AppsAssumption DEF TypeOK
<1>2. \A t \in tracked : t.name \in D
      BY DEF Settled, InPlace, Wanted
<1>3. \A t, u \in tracked : t.name = u.name => t = u
      BY DEF Settled, InPlace
<1>4. \A n \in D : \E t \in tracked : t.name = n
      <2>1. SUFFICES ASSUME NEW n \in D PROVE \E t \in tracked : t.name = n
            OBVIOUS
      <2>2. PICK a \in OwnListed : [name |-> n, id |-> a.id] \in tracked
            BY DEF Settled, InPlace, Wanted
      <2> QED BY <2>2
<1> HIDE DEF D
<1>5. f \in Injection(tracked, D)
      BY <1>2, <1>3 DEF Injection, IsInjective
<1>6. f \in Surjection(tracked, D)
      BY <1>2, <1>4 DEF Surjection
<1> QED BY <1>1, <1>5, <1>6, FS_Injection DEF D

\* An entry in place is found, and passed over.
LEMMA SettledEntry ==
    ASSUME TypeOK, Marked, Settled, NEW p \in apass, ApplyEntry(p)
    PROVE  Settled' /\ UNCHANGED remote
<1>1. /\ p \in AppPass /\ InHand(p) /\ p.at = "apply" /\ spec.on
      /\ p.spec = spec /\ ~p.fin /\ p.old = OwnListed
      /\ p.done = {t \in tracked : t.name \notin p.todo}
      /\ p.matched = {t.id : t \in p.done}
      /\ p.todo \subseteq DOMAIN spec.apps
      BY DEF ApplyEntry, Settled, InHand, TypeOK
<1>2. PICK n \in p.todo :
         \/ \E a \in Candidates(p, n) :
               \/ /\ Matches(a, p.spec.apps[n], n)
                  /\ Done(p, n, a.id)
                  /\ UNCHANGED <<astatus, remote, faults>>
               \/ ~Matches(a, p.spec.apps[n], n)
         \/ Candidates(p, n) = {}
      BY Zenon DEF ApplyEntry
<1>3. PICK a \in OwnListed :
         /\ Matches(a, spec.apps[n], n)
         /\ {b \in OwnListed : b.name = n} = {a}
         /\ {t \in tracked : t.name = n} = {[name |-> n, id |-> a.id]}
      BY <1>1, EntryInPlace
<1>4. Candidates(p, n) = {a}
      BY <1>1, <1>3 DEF Candidates
<1>5. Done(p, n, a.id) /\ UNCHANGED <<astatus, remote, faults>>
      BY <1>1, <1>2, <1>3, <1>4
<1>6. UNCHANGED <<obj, spec, tracked, ready, apps>>
      BY <1>5 DEF ApplyEntry, astatus, remote
<1>7. a.id \in AppIds /\ a \in p.old
      BY <1>1 DEF OwnListed, Listed, TypeOK, App
<1>8. PICK q \in AppPass :
         /\ apass' = {q}
         /\ q.at = IF p.todo = {n} THEN "prune" ELSE "apply"
         /\ q.todo = p.todo \ {n}
         /\ q.done = p.done \cup {[name |-> n, id |-> a.id]}
         /\ q.matched = p.matched \cup {c.id : c \in {b \in p.old : b.id = a.id}}
         /\ q.spec = p.spec /\ q.old = p.old /\ q.fin = p.fin
      <2>1. p \in AppPass /\ Done(p, n, a.id) /\ a.id \in AppIds
            BY <1>1, <1>5, <1>7
      <2> QED BY <2>1, DoneDoes
<1> DEFINE u == [name |-> n, id |-> a.id]
<1>9. u.id = a.id /\ {t \in tracked : t.name = n} = {u}
      BY <1>3
<1> HIDE DEF u
<1>10. q.done = {t \in tracked : t.name \notin q.todo}
      BY <1>1, <1>8, <1>9 DEF u
<1>11. {c.id : c \in {b \in p.old : b.id = a.id}} = {a.id}
      BY <1>7
<1>12. q.matched = {t.id : t \in q.done}
      BY <1>1, <1>8, <1>9, <1>11 DEF u
<1>13. InHand(q)'
      <2>1. OwnListed' = OwnListed
            BY <1>6 DEF OwnListed, Listed
      <2>2. q.at \in {"apply", "prune"} /\ (q.at = "prune" <=> q.todo = {})
            BY <1>8
      <2> QED BY <1>1, <1>6, <1>8, <1>10, <1>12, <2>1, <2>2 DEF InHand
<1> QED BY <1>5, <1>6, <1>8, <1>13, SettledFrame

\* Every other step of a pass.
LEMMA SettledPass ==
    ASSUME TypeOK, Marked, Settled, PassStep, UNCHANGED faults
    PROVE  Settled' /\ UNCHANGED remote
<1>1. CASE Begin
      <2>1. ~Fault
            BY DEF Fault, TypeOK
      <2>2. /\ apass' = {NewPass(IF spec.on THEN "list" ELSE "unlist", FALSE)}
            /\ UNCHANGED <<obj, spec, astatus, remote>>
            BY <1>1, <2>1 DEF Begin, Settled, Unobstructed
      <2>3. PICK q : q = NewPass(IF spec.on THEN "list" ELSE "unlist", FALSE)
            OBVIOUS
      <2>4. /\ apass' = {q}
            /\ ~q.fin /\ q.spec = spec /\ q.done = {} /\ q.matched = {}
            /\ q.at = IF spec.on THEN "list" ELSE "unlist"
            BY <2>2, <2>3 DEF NewPass
      <2>5. InHand(q)'
            BY <2>2, <2>4 DEF InHand
      <2>6. UNCHANGED <<tracked, ready, apps>>
            BY <2>2 DEF astatus, remote
      <2> QED BY <2>2, <2>4, <2>5, <2>6, SettledFrame
<1>2. CASE Finalize
      BY <1>2 DEF Finalize, Settled, Unobstructed
<1>3. ASSUME NEW p \in apass, ListApps(p) PROVE Settled' /\ UNCHANGED remote
      <2>1. /\ p \in AppPass /\ p.at = "list" /\ spec.on /\ p.spec = spec
            /\ ~p.fin /\ p.done = {} /\ p.matched = {}
            BY <1>3 DEF ListApps, Settled, InHand, TypeOK
      <2>2. PICK q : /\ q = [p EXCEPT !.at = "apply", !.old = OwnListed,
                                       !.todo = DOMAIN p.spec.apps]
                     /\ apass' = {q} /\ UNCHANGED <<obj, spec, astatus, remote>>
            BY <1>3, <2>1 DEF ListApps, Settled, Unobstructed
      <2>3. /\ q.at = "apply" /\ q.old = OwnListed /\ q.todo = DOMAIN spec.apps
            /\ q.spec = spec /\ ~q.fin /\ q.done = {} /\ q.matched = {}
            BY <2>1, <2>2 DEF AppPass
      <2>4. DOMAIN spec.apps # {}
            BY <2>1 DEF Settled, Unobstructed, Valid
      <2>5. \A t \in tracked : t.name \in DOMAIN spec.apps
            BY <2>1 DEF Settled, InPlace, Wanted
      <2>6. UNCHANGED <<tracked, ready, apps>>
            BY <2>2 DEF astatus, remote
      <2>7. OwnListed' = OwnListed
            BY <2>6 DEF OwnListed, Listed
      <2>8. InHand(q)'
            BY <2>1, <2>2, <2>3, <2>4, <2>5, <2>6, <2>7 DEF InHand
      <2> QED BY <2>2, <2>6, <2>8, SettledFrame
<1>4. ASSUME NEW p \in apass, PruneApp(p) PROVE Settled' /\ UNCHANGED remote
      <2>1. /\ p \in AppPass /\ p.at = "prune" /\ spec.on /\ p.spec = spec
            /\ ~p.fin /\ p.old = OwnListed /\ p.todo = {}
            /\ p.done = {t \in tracked : t.name \notin p.todo}
            /\ p.matched = {t.id : t \in p.done}
            BY <1>4 DEF PruneApp, Settled, InHand, TypeOK
      <2>2. ASSUME NEW a \in p.old PROVE a.id \in p.matched
            <3> DEFINE t == [name |-> a.name, id |-> a.id]
            <3>1. t \in tracked /\ t.id = a.id
                  BY <2>1 DEF Settled, InPlace
            <3> HIDE DEF t
            <3> QED BY <2>1, <3>1
      <2>3. PICK q \in AppPass :
               apass' = {q} /\ apps' = apps /\ Moved(p, q, "save", p.old)
            BY <1>4, <2>1, <2>2, PruneDoes
      <2>4. UNCHANGED <<obj, spec, tracked, ready, apps, tags, used>>
            BY <1>4, <2>3 DEF PruneApp, astatus
      <2>5. p.done = tracked
            BY <2>1
      <2>6. InHand(q)'
            BY <2>1, <2>3, <2>4, <2>5 DEF InHand, Moved
      <2> QED BY <2>3, <2>4, <2>6, SettledFrame DEF remote
<1>5. ASSUME NEW p \in apass, SaveStatus(p) PROVE Settled' /\ UNCHANGED remote
      <2>1. /\ p.spec = spec /\ p.done = tracked
            BY <1>5 DEF SaveStatus, Settled, InHand
      <2>2. /\ tracked' = tracked /\ apass' = {}
            /\ ready' = (spec.on => Cardinality(tracked) = Cardinality(DOMAIN spec.apps))
            /\ UNCHANGED <<obj, spec, remote>>
            BY <1>5, <2>1 DEF SaveStatus
      <2>3. spec.on => ready'
            BY <2>2, TracksEach
      <2>4. apps' = apps
            BY <2>2 DEF remote
      <2>5. Unobstructed'
            BY <2>2, <2>4 DEF Settled, Unobstructed, Conflict, Listed
      <2>6. InPlace'
            BY <2>2, <2>3, <2>4 DEF Settled, InPlace, Wanted, OwnListed, Listed
      <2> QED BY <2>2, <2>5, <2>6 DEF Settled
<1>6. ASSUME NEW p \in apass, ListOwn(p) PROVE Settled' /\ UNCHANGED remote
      <2>1. /\ p \in AppPass /\ p.at = "unlist" /\ ~spec.on /\ p.spec = spec
            /\ ~p.fin /\ p.done = {} /\ p.matched = {}
            BY <1>6 DEF ListOwn, Settled, InHand, TypeOK
      <2>2. tracked = {} /\ OwnListed = {}
            BY <2>1 DEF Settled, InPlace, Wanted
      <2> DEFINE q == [p EXCEPT !.at = "save", !.old = {}]
      <2>3. apass' = {q} /\ UNCHANGED <<obj, spec, astatus, remote>>
            BY <1>6, <2>1, <2>2 DEF ListOwn, AfterUndo
      <2>4. q.at = "save" /\ q.spec = spec /\ ~q.fin /\ q.done = {}
            BY <2>1 DEF AppPass
      <2> HIDE DEF q
      <2>5. UNCHANGED <<tracked, ready, apps>>
            BY <2>3 DEF astatus, remote
      <2>6. InHand(q)'
            BY <2>1, <2>2, <2>3, <2>4, <2>5 DEF InHand
      <2> QED BY <2>3, <2>5, <2>6, SettledFrame
<1>7. ASSUME NEW p \in apass, DeleteApp(p) \/ DeleteTags(p) \/ DropFinalizer(p)
      PROVE  FALSE
      BY <1>7 DEF DeleteApp, DeleteTags, DropFinalizer, Settled, InHand
<1> QED BY <1>1, <1>2, <1>3, <1>4, <1>5, <1>6, <1>7, SettledEntry DEF PassStep

\* Reconciling what is in place writes nothing and leaves it in place, for any
\* spec, any number of entries and at every step of the pass
\* (reconcileOwnedAccessApplications): the safety half of AppsConverge.
THEOREM AppsAreStable == Spec => SettledStays
<1>1. ASSUME TypeOK, Marked, Settled, [Next]_vars, UNCHANGED <<obj, spec, faults>>
      PROVE  Settled' /\ UNCHANGED remote
      <2>1. ~Fault
            BY <1>1 DEF Fault, TypeOK
      <2>2. CASE PassStep
            BY <1>1, <2>2, SettledPass
      <2>3. CASE UNCHANGED vars
            <3>1. UNCHANGED <<tracked, ready, apps, apass, remote>>
                  BY <2>3 DEF vars, remote
            <3>2. \A q \in apass' : InHand(q)'
                  BY <1>1, <3>1 DEF Settled, InHand, OwnListed, Listed
            <3> QED BY <1>1, <3>1, <3>2, SettledFrame
      <2>4. ASSUME NEW p \in apass, WriteFails(p) PROVE FALSE
            BY <2>1, <2>4 DEF WriteFails
      <2>5. ASSUME EditSpec \/ DeleteExposure PROVE FALSE
            BY <1>1, <2>5 DEF EditSpec, DeleteExposure
      <2>6. ASSUME MeddleApp \/ AbortPass PROVE FALSE
            BY <2>1, <2>6 DEF MeddleApp, AbortPass
      <2> QED BY <1>1, <2>2, <2>3, <2>4, <2>5, <2>6 DEF Next
<1>2. AppsInv => TypeOK /\ Marked
      BY DEF AppsInv
<1>3. TypeOK /\ Marked /\ [Next]_vars
         => [Settled /\ UNCHANGED <<obj, spec, faults>>
                => Settled' /\ UNCHANGED remote]_vars
      BY <1>1
<1> QED BY <1>2, <1>3, InvHolds, PTL DEF Spec, SettledStays
=============================================================================
