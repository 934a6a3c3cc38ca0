-------------------------- MODULE ReconcileProofs --------------------------
(***************************************************************************)
(* What a reconcile may do to Secrets, for every number of names, groups,  *)
(* edits and faults.  TypeInv is the type invariant with what it needs to  *)
(* be inductive; LookInv ties each write to the look that preceded it, and *)
(* RetainInv the resource that goes to the copy the cleanup works on.      *)
(***************************************************************************)
EXTENDS Reconcile, TLAPS

\* a reconcile under way has its resource, a rendered payload before it writes
\* one and a report before it writes that; each edit of the spec was an event
TypeInv ==
  /\ TypeOK
  /\ cr # None => cr.generation <= events + 1
  /\ pc # "idle" => job \in Resource
  /\ pc \in {"get", "apply"} => data \in Data
  /\ pc = "status" => report \in Status
  /\ pc = "retire" => job.status.target \in Target \ {job.spec.target}

\* The Secret under a name is free, owned, or was written by somebody else after
\* the operator's last look.
Safe(n) == secret[n] = None \/ secret[n].owned \/ n \in touched

LookInv ==
  /\ pc \in {"apply", "orphan"} => Safe(job.spec.target)
  /\ pc = "retire" => Safe(job.status.target)
  /\ pc \in {"getPrevious", "retire"} /\ cr # None =>
       job.spec.target \in Owned \cup touched
  /\ pc \in {"getRetained", "orphan", "dropFinalizer"} => job.deleting
  /\ pc # "idle" /\ job.deleting /\ cr # None => cr.deleting
  /\ cache # None /\ cache.deleting /\ cr # None => cr.deleting

-----------------------------------------------------------------------------

\* Edits by users: EditSpec is the only one that moves the generation.
LEMMA UsersKeepType == ASSUME TypeInv, Users PROVE TypeInv'
<1>0. events \in 0..MaxEvents /\ MaxEvents \in Nat
  BY ReconcileBounds DEF TypeInv, TypeOK
<1>1. CASE EditSpec
  <2>1. cr \in Resource /\ cr.generation <= events + 1 /\ events' = events + 1
        /\ events' \in 0..MaxEvents
    BY <1>0, <1>1 DEF EditSpec, Event, TypeInv, TypeOK
  <2>2. PICK s \in CrSpec : cr' = [cr EXCEPT !.spec = s, !.generation = cr.generation + 1]
    BY <1>1, Zenon DEF EditSpec
  <2>3. cr.generation + 1 \in 1..(MaxEvents + 1) /\ cr.generation + 1 <= events' + 1
    BY <1>0, <2>1 DEF Resource
  <2>4. cr' \in Resource /\ cr'.generation = cr.generation + 1
    BY <2>1, <2>2, <2>3, Zenon DEF Resource
  <2> QED BY <1>1, <2>1, <2>3, <2>4 DEF EditSpec, TypeInv, TypeOK, replica, process
<1>2. CASE DeleteCr
  <2>1. cr \in Resource /\ events' \in 0..MaxEvents /\ events' = events + 1
    BY <1>0, <1>2 DEF DeleteCr, Event, TypeInv, TypeOK
  <2>2. cr' = None \/ cr' = [cr EXCEPT !.deleting = TRUE]
    BY <1>2 DEF DeleteCr
  <2>3. cr' # None => cr' \in Resource /\ cr'.generation = cr.generation
    BY <2>1, <2>2, Zenon DEF Resource
  <2>4. cr' # None => cr'.generation <= events' + 1
    BY <1>0, <1>2, <2>1, <2>3 DEF DeleteCr, TypeInv, Resource
  <2> QED BY <1>2, <2>1, <2>3, <2>4 DEF DeleteCr, TypeInv, TypeOK, replica, process
<1>3. CASE TouchSecret
  <2>1. events' \in 0..MaxEvents /\ events' = events + 1
    BY <1>0, <1>3 DEF TouchSecret, Event
  <2>2. PICK n \in Target :
          /\ \/ \E d \in Data : secret' = [secret EXCEPT ![n] =
                  [owned |-> FALSE, data |-> d, extra |-> FALSE]]
             \/ /\ secret[n] # None
                /\ \/ \E d \in Data : secret' = [secret EXCEPT ![n].data = d]
                   \/ secret' = [secret EXCEPT ![n].extra = TRUE]
                   \/ secret' = [secret EXCEPT ![n] = None]
          /\ touched' = touched \cup {n}
    BY <1>3 DEF TouchSecret
  <2>3. secret \in [Target -> KubeSecret \cup {None}]
    BY DEF TypeInv, TypeOK
  <2>4. secret' \in [Target -> KubeSecret \cup {None}]
    <3>1. CASE \E d \in Data : secret' = [secret EXCEPT ![n] =
                 [owned |-> FALSE, data |-> d, extra |-> FALSE]]
      BY <2>3, <3>1 DEF KubeSecret
    <3>2. ASSUME secret[n] # None, NEW d \in Data,
                 secret' = [secret EXCEPT ![n].data = d]
          PROVE  secret' \in [Target -> KubeSecret \cup {None}]
      <4>1. [secret[n] EXCEPT !.data = d] \in KubeSecret
        BY <2>3, <3>2 DEF KubeSecret
      <4> QED BY <2>3, <3>2, <4>1
    <3>3. ASSUME secret[n] # None, secret' = [secret EXCEPT ![n].extra = TRUE]
          PROVE  secret' \in [Target -> KubeSecret \cup {None}]
      <4>1. [secret[n] EXCEPT !.extra = TRUE] \in KubeSecret
        BY <2>3, <3>3, Zenon DEF KubeSecret
      <4> QED BY <2>3, <3>3, <4>1
    <3>4. CASE secret' = [secret EXCEPT ![n] = None]
      BY <2>3, <3>4
    <3> QED BY <2>2, <3>1, <3>2, <3>3, <3>4
  <2>5. cr' = cr /\ (cr # None => cr.generation <= events' + 1)
    BY <1>0, <1>3, <2>1 DEF TouchSecret, TypeInv, TypeOK, Resource
  <2> QED BY <1>3, <2>1, <2>2, <2>4, <2>5 DEF TouchSecret, TypeInv, TypeOK, replica, process
<1>4. CASE ChangeUpstream
  <2>1. events' \in 0..MaxEvents /\ events' = events + 1
    BY <1>0, <1>4 DEF ChangeUpstream, Event
  <2>2. upstream' \in [Group -> Content \cup {None}]
    BY <1>4 DEF ChangeUpstream, TypeInv, TypeOK
  <2>3. cr' = cr /\ (cr # None => cr.generation <= events' + 1)
    BY <1>0, <1>4, <2>1 DEF ChangeUpstream, TypeInv, TypeOK, Resource
  <2> QED BY <1>4, <2>1, <2>2, <2>3 DEF ChangeUpstream, TypeInv, TypeOK, process
<1> QED BY <1>1, <1>2, <1>3, <1>4 DEF Users

\* What happens around the reconcile: the mirror, the watch, garbage collection,
\* failed calls and restarts.
LEMMA SurroundingsKeepType ==
  ASSUME TypeInv, Replica \/ Watch \/ CollectGarbage \/ CallFails \/ Restart
  PROVE  TypeInv'
<1>0. events \in 0..MaxEvents /\ MaxEvents \in Nat
  BY ReconcileBounds DEF TypeInv, TypeOK
<1>1. CASE Replica
  BY <1>1, ZenonT(30) DEF Replica, SyncGroup, EndResync, TypeInv, TypeOK, process
<1>2. CASE Watch
  BY <1>2 DEF Watch, TypeInv, TypeOK, process, replica
<1>3. CASE CollectGarbage
  BY <1>3, Zenon DEF CollectGarbage, TypeInv, TypeOK, process, replica
<1>4. CASE CallFails \/ Restart
  <2>1. events' \in 0..MaxEvents /\ events' = events + 1
    BY <1>0, <1>4 DEF CallFails, Restart, Event
  <2>2. cr' = cr /\ (cr # None => cr.generation <= events' + 1)
    BY <1>0, <1>4, <2>1 DEF CallFails, Restart, TypeInv, TypeOK, Resource
  <2> QED BY <1>4, <2>1, <2>2, Zenon DEF CallFails, Restart, Idle, Pc, TypeInv, TypeOK, replica
<1> QED BY <1>1, <1>2, <1>3, <1>4

\* A status made from the one of a resource is a status.
LEMMA DegradedIsStatus ==
  ASSUME NEW r \in Resource, NEW x \in Reason
  PROVE  [r.status EXCEPT !.reason = x, !.observed = r.generation] \in Status
<1>1. r.status \in Status /\ r.generation \in 0..(MaxEvents + 1)
  BY ReconcileBounds DEF Resource
<1> QED BY <1>1, Zenon DEF Status

\* The steps of a reconcile, each with the resource it began with.
LEMMA OperatorKeepsType == ASSUME TypeInv, Operator PROVE TypeInv'
<1>0. /\ MaxEvents \in Nat /\ events \in 0..MaxEvents
      /\ secret \in [Target -> KubeSecret \cup {None}]
  BY ReconcileBounds DEF TypeInv, TypeOK
<1>1. CASE Begin
  <2>1. cache \in Resource /\ cache # None
    BY <1>1 DEF Begin, TypeInv, TypeOK
  <2>2. ASSUME Render(cache)
        PROVE  /\ pc' \in {"get", "status"}
               /\ data' \in Data \cup {None} /\ report' \in Status \cup {None}
               /\ pc' = "get" => data' \in Data
               /\ pc' = "status" => report' \in Status
    <3> DEFINE degraded(x) == /\ pc' = "status" /\ data' = data
                              /\ report' = [cache.status EXCEPT !.reason = x,
                                              !.observed = cache.generation]
    <3>1. MissingReason(cache) \in Reason
      BY DEF MissingReason, Reason
    <3>2. \/ \E x \in Reason : degraded(x)
          \/ pc' = "get" /\ data' \in Data /\ report' = report
      BY <2>2, <3>1, Zenon DEF Render, Reason
    <3>3. ASSUME NEW x \in Reason, degraded(x) PROVE report' \in Status
      BY <2>1, <3>3, DegradedIsStatus, Zenon
    <3> QED BY <3>2, <3>3, Zenon DEF TypeInv, TypeOK
  <2> QED BY <1>1, <2>1, <2>2 DEF Begin, Pc, TypeInv, TypeOK, replica
<1>2. CASE AddFinalizer
  <2>1. cr' = cr \/ (cr # None /\ cr' = [cr EXCEPT !.finalizer = TRUE])
    BY <1>2 DEF AddFinalizer
  <2>2. cr' \in Resource \cup {None} /\ (cr' # None => cr'.generation <= events + 1)
    BY <2>1, ZenonT(30) DEF TypeInv, TypeOK, Resource
  <2> QED BY <1>2, <2>2 DEF AddFinalizer, Idle, Pc, TypeInv, TypeOK, replica
<1>3. CASE GetTarget
  <2>1. pc = "get" /\ job \in Resource /\ data \in Data
    BY <1>3 DEF GetTarget, TypeInv
  <2>2. \/ pc' = "status" /\ report' = Degraded("Conflict")
        \/ pc' \in {"getPrevious", "apply"} /\ report' = report
    BY <1>3 DEF GetTarget
  <2>3. Degraded("Conflict") \in Status
    BY <2>1, DegradedIsStatus, Zenon DEF Degraded, Reason
  <2> QED BY <1>3, <2>1, <2>2, <2>3 DEF GetTarget, Pc, TypeInv, TypeOK, replica
<1>4. CASE ApplySecret
  <2>1. job \in Resource /\ job.spec.target \in Target /\ data \in Data
    BY <1>4 DEF ApplySecret, TypeInv, Resource, CrSpec
  <2>2. PICK b \in BOOLEAN : secret' = [secret EXCEPT ![job.spec.target] =
                               [owned |-> TRUE, data |-> data, extra |-> b]]
    BY <1>0, <1>4, <2>1, Zenon DEF ApplySecret, KubeSecret
  <2>3. secret' \in [Target -> KubeSecret \cup {None}]
    BY <1>0, <2>1, <2>2 DEF KubeSecret
  <2> QED BY <1>4, <2>1, <2>3, Zenon DEF ApplySecret, Pc, TypeInv, TypeOK, replica
<1>5. CASE GetPrevious
  BY <1>5 DEF GetPrevious, Owned, Pc, TypeInv, TypeOK, replica
<1>6. ASSUME NEW n \in Target, NEW policy, secret[n] # None, LetGo(n, policy)
      PROVE  secret' \in [Target -> KubeSecret \cup {None}]
  <2>1. [secret[n] EXCEPT !.owned = FALSE] \in KubeSecret
    BY <1>0, <1>6, Zenon DEF KubeSecret
  <2> QED BY <1>0, <1>6, <2>1 DEF LetGo
<1>7. CASE Finish
  <2>1. job \in Resource
    BY <1>7 DEF Finish, TypeInv
  <2>2. job.generation \in 0..(MaxEvents + 1) /\ job.spec.target \in Target
        /\ job.status.synced \in BOOLEAN
    BY <1>0, <2>1 DEF Resource, CrSpec, Status
  <2>3. PICK x \in Reason : report' = [synced |-> lastSynced \/ job.status.synced,
                  observed |-> job.generation,
                  target |-> job.spec.target, reason |-> x]
    BY <1>7 DEF Finish, Reason
  <2>4. report' \in Status
    BY <2>2, <2>3 DEF Status, TypeInv, TypeOK
  <2> QED BY <1>7, <2>1, <2>4 DEF Finish, Pc, TypeInv, TypeOK, replica
<1>8. CASE PatchStatus
  <2>1. cr' = cr \/ (cr # None /\ cr' = [cr EXCEPT !.status = report]
                    /\ report \in Status)
    BY <1>8 DEF PatchStatus, TypeInv
  <2>2. cr' \in Resource \cup {None} /\ (cr' # None => cr'.generation <= events + 1)
    BY <2>1, SMTT(20) DEF TypeInv, TypeOK, Resource
  <2> QED BY <1>8, <2>2 DEF PatchStatus, Idle, Pc, TypeInv, TypeOK, replica
<1>9. CASE GetRetained
  BY <1>9, SMTT(20) DEF GetRetained, Pc, TypeInv, TypeOK, replica
<1>10. CASE DropFinalizer
  BY <1>10 DEF DropFinalizer, Idle, Pc, TypeInv, TypeOK, replica
<1>11. CASE Retire
  <2>1. job.status.target \in Target
    BY <1>11 DEF Retire, TypeInv
  <2>2. CASE Idle /\ UNCHANGED secret
    BY <1>11, <2>2, SMTT(20) DEF Retire, Idle, Pc, TypeInv, TypeOK, replica
  <2>3. CASE /\ secret[job.status.target] # None
             /\ LetGo(job.status.target, job.spec.policy)
             /\ pc' = "finish" /\ UNCHANGED <<job, data, report>>
    <3>1. secret' \in [Target -> KubeSecret \cup {None}]
      BY <1>6, <2>1, <2>3
    <3> QED BY <1>11, <2>3, <3>1 DEF Retire, Pc, TypeInv, TypeOK, replica
  <2> QED BY <1>11, <2>2, <2>3 DEF Retire
<1>12. CASE Orphan
  <2>1. job.spec.target \in Target
    BY <1>12, SMTT(20) DEF Orphan, TypeInv, Resource, CrSpec
  <2>2. CASE Idle /\ UNCHANGED secret
    BY <1>12, <2>2, SMTT(20) DEF Orphan, Idle, Pc, TypeInv, TypeOK, replica
  <2>3. CASE /\ secret[job.spec.target] # None
             /\ LetGo(job.spec.target, "Retain")
             /\ pc' = "dropFinalizer" /\ UNCHANGED <<job, data, report>>
    <3>1. secret' \in [Target -> KubeSecret \cup {None}]
      BY <1>6, <2>1, <2>3
    <3> QED BY <1>12, <2>3, <3>1 DEF Orphan, Pc, TypeInv, TypeOK, replica
  <2> QED BY <1>12, <2>2, <2>3 DEF Orphan
<1> QED BY <1>1, <1>2, <1>3, <1>4, <1>5, <1>7, <1>8, <1>9, <1>10, <1>11, <1>12
        DEF Operator, ApiCall

\* TypeInv is inductive.
LEMMA TypeInductive == TypeInv /\ [Next]_vars => TypeInv'
<1>1. CASE UNCHANGED vars
  BY <1>1 DEF vars, replica, process, TypeInv, TypeOK
<1> QED BY <1>1, UsersKeepType, SurroundingsKeepType, OperatorKeepsType, SMTT(20) DEF Next

\* It holds of a resource that was just created.
LEMMA TypeInitial == Init => TypeInv
<1> SUFFICES ASSUME Init PROVE TypeInv
  OBVIOUS
<1>0. MaxEvents \in Nat
  BY ReconcileBounds
<1>1. PICK s \in CrSpec : cr = Created(s)
  BY DEF Init
<1>2. [synced |-> FALSE, observed |-> 0, target |-> None, reason |-> "none"] \in Status
  BY <1>0 DEF Status, Reason
<1>3. cr \in Resource /\ cr.generation = 1
  BY <1>0, <1>1, <1>2 DEF Created, Resource
<1>4. /\ upstream \in [Group -> Content \cup {None}]
      /\ mirror \in [Group -> Content \cup {None}]
      /\ secret \in [Target -> KubeSecret \cup {None}]
  BY DEF Init, Content
<1>5. events = 0 /\ pc = "idle" /\ cache = None /\ job = None /\ data = None
      /\ report = None /\ touched = {} /\ lastSynced \in BOOLEAN
  BY Zenon DEF Init
<1>6. TypeOK
  BY <1>0, <1>3, <1>4, <1>5 DEF TypeOK, Pc
<1> QED BY <1>3, <1>5, <1>6 DEF TypeInv

\* Every variable of the operator model keeps its type; with it, no reconcile
\* reads a resource, a payload or a report it does not have.
THEOREM ReconcileTypeCorrect == Spec => []TypeOK
<1>1. Spec => []TypeInv
  BY TypeInitial, TypeInductive, PTL DEF Spec
<1>2. TypeInv => TypeOK
  BY DEF TypeInv
<1> QED BY <1>1, <1>2, PTL

-----------------------------------------------------------------------------

\* Others may free a name or take it; either way the operator's next write to it
\* is accounted for.
LEMMA UsersKeepLook == ASSUME TypeInv, LookInv, Users PROVE LookInv'
<1>1. CASE EditSpec
  <2>1. cr \in Resource /\ ~cr.deleting
    BY <1>1 DEF EditSpec, TypeInv, TypeOK
  <2>2. PICK s : cr' = [cr EXCEPT !.spec = s, !.generation = cr.generation + 1]
    BY <1>1, Zenon DEF EditSpec
  <2>3. cr'.deleting = cr.deleting /\ cr # None
    BY <1>1, <2>1, <2>2 DEF EditSpec, Resource
  <2> QED BY <1>1, <2>1, <2>3 DEF EditSpec, LookInv, Safe, Owned, process
<1>2. CASE DeleteCr
  <2>1. cr # None /\ (cr' # None => cr'.deleting)
    BY <1>2, SMTT(20) DEF DeleteCr, TypeInv, TypeOK, Resource
  <2> QED BY <1>2, <2>1 DEF DeleteCr, LookInv, Safe, Owned, process
<1>3. CASE TouchSecret
  <2>1. PICK n \in Target : /\ touched' = touched \cup {n}
                            /\ \A m \in Target \ {n} : secret'[m] = secret[m]
    <3>1. secret \in [Target -> KubeSecret \cup {None}]
      BY DEF TypeInv, TypeOK
    <3> QED BY <1>3, <3>1 DEF TouchSecret
  <2>2. \A m \in Target : Safe(m) => Safe(m)'
    BY <2>1 DEF Safe
  <2>3. Owned \cup touched \subseteq Owned' \cup touched'
    BY <2>1 DEF Owned
  <2>4. pc # "idle" => job.spec.target \in Target
    BY DEF TypeInv, Resource, CrSpec
  <2>5. UNCHANGED <<pc, job, cr, cache>>
    BY <1>3 DEF TouchSecret, process
  <2>6. pc = "retire" => job.status.target \in Target
    BY SMTT(20) DEF TypeInv
  <2> QED BY <2>2, <2>3, <2>4, <2>5, <2>6 DEF LookInv
<1>4. CASE ChangeUpstream
  BY <1>4 DEF ChangeUpstream, LookInv, Safe, Owned, process
<1> QED BY <1>1, <1>2, <1>3, <1>4 DEF Users

\* The garbage collector frees names only once the resource is gone, and a failed
\* call or a restart ends the reconcile.
LEMMA SurroundingsKeepLook ==
  ASSUME TypeInv, LookInv, Replica \/ Watch \/ CollectGarbage \/ CallFails \/ Restart
  PROVE  LookInv'
<1>1. CASE Replica
  BY <1>1, SMTT(20) DEF Replica, SyncGroup, EndResync, LookInv, Safe, Owned, process
<1>2. CASE Watch
  BY <1>2, SMTT(20) DEF Watch, LookInv, Safe, Owned, process
<1>3. CASE CollectGarbage
  <2>1. secret \in [Target -> KubeSecret \cup {None}]
    BY DEF TypeInv, TypeOK
  <2>2. \A m \in Target : Safe(m) => Safe(m)'
    BY <1>3, <2>1 DEF CollectGarbage, Safe, Owned
  <2>3. pc # "idle" => job.spec.target \in Target
    BY DEF TypeInv, Resource, CrSpec
  <2>4. pc = "retire" => job.status.target \in Target
    BY DEF TypeInv
  <2>5. UNCHANGED <<pc, job, cr, cache>> /\ cr = None
    BY <1>3 DEF CollectGarbage, process
  <2> QED BY <2>2, <2>3, <2>4, <2>5 DEF LookInv
<1>4. CASE CallFails \/ Restart
  BY <1>4 DEF CallFails, Restart, Idle, LookInv
<1> QED BY <1>1, <1>2, <1>3, <1>4, SMTT(20)

\* Within a reconcile each look establishes what the next write needs.
LEMMA OperatorKeepsLook == ASSUME TypeInv, LookInv, Operator PROVE LookInv'
<1>0. /\ secret \in [Target -> KubeSecret \cup {None}]
      /\ pc # "idle" => job.spec.target \in Target
  BY DEF TypeInv, TypeOK, Resource, CrSpec
<1>1. CASE Begin
  <2>1. \/ pc' \in {"addFinalizer", "get", "status"} /\ ~cache.deleting
        \/ pc' \in {"getRetained", "dropFinalizer"} /\ cache.deleting
    BY <1>1 DEF Begin, Render
  <2>2. job' = cache /\ UNCHANGED <<cr, cache>> /\ cache # None
    BY <1>1 DEF Begin
  <2> QED BY <2>1, <2>2 DEF LookInv
<1>2. CASE AddFinalizer
  <2>1. cr' # None => cr # None /\ cr'.deleting = cr.deleting
    BY <1>2 DEF AddFinalizer, TypeInv, TypeOK, Resource
  <2> QED BY <1>2, <2>1 DEF AddFinalizer, Idle, LookInv
<1>3. CASE GetTarget
  <2>1. \/ pc' = "status"
        \/ pc' = "getPrevious" /\ job.spec.target \in Owned
        \/ pc' = "apply" /\ Safe(job.spec.target)'
    BY <1>0, <1>3 DEF GetTarget, Safe, Owned
  <2>2. UNCHANGED <<cr, cache, job, secret>> /\ pc = "get"
    BY <1>3 DEF GetTarget
  <2> QED BY <2>1, <2>2 DEF LookInv, Owned
<1>4. CASE ApplySecret
  <2>1. data \in Data /\ job.spec.target \in Target
    BY <1>0, <1>4 DEF ApplySecret, TypeInv
  <2>2. PICK b \in BOOLEAN : secret' = [secret EXCEPT ![job.spec.target] =
                               [owned |-> TRUE, data |-> data, extra |-> b]]
    BY <1>0, <1>4, <2>1, Zenon DEF ApplySecret, KubeSecret
  <2>3. secret'[job.spec.target] \in KubeSecret /\ secret'[job.spec.target].owned
    BY <1>0, <2>1, <2>2 DEF KubeSecret
  <2>4. job.spec.target \in Owned'
    BY <2>1, <2>3, NoneIsNoSecret DEF Owned
  <2> QED BY <1>4, <2>4 DEF ApplySecret, LookInv
<1>5. CASE GetPrevious
  <2>1. \/ pc' = "finish"
        \/ /\ pc' = "retire" /\ job.status.target \in Owned
           /\ job.status.target # job.spec.target
    BY <1>5 DEF GetPrevious
  <2>2. /\ UNCHANGED <<cr, cache, job, secret>> /\ pc = "getPrevious"
        /\ touched' = touched \ {job.status.target}
    BY <1>5 DEF GetPrevious
  <2> QED BY <2>1, <2>2 DEF LookInv, Owned, Safe
<1>6. CASE Retire \/ Finish
  <2>1. pc' \in {"idle", "finish", "status"} /\ UNCHANGED <<cr, cache>>
        /\ pc # "idle" /\ (pc' # "idle" => job' = job)
    BY <1>6 DEF Retire, Finish, Idle
  <2> QED BY <2>1 DEF LookInv
<1>7. CASE PatchStatus
  <2>1. cr' # None => cr # None /\ cr'.deleting = cr.deleting
    BY <1>7 DEF PatchStatus, TypeInv, TypeOK, Resource
  <2> QED BY <1>7, <2>1 DEF PatchStatus, Idle, LookInv
<1>8. CASE GetRetained
  BY <1>8 DEF GetRetained, LookInv, Owned, Safe
<1>9. CASE Orphan
  <2>1. pc' \in {"idle", "dropFinalizer"} /\ UNCHANGED <<cr, cache>>
        /\ pc = "orphan" /\ (pc' # "idle" => job' = job)
    BY <1>9 DEF Orphan, Idle
  <2> QED BY <2>1 DEF LookInv
<1>10. CASE DropFinalizer
  BY <1>10 DEF DropFinalizer, Idle, LookInv
<1> QED BY <1>1, <1>2, <1>3, <1>4, <1>5, <1>6, <1>7, <1>8, <1>9, <1>10
        DEF Operator, ApiCall

\* Both invariants hold in every reachable state.
LEMMA LookInductive == Spec => [](TypeInv /\ LookInv)
<1>1. Init => TypeInv /\ LookInv
  BY TypeInitial DEF Init, LookInv
<1>2. TypeInv /\ LookInv /\ [Next]_vars => LookInv'
  <2>1. CASE UNCHANGED vars
    BY <2>1 DEF vars, replica, process, LookInv, Safe, Owned
  <2> QED BY <2>1, UsersKeepLook, SurroundingsKeepLook, OperatorKeepsLook DEF Next
<1> QED BY <1>1, <1>2, TypeInductive, PTL DEF Spec

-----------------------------------------------------------------------------

\* The writes of one step of a reconcile.
LEMMA WritesAreSafe ==
  ASSUME TypeInv, LookInv, ApiCall, NEW n \in Target, secret'[n] # secret[n]
  PROVE  Safe(n)
<1>0. /\ secret \in [Target -> KubeSecret \cup {None}]
      /\ pc # "idle" => job.spec.target \in Target
  BY DEF TypeInv, TypeOK, Resource, CrSpec
<1>1. CASE ApplySecret
  <2>1. n = job.spec.target
    BY <1>0, <1>1, Zenon DEF ApplySecret
  <2> QED BY <1>1, <2>1 DEF ApplySecret, LookInv
<1>2. CASE Retire
  <2>1. n = job.status.target
    BY <1>0, <1>2 DEF Retire, LetGo
  <2> QED BY <1>2, <2>1 DEF Retire, LookInv
<1>3. CASE Orphan
  <2>1. n = job.spec.target
    BY <1>0, <1>3 DEF Orphan, LetGo
  <2> QED BY <1>3, <2>1 DEF Orphan, LookInv
<1> QED BY <1>1, <1>2, <1>3 DEF ApiCall, AddFinalizer, GetTarget, GetPrevious,
      Finish, PatchStatus, GetRetained, DropFinalizer

\* The operator never writes a Secret that is not its own, for any number of
\* names, edits, failed calls and restarts, up to writes that race its look.
THEOREM ForeignSecretsNeverTouched == Spec => ForeignSecretsUntouched
<1>1. TypeInv /\ LookInv =>
        [ApiCall => \A n \in Target :
           secret'[n] # secret[n] /\ secret[n] # None /\ ~secret[n].owned =>
             n \in touched]_vars
  BY WritesAreSafe DEF Safe
<1> QED BY <1>1, LookInductive, PTL DEF ForeignSecretsUntouched

\* The last Secret of a living resource: a retired name differs from the target,
\* which is owned unless it was taken away; orphaning needs a deleted resource.
LEMMA StepKeepsASecret ==
  ASSUME TypeInv, LookInv, ApiCall, Owned # {}, cr # None, ~cr.deleting,
         job.spec.target \notin touched
  PROVE  Owned' # {}
<1>0. /\ secret \in [Target -> KubeSecret \cup {None}]
      /\ pc # "idle" => job.spec.target \in Target
  BY DEF TypeInv, TypeOK, Resource, CrSpec
<1>1. CASE ApplySecret
  <2>1. data \in Data /\ job.spec.target \in Target
    BY <1>0, <1>1 DEF ApplySecret, TypeInv
  <2>2. PICK b \in BOOLEAN : secret' = [secret EXCEPT ![job.spec.target] =
                               [owned |-> TRUE, data |-> data, extra |-> b]]
    BY <1>0, <1>1, <2>1, Zenon DEF ApplySecret, KubeSecret
  <2>3. secret'[job.spec.target] \in KubeSecret /\ secret'[job.spec.target].owned
    BY <1>0, <2>1, <2>2 DEF KubeSecret
  <2> QED BY <2>1, <2>3, NoneIsNoSecret DEF Owned
<1>2. CASE Retire
  <2>1. job.spec.target \in Owned /\ job.spec.target # job.status.target
    BY <1>2 DEF Retire, LookInv, TypeInv
  <2>2. secret'[job.spec.target] = secret[job.spec.target]
    BY <1>0, <1>2, <2>1 DEF Retire, LetGo, Owned
  <2> QED BY <2>1, <2>2 DEF Owned
<1>3. CASE Orphan
  BY <1>3 DEF Orphan, LookInv
<1>4. CASE UNCHANGED secret
  BY <1>4 DEF Owned
<1> QED BY <1>1, <1>2, <1>3, <1>4 DEF ApiCall, AddFinalizer, GetTarget, GetPrevious,
      Finish, PatchStatus, GetRetained, DropFinalizer

\* apply_bunker_secret never leaves the workload without a Secret.
THEOREM LastSecretAlwaysKept == Spec => LastSecretIsKept
<1>1. TypeInv /\ LookInv =>
        [ApiCall /\ Owned # {} /\ cr # None /\ ~cr.deleting =>
           Owned' # {} \/ job.spec.target \in touched]_vars
  BY StepKeepsASecret
<1> QED BY <1>1, LookInductive, PTL DEF LastSecretIsKept

-----------------------------------------------------------------------------

\* A resource that is on its way out keeps its spec, so what a reconcile of a
\* deleted resource knows of it is true; and past the look for a retained Secret
\* the target is not owned.
RetainInv ==
  /\ cache # None /\ cache.deleting /\ cr # None => cr.spec = cache.spec
  /\ pc # "idle" /\ job.deleting /\ cr # None => cr.spec = job.spec
  /\ pc = "dropFinalizer" /\ job.spec.policy = "Retain" => job.spec.target \notin Owned

\* Only the operator's apply makes a Secret owned.
LEMMA OwnedGrowsByApply ==
  ASSUME TypeInv, [Next]_vars, ~ApplySecret
  PROVE  Owned' \subseteq Owned
<1>0. secret \in [Target -> KubeSecret \cup {None}]
  BY DEF TypeInv, TypeOK
<1>1. CASE UNCHANGED secret
  BY <1>1, Zenon DEF Owned
<1>2. ASSUME NEW n \in Target, NEW v, secret' = [secret EXCEPT ![n] = v],
             v # None /\ v.owned => secret[n] # None /\ secret[n].owned
      PROVE  Owned' \subseteq Owned
  BY <1>0, <1>2 DEF Owned
<1>3. CASE TouchSecret
  <2>1. PICK n \in Target :
          \/ /\ secret[n] = None
             /\ \E d \in Data : secret' = [secret EXCEPT ![n] =
                  [owned |-> FALSE, data |-> d, extra |-> FALSE]]
          \/ /\ secret[n] # None
             /\ \/ \E d \in Data \ {secret[n].data} :
                     secret' = [secret EXCEPT ![n].data = d]
                \/ secret' = [secret EXCEPT ![n].extra = TRUE]
                \/ secret' = [secret EXCEPT ![n] = None]
    BY <1>3, Zenon DEF TouchSecret
  <2>2. CASE secret' = [secret EXCEPT ![n] = None]
    BY <1>2, <2>2, Zenon
  <2>3. ASSUME NEW d, secret' = [secret EXCEPT ![n] =
                                   [owned |-> FALSE, data |-> d, extra |-> FALSE]]
        PROVE  Owned' \subseteq Owned
    <3>1. ~[owned |-> FALSE, data |-> d, extra |-> FALSE].owned
      BY Zenon
    <3> QED BY <1>2, <2>3, <3>1, Zenon
  <2>4. CASE secret[n] # None
    <3>1. secret[n] \in KubeSecret
      BY <1>0, <2>4
    <3>2. ASSUME NEW d, secret' = [secret EXCEPT ![n].data = d]
          PROVE  Owned' \subseteq Owned
      <4>1. [secret[n] EXCEPT !.data = d].owned = secret[n].owned
        BY <3>1 DEF KubeSecret
      <4> QED BY <1>2, <2>4, <3>2, <4>1, Zenon
    <3>3. CASE secret' = [secret EXCEPT ![n].extra = TRUE]
      <4>1. [secret[n] EXCEPT !.extra = TRUE].owned = secret[n].owned
        BY <3>1 DEF KubeSecret
      <4> QED BY <1>2, <2>4, <3>3, <4>1, Zenon
    <3> QED BY <2>1, <2>2, <2>4, <3>2, <3>3
  <2> QED BY <2>1, <2>3, <2>4
<1>4. CASE CollectGarbage
  <2>1. PICK n \in Owned : secret' = [secret EXCEPT ![n] = None]
    BY <1>4, Zenon DEF CollectGarbage
  <2>2. n \in Target
    BY DEF Owned
  <2> QED BY <1>2, <2>1, <2>2, Zenon
<1>5. ASSUME NEW n \in Target, NEW p, secret[n] # None, LetGo(n, p)
      PROVE  Owned' \subseteq Owned
  <2>1. CASE p = "Delete"
    BY <1>2, <1>5, <2>1, Zenon DEF LetGo
  <2>2. CASE p # "Delete"
    <3>1. secret' = [secret EXCEPT ![n] = [secret[n] EXCEPT !.owned = FALSE]]
      BY <1>5, <2>2 DEF LetGo
    <3>2. ~[secret[n] EXCEPT !.owned = FALSE].owned
      BY <1>0, <1>5 DEF KubeSecret
    <3> QED BY <1>2, <3>1, <3>2, Zenon
  <2> QED BY <2>1, <2>2
<1>6. CASE Retire
  BY <1>1, <1>5, <1>6 DEF Retire, TypeInv
<1>7. CASE Orphan
  <2>1. job.spec.target \in Target
    BY <1>7 DEF Orphan, TypeInv, Resource, CrSpec
  <2> QED BY <1>1, <1>5, <1>7, <2>1 DEF Orphan
<1> QED BY <1>1, <1>3, <1>4, <1>6, <1>7, Zenon DEF Next, Users, EditSpec, DeleteCr,
      ChangeUpstream, Replica, SyncGroup, EndResync, Watch, Operator, Begin, ApiCall,
      AddFinalizer, GetTarget, GetPrevious, Finish, PatchStatus, GetRetained,
      DropFinalizer, CallFails, Restart, vars

\* The spec of a deleted resource does not change any more.
LEMMA DeletedKeepsSpec ==
  ASSUME TypeInv, [Next]_vars, cr # None, cr.deleting, cr' # None
  PROVE  cr'.spec = cr.spec
<1>0. cr \in Resource
  BY DEF TypeInv, TypeOK
<1>1. CASE UNCHANGED cr
  BY <1>1
<1>2. CASE EditSpec \/ DeleteCr
  BY <1>2 DEF EditSpec, DeleteCr
<1>3. CASE AddFinalizer
  BY <1>3 DEF AddFinalizer
<1>4. CASE PatchStatus
  <2>1. cr' = cr \/ cr' = [cr EXCEPT !.status = report]
    BY <1>4 DEF PatchStatus
  <2>2. [cr EXCEPT !.status = report].spec = cr.spec
    BY <1>0 DEF Resource
  <2> QED BY <2>1, <2>2, Zenon
<1>5. CASE DropFinalizer
  BY <1>5 DEF DropFinalizer
<1> QED BY <1>1, <1>2, <1>3, <1>4, <1>5, Zenon DEF Next, Users, TouchSecret,
      ChangeUpstream, Replica, SyncGroup, EndResync, Watch, CollectGarbage, Operator,
      Begin, ApiCall, GetTarget, ApplySecret, GetPrevious, Retire, Finish, GetRetained,
      Orphan, CallFails, Restart, vars

\* A resource that is gone does not come back under this operator.
LEMMA GoneStaysGone == ASSUME TypeInv, [Next]_vars, cr = None PROVE cr' = None
BY Zenon DEF Next, Users, EditSpec, DeleteCr, TouchSecret,
      ChangeUpstream, Replica, SyncGroup, EndResync, Watch, CollectGarbage, Operator,
      Begin, ApiCall, AddFinalizer, GetTarget, ApplySecret, GetPrevious, Retire, Finish,
      PatchStatus, GetRetained, Orphan, DropFinalizer, CallFails, Restart, vars

\* The last look before the finalizer goes, and what changes after it.
LEMMA RetainInductive == TypeInv /\ LookInv /\ RetainInv /\ [Next]_vars => RetainInv'
<1> SUFFICES ASSUME TypeInv, LookInv, RetainInv, [Next]_vars PROVE RetainInv'
  OBVIOUS
<1>1. cr' # None => cr # None
  BY GoneStaysGone
<1>2. cr' # None /\ cr.deleting => cr'.spec = cr.spec
  BY <1>1, DeletedKeepsSpec
<1>3. cache' # None /\ cache'.deleting /\ cr' # None => cr'.spec = cache'.spec
  <2>1. CASE UNCHANGED cache
    BY <1>1, <1>2, <2>1 DEF RetainInv, LookInv
  <2>2. CASE Watch
    BY <2>2 DEF Watch
  <2> QED BY <2>1, <2>2, Zenon DEF Next, Users, EditSpec, DeleteCr, TouchSecret,
      ChangeUpstream, Replica, SyncGroup, EndResync, CollectGarbage, Operator,
      Begin, ApiCall, AddFinalizer, GetTarget, ApplySecret, GetPrevious, Retire, Finish,
      PatchStatus, GetRetained, Orphan, DropFinalizer, CallFails, Restart, vars
<1>4. pc' # "idle" => \/ UNCHANGED job /\ pc # "idle"
                     \/ Begin
  <2>1. CASE UNCHANGED process
    BY <2>1 DEF process
  <2>2. CASE ApiCall
    BY <2>2, Zenon DEF ApiCall, AddFinalizer, GetTarget, ApplySecret, GetPrevious, Retire,
      Finish, PatchStatus, GetRetained, Orphan, DropFinalizer, Idle
  <2> QED BY <2>1, <2>2, Zenon DEF Next, Users, EditSpec, DeleteCr, TouchSecret,
      ChangeUpstream, Replica, SyncGroup, EndResync, Watch, CollectGarbage, Operator,
      CallFails, Restart, Idle, vars
<1>5. pc' # "idle" /\ job'.deleting /\ cr' # None => cr'.spec = job'.spec
  <2>1. CASE UNCHANGED job /\ pc # "idle"
    BY <1>1, <1>2, <2>1 DEF RetainInv, LookInv
  <2>2. CASE Begin
    BY <2>2 DEF Begin, RetainInv
  <2> QED BY <1>4, <2>1, <2>2
<1>6. ASSUME pc' = "dropFinalizer", job'.spec.policy = "Retain"
      PROVE  job'.spec.target \notin Owned'
  <2>1. CASE pc = "dropFinalizer" /\ UNCHANGED job
    <3>1. ~ApplySecret
      BY <2>1 DEF ApplySecret
    <3> QED BY <1>6, <2>1, <3>1, OwnedGrowsByApply DEF RetainInv
  <2>2. CASE Begin
    BY <1>6, <2>2 DEF Begin, Render
  <2>3. CASE GetRetained
    BY <1>6, <2>3 DEF GetRetained, Owned
  <2>4. CASE Orphan
    <3>1. /\ job.spec.target \in Target /\ secret \in [Target -> KubeSecret \cup {None}]
          /\ UNCHANGED job /\ secret[job.spec.target] # None
          /\ LetGo(job.spec.target, "Retain")
      BY <1>6, <2>4 DEF Orphan, Idle, TypeInv, TypeOK, Resource, CrSpec
    <3>2. secret'[job.spec.target] = [secret[job.spec.target] EXCEPT !.owned = FALSE]
      BY <3>1, Zenon DEF LetGo
    <3>3. ~secret'[job.spec.target].owned
      BY <3>1, <3>2 DEF KubeSecret
    <3> QED BY <3>1, <3>3 DEF Owned
  <2>5. pc # "dropFinalizer" \/ ~UNCHANGED job => Begin \/ GetRetained \/ Orphan
    <3>1. CASE UNCHANGED process
      BY <1>6, <3>1 DEF process
    <3>2. CASE ApiCall
      BY <1>6, <3>2, Zenon DEF ApiCall, AddFinalizer, GetTarget, ApplySecret, GetPrevious,
        Retire, Finish, PatchStatus, DropFinalizer, Idle
    <3> QED BY <1>6, <3>1, <3>2, Zenon DEF Next, Users, EditSpec, DeleteCr, TouchSecret,
        ChangeUpstream, Replica, SyncGroup, EndResync, Watch, CollectGarbage, Operator,
        CallFails, Restart, Idle, vars
  <2> QED BY <2>1, <2>2, <2>3, <2>4, <2>5
<1> QED BY <1>3, <1>5, <1>6, Zenon DEF RetainInv

\* Every reachable state satisfies it.
LEMMA RetainHolds == Spec => [](TypeInv /\ LookInv /\ RetainInv)
<1>1. Init => RetainInv
  BY DEF Init, RetainInv
<1> QED BY <1>1, LookInductive, RetainInductive, PTL DEF Spec

\* cleanup_bunker_secret with deletionPolicy Retain: whatever was renamed, edited,
\* stale or retried before, the Secret under the resource's target name is not the
\* garbage collector's when the resource goes.
THEOREM RetainAlwaysKeepsTarget == Spec => RetainKeepsTarget
<1>1. TypeInv /\ LookInv /\ RetainInv /\ [Next]_vars =>
        [cr # None /\ cr' = None /\ cr.finalizer /\ cr.spec.policy = "Retain" =>
           cr.spec.target \notin Owned']_vars
  <2> SUFFICES ASSUME TypeInv, LookInv, RetainInv, [Next]_vars, cr # None, cr' = None,
                      cr.finalizer, cr.spec.policy = "Retain"
               PROVE  cr.spec.target \notin Owned'
    OBVIOUS
  <2>1. DropFinalizer
    <3>0. cr \in Resource
      BY DEF TypeInv, TypeOK
    <3>1. ASSUME DeleteCr PROVE FALSE
      <4>1. [cr EXCEPT !.deleting = TRUE] \in Resource
        BY <3>0, Zenon DEF Resource
      <4> QED BY <3>1, <4>1, NoneIsNoResource, Zenon DEF DeleteCr
    <3>2. ASSUME EditSpec PROVE FALSE
      <4>1. /\ cr.generation <= events + 1 /\ events < MaxEvents
            /\ events \in 0..MaxEvents /\ MaxEvents \in Nat
        BY <3>2, ReconcileBounds DEF EditSpec, Event, TypeInv, TypeOK
      <4>2. cr.generation + 1 \in 1..(MaxEvents + 1)
        BY <3>0, <4>1 DEF Resource
      <4>3. PICK s \in CrSpec : cr' = [cr EXCEPT !.spec = s, !.generation = cr.generation + 1]
        BY <3>2, Zenon DEF EditSpec
      <4>4. cr' \in Resource
        BY <3>0, <4>2, <4>3, Zenon DEF Resource
      <4> QED BY <4>4, NoneIsNoResource
    <3>3. ASSUME AddFinalizer PROVE FALSE
      <4>1. [cr EXCEPT !.finalizer = TRUE] \in Resource
        BY <3>0, Zenon DEF Resource
      <4> QED BY <3>3, <4>1, NoneIsNoResource, Zenon DEF AddFinalizer
    <3>4. ASSUME PatchStatus PROVE FALSE
      <4>1. report \in Status
        BY <3>4 DEF PatchStatus, TypeInv
      <4>2. [cr EXCEPT !.status = report] \in Resource
        BY <3>0, <4>1 DEF Resource
      <4> QED BY <3>4, <4>2, NoneIsNoResource, Zenon DEF PatchStatus
    <3> QED BY <3>1, <3>2, <3>3, <3>4, Zenon DEF Next, Users, TouchSecret,
      ChangeUpstream, Replica, SyncGroup, EndResync, Watch, CollectGarbage, Operator,
      Begin, ApiCall, GetTarget, ApplySecret, GetPrevious, Retire, Finish,
      GetRetained, Orphan, CallFails, Restart, vars
  <2>2. job.deleting /\ pc = "dropFinalizer" /\ UNCHANGED secret
    BY <2>1 DEF DropFinalizer, LookInv
  <2>3. cr.spec = job.spec
    BY <2>2 DEF RetainInv
  <2> QED BY <2>2, <2>3 DEF RetainInv, Owned
<1> QED BY <1>1, RetainHolds, PTL DEF Spec, RetainKeepsTarget

=============================================================================
