----------------------------- MODULE Reconcile -----------------------------
(***************************************************************************)
(* The Kubernetes operator for one BunkerSecret: the reconciler            *)
(* (operator/src/reconcile.rs), the API server it talks to, and whoever    *)
(* else writes there.                                                      *)
(*                                                                         *)
(* A reconcile works on the copy of the resource the watch delivered last  *)
(* (cache), which may lag behind the API server, and every API call is a   *)
(* step of its own: between any two of them users edit the resource and    *)
(* the Secrets, the mirror moves, the call fails or the process dies.  The *)
(* controller runs one reconcile per resource at a time and runs it again  *)
(* and again (requeue), so what triggers it is left out.                   *)
(*                                                                         *)
(* What a spec renders is reduced to one group and the content the mirror  *)
(* has for it; Bad is content that fails to render (InvalidKey, JsonError, *)
(* MissingSecret), which handle_render_error treats alike.                 *)
(***************************************************************************)
EXTENDS Naturals

CONSTANTS Target,      \* names of Kubernetes Secrets
          Group, Data, \* bunker groups, and what they render to
          Bad, None,
          MaxEvents    \* bound: changes by users and by the bunker, failed
                       \* API calls and restarts

ASSUME ReconcileBounds == MaxEvents \in Nat

VARIABLES cr,         \* the BunkerSecret in the API server, None when gone
          cache,      \* the reflector's copy of it
          secret,     \* the Secrets in the API server, None when absent
          upstream,   \* what the bunker lets this replica read, by group
          mirror,     \* what the embedded replica has of it
          lastSynced, \* status().last_synced is Some
          pc,         \* the next API call of the reconcile
          job,        \* the resource it works on
          data,       \* what it rendered
          report,     \* the status it is about to write
          events,
          touched     \* history: Secrets others wrote since the last look

process == <<pc, job, data, report>>
replica == <<upstream, mirror, lastSynced>>
vars == <<cr, cache, secret, replica, process, events, touched>>

Content == Data \cup {Bad}
Policy == {"Delete", "Retain"}
CrSpec == [target : Target, group : Group, policy : Policy]
Reason == {"Synced", "StaleReplica", "AwaitingSync", "Conflict", "Invalid",
           "MissingGroup", "AccessRevoked", "none"}
\* lastSyncTime is set, observedGeneration, targetSecretName, the Ready reason
Status == [synced : BOOLEAN, observed : 0..(MaxEvents + 1),
           target : Target \cup {None}, reason : Reason]
Resource == [spec : CrSpec, generation : 1..(MaxEvents + 1), status : Status,
             finalizer : BOOLEAN, deleting : BOOLEAN]
\* extra: keys that some other field manager added to the data
KubeSecret == [owned : BOOLEAN, data : Data, extra : BOOLEAN]

ASSUME NoneIsNoSecret == None \notin KubeSecret
ASSUME NoneIsNoResource == None \notin Resource

Pc == {"idle", "addFinalizer", "get", "apply", "getPrevious", "retire",
       "finish", "status", "getRetained", "orphan", "dropFinalizer"}

TypeOK ==
  /\ cr \in Resource \cup {None}
  /\ cache \in Resource \cup {None}
  /\ secret \in [Target -> KubeSecret \cup {None}]
  /\ upstream \in [Group -> Content \cup {None}]
  /\ mirror \in [Group -> Content \cup {None}]
  /\ lastSynced \in BOOLEAN
  /\ pc \in Pc
  /\ job \in Resource \cup {None}
  /\ data \in Data \cup {None}
  /\ report \in Status \cup {None}
  /\ events \in 0..MaxEvents
  /\ touched \in SUBSET Target

Owned == {n \in Target : secret[n] # None /\ secret[n].owned}

-----------------------------------------------------------------------------
(* Users, the bunker and the embedded replica *)

Event ==
  /\ events < MaxEvents
  /\ events' = events + 1

\* nobody edits a resource that is on its way out
EditSpec ==
  /\ Event
  /\ cr # None /\ ~cr.deleting
  /\ \E s \in CrSpec \ {cr.spec} :
       cr' = [cr EXCEPT !.spec = s, !.generation = @ + 1]
  /\ UNCHANGED <<cache, secret, replica, process, touched>>

\* with a finalizer the resource stays until the operator lets it go
DeleteCr ==
  /\ Event
  /\ cr # None /\ ~cr.deleting
  /\ cr' = IF cr.finalizer THEN [cr EXCEPT !.deleting = TRUE] ELSE None
  /\ UNCHANGED <<cache, secret, replica, process, touched>>

\* a user creates a Secret, edits a value, adds a key, or deletes the Secret
TouchSecret ==
  /\ Event
  /\ \E n \in Target :
       /\ \/ /\ secret[n] = None
             /\ \E d \in Data : secret' = [secret EXCEPT ![n] =
                  [owned |-> FALSE, data |-> d, extra |-> FALSE]]
          \/ /\ secret[n] # None
             /\ \/ \E d \in Data \ {secret[n].data} :
                     secret' = [secret EXCEPT ![n].data = d]
                \/ secret' = [secret EXCEPT ![n].extra = TRUE]
                \/ secret' = [secret EXCEPT ![n] = None]
       /\ touched' = touched \cup {n}
  /\ UNCHANGED <<cr, cache, replica, process>>

\* the bunker's content or the replica's grant changes
ChangeUpstream ==
  /\ Event
  /\ \E g \in Group, c \in Content \cup {None} :
       upstream[g] # c /\ upstream' = [upstream EXCEPT ![g] = c]
  /\ UNCHANGED <<cr, cache, secret, mirror, lastSynced, process,
                 touched>>

\* one group is applied (apply_group_state) or, once a manifest proves it
\* absent, dropped; an apply counts as a sync whatever else is outstanding
SyncGroup ==
  /\ \E g \in Group :
       /\ mirror[g] # upstream[g] \/ (~lastSynced /\ upstream[g] # None)
       /\ mirror' = [mirror EXCEPT ![g] = upstream[g]]
       /\ lastSynced' = (lastSynced \/ upstream[g] # None)
  /\ UNCHANGED <<cr, cache, secret, upstream, process, events,
                 touched>>

\* the end of full_resync
EndResync ==
  /\ ~lastSynced
  /\ mirror = upstream
  /\ lastSynced' = TRUE
  /\ UNCHANGED <<cr, cache, secret, upstream, mirror, process, events,
                 touched>>

Replica == SyncGroup \/ EndResync

\* a watch event arrives
Watch ==
  /\ cache # cr
  /\ cache' = cr
  /\ UNCHANGED <<cr, secret, replica, process, events, touched>>

\* the garbage collector removes what a deleted resource owned
CollectGarbage ==
  /\ cr = None
  /\ \E n \in Owned : secret' = [secret EXCEPT ![n] = None]
  /\ UNCHANGED <<cr, cache, replica, process, events, touched>>

-----------------------------------------------------------------------------
(* One reconcile *)

Idle ==
  /\ pc' = "idle"
  /\ job' = None
  /\ data' = None
  /\ report' = None

\* status_with: a degraded condition keeps the sync bookkeeping
Degraded(reason) ==
  [job.status EXCEPT !.reason = reason, !.observed = job.generation]

\* the reasons of handle_render_error for a group that is not in the mirror
MissingReason(r) ==
  IF r.status.synced /\ r.status.observed = r.generation
  THEN "AccessRevoked" ELSE "MissingGroup"

\* apply_bunker_secret up to its first API call: the gate and the render
Render(r) ==
  LET c == mirror[r.spec.group]
      degraded(reason) ==
        /\ pc' = "status"
        /\ report' = [r.status EXCEPT !.reason = reason,
                                      !.observed = r.generation]
        /\ UNCHANGED data
  IN  \/ ~lastSynced /\ degraded("AwaitingSync")
      \/ lastSynced /\ c = None /\ degraded(MissingReason(r))
      \/ lastSynced /\ c = Bad /\ degraded("Invalid")
      \/ /\ lastSynced /\ c \in Data
         /\ pc' = "get"
         /\ data' = c
         /\ UNCHANGED report

\* finalizer(): which arm runs depends on the cached resource
Begin ==
  /\ pc = "idle"
  /\ cache # None
  /\ job' = cache
  /\ \/ /\ ~cache.deleting /\ ~cache.finalizer
        /\ pc' = "addFinalizer"
        /\ UNCHANGED <<data, report>>
     \/ ~cache.deleting /\ cache.finalizer /\ Render(cache)
     \/ /\ cache.deleting /\ cache.finalizer
        /\ pc' = IF cache.spec.policy = "Retain" THEN "getRetained"
                 ELSE "dropFinalizer"
        /\ UNCHANGED <<data, report>>
  /\ UNCHANGED <<cr, cache, secret, replica, events, touched>>

\* the finalizer is added; the change it makes starts the next reconcile
AddFinalizer ==
  /\ pc = "addFinalizer"
  /\ cr' = IF cr = None \/ cr.deleting THEN cr ELSE [cr EXCEPT !.finalizer = TRUE]
  /\ Idle
  /\ UNCHANGED <<cache, secret, replica, events, touched>>

\* mutant: no ownership check
GetTargetUnchecked ==
  /\ pc = "get"
  /\ touched' = {}
  /\ LET s == secret[job.spec.target]
     IN  pc' = IF s # None /\ s.data = data /\ ~s.extra THEN "getPrevious"
               ELSE "apply"
  /\ UNCHANGED <<cr, cache, secret, replica, job, data, report, events>>

\* mutant: the annotation of an existing Secret is trusted
GetTargetTrusting ==
  /\ pc = "get"
  /\ touched' = {}
  /\ LET s == secret[job.spec.target]
     IN  \/ /\ s # None /\ ~s.owned
            /\ pc' = "status"
            /\ report' = Degraded("Conflict")
         \/ /\ s # None => s.owned
            /\ pc' = IF s = None THEN "apply" ELSE "getPrevious"
            /\ UNCHANGED report
  /\ UNCHANGED <<cr, cache, secret, replica, job, data, events>>

\* mutant: the previous target is cleaned up before a conflict is reported
GetTargetCleaning ==
  /\ pc = "get"
  /\ touched' = {}
  /\ LET s == secret[job.spec.target]
     IN  pc' = IF s # None /\ (~s.owned \/ (s.data = data /\ ~s.extra))
               THEN "getPrevious" ELSE "apply"
  /\ UNCHANGED <<cr, cache, secret, replica, job, data, report, events>>

\* the ownership check and the comparison of contents
GetTarget ==
  /\ pc = "get"
  /\ touched' = {}
  /\ LET s == secret[job.spec.target]
     IN  \/ /\ s # None /\ ~s.owned
            /\ pc' = "status"
            /\ report' = Degraded("Conflict")
         \/ /\ s # None /\ s.owned /\ s.data = data /\ ~s.extra
            /\ pc' = "getPrevious"
            /\ UNCHANGED report
         \/ /\ s # None => s.owned /\ (s.data # data \/ s.extra)
            /\ pc' = "apply"
            /\ UNCHANGED report
  /\ UNCHANGED <<cr, cache, secret, replica, job, data, events>>

\* server-side apply, forced: takes the fields build_secret names and leaves
\* the keys of other managers
ApplySecret ==
  /\ pc = "apply"
  /\ secret' = [secret EXCEPT ![job.spec.target] =
       [owned |-> TRUE, data |-> data,
        extra |-> IF @ = None THEN FALSE ELSE @.extra]]
  /\ pc' = "getPrevious"
  /\ UNCHANGED <<cr, cache, replica, job, data, report, events, touched>>

\* rename cleanup: look at the Secret the status names
GetPrevious ==
  /\ pc = "getPrevious"
  /\ LET prev == job.status.target
     IN  /\ pc' = IF prev \notin {None, job.spec.target} /\ prev \in Owned
                  THEN "retire" ELSE "finish"
         /\ touched' = touched \ {prev}
  /\ UNCHANGED <<cr, cache, secret, replica, job, data, report, events>>

\* what happens to a Secret that is let go of
LetGo(n, policy) ==
  secret' = [secret EXCEPT ![n] =
    IF policy = "Delete" THEN None ELSE [@ EXCEPT !.owned = FALSE]]

\* cleanup_target; the call fails when the Secret is gone by now
Retire ==
  /\ pc = "retire"
  /\ \/ /\ secret[job.status.target] # None
        /\ LetGo(job.status.target, job.spec.policy)
        /\ pc' = "finish"
        /\ UNCHANGED <<job, data, report>>
     \/ secret[job.status.target] = None /\ Idle /\ UNCHANGED secret
  /\ UNCHANGED <<cr, cache, replica, events, touched>>

\* the final condition; for how long the session has been down is not modelled
Finish ==
  /\ pc = "finish"
  /\ \E reason \in {"Synced", "StaleReplica"} :
       report' = [synced |-> lastSynced \/ job.status.synced,
                  observed |-> job.generation,
                  target |-> job.spec.target, reason |-> reason]
  /\ pc' = "status"
  /\ UNCHANGED <<cr, cache, secret, replica, job, data, events, touched>>

\* patch_status; the write may be skipped when it says what the copy says
PatchStatus ==
  /\ pc = "status"
  /\ \/ cr # None /\ cr' = [cr EXCEPT !.status = report]
     \/ (cr = None \/ report = job.status) /\ UNCHANGED cr
  /\ Idle
  /\ UNCHANGED <<cache, secret, replica, events, touched>>

\* mutant: the Secret is not looked at
GetRetainedNever ==
  /\ pc = "getRetained"
  /\ pc' = "dropFinalizer"
  /\ UNCHANGED <<cr, cache, secret, replica, job, data, report, events,
                 touched>>

\* mutant: a missing or foreign Secret is an error
GetRetainedOrFail ==
  /\ pc = "getRetained"
  /\ IF job.spec.target \in Owned
     THEN pc' = "orphan" /\ UNCHANGED <<job, data, report>>
     ELSE Idle
  /\ UNCHANGED <<cr, cache, secret, replica, events, touched>>

\* cleanup_bunker_secret with policy Retain
GetRetained ==
  /\ pc = "getRetained"
  /\ pc' = IF job.spec.target \in Owned THEN "orphan" ELSE "dropFinalizer"
  /\ UNCHANGED <<cr, cache, secret, replica, job, data, report, events,
                 touched>>

Orphan ==
  /\ pc = "orphan"
  /\ \/ /\ secret[job.spec.target] # None
        /\ LetGo(job.spec.target, "Retain")
        /\ pc' = "dropFinalizer"
        /\ UNCHANGED <<job, data, report>>
     \/ secret[job.spec.target] = None /\ Idle /\ UNCHANGED secret
  /\ UNCHANGED <<cr, cache, replica, events, touched>>

DropFinalizer ==
  /\ pc = "dropFinalizer"
  /\ cr' = None
  /\ Idle
  /\ UNCHANGED <<cache, secret, replica, events, touched>>

\* an API call fails, or its answer is lost: error_policy requeues
CallFails ==
  /\ pc # "idle"
  /\ Event
  /\ Idle
  /\ UNCHANGED <<cr, cache, secret, replica, touched>>

\* the process restarts; the mirror is on a volume that may not outlive it
Restart ==
  /\ Event
  /\ Idle
  /\ lastSynced' = FALSE
  /\ mirror' \in {mirror, [g \in Group |-> None]}
  /\ UNCHANGED <<cr, cache, secret, upstream, touched>>

ApiCall ==
  \/ AddFinalizer \/ GetTarget \/ ApplySecret \/ GetPrevious \/ Retire
  \/ Finish \/ PatchStatus \/ GetRetained \/ Orphan \/ DropFinalizer

Operator == Begin \/ ApiCall

Users == EditSpec \/ DeleteCr \/ TouchSecret \/ ChangeUpstream

-----------------------------------------------------------------------------

Created(s) ==
  [spec |-> s, generation |-> 1, finalizer |-> FALSE, deleting |-> FALSE,
   status |-> [synced |-> FALSE, observed |-> 0, target |-> None,
               reason |-> "none"]]

\* a resource is created while the operator boots with an empty mirror
Init ==
  /\ cr \in {Created(s) : s \in CrSpec}
  /\ cache = None
  /\ secret = [n \in Target |-> None]
  /\ upstream \in [Group -> Data \cup {None}]
  /\ mirror = [g \in Group |-> None]
  /\ lastSynced = FALSE
  /\ pc = "idle" /\ job = None /\ data = None /\ report = None
  /\ events = 0
  /\ touched = {}

Next == Users \/ Replica \/ Watch \/ CollectGarbage \/ Operator \/ CallFails \/ Restart

Spec == Init /\ [][Next]_vars

\* The controller requeues every resource for ever, the watch delivers, the
\* replica follows its bunker and Kubernetes collects garbage; users and faults
\* owe nothing, and their bounds make them stop.
FairSpec ==
  /\ Spec
  /\ WF_vars(Operator) /\ WF_vars(Watch) /\ WF_vars(CollectGarbage)
  /\ WF_vars(SyncGroup) /\ WF_vars(EndResync)

-----------------------------------------------------------------------------
(* Properties *)

\* README: "Target Secret exists but is not owned by the CR: Never adopt or
\* overwrite".  Each write of the operator (apply, retire, orphan) is to a Secret
\* the resource owns or to a free name, unless somebody else wrote that Secret
\* after the operator's last look at it.
ForeignSecretsUntouched ==
  [][ApiCall => \A n \in Target :
       secret'[n] # secret[n] /\ secret[n] # None /\ ~secret[n].owned =>
         n \in touched]_vars

\* apply_bunker_secret: cleaning up first "would leave the workload with no
\* Secret at all".  Whatever is renamed, refused, revoked, stale or failing, the
\* operator never lets go of the last Secret of a living resource, unless the one
\* it had just applied was taken away behind its back.
LastSecretIsKept ==
  [][ApiCall /\ Owned # {} /\ cr # None /\ ~cr.deleting =>
       Owned' # {} \/ job.spec.target \in touched]_vars

\* README: with deletionPolicy Retain the "Finalizer strips the ownerReference
\* first; Secret orphaned intact".  When the resource goes, the Secret under its
\* target name is out of the garbage collector's reach.
RetainKeepsTarget ==
  [][cr # None /\ cr' = None /\ cr.finalizer /\ cr.spec.policy = "Retain" =>
       cr.spec.target \notin Owned']_vars

\* The same for every Secret the resource rendered, under whatever name.
RetainKeepsEverySecret ==
  [][cr # None /\ cr' = None /\ cr.finalizer /\ cr.spec.policy = "Retain" =>
       Owned' = {}]_vars

\* What the resource should look like when nobody disturbs it
Converged ==
  LET s == secret[cr.spec.target]
  IN  /\ s # None /\ s.owned
      /\ s.data = mirror[cr.spec.group]
      /\ cr.status.reason \in {"Synced", "StaleReplica"}
      /\ cr.status.observed = cr.generation
      /\ cr.status.target = cr.spec.target

\* the spec can be served: its group renders, its name is not somebody else's
Servable ==
  /\ cr # None /\ ~cr.deleting
  /\ upstream[cr.spec.group] \in Data
  /\ secret[cr.spec.target] # None => secret[cr.spec.target].owned

\* Once edits and faults stop, a resource that can be served has its Secret, with
\* every rendered value as the bunker has it and the status that says so, through
\* stale copies, half-done reconciles, restarts and values edited by hand.
ReconcileConverges == <>[](Servable => Converged)

\* A deleted resource goes, whatever failed on the way, and with deletionPolicy
\* Delete everything it owned goes too.
DeletionCompletes ==
  (cr # None /\ cr.deleting) ~> (cr = None /\ Owned = {})

=============================================================================
