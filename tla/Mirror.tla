------------------------------- MODULE Mirror -------------------------------
(***************************************************************************)
(* Who may do what on a replica: the identity and ACL rows of the mirror   *)
(* (store.rs: apply_group_sync rules 1 and 2, effective_acl,               *)
(* drop_group_local, gc_unreferenced_identities), how the engine brings    *)
(* them from the authoritative node, and the read-only server that answers *)
(* from them (replica.rs: dispatch).                                       *)
(*                                                                         *)
(* Identity rows are shared by all groups while states arrive group by     *)
(* group: applying one group deletes or renames rows that others hang on.  *)
(* The session is reduced to what orders the states (Replication has it in *)
(* full): a group touched since the subscription is in `dirty' until its   *)
(* Changed is handled, and a resync may re-fetch a group (see              *)
(* sync_one_group) before it applies older states of others.               *)
(***************************************************************************)
EXTENDS ListFolds

CONSTANTS Endpoint, Name, Group, None,
          Perms,      \* the permission sets in use, subsets of Bit
          First,      \* the grant that is there from the start
          MaxChanges, \* bound: changes upstream
          MaxFaults   \* bound: connection losses and states with collisions

ASSUME MirrorBounds == MaxChanges \in Nat /\ MaxFaults \in Nat
\* None is no name and no set of permissions; the tables are finite
ASSUME MirrorValues == None \notin Name \cup Perms /\ IsFiniteSet(Endpoint)
ASSUME FirstGrant == First \in [endpoint : Endpoint, name : Name, perms : Perms]

VARIABLES node,    \* the authoritative tables: names by endpoint, ACL rows
          scope,   \* the groups the replica may read
          dirty,   \* groups touched since the session subscribed
          mode,    \* where the engine is
          cached,  \* the scope the session found at its Hello
          todo,    \* groups of the manifest not yet snapshotted
          stash,   \* states still to apply
          again,   \* the engine may still re-fetch the group it just applied
          local,   \* the replica's tables, held: its groups
          collided, \* history: a state with collisions came since the Hello
          changes, faults

engineVars == <<mode, cached, todo, stash, again>>
vars == <<node, scope, dirty, engineVars, local, collided, changes, faults>>

Bit == {"read", "admin"}
NoRows == [e \in Endpoint |-> None]
Rows == [Endpoint -> Perms \cup {None}]
Entry == [endpoint : Endpoint, name : Name, perms : Perms]
Unique(names) == \A d, e \in Endpoint :
  names[d] = names[e] /\ names[d] # None => d = e
\* group_acl references identity and secret_group, with cascades
Tables == {t \in [name : [Endpoint -> Name \cup {None}], acl : [Group -> Rows],
                  held : SUBSET Group] :
  /\ Unique(t.name)
  /\ \A g \in Group, e \in Endpoint :
       t.acl[g][e] # None => t.name[e] # None /\ g \in t.held}

TypeOK ==
  /\ node \in Tables /\ local \in Tables
  /\ scope \in SUBSET Group /\ cached \in SUBSET Group
  /\ dirty \in SUBSET Group /\ todo \in SUBSET Group
  /\ mode \in {"idle", "manifest", "resync", "sweep", "live", "apply"}
  /\ \A i \in DOMAIN stash : stash[i].group \in Group
                             /\ \A j \in DOMAIN stash[i].acl : stash[i].acl[j] \in Entry
  /\ again \in BOOLEAN
  /\ collided \in BOOLEAN
  /\ changes \in 0..MaxChanges /\ faults \in 0..MaxFaults

-----------------------------------------------------------------------------
(* The authoritative node *)

Change(touched) ==
  /\ changes < MaxChanges
  /\ changes' = changes + 1
  /\ dirty' = dirty \cup touched
  /\ UNCHANGED <<engineVars, local, collided, faults>>

GroupsOf(t, e) == {g \in Group : t.acl[g][e] # None}

Register ==
  /\ \E e \in Endpoint, n \in Name :
       /\ node.name[e] = None
       /\ \A d \in Endpoint : node.name[d] # n
       /\ node' = [node EXCEPT !.name[e] = n]
  /\ Change({})
  /\ UNCHANGED scope

\* DELETE FROM identity, with the cascade
WithoutIdentities(t, E) ==
  [t EXCEPT !.name = [e \in Endpoint |-> IF e \in E THEN None ELSE @[e]],
            !.acl = [g \in Group |->
                       [e \in Endpoint |-> IF e \in E THEN None ELSE @[g][e]]]]

RemoveIdentity ==
  /\ \E e \in Endpoint :
       /\ node.name[e] # None
       /\ node' = WithoutIdentities(node, {e})
       /\ Change(GroupsOf(node, e))
  /\ UNCHANGED scope

\* set_perms: no permissions is no row
Grant ==
  /\ \E g \in Group, e \in Endpoint, p \in Perms \cup {None} :
       /\ node.name[e] # None
       /\ node.acl[g][e] # p
       /\ node' = [node EXCEPT !.acl[g][e] = p]
       /\ Change({g})
  /\ UNCHANGED scope

\* the replica's own read bit on a group
GrantReplica ==
  /\ \E g \in Group :
       /\ scope' = IF g \in scope THEN scope \ {g} ELSE scope \cup {g}
       /\ Change({g})
  /\ UNCHANGED node

\* acl_entries_full: the rows of a group, by name
AclEntries(g) ==
  SetToSeq({x \in Entry : node.name[x.endpoint] = x.name
                          /\ node.acl[g][x.endpoint] = x.perms})

State(g) == [group |-> g, acl |-> AclEntries(g)]

-----------------------------------------------------------------------------
(* apply_group_sync *)

\* mutant: the list as it came
AclAsReceived(acl) == acl

\* effective_acl: scanned from the end, an entry goes when its name was seen, or
\* else when its endpoint was; `&&' leaves the endpoint alone in the first case
See(x, s) ==
  IF x.name \in s.names THEN s
  ELSE IF x.endpoint \in s.endpoints
  THEN [s EXCEPT !.names = @ \cup {x.name}]
  ELSE [names |-> s.names \cup {x.name},
        endpoints |-> s.endpoints \cup {x.endpoint},
        kept |-> <<x>> \o s.kept]

NothingSeen == [names |-> {}, endpoints |-> {}, kept |-> <<>>]

EffectiveAcl(acl) == FoldRight(See, acl, NothingSeen).kept

\* mutant: INSERT OR REPLACE deletes the row that holds the endpoint id as well
UpsertReplacing(t, x) ==
  [WithoutIdentities(t, {e \in Endpoint : t.name[e] = x.name \/ e = x.endpoint})
     EXCEPT !.name[x.endpoint] = x.name]

\* rule 1: the name's stale holder goes, with its rows in every group
Upsert(t, x) ==
  [WithoutIdentities(t, {e \in Endpoint \ {x.endpoint} : t.name[e] = x.name})
     EXCEPT !.name[x.endpoint] = x.name]

\* mutant: rows of the group that the state does not list stay
AclKept(t, g, acl) ==
  [t EXCEPT !.acl[g] = [e \in Endpoint |->
     IF \E i \in DOMAIN acl : acl[i].endpoint = e
     THEN (CHOOSE x \in Range(acl) : x.endpoint = e).perms ELSE @[e]]]

\* rule 2: the group's rows are replaced
AclReplaced(t, g, acl) ==
  [t EXCEPT !.acl[g] = [e \in Endpoint |->
     IF \E i \in DOMAIN acl : acl[i].endpoint = e
     THEN (CHOOSE x \in Range(acl) : x.endpoint = e).perms ELSE None]]

\* after rule 1, rule 2 looks every identity up: the transaction fails when a
\* later entry's delete took the row
Upserted(g, acl) == FoldLeft(Upsert, [local EXCEPT !.held = @ \cup {g}], acl)
ApplySucceeds(state) ==
  LET acl == EffectiveAcl(state.acl)
      t   == Upserted(state.group, acl)
  IN  \A i \in DOMAIN acl : t.name[acl[i].endpoint] # None

Applied(state) ==
  LET acl == EffectiveAcl(state.acl)
  IN  AclReplaced(Upserted(state.group, acl), state.group, acl)

ApplyGroupSync(state) ==
  /\ ApplySucceeds(state)
  /\ local' = Applied(state)

\* mutant: the foreign keys do not cascade
DropGroupRowOnly(t, g) == [t EXCEPT !.held = @ \ {g}]

DropGroupLocal(t, g) == [t EXCEPT !.held = @ \ {g}, !.acl[g] = NoRows]

GcUnreferenced(t) ==
  [t EXCEPT !.name = [e \in Endpoint |-> IF GroupsOf(t, e) = {} THEN None ELSE @[e]]]

\* drop_group_and_gc
DropAndGc(g) == local' = GcUnreferenced(DropGroupLocal(local, g))

-----------------------------------------------------------------------------
(* The engine *)

UpstreamUnchanged == UNCHANGED <<node, scope, changes>>

\* Hello: the session subscribes, then resolves the scope
Hello ==
  /\ mode \in {"idle", "live"}
  /\ mode' = IF scope = {} THEN "sweep" ELSE "manifest"
  /\ dirty' = {}
  /\ cached' = scope
  /\ todo' = scope
  /\ stash' = <<>> /\ again' = FALSE
  /\ collided' = FALSE
  /\ UpstreamUnchanged /\ UNCHANGED <<local, faults>>

\* one snapshot per lock; the manifest is complete after the last
Snapshot ==
  /\ mode = "manifest"
  /\ LET g == CHOOSE g \in todo : TRUE
     IN  /\ stash' = Append(stash, State(g))
         /\ todo' = todo \ {g}
         /\ mode' = IF todo = {g} THEN "resync" ELSE mode
  /\ UpstreamUnchanged
  /\ UNCHANGED <<dirty, cached, again, local, collided, faults>>

\* Changed: sync_group_via_fetch
Changed ==
  /\ mode = "live" /\ scope = cached
  /\ \E g \in dirty :
       /\ dirty' = dirty \ {g}
       /\ \/ /\ g \in scope
             /\ mode' = "apply" /\ stash' = <<State(g)>> /\ again' = FALSE
             /\ UNCHANGED local
          \/ /\ g \notin scope
             /\ DropAndGc(g)
             /\ UNCHANGED <<mode, stash, again>>
  /\ UpstreamUnchanged /\ UNCHANGED <<cached, todo, collided, faults>>

\* the engine is through with Head(stash)
NextState ==
  /\ stash' = Tail(stash)
  /\ mode' = IF mode = "apply" THEN "live"
             ELSE IF Len(stash) = 1 THEN "sweep" ELSE mode
  /\ again' = FALSE

\* apply_group_state; when it left secrets out, the state is fetched afresh
\* and applied once more
Apply ==
  /\ mode \in {"resync", "apply"} /\ stash # <<>>
  /\ ApplyGroupSync(Head(stash))
  /\ \/ NextState
     \/ ~again /\ again' = TRUE /\ UNCHANGED <<mode, stash>>
  /\ UpstreamUnchanged /\ UNCHANGED <<dirty, cached, todo, collided, faults>>

Refetch ==
  /\ again
  /\ Head(stash).group \in scope
  /\ stash' = <<State(Head(stash).group)>> \o Tail(stash)
  /\ UpstreamUnchanged
  /\ UNCHANGED <<dirty, mode, cached, todo, again, local, collided, faults>>

\* FetchGroup or FetchSecrets answered SyncDenied
Denied ==
  /\ mode \in {"resync", "apply"} /\ stash # <<>>
  /\ Head(stash).group \notin scope
  /\ DropAndGc(Head(stash).group)
  /\ NextState
  /\ UpstreamUnchanged /\ UNCHANGED <<dirty, cached, todo, collided, faults>>

\* the manifest is applied: what it did not carry goes, group by group
DropStale ==
  /\ mode = "sweep"
  /\ \E g \in local.held \ cached : local' = DropGroupLocal(local, g)
  /\ UpstreamUnchanged /\ UNCHANGED <<dirty, engineVars, collided, faults>>

EndResync ==
  /\ mode = "sweep" /\ local.held \subseteq cached
  /\ local' = GcUnreferenced(local)
  /\ mode' = "live"
  /\ UpstreamUnchanged
  /\ UNCHANGED <<dirty, cached, todo, stash, again, collided, faults>>

\* connection loss, or a restart on the same database
Lost ==
  /\ mode # "idle" /\ faults < MaxFaults
  /\ faults' = faults + 1
  /\ mode' = "idle" /\ stash' = <<>> /\ todo' = {} /\ again' = FALSE
  /\ UpstreamUnchanged /\ UNCHANGED <<dirty, cached, local, collided>>

\* a state that is not what an authoritative node sends: its ACL names an
\* identity or an endpoint twice
Collide ==
  /\ stash # <<>> /\ Len(Head(stash).acl) < 3 /\ faults < MaxFaults
  /\ faults' = faults + 1
  /\ \E x \in Entry :
       /\ \E i \in DOMAIN Head(stash).acl :
            Head(stash).acl[i].name = x.name \/ Head(stash).acl[i].endpoint = x.endpoint
       /\ \E acl \in {<<x>> \o Head(stash).acl, Append(Head(stash).acl, x)} :
            stash' = <<[group |-> Head(stash).group, acl |-> acl]>> \o Tail(stash)
  /\ UpstreamUnchanged
  /\ collided' = TRUE
  /\ UNCHANGED <<dirty, mode, cached, todo, again, local>>

-----------------------------------------------------------------------------
(* The read paths, shared by both nodes (implicit_admin is false) *)

\* authorize_group
Authorized(t, e, g, bit) ==
  g \in t.held /\ t.acl[g][e] # None /\ bit \in t.acl[g][e]

\* the arms of dispatch that read a group, without the service-admin bypass; the
\* answer to Get and List is Replication's, here it is given or refused
Answer(t, e, req) ==
  CASE t.name[e] = None -> "Denied"
    [] t.name[e] # None /\ req.op = "Get" ->
         IF Authorized(t, e, req.group, "read") THEN "Ok" ELSE "Denied"
    [] t.name[e] # None /\ req.op = "GroupAcl" ->
         IF Authorized(t, e, req.group, "admin")
         THEN {<<t.name[d], t.acl[req.group][d]>> :
                 d \in {d \in Endpoint : t.acl[req.group][d] # None}}
         ELSE "Denied"

Requests == [op : {"Get", "GroupAcl"}, group : Group]

-----------------------------------------------------------------------------

\* one identity is granted all groups; the replica starts empty
Init ==
  /\ node = [name |-> [NoRows EXCEPT ![First.endpoint] = First.name],
             acl  |-> [g \in Group |-> [NoRows EXCEPT ![First.endpoint] = First.perms]],
             held |-> Group]
  /\ local = [name |-> NoRows, acl |-> [g \in Group |-> NoRows], held |-> {}]
  /\ scope = Group
  /\ dirty = {} /\ cached = {} /\ todo = {}
  /\ mode = "idle" /\ stash = <<>> /\ again = FALSE
  /\ collided = FALSE
  /\ changes = 0 /\ faults = 0

Upstream == Register \/ RemoveIdentity \/ Grant \/ GrantReplica

Engine ==
  \/ Hello \/ Snapshot \/ Changed \/ Apply \/ Refetch
  \/ Denied \/ DropStale \/ EndResync

Next == Upstream \/ Engine \/ Lost \/ Collide

Spec == Init /\ [][Next]_vars

-----------------------------------------------------------------------------
(* Properties *)

\* apply_group_sync replaces ACLs one group at a time over shared identity rows.
\* Whatever keys were replaced, names reused or swapped, groups re-fetched or
\* interrupted in between: a mirrored group with no Changed outstanding answers
\* every peer as the authoritative node would by its explicit grants.
CleanGroupsAnswerAlike ==
  mode = "live" /\ scope = cached /\ ~collided =>
    \A g \in scope \ dirty :
      \A e \in Endpoint, req \in {r \in Requests : r.group = g} :
        Answer(local, e, req) = Answer(node, e, req)

InHand == mode \in {"resync", "apply"} /\ stash # <<>>

\* effective_acl: applied naively, entries that collide "wedge the group
\* permanently".  Every state in hand can be applied to the mirror as it is.
ApplyNeverWedges == InHand => ApplySucceeds(Head(stash))

\* the last entry that holds the name
LastOfName(acl, i) == \A j \in DOMAIN acl : j > i => acl[j].name # acl[i].name

\* among those, the last of its endpoint
Wins(acl, i) ==
  /\ LastOfName(acl, i)
  /\ \A j \in DOMAIN acl :
       j > i /\ LastOfName(acl, j) => acl[j].endpoint # acl[i].endpoint

\* "every name and endpoint-id collision resolved in favour of the last entry
\* holding it": the rows an apply of the state in hand leaves for its group are
\* the entries that are the last of their name and, among those, the last of
\* their endpoint, whatever rows were there before.
LastEntryWins ==
  InHand =>
    LET acl == Head(stash).acl
        t   == Applied(Head(stash))
    IN  {x \in Entry : t.acl[Head(stash).group][x.endpoint] = x.perms
                       /\ t.name[x.endpoint] = x.name}
        = {acl[i] : i \in {k \in DOMAIN acl : Wins(acl, k)}}

=============================================================================
