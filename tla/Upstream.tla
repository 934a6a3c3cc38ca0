------------------------------ MODULE Upstream ------------------------------
(***************************************************************************)
(* The authoritative node as one replica sees it: which groups the         *)
(* replica's identity may explicitly read, and of every group what a sync  *)
(* snapshot carries.  Every mutation is a request of server.rs or an       *)
(* offline db grant, reduced to its effect on this view; Mutation(G) says  *)
(* which group names touched_groups publishes for it.                      *)
(*                                                                         *)
(* A group the replica cannot read and a group that does not exist answer  *)
(* alike (sync_read_authorized), so groups exist from the start.  A        *)
(* serving node holds a wrap of every DEK version for every explicit       *)
(* reader and for nobody else (WrapsMatchReaders of Bunker), so the        *)
(* replica's wraps are not a variable of their own.                        *)
(***************************************************************************)
EXTENDS Naturals

CONSTANTS Group, Secret, None,
          Acl,        \* values a group's ACL may take, as sync ships them
          MaxClock    \* bound: mutations in a behaviour

ASSUME ClockBound == MaxClock \in Nat

VARIABLES registered, \* the replica's identity row exists
          reads,      \* groups where it holds the explicit read bit
          dek,        \* current DEK version by group
          secret,     \* current version of every secret, or None
          acl,        \* the ACL by group
          clock       \* mutations so far; also the source of fresh nonces

upstreamVars == <<registered, reads, dek, secret, acl, clock>>

Nonce == 0..MaxClock
DekVersion == 1..(MaxClock + 1)
Entry == [version : 1..(MaxClock + 1), dek : DekVersion, nonce : Nonce]

UpstreamType ==
  /\ registered \in BOOLEAN
  /\ reads \in SUBSET Group
  /\ dek \in [Group -> DekVersion]
  /\ secret \in [Group -> [Secret -> Entry \cup {None}]]
  /\ acl \in [Group -> Acl]
  /\ clock \in Nonce

UpstreamInit ==
  /\ registered = TRUE
  /\ reads \in SUBSET Group
  /\ dek = [g \in Group |-> 1]
  /\ secret = [g \in Group |-> [s \in Secret |->
                 [version |-> 1, dek |-> 1, nonce |-> 0]]]
  /\ acl \in [Group -> Acl]
  /\ clock = 0

-----------------------------------------------------------------------------

\* sync_read_authorized: the explicit read bit, no service-admin bypass
ReadAuthorized(g) == registered /\ g \in reads

\* read_scope of the replica's identity
Scope == IF registered THEN reads ELSE {}

\* snapshot_group: the caller's own wraps, the ACL and the current versions
Snapshot(g) ==
  [name    |-> g,
   deks    |-> IF g \in reads THEN 1..dek[g] ELSE {},
   acl     |-> acl[g],
   secrets |-> secret[g]]

Rotated(G) == [g \in Group |-> IF g \in G THEN dek[g] + 1 ELSE dek[g]]

-----------------------------------------------------------------------------

\* put: the next version, or version 1 of a new secret, under a fresh nonce
Put(g, s) ==
  /\ secret' = [secret EXCEPT ![g][s] =
                  [version |-> IF @ = None THEN 1 ELSE @.version + 1,
                   dek     |-> dek[g],
                   nonce   |-> clock + 1]]
  /\ UNCHANGED <<registered, reads, dek, acl>>

Delete(g, s) ==
  /\ secret[g][s] # None
  /\ secret' = [secret EXCEPT ![g][s] = None]
  /\ UNCHANGED <<registered, reads, dek, acl>>

\* the ACLs of the groups G take other values, those of no other group do
AclsChange(G) ==
  /\ acl' \in [Group -> Acl]
  /\ \A g \in Group \ G : acl'[g] = acl[g]

\* grant or db grant giving the replica the read bit, create_group by it
GrantRead(g) ==
  /\ registered
  /\ g \notin reads
  /\ reads' = reads \cup {g}
  /\ AclsChange({g})
  /\ UNCHANGED <<registered, dek, secret>>

\* grant or db grant taking it: the group rotates (revoke_read_and_rotate)
RevokeRead(g) ==
  /\ g \in reads
  /\ reads' = reads \ {g}
  /\ dek' = Rotated({g})
  /\ AclsChange({g})
  /\ UNCHANGED <<registered, secret>>

\* remove_identity of the replica: every group it reads rotates; G are the
\* groups it had any permission on
RemoveReplica(G) ==
  /\ registered
  /\ reads \subseteq G
  /\ registered' = FALSE
  /\ reads' = {}
  /\ dek' = Rotated(reads)
  /\ AclsChange(G)
  /\ UNCHANGED secret

\* add_identity of the replica: no grants yet, and nothing is published
AddReplica ==
  /\ ~registered
  /\ registered' = TRUE
  /\ UNCHANGED <<reads, dek, secret, acl>>

\* rotate_dek; create_group, a grant to or a removal of another identity: the
\* ACLs of the groups G change, and those of them that lose a reader rotate
ChangeOthers(G, rotated) ==
  /\ rotated \subseteq G
  /\ dek' = Rotated(rotated)
  /\ AclsChange(G)
  /\ UNCHANGED <<registered, reads, secret>>

\* a mutation that publishes the group names G
Mutation(G) ==
  /\ clock < MaxClock
  /\ clock' = clock + 1
  /\ \/ \E g \in G, s \in Secret : G = {g} /\ (Put(g, s) \/ Delete(g, s))
     \/ \E g \in G : G = {g} /\ (GrantRead(g) \/ RevokeRead(g))
     \/ RemoveReplica(G)
     \/ G = {} /\ AddReplica
     \/ G # {} /\ \E rotated \in SUBSET G : ChangeOthers(G, rotated)

=============================================================================
