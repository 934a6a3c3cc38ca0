------------------------------- MODULE Bunker -------------------------------
(***************************************************************************)
(* The authoritative node: the tables of the SQLite store (store.rs), the  *)
(* request handlers that change them (server.rs), start-up with its        *)
(* backfill of reader wraps, and the two offline commands that write the   *)
(* same file (main.rs: db grant, recover).                                 *)
(*                                                                         *)
(* Every handler runs from beginning to end under the one store mutex and  *)
(* commits one SQL transaction, so a handler is one action.  A request the *)
(* handler refuses (Denied, Failed, VersionConflict) changes no table      *)
(* modelled here and is a stuttering step.  The audit rows a handler       *)
(* appends are read by no handler and are not part of this state.          *)
(***************************************************************************)
EXTENDS Naturals, Sequences

CONSTANTS Endpoint,    \* endpoint ids (public keys) that may be registered
          Name,        \* identity names
          NoName,      \* "no identity row for this endpoint"
          Group,       \* group names
          Secret,      \* secret names
          OpKey,       \* operational age keys, past and future
          Backup,      \* the offline backup key
          Grants,      \* the permission sets Grant and db grant are called with
          MaxDek,      \* bound: DEK versions per group
          MaxVersion   \* bound: versions per secret

ASSUME BoundsAssumption ==
  /\ MaxDek \in Nat \ {0}
  /\ MaxVersion \in Nat \ {0}

ASSUME KeysAssumption ==
  /\ Endpoint \cap OpKey = {}
  /\ Backup \notin Endpoint \cup OpKey
  /\ NoName \notin Name

Perm == {"r", "w", "a"}

\* grant fails on any other bit ("invalid permission bits")
ASSUME GrantsAssumption == Grants \subseteq SUBSET Perm

VARIABLES phase,        \* the serve process: "down", "starting", "serving"
          identity,     \* identity.name by endpoint_id, NoName when absent
          serviceAdmin, \* endpoints whose identity.service_admin is 1
          acl,          \* group_acl.perms, {} when there is no row
          dek,          \* MAX(group_dek.version), 0 when there is no group
          wraps,        \* dek_wrap: the keys that open each DEK version
          secrets,      \* dek_version of every secret_version row, in order
          opKey,        \* meta.operational_pubkey
          published     \* group names the last step sent on Inner::events

vars == <<phase, identity, serviceAdmin, acl, dek, wraps, secrets, opKey,
          published>>

DekVersion == 1..MaxDek
Recipient == Endpoint \cup OpKey \cup {Backup}
Phase == {"down", "starting", "serving"}

TypeOK ==
  /\ phase \in Phase
  /\ identity \in [Endpoint -> Name \cup {NoName}]
  /\ serviceAdmin \in SUBSET Endpoint
  /\ acl \in [Group -> [Endpoint -> SUBSET Perm]]
  /\ dek \in [Group -> 0..MaxDek]
  /\ wraps \in [Group -> [DekVersion -> SUBSET Recipient]]
  /\ secrets \in [Group -> [Secret -> Seq(DekVersion)]]
  /\ opKey \in OpKey
  /\ published \in SUBSET Group

-----------------------------------------------------------------------------
(* Queries of the store *)

Registered == {e \in Endpoint : identity[e] # NoName}

\* group_id(name) is Some
Exists(g) == dek[g] > 0

\* read_granted_identities: explicit readers, service admins not included
Readers(g) == {e \in Endpoint : "r" \in acl[g][e]}

\* identities counted by admin_count
Admins(g) == {e \in Endpoint : "a" \in acl[g][e]}

\* mutant: the groups of the removed identity are not looked up
NoGroupsWithRead(e) == {}

\* groups_with_read
GroupsWithRead(e) == {g \in Group : "r" \in acl[g][e]}

\* mutant: only readable groups count as touched
OnlyReadableGroups(e) == {g \in Group : "r" \in acl[g][e]}

\* groups_for_identity
GroupsFor(e) == {g \in Group : acl[g][e] # {}}

\* dek_versions: versions are never deleted, so they are 1..MAX
DekVersions(g) == {v \in DekVersion : v <= dek[g]}

\* authorize_group with implicit_admin = ident.service_admin
Authorized(e, g, needed) ==
  /\ e \in Registered
  /\ Exists(g)
  /\ e \in serviceAdmin \/ needed \in acl[g][e]

-----------------------------------------------------------------------------
(* Wrap sets *)

\* base_wraps: what every DEK version carries
BaseRecipients == {opKey, Backup}

\* wrap_set_for_group: operational, backup and every reader but the excluded
WrapSet(g, excluded) == BaseRecipients \cup (Readers(g) \ excluded)

\* unwrap_dek succeeds with the operational key the server runs with
OperationalOpens(g, v) == opKey \in wraps[g][v]

\* mutant: only the current version is wrapped to the new reader
AddReaderToCurrent(w, n, e) ==
  [v \in DekVersion |-> IF v = n THEN w[v] \cup {e} ELSE w[v]]

\* one more recipient on the retained versions 1..n (wraps_for_new_reader)
AddReader(w, n, e) ==
  [v \in DekVersion |-> IF v <= n THEN w[v] \cup {e} ELSE w[v]]

\* insert_dek_version: version n with its wrap set
InsertDekVersion(w, n, recipients) ==
  [v \in DekVersion |-> IF v = n THEN recipients ELSE w[v]]

\* mutant: the wraps of the revoked reader stay
DropNoRecipient(w, e) == w

\* DELETE FROM dek_wrap WHERE group_id = .. AND recipient = e
DropRecipient(w, e) == [v \in DekVersion |-> w[v] \ {e}]

\* the body of revoke_read_and_rotate and of a rotation of
\* remove_identity_with_rotations: the wraps of g without e, plus a new version
RotateAway(g, e) ==
  InsertDekVersion(DropRecipient(wraps[g], e), dek[g] + 1, WrapSet(g, {e}))

-----------------------------------------------------------------------------
(* Initial databases *)

\* what `init` writes: one service admin, no group (Store::init)
FreshDatabase ==
  /\ \E a \in Endpoint, n \in Name :
       /\ identity = [e \in Endpoint |-> IF e = a THEN n ELSE NoName]
       /\ serviceAdmin = {a}
  /\ acl = [g \in Group |-> [e \in Endpoint |-> {}]]
  /\ dek = [g \in Group |-> 0]
  /\ wraps = [g \in Group |-> [v \in DekVersion |-> {}]]
  /\ secrets = [g \in Group |-> [s \in Secret |-> <<>>]]

\* what `migrate` makes of a schema v1 database: each DEK version carries the
\* operational and the backup wrap only, whatever grants exist
MigratedDatabase ==
  /\ identity \in [Endpoint -> Name \cup {NoName}]
  /\ \A e, f \in Registered : identity[e] = identity[f] => e = f
  /\ serviceAdmin \in (SUBSET Registered) \ {{}}
  /\ dek \in [Group -> 0..MaxDek]
  /\ acl \in [Group -> [Endpoint -> {{}, {"r"}, Perm}]]
  /\ \A g \in Group, e \in Endpoint :
       acl[g][e] # {} => Exists(g) /\ e \in Registered
  /\ wraps = [g \in Group |-> [v \in DekVersion |->
                IF v <= dek[g] THEN BaseRecipients ELSE {}]]
  /\ secrets = [g \in Group |-> [s \in Secret |->
                IF Exists(g) THEN <<1>> ELSE <<>>]]

Init ==
  /\ phase = "down"
  /\ opKey \in OpKey
  /\ published = {}
  /\ FreshDatabase \/ MigratedDatabase

-----------------------------------------------------------------------------
(* Start-up and stop *)

\* Bunker::new over the database; the operational key it is given matches
Start ==
  /\ phase = "down"
  /\ phase' = "starting"
  /\ published' = {}
  /\ UNCHANGED <<identity, serviceAdmin, acl, dek, wraps, secrets, opKey>>

\* mutant: wraps that exist are listed again
AllReaderWraps ==
  {m \in Group \X DekVersion \X Endpoint :
     m[2] \in DekVersions(m[1]) /\ m[3] \in Readers(m[1])}

\* missing_reader_wraps: the work list of the backfill
MissingReaderWraps ==
  {m \in Group \X DekVersion \X Endpoint :
     /\ m[2] \in DekVersions(m[1])
     /\ m[3] \in Readers(m[1])
     /\ m[3] \notin wraps[m[1]][m[2]]}

\* one iteration of backfill_reader_wraps: its rows are not one transaction
Backfill(g, v, e) ==
  /\ phase = "starting"
  /\ <<g, v, e>> \in MissingReaderWraps
  /\ OperationalOpens(g, v)
  /\ wraps' = [wraps EXCEPT ![g][v] = @ \cup {e}]
  /\ published' = {}
  /\ UNCHANGED <<phase, identity, serviceAdmin, acl, dek, secrets, opKey>>

\* the backfill returned; serve_with_rebind accepts requests
Serve ==
  /\ phase = "starting"
  /\ MissingReaderWraps = {}
  /\ phase' = "serving"
  /\ published' = {}
  /\ UNCHANGED <<identity, serviceAdmin, acl, dek, wraps, secrets, opKey>>

\* ctrl-c or a crash, between any two transactions
Stop ==
  /\ phase # "down"
  /\ phase' = "down"
  /\ published' = {}
  /\ UNCHANGED <<identity, serviceAdmin, acl, dek, wraps, secrets, opKey>>

-----------------------------------------------------------------------------
(* Secrets *)

\* put: compare-and-set on the current version, under the current DEK
Put(e, g, s, expected) ==
  /\ phase = "serving"
  /\ Authorized(e, g, "w")
  /\ OperationalOpens(g, dek[g])
  /\ expected = Len(secrets[g][s])
  /\ expected < MaxVersion
  /\ secrets' = [secrets EXCEPT ![g][s] = Append(@, dek[g])]
  /\ published' = {g}
  /\ UNCHANGED <<phase, identity, serviceAdmin, acl, dek, wraps, opKey>>

\* delete: compare-and-set; the secret goes with all its versions
Delete(e, g, s, expected) ==
  /\ phase = "serving"
  /\ Authorized(e, g, "w")
  /\ secrets[g][s] # <<>>
  /\ expected = Len(secrets[g][s])
  /\ secrets' = [secrets EXCEPT ![g][s] = <<>>]
  /\ published' = {g}
  /\ UNCHANGED <<phase, identity, serviceAdmin, acl, dek, wraps, opKey>>

\* read_secret as the authoritative node calls it
ReadSecret(e, g, s) ==
  IF ~Authorized(e, g, "r") \/ secrets[g][s] = <<>> THEN "Denied"
  ELSE IF OperationalOpens(g, secrets[g][s][Len(secrets[g][s])])
       THEN "Secret" ELSE "Failed"

-----------------------------------------------------------------------------
(* Groups and their ACLs *)

CreateGroup(e, g) ==
  /\ phase = "serving"
  /\ e \in serviceAdmin
  /\ ~Exists(g)
  /\ acl' = [acl EXCEPT ![g][e] = Perm]
  /\ dek' = [dek EXCEPT ![g] = 1]
  /\ wraps' = [wraps EXCEPT ![g] =
                 InsertDekVersion(@, 1, BaseRecipients \cup {e})]
  /\ published' = {g}
  /\ UNCHANGED <<phase, identity, serviceAdmin, secrets, opKey>>

\* (false, true) of grant and db_grant: every retained version is re-wrapped
GainRead(g, t, perms) ==
  /\ "r" \notin acl[g][t]
  /\ "r" \in perms
  /\ \A v \in DekVersions(g) : OperationalOpens(g, v)
  /\ acl' = [acl EXCEPT ![g][t] = perms]
  /\ wraps' = [wraps EXCEPT ![g] = AddReader(@, dek[g], t)]
  /\ UNCHANGED dek

\* (true, false): the wraps of the target go and the group's DEK rotates
LoseRead(g, t, perms) ==
  /\ "r" \in acl[g][t]
  /\ "r" \notin perms
  /\ dek[g] < MaxDek
  /\ acl' = [acl EXCEPT ![g][t] = perms]
  /\ wraps' = [wraps EXCEPT ![g] = RotateAway(g, t)]
  /\ dek' = [dek EXCEPT ![g] = @ + 1]

\* set_perms: a plain ACL edit, no key material moves
KeepRead(g, t, perms) ==
  /\ "r" \in acl[g][t] <=> "r" \in perms
  /\ acl' = [acl EXCEPT ![g][t] = perms]
  /\ UNCHANGED <<dek, wraps>>

ChangePerms(g, t, perms) ==
  GainRead(g, t, perms) \/ LoseRead(g, t, perms) \/ KeepRead(g, t, perms)

\* mutant: no guard
AnyAdminMayGo(g, t, perms) == TRUE

\* the last-admin guard of grant
KeepsAnAdmin(g, t, perms) ==
  "a" \in acl[g][t] /\ "a" \notin perms => Admins(g) # {t}

Grant(e, g, t, perms) ==
  /\ phase = "serving"
  /\ Authorized(e, g, "a")
  /\ t \in Registered
  /\ KeepsAnAdmin(g, t, perms)
  /\ ChangePerms(g, t, perms)
  /\ published' = {g}
  /\ UNCHANGED <<phase, identity, serviceAdmin, secrets, opKey>>

RotateDek(e, g) ==
  /\ phase = "serving"
  /\ Authorized(e, g, "a")
  /\ dek[g] < MaxDek
  /\ dek' = [dek EXCEPT ![g] = @ + 1]
  /\ wraps' = [wraps EXCEPT ![g] =
                 InsertDekVersion(@, dek[g] + 1, WrapSet(g, {}))]
  /\ published' = {g}
  /\ UNCHANGED <<phase, identity, serviceAdmin, acl, secrets, opKey>>

-----------------------------------------------------------------------------
(* Identities.  Names are unique, so a target is given by its endpoint. *)

AddIdentity(e, t, n, admin) ==
  /\ phase = "serving"
  /\ e \in serviceAdmin
  /\ t \notin Registered
  /\ \A r \in Registered : identity[r] # n
  /\ identity' = [identity EXCEPT ![t] = n]
  /\ serviceAdmin' = IF admin THEN serviceAdmin \cup {t} ELSE serviceAdmin
  /\ published' = {}
  /\ UNCHANGED <<phase, acl, dek, wraps, secrets, opKey>>

\* mutant: no guard
AnyServiceAdminMayGo(t) == TRUE

\* the lockout guard of remove_identity and set_service_admin
NotLastServiceAdmin(t) == serviceAdmin # {t}

\* the ON DELETE CASCADE of group_acl.identity_id
AclWithout(t) == [g \in Group |-> [acl[g] EXCEPT ![t] = {}]]

\* the identity row, its ACL rows (ON DELETE CASCADE) and one rotation for
\* every group it could read, in one transaction
RemoveIdentity(e, t) ==
  /\ phase = "serving"
  /\ e \in serviceAdmin
  /\ t \in Registered
  /\ NotLastServiceAdmin(t)
  /\ \A g \in GroupsWithRead(t) : dek[g] < MaxDek
  /\ identity' = [identity EXCEPT ![t] = NoName]
  /\ serviceAdmin' = serviceAdmin \ {t}
  /\ acl' = AclWithout(t)
  /\ dek' = [g \in Group |->
               IF g \in GroupsWithRead(t) THEN dek[g] + 1 ELSE dek[g]]
  /\ wraps' = [g \in Group |->
               IF g \in GroupsWithRead(t) THEN RotateAway(g, t) ELSE wraps[g]]
  /\ published' = GroupsFor(t)
  /\ UNCHANGED <<phase, secrets, opKey>>

SetServiceAdmin(e, t, admin) ==
  /\ phase = "serving"
  /\ e \in serviceAdmin
  /\ t \in Registered
  /\ ~admin => NotLastServiceAdmin(t)
  /\ serviceAdmin' = IF admin THEN serviceAdmin \cup {t}
                              ELSE serviceAdmin \ {t}
  /\ published' = {}
  /\ UNCHANGED <<phase, identity, acl, dek, wraps, secrets, opKey>>

-----------------------------------------------------------------------------
(* Offline commands, run with the server stopped *)

\* db_grant: no caller, no last-admin guard, no event
DbGrant(g, t, perms) ==
  /\ phase = "down"
  /\ Exists(g)
  /\ t \in Registered
  /\ ChangePerms(g, t, perms)
  /\ published' = {}
  /\ UNCHANGED <<phase, identity, serviceAdmin, secrets, opKey>>

\* mutant: only the current version of each group is re-wrapped
CurrentRewrapped(k) ==
  [g \in Group |-> [v \in DekVersion |->
     IF v = dek[g] THEN (wraps[g][v] \ OpKey) \cup {k} ELSE wraps[g][v]]]

\* every DEK the backup key opens gets its operational wrap replaced
Rewrapped(k) ==
  [g \in Group |-> [v \in DekVersion |->
     IF Backup \in wraps[g][v] THEN (wraps[g][v] \ OpKey) \cup {k}
     ELSE wraps[g][v]]]

\* recover: one transaction, apply_recovery, which fails as a whole unless each
\* DEK has an operational wrap to replace
Recover(k) ==
  /\ phase = "down"
  /\ \A g \in Group, v \in DekVersion :
       Backup \in wraps[g][v] => wraps[g][v] \cap OpKey # {}
  /\ wraps' = Rewrapped(k)
  /\ opKey' = k
  /\ published' = {}
  /\ UNCHANGED <<phase, identity, serviceAdmin, acl, dek, secrets>>

-----------------------------------------------------------------------------

Request ==
  \E e \in Endpoint :
    \/ \E g \in Group, s \in Secret, x \in 0..MaxVersion : Put(e, g, s, x)
    \/ \E g \in Group, s \in Secret, x \in 0..MaxVersion : Delete(e, g, s, x)
    \/ \E g \in Group : CreateGroup(e, g)
    \/ \E g \in Group, t \in Endpoint, p \in Grants : Grant(e, g, t, p)
    \/ \E g \in Group : RotateDek(e, g)
    \/ \E t \in Endpoint, n \in Name, b \in BOOLEAN : AddIdentity(e, t, n, b)
    \/ \E t \in Endpoint : RemoveIdentity(e, t)
    \/ \E t \in Endpoint, b \in BOOLEAN : SetServiceAdmin(e, t, b)

BackfillStep ==
  \E g \in Group, v \in DekVersion, e \in Endpoint : Backfill(g, v, e)

Lifecycle == Start \/ BackfillStep \/ Serve \/ Stop

Offline ==
  \/ \E g \in Group, t \in Endpoint, p \in Grants : DbGrant(g, t, p)
  \/ \E k \in OpKey : Recover(k)

Next == Request \/ Lifecycle \/ Offline

Spec == Init /\ [][Next]_vars

-----------------------------------------------------------------------------
(* Properties *)

\* What wrap_set_for_group promises of version v of g: the operational key, the
\* backup key and the group's explicit readers, nobody else; nothing for a
\* version that does not exist.
ExactWraps(g, v) == IF v \in DekVersions(g) THEN WrapSet(g, {}) ELSE {}

\* While requests are served, the dek_wrap table says exactly what the ACL says:
\* after any sequence of grants, revocations, rotations, removals, restarts,
\* backfills, db grants and recoveries each retained DEK version is wrapped to
\* the recorded operational key, to the backup key and to every explicit reader.
WrapsMatchReaders ==
  phase = "serving" =>
    \A g \in Group, v \in DekVersion : wraps[g][v] = ExactWraps(g, v)

\* With the server down or in the middle of its backfill, wraps may be missing
\* for readers, never for the operational and backup keys, and no wrap exists
\* that the ACL does not justify (grant_with_wraps: "nor wraps without the ACL
\* row that justifies them").
WrapsJustified ==
  \A g \in Group, v \in DekVersion :
    /\ wraps[g][v] \subseteq ExactWraps(g, v)
    /\ v \in DekVersions(g) => BaseRecipients \subseteq wraps[g][v]

\* The guards of remove_identity and set_service_admin: the bunker can always be
\* administered over the wire, by an identity that is still registered.
AdministrableOverTheWire ==
  /\ serviceAdmin # {}
  /\ serviceAdmin \subseteq Registered

\* No ACL row survives its identity (the foreign-key cascade) or precedes its
\* group, and no two identities share a name.
AclRowsHaveOwners ==
  /\ \A g \in Group, e \in Endpoint :
       acl[g][e] # {} => Exists(g) /\ e \in Registered
  /\ \A e, f \in Registered : identity[e] = identity[f] => e = f

\* A caller that passes the read check never gets Failed from Get: the DEK of
\* the stored version is always there under the key the server runs with, also
\* after rotations, deletes, recoveries and restarts in between.
AuthorizedGetNeverFails ==
  phase = "serving" =>
    \A e \in Endpoint, g \in Group, s \in Secret :
      ReadSecret(e, g, s) # "Failed"

\* Every explicit reader can open every stored version of every secret of the
\* group with a wrap addressed to itself: what a replica run by it relies on.
ReadersCanOpenEveryVersion ==
  phase = "serving" =>
    \A g \in Group, s \in Secret :
      \A i \in DOMAIN secrets[g][s] :
        Readers(g) \subseteq wraps[g][secrets[g][s][i]]

\* What a sync snapshot of group g for caller e contains (snapshot_group): the
\* ACL with the holders' names, the caller's wraps and the current versions.
SnapshotFor(e, g) ==
  [acl     |-> [f \in Endpoint |->
                  IF acl[g][f] = {} THEN <<>> ELSE <<identity[f], acl[g][f]>>],
   deks    |-> {v \in DekVersions(g) : e \in wraps[g][v]},
   secrets |-> secrets[g]]

\* touched_groups: "under-notification is a correctness bug".  Whatever a request
\* changes in the snapshot some endpoint would get of a group, that group's name
\* is published with it.
ChangesArePublished ==
  [][phase = "serving" /\ phase' = "serving" =>
       \A g \in Group, e \in Endpoint :
         SnapshotFor(e, g)' # SnapshotFor(e, g) => g \in published']_vars

\* A group that has an admin loses its last one only through RemoveIdentity of
\* that admin or through the offline db grant, never through a wire Grant.
LastAdminOnlyByRemoval ==
  [][\A g \in Group :
       Admins(g) # {} /\ Admins(g)' = {} /\ phase = "serving" =>
         \E t \in Admins(g) : t \notin Registered']_vars

\* Whoever loses the explicit read bit on a group, by Grant, db grant or
\* RemoveIdentity, loses it together with a rotation of that group's DEK, and no
\* step ever takes an issued DEK version back.
RevocationRotates ==
  [][\A g \in Group :
       /\ dek[g] <= dek'[g]
       /\ ~(Readers(g) \subseteq Readers(g)') => dek[g] < dek'[g]]_vars

\* The backfill ends: while a node starts, the operational key opens every DEK
\* version the backfill has to wrap, so that it is never refused, and every step
\* of it leaves strictly fewer wraps missing, wherever an earlier start stopped.
BackfillAdvances ==
  [][phase = "starting" =>
       /\ \A m \in MissingReaderWraps : OperationalOpens(m[1], m[2])
       /\ phase' = "starting" => /\ MissingReaderWraps' \subseteq MissingReaderWraps
                                 /\ MissingReaderWraps' # MissingReaderWraps]_vars

-----------------------------------------------------------------------------
(* The inductive invariant behind the state properties above.  What they lack  *)
(* is that every stored version names a DEK version that has been issued: only *)
(* then do the wraps of the issued versions say who opens the stored secrets.  *)

StoredUnderIssuedDeks ==
  \A g \in Group, s \in Secret :
    \A i \in DOMAIN secrets[g][s] : secrets[g][s][i] \in DekVersions(g)

IndInv ==
  /\ TypeOK
  /\ AdministrableOverTheWire
  /\ AclRowsHaveOwners
  /\ WrapsJustified
  /\ WrapsMatchReaders
  /\ StoredUnderIssuedDeks

=============================================================================
