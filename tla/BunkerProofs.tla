---------------------------- MODULE BunkerProofs ----------------------------
(***************************************************************************)
(* Proofs that every reachable state of Bunker satisfies IndInv, the       *)
(* properties that follow from it, and two specifications that watch       *)
(* Bunker through variables of their own.                                  *)
(*                                                                         *)
(* KeyHistory: no endpoint outside a group's explicit readers ever held    *)
(* the DEK the group's next secret is written under.  The argument needs,  *)
(* beside the invariant of Bunker, that nobody holds a version that has    *)
(* not been issued: a rotation then always lands on a version nobody held. *)
(*                                                                         *)
(* BunkerView: the node as a replica sees it implements Upstream, the      *)
(* specification Replication is built on.  Every operation of the store is *)
(* one step of Upstream for the groups it publishes, or none.              *)
(***************************************************************************)
EXTENDS KeyHistory, BunkerView, TLAPS

\* The databases the server may be started on satisfy the invariant.
LEMMA InitIndInv == Init => IndInv
<1> SUFFICES ASSUME Init PROVE IndInv
  OBVIOUS
<1> USE BoundsAssumption, KeysAssumption DEF Init
<1>1. CASE FreshDatabase
  <2>1. TypeOK
    BY <1>1 DEF FreshDatabase, TypeOK, Phase, Perm, DekVersion, Recipient
  <2>2. AdministrableOverTheWire /\ AclRowsHaveOwners
    BY <1>1 DEF FreshDatabase, AdministrableOverTheWire, AclRowsHaveOwners,
      Registered, Readers, Admins, Exists
  <2>3. WrapsJustified /\ WrapsMatchReaders /\ StoredUnderIssuedDeks
    BY <1>1 DEF FreshDatabase, WrapsJustified, WrapsMatchReaders,
      StoredUnderIssuedDeks, ExactWraps, DekVersions, DekVersion
  <2> QED BY <2>1, <2>2, <2>3 DEF IndInv
<1>2. CASE MigratedDatabase
  <2>1. TypeOK
    <3>1. <<1>> \in Seq(DekVersion) /\ <<>> \in Seq(DekVersion)
      BY DEF DekVersion
    <3>2. secrets \in [Group -> [Secret -> Seq(DekVersion)]]
      BY <1>2, <3>1 DEF MigratedDatabase
    <3>3. wraps \in [Group -> [DekVersion -> SUBSET Recipient]]
      BY <1>2, Zenon DEF MigratedDatabase, Recipient, BaseRecipients
    <3>4. acl \in [Group -> [Endpoint -> SUBSET Perm]]
      <4> DEFINE P == {{}, {"r"}, Perm}
      <4>1. acl \in [Group -> [Endpoint -> P]]
        BY <1>2, SMTT(20) DEF MigratedDatabase
      <4>2. \A p \in P : p \in SUBSET Perm
        BY DEF Perm
      <4> HIDE DEF P
      <4> QED BY <4>1, <4>2
    <3> QED BY <1>2, <3>2, <3>3, <3>4
          DEF MigratedDatabase, TypeOK, Phase, Registered
  <2>2. AdministrableOverTheWire /\ AclRowsHaveOwners
    BY <1>2 DEF MigratedDatabase, AdministrableOverTheWire, AclRowsHaveOwners,
      Registered, Readers, Admins, Exists
  <2>3. WrapsJustified /\ WrapsMatchReaders /\ StoredUnderIssuedDeks
    BY <1>2, <2>1 DEF TypeOK, MigratedDatabase, WrapsJustified, WrapsMatchReaders,
      StoredUnderIssuedDeks, ExactWraps, WrapSet, DekVersions, DekVersion, Exists
  <2> QED BY <2>1, <2>2, <2>3 DEF IndInv
<1> QED BY <1>1, <1>2

-----------------------------------------------------------------------------
(* Facts about the wrap operators *)

\* What ChangePerms, shared by the wire Grant and the offline db grant, does to
\* the wraps of the group: whatever they were, they stay within what the new ACL
\* justifies and keep the base recipients; if they were exact they stay exact.
LEMMA ChangePermsWraps ==
  ASSUME TypeOK, WrapsJustified, NEW g \in Group, NEW t \in Endpoint,
         NEW perms \in SUBSET Perm, Exists(g), ChangePerms(g, t, perms),
         opKey' = opKey
  PROVE  /\ acl' \in [Group -> [Endpoint -> SUBSET Perm]]
         /\ dek' \in [Group -> 0..MaxDek]
         /\ wraps' \in [Group -> [DekVersion -> SUBSET Recipient]]
         /\ WrapsJustified'
         /\ (\A h \in Group, v \in DekVersion : wraps[h][v] = ExactWraps(h, v))
              => (\A h \in Group, v \in DekVersion :
                    wraps'[h][v] = ExactWraps(h, v)')
<1> USE BoundsAssumption, KeysAssumption
<1>1. acl' = [acl EXCEPT ![g][t] = perms]
  BY DEF ChangePerms, GainRead, LoseRead, KeepRead
<1>2. acl' \in [Group -> [Endpoint -> SUBSET Perm]]
  BY <1>1 DEF TypeOK
<1>3. \A h \in Group : h # g => Readers(h)' = Readers(h)
  BY <1>1 DEF TypeOK, Readers
<1>4. Readers(g)' = IF "r" \in perms THEN Readers(g) \cup {t}
                                     ELSE Readers(g) \ {t}
  BY <1>1 DEF TypeOK, Readers
<1>5. /\ wraps[g] \in [DekVersion -> SUBSET Recipient]
      /\ dek[g] \in 1..MaxDek
      /\ Readers(g) \subseteq Recipient /\ t \in Recipient
      /\ BaseRecipients \subseteq Recipient /\ t \notin BaseRecipients
  BY DEF TypeOK, Exists, Readers, Recipient, BaseRecipients
<1>6. \A h \in Group, v \in DekVersion :
        /\ wraps[h][v] \subseteq ExactWraps(h, v)
        /\ v <= dek[h] => BaseRecipients \subseteq wraps[h][v]
  BY DEF WrapsJustified, DekVersions
<1> DEFINE Exact == \A h \in Group, v \in DekVersion :
                      wraps[h][v] = ExactWraps(h, v)
           Result == /\ dek' \in [Group -> 0..MaxDek]
                     /\ wraps' \in [Group -> [DekVersion -> SUBSET Recipient]]
                     /\ \A v \in DekVersion :
                          /\ wraps'[g][v] \subseteq ExactWraps(g, v)'
                          /\ v <= dek'[g] => BaseRecipients \subseteq wraps'[g][v]
                          /\ wraps[g][v] = ExactWraps(g, v)
                               => wraps'[g][v] = ExactWraps(g, v)'
                     /\ \A h \in Group : h # g => /\ dek'[h] = dek[h]
                                                  /\ wraps'[h] = wraps[h]
<1>7. ASSUME GainRead(g, t, perms) PROVE Result
  <2>1. /\ wraps' = [wraps EXCEPT ![g] = AddReader(wraps[g], dek[g], t)]
        /\ dek' = dek
        /\ Readers(g)' = Readers(g) \cup {t}
    BY <1>4, <1>7 DEF GainRead
  <2>2. \A v \in DekVersion :
          wraps'[g][v] = IF v <= dek[g] THEN wraps[g][v] \cup {t} ELSE wraps[g][v]
    BY <2>1, <1>5 DEF TypeOK, AddReader
  <2>3. AddReader(wraps[g], dek[g], t) \in [DekVersion -> SUBSET Recipient]
    BY <1>5 DEF AddReader
  <2>4. wraps' \in [Group -> [DekVersion -> SUBSET Recipient]]
    BY <2>1, <2>3 DEF TypeOK
  <2>5. Result
    BY <2>1, <2>2, <2>4, <1>5, <1>6 DEF ExactWraps, WrapSet, BaseRecipients,
      DekVersions, TypeOK
  <2> QED BY <2>5
<1>8. ASSUME LoseRead(g, t, perms) PROVE Result
  <2>1. /\ wraps' = [wraps EXCEPT ![g] = RotateAway(g, t)]
        /\ dek' = [dek EXCEPT ![g] = dek[g] + 1]
        /\ dek[g] < MaxDek
        /\ Readers(g)' = Readers(g) \ {t}
    BY <1>4, <1>8 DEF LoseRead
  <2>2. DropRecipient(wraps[g], t) \in [DekVersion -> SUBSET Recipient]
    BY <1>5 DEF DropRecipient
  <2>3. \A v \in DekVersion :
          RotateAway(g, t)[v] = IF v = dek[g] + 1 THEN WrapSet(g, {t})
                                                  ELSE wraps[g][v] \ {t}
    BY <2>2, <1>5 DEF RotateAway, InsertDekVersion, DropRecipient
  <2>4. RotateAway(g, t) \in [DekVersion -> SUBSET Recipient]
    <3>1. WrapSet(g, {t}) \subseteq Recipient
      BY <1>5 DEF WrapSet
    <3> QED BY <2>2, <3>1, Zenon DEF RotateAway, InsertDekVersion
  <2>5. wraps' \in [Group -> [DekVersion -> SUBSET Recipient]]
        /\ wraps'[g] = RotateAway(g, t)
    BY <2>1, <2>4 DEF TypeOK
  <2>6. dek' \in [Group -> 0..MaxDek] /\ dek'[g] = dek[g] + 1
    BY <2>1, <1>5 DEF TypeOK
  <2>7. ASSUME NEW v \in DekVersion
        PROVE  /\ wraps'[g][v] \subseteq ExactWraps(g, v)'
               /\ v <= dek'[g] => BaseRecipients \subseteq wraps'[g][v]
               /\ wraps[g][v] = ExactWraps(g, v)
                    => wraps'[g][v] = ExactWraps(g, v)'
    <3>1. ExactWraps(g, v)' = IF v <= dek[g] + 1
                              THEN BaseRecipients \cup (Readers(g) \ {t}) ELSE {}
      BY <2>1, <2>6 DEF ExactWraps, WrapSet, BaseRecipients, DekVersions
    <3>2. wraps[g][v] \subseteq IF v <= dek[g] THEN BaseRecipients \cup Readers(g)
                                              ELSE {}
      BY <1>6 DEF ExactWraps, WrapSet, DekVersions
    <3>3. wraps'[g][v] = IF v = dek[g] + 1
                         THEN BaseRecipients \cup (Readers(g) \ {t})
                         ELSE wraps[g][v] \ {t}
      BY <2>3, <2>5, Zenon DEF WrapSet
    <3>4. v \in Nat /\ dek[g] \in Nat
      BY <1>5 DEF DekVersion
    <3>5. CASE v = dek[g] + 1
      BY <3>1, <3>3, <3>4, <3>5
    <3>6. CASE v # dek[g] + 1
      BY <3>1, <3>2, <3>3, <3>4, <3>6, <2>6, <1>5, <1>6
        DEF ExactWraps, WrapSet, DekVersions
    <3> QED BY <3>5, <3>6, Zenon
  <2>8. \A h \in Group : h # g => dek'[h] = dek[h] /\ wraps'[h] = wraps[h]
    BY <2>1 DEF TypeOK
  <2> QED BY <2>5, <2>6, <2>7, <2>8
<1>9. ASSUME KeepRead(g, t, perms) PROVE Result
  <2>1. wraps' = wraps /\ dek' = dek /\ Readers(g)' = Readers(g)
    BY <1>4, <1>9 DEF KeepRead, Readers
  <2>2. Result
    BY <2>1, <1>5, <1>6 DEF ExactWraps, WrapSet, BaseRecipients, DekVersions,
      TypeOK
  <2> QED BY <2>2
<1>10. Result
  BY <1>7, <1>8, <1>9, Zenon DEF ChangePerms
<1>11. \A h \in Group, v \in DekVersion : h # g => ExactWraps(h, v)' = ExactWraps(h, v)
  BY <1>3, <1>10, Zenon DEF ExactWraps, WrapSet, BaseRecipients, DekVersions
<1>12. \A h \in Group, v \in DekVersion :
          /\ wraps'[h][v] \subseteq ExactWraps(h, v)'
          /\ v <= dek'[h] => BaseRecipients \subseteq wraps'[h][v]
          /\ wraps[h][v] = ExactWraps(h, v) => wraps'[h][v] = ExactWraps(h, v)'
  <2> SUFFICES ASSUME NEW h \in Group, NEW v \in DekVersion
               PROVE  /\ wraps'[h][v] \subseteq ExactWraps(h, v)'
                      /\ v <= dek'[h] => BaseRecipients \subseteq wraps'[h][v]
                      /\ wraps[h][v] = ExactWraps(h, v)
                           => wraps'[h][v] = ExactWraps(h, v)'
    OBVIOUS
  <2>1. CASE h = g BY <2>1, <1>10
  <2>2. CASE h # g BY <2>2, <1>6, <1>10, <1>11
  <2> QED BY <2>1, <2>2, Zenon
<1>13. WrapsJustified'
  BY <1>12 DEF WrapsJustified, DekVersions, BaseRecipients
<1> QED BY <1>2, <1>10, <1>12, <1>13

-----------------------------------------------------------------------------
(* One lemma per kind of step *)

\* Start, Stop and Serve change the phase only; Serve is where an empty work
\* list of the backfill turns justified wraps into exact ones.
LEMMA LifecycleKeepsIndInv ==
  ASSUME IndInv, Start \/ Stop \/ Serve
  PROVE  IndInv'
<1>1. UNCHANGED <<identity, serviceAdmin, acl, dek, wraps, secrets, opKey>>
      /\ published' = {}
  BY DEF Start, Stop, Serve
<1>2. TypeOK'
  BY <1>1 DEF IndInv, TypeOK, Start, Stop, Serve, Phase
<1>3. AdministrableOverTheWire' /\ AclRowsHaveOwners'
  BY <1>1, Zenon DEF IndInv, AdministrableOverTheWire, AclRowsHaveOwners, Registered,
    Readers, Admins, Exists
<1>4. \A g \in Group, v \in DekVersion : ExactWraps(g, v)' = ExactWraps(g, v)
  BY <1>1 DEF ExactWraps, WrapSet, BaseRecipients, Readers, DekVersions
<1>5. WrapsJustified'
  BY <1>1, <1>4 DEF IndInv, WrapsJustified, DekVersions, BaseRecipients
<1>6. WrapsMatchReaders'
  <2>1. CASE Start \/ Stop
    BY <2>1 DEF Start, Stop, WrapsMatchReaders
  <2>2. CASE Serve
    <3> SUFFICES ASSUME NEW g \in Group, NEW v \in DekVersion
                 PROVE  wraps[g][v] = ExactWraps(g, v)
      BY <1>1, <1>4 DEF WrapsMatchReaders
    <3>1. wraps[g][v] \subseteq ExactWraps(g, v)
      BY DEF IndInv, WrapsJustified
    <3>2. ASSUME v \in DekVersions(g) PROVE BaseRecipients \subseteq wraps[g][v]
      BY <3>2 DEF IndInv, WrapsJustified
    <3>3. ASSUME v \in DekVersions(g), NEW e \in Readers(g)
          PROVE  e \in wraps[g][v]
      <4>1. e \in Endpoint /\ <<g, v, e>> \in Group \X DekVersion \X Endpoint
        BY <3>3 DEF Readers
      <4>2. <<g, v, e>> \notin MissingReaderWraps
        BY <2>2 DEF Serve
      <4> QED BY <3>3, <4>1, <4>2 DEF MissingReaderWraps
    <3> QED BY <3>1, <3>2, <3>3, Zenon DEF ExactWraps, WrapSet
  <2> QED BY <2>1, <2>2
<1>7. StoredUnderIssuedDeks'
  BY <1>1 DEF IndInv, StoredUnderIssuedDeks, DekVersions
<1> QED BY <1>2, <1>3, <1>5, <1>6, <1>7 DEF IndInv

\* A step of the backfill adds a wrap the ACL justifies.
LEMMA BackfillKeepsIndInv ==
  ASSUME IndInv, NEW g \in Group, NEW v \in DekVersion, NEW e \in Endpoint,
         Backfill(g, v, e)
  PROVE  IndInv'
<1>1. UNCHANGED <<phase, identity, serviceAdmin, acl, dek, secrets, opKey>>
      /\ published' = {} /\ phase = "starting"
      /\ wraps' = [wraps EXCEPT ![g][v] = wraps[g][v] \cup {e}]
      /\ v \in DekVersions(g) /\ e \in Readers(g)
  BY DEF Backfill, MissingReaderWraps
<1>2. TypeOK'
  BY <1>1 DEF IndInv, TypeOK, Phase, Recipient
<1>3. AdministrableOverTheWire' /\ AclRowsHaveOwners'
  BY <1>1 DEF IndInv, AdministrableOverTheWire, AclRowsHaveOwners, Registered,
    Readers, Admins, Exists
<1>4. \A h \in Group, u \in DekVersion : ExactWraps(h, u)' = ExactWraps(h, u)
  BY <1>1 DEF ExactWraps, WrapSet, BaseRecipients, Readers, DekVersions
<1>5. e \in ExactWraps(g, v)
  BY <1>1 DEF ExactWraps, WrapSet
<1>6. \A h \in Group, u \in DekVersion :
        wraps'[h][u] = IF h = g /\ u = v THEN wraps[g][v] \cup {e}
                                         ELSE wraps[h][u]
  BY <1>1 DEF IndInv, TypeOK
<1>7. WrapsJustified'
  BY <1>1, <1>4, <1>5, <1>6 DEF IndInv, WrapsJustified, DekVersions,
    BaseRecipients
<1>8. WrapsMatchReaders' /\ StoredUnderIssuedDeks'
  BY <1>1 DEF IndInv, WrapsMatchReaders, StoredUnderIssuedDeks, DekVersions
<1> QED BY <1>2, <1>3, <1>7, <1>8 DEF IndInv

\* Put appends a version under the current DEK; Delete removes the versions.
LEMMA SecretsKeepIndInv ==
  ASSUME IndInv, NEW e \in Endpoint, NEW g \in Group, NEW s \in Secret, NEW x,
         Put(e, g, s, x) \/ Delete(e, g, s, x)
  PROVE  IndInv'
<1> USE BoundsAssumption
<1>1. /\ UNCHANGED <<phase, identity, serviceAdmin, acl, dek, wraps, opKey>>
      /\ published' = {g}
      /\ dek[g] \in DekVersion
      /\ \/ secrets' = [secrets EXCEPT ![g][s] = Append(secrets[g][s], dek[g])]
         \/ secrets' = [secrets EXCEPT ![g][s] = <<>>]
  BY DEF Put, Delete, Authorized, Exists, IndInv, TypeOK, DekVersion
<1>2. secrets[g][s] \in Seq(DekVersion)
  BY DEF IndInv, TypeOK
<1>3. /\ Append(secrets[g][s], dek[g]) \in Seq(DekVersion)
      /\ \A i \in DOMAIN Append(secrets[g][s], dek[g]) :
           Append(secrets[g][s], dek[g])[i]
             = IF i \in DOMAIN secrets[g][s] THEN secrets[g][s][i] ELSE dek[g]
      /\ <<>> \in Seq(DekVersion)
  BY <1>1, <1>2
<1>4. TypeOK'
  <2>1. secrets' \in [Group -> [Secret -> Seq(DekVersion)]]
    <3>1. \A q \in Seq(DekVersion) :
            [secrets EXCEPT ![g][s] = q] \in [Group -> [Secret -> Seq(DekVersion)]]
      BY DEF IndInv, TypeOK
    <3> QED BY <1>1, <1>3, <3>1, ZenonT(30)
  <2> QED BY <1>1, <2>1 DEF IndInv, TypeOK
<1>5. AdministrableOverTheWire' /\ AclRowsHaveOwners'
  BY <1>1 DEF IndInv, AdministrableOverTheWire, AclRowsHaveOwners, Registered,
    Readers, Admins, Exists
<1>6. WrapsJustified' /\ WrapsMatchReaders'
  <2>1. \A h \in Group, u \in DekVersion : ExactWraps(h, u)' = ExactWraps(h, u)
    BY <1>1 DEF ExactWraps, WrapSet, BaseRecipients, Readers, DekVersions
  <2> QED BY <1>1, <2>1 DEF IndInv, WrapsJustified, WrapsMatchReaders,
        BaseRecipients, DekVersions
<1>7. StoredUnderIssuedDeks'
  <2> SUFFICES ASSUME NEW h \in Group, NEW r \in Secret,
                      NEW i \in DOMAIN secrets'[h][r]
               PROVE  secrets'[h][r][i] \in DekVersions(h)
    BY <1>1 DEF StoredUnderIssuedDeks, DekVersions
  <2>1. dek[g] \in DekVersions(g)
    BY <1>1 DEF DekVersions, IndInv, TypeOK
  <2>2. CASE h = g /\ r = s
    <3>1. \A j \in DOMAIN secrets[g][s] : secrets[g][s][j] \in DekVersions(g)
      BY DEF IndInv, StoredUnderIssuedDeks
    <3>2. secrets'[g][s] = Append(secrets[g][s], dek[g]) \/ secrets'[g][s] = <<>>
      BY <1>1 DEF IndInv, TypeOK
    <3>3. CASE secrets'[g][s] = Append(secrets[g][s], dek[g])
      <4>1. i \in DOMAIN Append(secrets[g][s], dek[g])
        BY <2>2, <3>3
      <4>2. secrets'[h][r][i] = IF i \in DOMAIN secrets[g][s]
                                THEN secrets[g][s][i] ELSE dek[g]
        BY <1>3, <2>2, <3>3, <4>1, Zenon
      <4> QED BY <2>1, <2>2, <3>1, <4>2
    <3>4. CASE secrets'[g][s] = <<>>
      BY <2>2, <3>4
    <3> QED BY <3>2, <3>3, <3>4, Zenon
  <2>3. CASE ~(h = g /\ r = s)
    BY <1>1, <2>3 DEF IndInv, TypeOK, StoredUnderIssuedDeks
  <2> QED BY <2>2, <2>3
<1> QED BY <1>4, <1>5, <1>6, <1>7 DEF IndInv

\* Grant and db grant: the wraps by ChangePermsWraps, the rest is the one ACL row.
LEMMA GrantKeepsIndInv ==
  ASSUME IndInv, NEW g \in Group, NEW t \in Registered,
         NEW perms \in SUBSET Perm, Exists(g), ChangePerms(g, t, perms),
         UNCHANGED <<phase, identity, serviceAdmin, secrets, opKey>>,
         published' \in SUBSET Group
  PROVE  IndInv'
<1>1. t \in Endpoint
  BY DEF Registered
<1>2. /\ acl' \in [Group -> [Endpoint -> SUBSET Perm]]
      /\ dek' \in [Group -> 0..MaxDek]
      /\ wraps' \in [Group -> [DekVersion -> SUBSET Recipient]]
      /\ WrapsJustified'
      /\ (\A h \in Group, v \in DekVersion : wraps[h][v] = ExactWraps(h, v))
           => (\A h \in Group, v \in DekVersion :
                 wraps'[h][v] = ExactWraps(h, v)')
  BY <1>1, ChangePermsWraps, Zenon DEF IndInv
<1>3. TypeOK'
  BY <1>2 DEF IndInv, TypeOK
<1>4. acl' = [acl EXCEPT ![g][t] = perms] /\ \A h \in Group : dek[h] <= dek'[h]
  <2>1. acl' = [acl EXCEPT ![g][t] = perms]
    BY DEF ChangePerms, GainRead, LoseRead, KeepRead
  <2>2. dek' = dek \/ dek' = [dek EXCEPT ![g] = dek[g] + 1]
    BY DEF ChangePerms, GainRead, LoseRead, KeepRead
  <2>3. \A h \in Group : dek[h] \in Nat
    BY DEF IndInv, TypeOK
  <2> QED BY <2>1, <2>2, <2>3 DEF IndInv, TypeOK
<1>5. AdministrableOverTheWire' /\ AclRowsHaveOwners'
  <2>1. \A h \in Group, e \in Endpoint :
          acl'[h][e] = IF h = g /\ e = t THEN perms ELSE acl[h][e]
    BY <1>1, <1>4 DEF IndInv, TypeOK
  <2>2. \A h \in Group : Exists(h) => Exists(h)'
    BY <1>2, <1>4 DEF Exists, IndInv, TypeOK
  <2>3. \A h \in Group, e \in Endpoint : acl'[h][e] # {} => e \in Registered
    BY <2>1, Zenon DEF IndInv, AclRowsHaveOwners
  <2>4. \A h \in Group, e \in Endpoint : acl'[h][e] # {} => Exists(h)'
    BY <2>1, <2>2, Zenon DEF IndInv, AclRowsHaveOwners
  <2> QED BY <2>3, <2>4, Zenon DEF IndInv, AdministrableOverTheWire, AclRowsHaveOwners,
        Registered
<1>6. WrapsMatchReaders'
  BY <1>2 DEF IndInv, WrapsMatchReaders
<1>7. StoredUnderIssuedDeks'
  BY <1>2, <1>4 DEF IndInv, TypeOK, StoredUnderIssuedDeks, DekVersions, DekVersion
<1> QED BY <1>2, <1>3, <1>5, <1>6, <1>7 DEF IndInv

\* CreateGroup and RotateDek insert one DEK version, wrapped to the base
\* recipients and to all the readers the group has after the step.
LEMMA NewDekKeepsIndInv ==
  ASSUME IndInv, NEW e \in Endpoint, NEW g \in Group,
         CreateGroup(e, g) \/ RotateDek(e, g)
  PROVE  IndInv'
<1> USE BoundsAssumption
<1>1. /\ UNCHANGED <<phase, identity, serviceAdmin, secrets, opKey>>
      /\ published' = {g} /\ phase = "serving"
      /\ dek' = [dek EXCEPT ![g] = dek[g] + 1]
      /\ dek[g] \in 0..MaxDek /\ dek[g] + 1 \in DekVersion
      /\ e \in Registered
  BY DEF CreateGroup, RotateDek, IndInv, TypeOK, Exists, Authorized, DekVersion,
    AdministrableOverTheWire
<1>2. /\ acl' \in [Group -> [Endpoint -> SUBSET Perm]]
      /\ \A h \in Group, f \in Endpoint :
           acl'[h][f] = acl[h][f] \/ (h = g /\ f = e /\ acl'[h][f] = Perm)
      /\ \A h \in Group : h # g => acl'[h] = acl[h]
  <2>1. CASE CreateGroup(e, g)
    <3>1. acl' = [acl EXCEPT ![g][e] = Perm]
      BY <2>1 DEF CreateGroup
    <3> QED BY <3>1 DEF IndInv, TypeOK
  <2>2. CASE RotateDek(e, g)
    BY <2>2, Zenon DEF RotateDek, IndInv, TypeOK
  <2> QED BY <2>1, <2>2, Zenon
<1>3. wraps' = [wraps EXCEPT ![g] =
                  InsertDekVersion(wraps[g], dek[g] + 1, WrapSet(g, {})')]
  <2>1. CASE CreateGroup(e, g)
    <3>1. dek[g] = 0 /\ acl' = [acl EXCEPT ![g][e] = Perm]
      BY <2>1 DEF CreateGroup, Exists, IndInv, TypeOK
    <3>2. Readers(g) = {}
      BY <3>1 DEF IndInv, AclRowsHaveOwners, Readers, Exists
    <3>3. Readers(g)' = {e}
      BY <3>1, <3>2 DEF Readers, IndInv, TypeOK, Perm
    <3>4. WrapSet(g, {})' = BaseRecipients \cup {e}
      BY <1>1, <3>3 DEF WrapSet, BaseRecipients
    <3>5. dek[g] + 1 = 1
      BY <3>1
    <3>6. wraps' = [wraps EXCEPT ![g] =
                      InsertDekVersion(wraps[g], 1, BaseRecipients \cup {e})]
      BY <2>1 DEF CreateGroup
    <3> QED BY <3>4, <3>5, <3>6, Zenon
  <2>2. CASE RotateDek(e, g)
    <3>1. WrapSet(g, {})' = WrapSet(g, {})
      BY <2>2, Zenon DEF RotateDek, WrapSet, BaseRecipients, Readers
    <3> QED BY <2>2, <3>1, Zenon DEF RotateDek
  <2> QED BY <2>1, <2>2
<1>4. /\ wraps' \in [Group -> [DekVersion -> SUBSET Recipient]]
      /\ \A h \in Group, v \in DekVersion :
           wraps'[h][v] = IF h = g /\ v = dek[g] + 1 THEN WrapSet(g, {})'
                                                    ELSE wraps[h][v]
  <2>1. WrapSet(g, {})' \subseteq Recipient
    BY <1>1, Zenon DEF WrapSet, BaseRecipients, Readers, Recipient, IndInv, TypeOK
  <2>2. InsertDekVersion(wraps[g], dek[g] + 1, WrapSet(g, {})')
          \in [DekVersion -> SUBSET Recipient]
    BY <2>1 DEF InsertDekVersion, IndInv, TypeOK
  <2>3. \A v \in DekVersion :
          InsertDekVersion(wraps[g], dek[g] + 1, WrapSet(g, {})')[v]
            = IF v = dek[g] + 1 THEN WrapSet(g, {})' ELSE wraps[g][v]
    BY DEF InsertDekVersion
  <2> QED BY <1>3, <2>2, <2>3, Zenon DEF IndInv, TypeOK
<1>5. dek' \in [Group -> 0..MaxDek] /\ dek'[g] = dek[g] + 1
      /\ \A h \in Group : h # g => dek'[h] = dek[h]
  BY <1>1 DEF IndInv, TypeOK, DekVersion
<1>6. TypeOK'
  BY <1>1, <1>2, <1>4, <1>5, Zenon DEF IndInv, TypeOK
<1>7. AdministrableOverTheWire' /\ AclRowsHaveOwners'
  <2>1. \A h \in Group, f \in Endpoint : acl'[h][f] # {} => f \in Registered
    BY <1>1, <1>2, ZenonT(30) DEF IndInv, TypeOK, AclRowsHaveOwners
  <2>2. \A h \in Group, f \in Endpoint : acl'[h][f] # {} => Exists(h)'
    BY <1>1, <1>2, <1>5 DEF IndInv, TypeOK, AclRowsHaveOwners, Exists
  <2> QED BY <1>1, <2>1, <2>2, Zenon DEF IndInv, AdministrableOverTheWire,
        AclRowsHaveOwners, Registered
<1>8. WrapsJustified' /\ WrapsMatchReaders'
  <2>1. \A h \in Group, v \in DekVersion : wraps[h][v] = ExactWraps(h, v)
    BY <1>1, Zenon DEF IndInv, WrapsMatchReaders
  <2>2. ASSUME NEW h \in Group, NEW v \in DekVersion
        PROVE  wraps'[h][v] = ExactWraps(h, v)'
    <3>1. CASE h # g
      <4>1. ExactWraps(h, v)' = ExactWraps(h, v)
        BY <1>1, <1>2, <1>5, <3>1, Zenon DEF ExactWraps, WrapSet, BaseRecipients,
          Readers, DekVersions
      <4> QED BY <1>4, <2>1, <3>1, <4>1, ZenonT(30)
    <3>2. CASE h = g /\ v = dek[g] + 1
      BY <1>4, <1>5, <3>2 DEF ExactWraps, DekVersions, DekVersion
    <3>3. CASE h = g /\ v # dek[g] + 1
      <4>1. (v \in DekVersions(g))' <=> v \in DekVersions(g)
        BY <1>1, <1>5, <3>3 DEF DekVersions, DekVersion
      <4>2. CASE v \in DekVersions(g)
        <5>1. RotateDek(e, g)
          BY <4>2, SMTT(20) DEF CreateGroup, Exists, DekVersions, DekVersion, IndInv, TypeOK
        <5>2. WrapSet(g, {})' = WrapSet(g, {})
          BY <5>1, Zenon DEF RotateDek, WrapSet, BaseRecipients, Readers
        <5> QED BY <1>4, <2>1, <3>3, <4>1, <4>2, <5>2, Zenon DEF ExactWraps
      <4>3. CASE v \notin DekVersions(g)
        BY <1>4, <2>1, <3>3, <4>1, <4>3, Zenon DEF ExactWraps
      <4> QED BY <4>2, <4>3
    <3> QED BY <3>1, <3>2, <3>3, Zenon
  <2> QED BY <1>1, <2>2, Zenon DEF WrapsJustified, WrapsMatchReaders, ExactWraps, WrapSet
<1>9. StoredUnderIssuedDeks'
  BY <1>1, <1>5 DEF IndInv, TypeOK, StoredUnderIssuedDeks, DekVersions, DekVersion
<1> QED BY <1>6, <1>7, <1>8, <1>9 DEF IndInv

\* AddIdentity and SetServiceAdmin touch no group, no wrap and no secret.
LEMMA IdentityKeepsIndInv ==
  ASSUME IndInv, NEW e \in Endpoint, NEW t \in Endpoint, NEW n \in Name,
         NEW b \in BOOLEAN,
         AddIdentity(e, t, n, b) \/ SetServiceAdmin(e, t, b)
  PROVE  IndInv'
<1> USE KeysAssumption
<1>1. UNCHANGED <<phase, acl, dek, wraps, secrets, opKey>> /\ published' = {}
  BY Zenon DEF AddIdentity, SetServiceAdmin
<1>2. /\ identity' \in [Endpoint -> Name \cup {NoName}]
      /\ serviceAdmin' \in SUBSET Endpoint
      /\ Registered' = Registered \cup {t}
      /\ AdministrableOverTheWire'
      /\ \A d, f \in Registered' : identity'[d] = identity'[f] => d = f
  <2>1. CASE AddIdentity(e, t, n, b)
    <3>1. /\ identity' = [identity EXCEPT ![t] = n]
          /\ t \notin Registered /\ \A r \in Registered : identity[r] # n
      BY <2>1, Zenon DEF AddIdentity
    <3>2. Registered' = Registered \cup {t}
      BY <3>1 DEF Registered, IndInv, TypeOK
    <3>3. serviceAdmin' \in {serviceAdmin, serviceAdmin \cup {t}}
      <4>1. serviceAdmin' = IF b THEN serviceAdmin \cup {t} ELSE serviceAdmin
        BY <2>1, Zenon DEF AddIdentity
      <4>2. b = TRUE \/ b = FALSE
        OBVIOUS
      <4> QED BY <4>1, <4>2, Zenon
    <3>4. /\ identity' \in [Endpoint -> Name \cup {NoName}]
          /\ serviceAdmin' \in SUBSET Endpoint
      BY <3>1, <3>3, Zenon DEF IndInv, TypeOK
    <3>5. AdministrableOverTheWire'
      BY <3>2, <3>3 DEF IndInv, AdministrableOverTheWire
    <3>6. \A d, f \in Registered' : identity'[d] = identity'[f] => d = f
      BY <3>1, <3>2, ZenonT(30) DEF IndInv, TypeOK, AclRowsHaveOwners, Registered
    <3> QED BY <3>2, <3>4, <3>5, <3>6
  <2>2. CASE SetServiceAdmin(e, t, b)
    <3>1. /\ identity' = identity /\ t \in Registered
          /\ serviceAdmin' = IF b THEN serviceAdmin \cup {t}
                                  ELSE serviceAdmin \ {t}
          /\ ~b => serviceAdmin # {t}
      BY <2>2, Zenon DEF SetServiceAdmin, NotLastServiceAdmin
    <3>2. Registered' = Registered \cup {t}
      BY <3>1 DEF Registered
    <3> QED BY <3>1, <3>2 DEF IndInv, TypeOK, AdministrableOverTheWire,
          AclRowsHaveOwners
  <2> QED BY <2>1, <2>2, Zenon
<1>3. TypeOK'
  BY <1>1, <1>2, Zenon DEF IndInv, TypeOK
<1>4. AclRowsHaveOwners'
  BY <1>1, <1>2, Zenon DEF IndInv, AclRowsHaveOwners, Readers, Admins, Exists
<1>5. WrapsJustified' /\ WrapsMatchReaders'
  <2>1. \A h \in Group, u \in DekVersion : ExactWraps(h, u)' = ExactWraps(h, u)
    BY <1>1, Zenon DEF ExactWraps, WrapSet, BaseRecipients, Readers, DekVersions
  <2> QED BY <1>1, <2>1, ZenonT(30) DEF IndInv, WrapsJustified, WrapsMatchReaders,
        BaseRecipients, DekVersions
<1>6. StoredUnderIssuedDeks'
  BY <1>1, Zenon DEF IndInv, StoredUnderIssuedDeks, DekVersions
<1> QED BY <1>2, <1>3, <1>4, <1>5, <1>6 DEF IndInv

\* RemoveIdentity rotates every group the identity could read away from it.
LEMMA RemoveIdentityKeepsIndInv ==
  ASSUME IndInv, NEW e \in Endpoint, NEW t \in Endpoint, RemoveIdentity(e, t)
  PROVE  IndInv'
<1> USE BoundsAssumption, KeysAssumption
<1>1. /\ UNCHANGED <<phase, secrets, opKey>> /\ phase = "serving"
      /\ serviceAdmin # {t} /\ t \in Registered
      /\ identity' = [identity EXCEPT ![t] = NoName]
      /\ serviceAdmin' = serviceAdmin \ {t}
      /\ acl' = [g \in Group |-> [acl[g] EXCEPT ![t] = {}]]
      /\ published' = GroupsFor(t)
  BY Zenon DEF RemoveIdentity, NotLastServiceAdmin, AclWithout
<1>2. /\ \A g \in Group : acl'[g] \in [Endpoint -> SUBSET Perm]
      /\ \A g \in Group, f \in Endpoint :
           acl'[g][f] = IF f = t THEN {} ELSE acl[g][f]
  BY <1>1, Zenon DEF IndInv, TypeOK
<1>3. \A g \in Group : Readers(g)' = Readers(g) \ {t}
  BY <1>2, Zenon DEF Readers
<1>4. /\ dek' \in [Group -> 0..MaxDek]
      /\ \A g \in Group : dek'[g] = IF t \in Readers(g) THEN dek[g] + 1 ELSE dek[g]
  BY DEF RemoveIdentity, GroupsWithRead, Readers, IndInv, TypeOK
<1>4a. ASSUME NEW g \in Group
       PROVE  dek[g] \in Nat /\ dek'[g] \in Nat /\ dek[g] <= dek'[g]
  <2>1. dek[g] \in Nat
    BY DEF IndInv, TypeOK
  <2>2. dek'[g] = dek[g] \/ dek'[g] = dek[g] + 1
    BY <1>4
  <2> QED BY <2>1, <2>2
<1>5. /\ wraps' \in [Group -> [DekVersion -> SUBSET Recipient]]
      /\ \A g \in Group, v \in DekVersion :
           wraps'[g][v] = IF t \notin Readers(g) THEN wraps[g][v]
                          ELSE IF v = dek[g] + 1 THEN WrapSet(g, {t})
                          ELSE wraps[g][v] \ {t}
  <2>1. wraps' = [g \in Group |-> IF t \in Readers(g) THEN RotateAway(g, t)
                                                      ELSE wraps[g]]
    BY Zenon DEF RemoveIdentity, GroupsWithRead, Readers
  <2>2. ASSUME NEW g \in Group
        PROVE  /\ RotateAway(g, t) \in [DekVersion -> SUBSET Recipient]
               /\ \A v \in DekVersion : RotateAway(g, t)[v] =
                    IF v = dek[g] + 1 THEN WrapSet(g, {t}) ELSE wraps[g][v] \ {t}
    <3>1. WrapSet(g, {t}) \subseteq Recipient
      BY DEF WrapSet, BaseRecipients, Readers, Recipient, IndInv, TypeOK
    <3>2. wraps[g] \in [DekVersion -> SUBSET Recipient]
      BY DEF IndInv, TypeOK
    <3>3. /\ DropRecipient(wraps[g], t) \in [DekVersion -> SUBSET Recipient]
          /\ \A v \in DekVersion : DropRecipient(wraps[g], t)[v] = wraps[g][v] \ {t}
      BY <3>2, Zenon DEF DropRecipient
    <3> QED BY <3>1, <3>3, Zenon DEF RotateAway, InsertDekVersion
  <2> QED BY <2>1, <2>2, Zenon DEF IndInv, TypeOK
<1>6. TypeOK'
  BY <1>1, <1>2, <1>4, <1>5, Zenon DEF IndInv, TypeOK, GroupsFor
<1>7. AdministrableOverTheWire' /\ AclRowsHaveOwners'
  <2>1. Registered' = Registered \ {t}
    BY <1>1, Zenon DEF Registered, IndInv, TypeOK
  <2>2. AdministrableOverTheWire'
    BY <1>1, <2>1, Zenon DEF IndInv, AdministrableOverTheWire
  <2>3. \A g \in Group, f \in Endpoint : acl'[g][f] # {} => f \in Registered'
    BY <1>2, <2>1, Zenon DEF IndInv, TypeOK, AclRowsHaveOwners
  <2>4. \A g \in Group, f \in Endpoint : acl'[g][f] # {} => Exists(g)'
    <3>1. \A g \in Group, f \in Endpoint : acl'[g][f] # {} => acl[g][f] # {}
      BY <1>2, Zenon
    <3>2. \A g \in Group : Exists(g) => dek'[g] > 0
      BY <1>4a DEF Exists
    <3> QED BY <3>1, <3>2, Zenon DEF IndInv, AclRowsHaveOwners, Exists
  <2>5. \A d, f \in Registered' : identity'[d] = identity'[f] => d = f
    BY <1>1, <2>1, ZenonT(30) DEF IndInv, TypeOK, AclRowsHaveOwners, Registered
  <2> QED BY <2>2, <2>3, <2>4, <2>5, Zenon DEF AclRowsHaveOwners
<1>8. WrapsJustified' /\ WrapsMatchReaders'
  <2>1. ASSUME NEW g \in Group, NEW v \in DekVersion
        PROVE  wraps'[g][v] = ExactWraps(g, v)'
    <3>1. wraps[g][v] = IF v <= dek[g] THEN BaseRecipients \cup Readers(g) ELSE {}
      BY <1>1, Zenon DEF IndInv, WrapsMatchReaders, ExactWraps, WrapSet, DekVersions
    <3>2. ExactWraps(g, v)' = IF v <= dek'[g]
                              THEN BaseRecipients \cup (Readers(g) \ {t}) ELSE {}
      BY <1>1, <1>3, Zenon DEF ExactWraps, WrapSet, BaseRecipients, DekVersions
    <3>3. t \notin BaseRecipients /\ v \in Nat /\ dek[g] \in Nat
      BY DEF BaseRecipients, DekVersion, IndInv, TypeOK
    <3>4. CASE t \notin Readers(g)
      <4>1. dek'[g] = dek[g] /\ wraps'[g][v] = wraps[g][v]
        BY <1>4, <1>5, <3>4, ZenonT(30)
      <4>2. Readers(g) \ {t} = Readers(g)
        BY <3>4
      <4> QED BY <3>1, <3>2, <4>1, <4>2, Zenon
    <3>5. CASE t \in Readers(g)
      <4>1. dek'[g] = dek[g] + 1
        BY <1>4, <3>5
      <4>2. CASE v = dek[g] + 1
        <5>1. wraps'[g][v] = BaseRecipients \cup (Readers(g) \ {t})
          BY <1>5, <3>5, <4>2, Zenon DEF WrapSet
        <5> QED BY <3>2, <3>3, <4>1, <4>2, <5>1, SMTT(20)
      <4>3. CASE v # dek[g] + 1
        <5>1. wraps'[g][v] = wraps[g][v] \ {t}
          BY <1>5, <3>5, <4>3, ZenonT(30)
        <5>2. v <= dek'[g] <=> v <= dek[g]
          BY <3>3, <4>1, <4>3
        <5> QED BY <3>1, <3>2, <3>3, <5>1, <5>2, Zenon
      <4> QED BY <4>2, <4>3, Zenon
    <3> QED BY <3>4, <3>5
  <2> QED BY <1>1, <2>1, Zenon DEF WrapsJustified, WrapsMatchReaders, ExactWraps, WrapSet
<1>9. StoredUnderIssuedDeks'
  <2>1. \A g \in Group : DekVersions(g) \subseteq DekVersions(g)'
    BY <1>4a DEF DekVersions, DekVersion
  <2> QED BY <1>1, <2>1, Zenon DEF IndInv, StoredUnderIssuedDeks
<1> QED BY <1>6, <1>7, <1>8, <1>9 DEF IndInv

\* Recover moves every operational wrap to the new key and touches no other.
LEMMA RecoverKeepsIndInv ==
  ASSUME IndInv, NEW k \in OpKey, Recover(k)
  PROVE  IndInv'
<1> USE KeysAssumption
<1>1. /\ UNCHANGED <<phase, identity, serviceAdmin, acl, dek, secrets>>
      /\ phase = "down" /\ opKey' = k /\ published' = {}
  BY Zenon DEF Recover
<1>2. /\ wraps' \in [Group -> [DekVersion -> SUBSET Recipient]]
      /\ \A g \in Group, v \in DekVersion :
           wraps'[g][v] = IF Backup \in wraps[g][v]
                          THEN (wraps[g][v] \ OpKey) \cup {k} ELSE wraps[g][v]
  BY ZenonT(30) DEF Recover, Rewrapped, IndInv, TypeOK, Recipient
<1>3. TypeOK'
  BY <1>1, <1>2, Zenon DEF IndInv, TypeOK
<1>4. AdministrableOverTheWire' /\ AclRowsHaveOwners'
  BY <1>1, ZenonT(30) DEF IndInv, AdministrableOverTheWire, AclRowsHaveOwners, Registered,
    Readers, Admins, Exists
<1>5. ASSUME NEW g \in Group, NEW v \in DekVersion
      PROVE  /\ wraps'[g][v] \subseteq ExactWraps(g, v)'
             /\ v \in DekVersions(g) => {k, Backup} \subseteq wraps'[g][v]
  <2>1. wraps[g][v] \subseteq IF v \in DekVersions(g)
                              THEN {opKey, Backup} \cup Readers(g) ELSE {}
    BY Zenon DEF IndInv, WrapsJustified, ExactWraps, WrapSet, BaseRecipients
  <2>2. v \in DekVersions(g) => Backup \in wraps[g][v]
    BY Zenon DEF IndInv, WrapsJustified, BaseRecipients
  <2>3. ExactWraps(g, v)' = IF v \in DekVersions(g)
                            THEN {k, Backup} \cup Readers(g) ELSE {}
    BY <1>1, Zenon DEF ExactWraps, WrapSet, BaseRecipients, DekVersions, Readers
  <2>4. opKey \in OpKey /\ Readers(g) \subseteq Endpoint
    BY Zenon DEF IndInv, TypeOK, Readers
  <2>5. CASE v \in DekVersions(g)
    <3>1. wraps'[g][v] = (wraps[g][v] \ OpKey) \cup {k}
      BY <1>2, <2>2, <2>5, Zenon
    <3> QED BY <2>1, <2>2, <2>3, <2>4, <2>5, <3>1, Zenon
  <2>6. CASE v \notin DekVersions(g)
    <3>1. wraps[g][v] = {}
      BY <2>1, <2>6, Zenon
    <3> QED BY <1>2, <2>3, <2>6, <3>1, Zenon
  <2> QED BY <2>5, <2>6, Zenon
<1>6. WrapsJustified' /\ WrapsMatchReaders'
  BY <1>1, <1>5, Zenon DEF WrapsJustified, WrapsMatchReaders, BaseRecipients, DekVersions
<1>7. StoredUnderIssuedDeks'
  BY <1>1, Zenon DEF IndInv, StoredUnderIssuedDeks, DekVersions
<1> QED BY <1>3, <1>4, <1>6, <1>7 DEF IndInv

\* Every step of the specification, stuttering included, keeps the invariant.
LEMMA NextKeepsIndInv == IndInv /\ [Next]_vars => IndInv'
<1> SUFFICES ASSUME IndInv, [Next]_vars PROVE IndInv'
  OBVIOUS
<1>1. CASE Request
  <2> PICK e \in Endpoint :
        \/ \E g \in Group, s \in Secret, x \in 0..MaxVersion : Put(e, g, s, x)
        \/ \E g \in Group, s \in Secret, x \in 0..MaxVersion : Delete(e, g, s, x)
        \/ \E g \in Group : CreateGroup(e, g)
        \/ \E g \in Group, t \in Endpoint, p \in Grants : Grant(e, g, t, p)
        \/ \E g \in Group : RotateDek(e, g)
        \/ \E t \in Endpoint, n \in Name, b \in BOOLEAN : AddIdentity(e, t, n, b)
        \/ \E t \in Endpoint : RemoveIdentity(e, t)
        \/ \E t \in Endpoint, b \in BOOLEAN : SetServiceAdmin(e, t, b)
    BY <1>1, Zenon DEF Request
  <2>1. ASSUME NEW g \in Group, NEW s \in Secret, NEW x \in 0..MaxVersion,
               Put(e, g, s, x) \/ Delete(e, g, s, x)
        PROVE  IndInv'
    BY <2>1, SecretsKeepIndInv, Zenon
  <2>2. ASSUME NEW g \in Group, CreateGroup(e, g) \/ RotateDek(e, g)
        PROVE  IndInv'
    BY <2>2, NewDekKeepsIndInv
  <2>3. ASSUME NEW g \in Group, NEW t \in Endpoint, NEW p \in Grants,
               Grant(e, g, t, p)
        PROVE  IndInv'
    <3>1. p \in SUBSET Perm
      BY GrantsAssumption, SMTT(40)
    <3>2. /\ t \in Registered /\ Exists(g) /\ ChangePerms(g, t, p)
          /\ UNCHANGED <<phase, identity, serviceAdmin, secrets, opKey>>
          /\ published' \in SUBSET Group
      BY <2>3, Zenon DEF Grant, Authorized
    <3> QED BY <3>1, <3>2, GrantKeepsIndInv, Zenon
  <2>4. ASSUME NEW t \in Endpoint, NEW n \in Name, NEW b \in BOOLEAN,
               AddIdentity(e, t, n, b) \/ SetServiceAdmin(e, t, b)
        PROVE  IndInv'
    BY <2>4, IdentityKeepsIndInv, Zenon
  <2>5. ASSUME NEW t \in Endpoint, RemoveIdentity(e, t)
        PROVE  IndInv'
    BY <2>5, RemoveIdentityKeepsIndInv, Zenon
  <2>6. ASSUME NEW t \in Endpoint, NEW b \in BOOLEAN, SetServiceAdmin(e, t, b)
        PROVE  \E n \in Name : TRUE
    <3>1. t \in Registered
      BY <2>6, Zenon DEF SetServiceAdmin
    <3> QED BY <3>1, Zenon DEF Registered, IndInv, TypeOK
  <2> QED BY <2>1, <2>2, <2>3, <2>4, <2>5, <2>6, Zenon
<1>2. CASE Lifecycle
  BY <1>2, LifecycleKeepsIndInv, BackfillKeepsIndInv, Zenon
    DEF Lifecycle, BackfillStep
<1>3. CASE Offline
  <2>1. ASSUME NEW g \in Group, NEW t \in Endpoint, NEW p \in Grants,
               DbGrant(g, t, p)
        PROVE  IndInv'
    <3>1. p \in SUBSET Perm
      BY GrantsAssumption
    <3>2. /\ t \in Registered /\ Exists(g) /\ ChangePerms(g, t, p)
          /\ UNCHANGED <<phase, identity, serviceAdmin, secrets, opKey>>
          /\ published' \in SUBSET Group
      BY <2>1 DEF DbGrant
    <3> QED BY <3>1, <3>2, GrantKeepsIndInv
  <2>2. ASSUME NEW k \in OpKey, Recover(k) PROVE IndInv'
    BY <2>2, RecoverKeepsIndInv
  <2> QED BY <1>3, <2>1, <2>2 DEF Offline
<1>4. CASE UNCHANGED vars
  <2>1. TypeOK' /\ AdministrableOverTheWire' /\ AclRowsHaveOwners'
    BY <1>4, Zenon DEF vars, IndInv, TypeOK, AdministrableOverTheWire,
      AclRowsHaveOwners, Readers, Admins, Registered, Exists
  <2>2. \A h \in Group, u \in DekVersion : ExactWraps(h, u)' = ExactWraps(h, u)
    BY <1>4, Zenon DEF vars, ExactWraps, WrapSet, BaseRecipients, Readers, DekVersions
  <2>3. WrapsJustified' /\ WrapsMatchReaders'
    BY <1>4, <2>2, Zenon DEF vars, IndInv, WrapsJustified, WrapsMatchReaders,
      BaseRecipients, DekVersions
  <2>4. StoredUnderIssuedDeks'
    BY <1>4, Zenon DEF vars, IndInv, StoredUnderIssuedDeks, DekVersions
  <2> QED BY <2>1, <2>3, <2>4 DEF IndInv
<1> QED BY <1>1, <1>2, <1>3, <1>4 DEF Next

-----------------------------------------------------------------------------
(* Theorems *)

\* IndInv holds in every reachable state, for any number of endpoints, names,
\* groups, secrets and operational keys and for any bounds.
THEOREM Inductive == Spec => []IndInv
<1>1. Init => IndInv
  BY InitIndInv
<1>2. IndInv /\ [Next]_vars => IndInv'
  BY NextKeepsIndInv
<1> QED BY <1>1, <1>2, PTL DEF Spec

\* The tables always have the shape the handlers assume.
THEOREM TypeCorrect == Spec => []TypeOK
<1>1. IndInv => TypeOK
  BY DEF IndInv
<1> QED BY <1>1, Inductive, PTL

\* grant, rotate_dek, remove_identity, create_group, db grant, recover and the
\* start-up backfill together keep the wraps of a serving node equal to its ACL.
THEOREM ServingWrapsMatchReaders == Spec => []WrapsMatchReaders
<1>1. IndInv => WrapsMatchReaders
  BY DEF IndInv
<1> QED BY <1>1, Inductive, PTL

\* No wrap exists that the ACL does not justify, crashes during the backfill
\* included, and the operational and backup keys always open every version.
THEOREM EveryWrapJustified == Spec => []WrapsJustified
<1>1. IndInv => WrapsJustified
  BY DEF IndInv
<1> QED BY <1>1, Inductive, PTL

\* The guards of remove_identity and set_service_admin suffice against lockout.
THEOREM NeverLockedOut == Spec => []AdministrableOverTheWire
<1>1. IndInv => AdministrableOverTheWire
  BY DEF IndInv
<1> QED BY <1>1, Inductive, PTL

\* The foreign keys and the unique name of the schema, over every request.
THEOREM RowsAlwaysHaveOwners == Spec => []AclRowsHaveOwners
<1>1. IndInv => AclRowsHaveOwners
  BY DEF IndInv
<1> QED BY <1>1, Inductive, PTL

\* read_secret's "missing wrap" branch is dead for an authorized caller.
THEOREM GetNeverFails == Spec => []AuthorizedGetNeverFails
<1>1. IndInv => AuthorizedGetNeverFails
  <2> SUFFICES ASSUME IndInv, phase = "serving",
                      NEW e \in Endpoint, NEW g \in Group, NEW s \in Secret
               PROVE  ReadSecret(e, g, s) # "Failed"
    BY DEF AuthorizedGetNeverFails
  <2>1. CASE secrets[g][s] = <<>>
    BY <2>1, Zenon DEF ReadSecret
  <2>2. CASE secrets[g][s] # <<>>
    <3>1. secrets[g][s] \in Seq(DekVersion)
      BY DEF IndInv, TypeOK
    <3>2. Len(secrets[g][s]) \in DOMAIN secrets[g][s]
      BY <2>2, <3>1
    <3>3. secrets[g][s][Len(secrets[g][s])] \in DekVersions(g)
      BY <3>2 DEF IndInv, StoredUnderIssuedDeks
    <3>4. OperationalOpens(g, secrets[g][s][Len(secrets[g][s])])
      BY <3>3, Zenon DEF IndInv, WrapsJustified, BaseRecipients, OperationalOpens,
        DekVersions
    <3> QED BY <3>4, Zenon DEF ReadSecret
  <2> QED BY <2>1, <2>2, Zenon
<1> QED BY <1>1, Inductive, PTL

\* Every explicit reader holds a wrap of every DEK version a stored secret uses.
THEOREM ReadersOpenEverything == Spec => []ReadersCanOpenEveryVersion
<1>1. IndInv => ReadersCanOpenEveryVersion
  <2> SUFFICES ASSUME IndInv, phase = "serving", NEW g \in Group,
                      NEW s \in Secret, NEW i \in DOMAIN secrets[g][s]
               PROVE  Readers(g) \subseteq wraps[g][secrets[g][s][i]]
    BY Zenon DEF ReadersCanOpenEveryVersion
  <2>1. secrets[g][s][i] \in DekVersions(g) /\ DekVersions(g) \subseteq DekVersion
    BY DEF IndInv, StoredUnderIssuedDeks, DekVersions
  <2> QED BY <2>1, ZenonT(30) DEF IndInv, WrapsMatchReaders, ExactWraps, WrapSet
<1> QED BY <1>1, Inductive, PTL

\* One step: a group's DEK version never goes back, and it goes up when the group
\* loses a reader (revoke_read_and_rotate, remove_identity_with_rotations).
LEMMA StepRotates ==
  ASSUME IndInv, [Next]_vars, NEW g \in Group
  PROVE  /\ dek[g] \in Nat /\ dek'[g] \in Nat /\ dek[g] <= dek'[g]
         /\ ~(Readers(g) \subseteq Readers(g)') => dek[g] < dek'[g]
<1> DEFINE Result == /\ dek[g] \in Nat /\ dek'[g] \in Nat /\ dek[g] <= dek'[g]
                     /\ ~(Readers(g) \subseteq Readers(g)') => dek[g] < dek'[g]
<1>0. dek \in [Group -> 0..MaxDek] /\ dek[g] \in Nat
  BY BoundsAssumption DEF IndInv, TypeOK
<1>1. ASSUME UNCHANGED <<dek, acl>> PROVE Result
  BY <1>0, <1>1 DEF Readers
<1>2. ASSUME NEW h \in Group, NEW t \in Endpoint, NEW p \in SUBSET Perm,
             ChangePerms(h, t, p)
      PROVE  Result
  <2>0. acl' = [acl EXCEPT ![h][t] = p]
    BY <1>2, Zenon DEF ChangePerms, GainRead, LoseRead, KeepRead
  <2>1. \A f \in Endpoint : acl'[g][f] = IF g = h /\ f = t THEN p ELSE acl[g][f]
    BY <2>0 DEF IndInv, TypeOK
  <2>2. CASE LoseRead(h, t, p)
    <3>1. dek' = [dek EXCEPT ![h] = dek[h] + 1]
      BY <2>2 DEF LoseRead
    <3> QED BY <1>0, <2>1, <3>1 DEF Readers
  <2>3. CASE GainRead(h, t, p) \/ KeepRead(h, t, p)
    <3>1. dek' = dek /\ ("r" \in acl[h][t] => "r" \in p)
      BY <2>3, Zenon DEF GainRead, KeepRead
    <3> QED BY <1>0, <2>1, <3>1 DEF Readers
  <2> QED BY <1>2, <2>2, <2>3, Zenon DEF ChangePerms
<1>3. ASSUME NEW e \in Endpoint, NEW h \in Group, CreateGroup(e, h)
      PROVE  Result
  <2>1. dek' = [dek EXCEPT ![h] = 1] /\ dek[h] = 0
    BY <1>0, <1>3 DEF CreateGroup, Exists, IndInv, TypeOK
  <2>2. acl' = [acl EXCEPT ![h][e] = Perm] /\ "r" \in Perm
    BY <1>3 DEF CreateGroup, Perm
  <2>3. Readers(g) \subseteq Readers(g)'
    BY <2>2 DEF Readers, IndInv, TypeOK
  <2> QED BY <1>0, <2>1, <2>3
<1>4. ASSUME NEW e \in Endpoint, NEW h \in Group, RotateDek(e, h)
      PROVE  Result
  <2>1. dek' = [dek EXCEPT ![h] = dek[h] + 1] /\ acl' = acl
    BY <1>4, Zenon DEF RotateDek
  <2> QED BY <1>0, <2>1 DEF Readers
<1>5. ASSUME NEW e \in Endpoint, NEW t \in Endpoint, RemoveIdentity(e, t)
      PROVE  Result
  <2>1. dek'[g] = IF t \in Readers(g) THEN dek[g] + 1 ELSE dek[g]
    BY <1>5, Zenon DEF RemoveIdentity, GroupsWithRead, Readers
  <2>2. Readers(g)' = Readers(g) \ {t}
    BY <1>5, Zenon DEF RemoveIdentity, AclWithout, Readers, IndInv, TypeOK
  <2>3. CASE t \in Readers(g)
    BY <1>0, <2>1, <2>3
  <2>4. CASE t \notin Readers(g)
    BY <1>0, <2>1, <2>2, <2>4
  <2> QED BY <2>3, <2>4, Zenon
<1>6. CASE Request
  <2>1. ASSUME NEW e \in Endpoint, NEW h \in Group, NEW s \in Secret,
               NEW x \in 0..MaxVersion, Put(e, h, s, x) \/ Delete(e, h, s, x)
        PROVE  UNCHANGED <<dek, acl>>
    BY <2>1, Zenon DEF Put, Delete
  <2>2. ASSUME NEW e \in Endpoint, NEW h \in Group, NEW t \in Endpoint,
               NEW p \in Grants, Grant(e, h, t, p)
        PROVE  p \in SUBSET Perm /\ ChangePerms(h, t, p)
    BY <2>2, GrantsAssumption DEF Grant
  <2>3. ASSUME NEW e \in Endpoint, NEW t \in Endpoint, NEW n \in Name,
               NEW b \in BOOLEAN, AddIdentity(e, t, n, b)
        PROVE  UNCHANGED <<dek, acl>>
    BY <2>3, Zenon DEF AddIdentity
  <2>4. ASSUME NEW e \in Endpoint, NEW t \in Endpoint, NEW b \in BOOLEAN,
               SetServiceAdmin(e, t, b)
        PROVE  UNCHANGED <<dek, acl>>
    BY <2>4 DEF SetServiceAdmin
  <2> HIDE DEF Result
  <2>5. PICK e \in Endpoint :
        \/ \E h \in Group, s \in Secret, x \in 0..MaxVersion : Put(e, h, s, x)
        \/ \E h \in Group, s \in Secret, x \in 0..MaxVersion : Delete(e, h, s, x)
        \/ \E h \in Group : CreateGroup(e, h)
        \/ \E h \in Group, t \in Endpoint, p \in Grants : Grant(e, h, t, p)
        \/ \E h \in Group : RotateDek(e, h)
        \/ \E t \in Endpoint, n \in Name, b \in BOOLEAN : AddIdentity(e, t, n, b)
        \/ \E t \in Endpoint : RemoveIdentity(e, t)
        \/ \E t \in Endpoint, b \in BOOLEAN : SetServiceAdmin(e, t, b)
    BY <1>6, Zenon DEF Request
  <2>6. ASSUME NEW h \in Group, NEW t \in Endpoint, NEW p \in Grants,
               Grant(e, h, t, p)
        PROVE  Result
    <3>1. p \in SUBSET Perm /\ ChangePerms(h, t, p)
      BY <2>2, <2>6
    <3> QED BY <1>2, <3>1
  <2>7. ASSUME NEW t \in Endpoint, NEW b \in BOOLEAN,
               SetServiceAdmin(e, t, b) \/ \E n \in Name : AddIdentity(e, t, n, b)
        PROVE  Result
    <3>1. UNCHANGED <<dek, acl>>
      BY <2>3, <2>4, <2>7, Zenon
    <3> QED BY <1>1, <3>1
  <2>8. ASSUME NEW h \in Group, NEW s \in Secret, NEW x \in 0..MaxVersion,
               Put(e, h, s, x) \/ Delete(e, h, s, x)
        PROVE  Result
    <3>1. UNCHANGED <<dek, acl>>
      BY <2>1, <2>8, Zenon
    <3> QED BY <1>1, <3>1
  <2>9. Result
    BY <1>3, <1>4, <1>5, <2>5, <2>6, <2>7, <2>8, Zenon
  <2> QED BY <2>9 DEF Result
<1>7. CASE Lifecycle \/ UNCHANGED vars
  <2>1. UNCHANGED <<dek, acl>>
    BY <1>7, Zenon DEF Lifecycle, Start, BackfillStep, Backfill, Serve, Stop, vars
  <2> QED BY <1>1, <2>1, Zenon
<1>8. CASE Offline
  <2>1. ASSUME NEW h \in Group, NEW t \in Endpoint, NEW p \in Grants,
               DbGrant(h, t, p)
        PROVE  p \in SUBSET Perm /\ ChangePerms(h, t, p)
    BY <2>1, GrantsAssumption DEF DbGrant
  <2>2. ASSUME NEW k \in OpKey, Recover(k) PROVE UNCHANGED <<dek, acl>>
    BY <2>2 DEF Recover
  <2> HIDE DEF Result
  <2>3. Result
    BY <1>1, <1>2, <1>8, <2>1, <2>2, Zenon DEF Offline
  <2> QED BY <2>3, Zenon DEF Result
<1> QED BY <1>6, <1>7, <1>8, Zenon DEF Next

\* Nobody loses the read bit of a group without a rotation of its DEK, whatever
\* request, offline command or restart comes in between.
THEOREM RevocationAlwaysRotates == Spec => RevocationRotates
<1>1. IndInv /\ [Next]_vars =>
        [\A g \in Group :
           /\ dek[g] <= dek'[g]
           /\ ~(Readers(g) \subseteq Readers(g)') => dek[g] < dek'[g]]_vars
  BY StepRotates, Zenon
<1> QED BY <1>1, Inductive, PTL DEF Spec, RevocationRotates

\* The last-admin guard of grant, at a single step: only remove_identity empties
\* the admins of a group while requests are served.
LEMMA StepKeepsAnAdmin ==
  ASSUME IndInv, [Next]_vars, NEW g \in Group,
         Admins(g) # {}, Admins(g)' = {}, phase = "serving"
  PROVE  \E t \in Admins(g) : t \notin Registered'
<1> DEFINE Goal == \E t \in Admins(g) : t \notin Registered'
<1>0. acl \in [Group -> [Endpoint -> SUBSET Perm]] /\ identity \in [Endpoint -> Name \cup {NoName}]
  BY Zenon DEF IndInv, TypeOK
<1>1. acl' # acl
  BY DEF Admins
<1>2. ASSUME NEW e \in Endpoint, NEW h \in Group, CreateGroup(e, h) PROVE FALSE
  <2>1. acl' = [acl EXCEPT ![h][e] = Perm] /\ "a" \in Perm
    BY <1>2, Zenon DEF CreateGroup, Perm
  <2>2. Admins(g) \subseteq Admins(g)'
    BY <1>0, <2>1 DEF Admins
  <2> QED BY <2>2
<1>3. ASSUME NEW e \in Endpoint, NEW h \in Group, NEW t \in Endpoint,
             NEW p \in Grants, Grant(e, h, t, p)
      PROVE  FALSE
  <2>1. acl' = [acl EXCEPT ![h][t] = p] /\ KeepsAnAdmin(h, t, p)
    BY <1>3, Zenon DEF Grant, ChangePerms, GainRead, LoseRead, KeepRead
  <2>2. \A f \in Endpoint : acl'[g][f] = IF g = h /\ f = t THEN p ELSE acl[g][f]
    BY <1>0, <2>1
  <2>3. g = h /\ Admins(g) = {t} /\ "a" \notin p
    BY <2>2 DEF Admins
  <2> QED BY <2>1, <2>3 DEF KeepsAnAdmin, Admins
<1>4. ASSUME NEW e \in Endpoint, NEW t \in Endpoint, RemoveIdentity(e, t)
      PROVE  Goal
  <2>1. Admins(g)' = Admins(g) \ {t}
    BY <1>0, <1>4, Zenon DEF RemoveIdentity, AclWithout, Admins
  <2>2. t \notin Registered'
    BY <1>0, <1>4, Zenon DEF RemoveIdentity, Registered
  <2> QED BY <2>1, <2>2
<1> HIDE DEF Goal
<1>5. CASE Request
  <2>1. ASSUME NEW e \in Endpoint, NEW h \in Group, NEW s \in Secret,
               NEW x \in 0..MaxVersion, Put(e, h, s, x) \/ Delete(e, h, s, x)
        PROVE  acl' = acl
    BY <2>1, Zenon DEF Put, Delete
  <2>2. ASSUME NEW e \in Endpoint, NEW h \in Group, RotateDek(e, h) PROVE acl' = acl
    BY <2>2 DEF RotateDek
  <2>3. ASSUME NEW e \in Endpoint, NEW t \in Endpoint, NEW b \in BOOLEAN,
               SetServiceAdmin(e, t, b) \/ \E n \in Name : AddIdentity(e, t, n, b)
        PROVE  acl' = acl
    BY <2>3, Zenon DEF SetServiceAdmin, AddIdentity
  <2>4. Goal
    BY <1>1, <1>2, <1>3, <1>4, <1>5, <2>1, <2>2, <2>3, Zenon DEF Request
  <2> QED BY <2>4 DEF Goal
<1>6. CASE Lifecycle \/ Offline \/ UNCHANGED vars
  <2>1. acl' = acl
    BY <1>6, Zenon DEF Lifecycle, Start, BackfillStep, Backfill, Serve, Stop, Offline,
                DbGrant, Recover, vars
  <2> QED BY <1>1, <2>1
<1> QED BY <1>5, <1>6 DEF Next, Goal

\* A wire Grant never takes the last admin of a group away.
THEOREM LastAdminGoesOnlyByRemoval == Spec => LastAdminOnlyByRemoval
<1>1. IndInv /\ [Next]_vars =>
        [\A g \in Group :
           Admins(g) # {} /\ Admins(g)' = {} /\ phase = "serving" =>
             \E t \in Admins(g) : t \notin Registered']_vars
  BY StepKeepsAnAdmin
<1> QED BY <1>1, Inductive, PTL DEF Spec, LastAdminOnlyByRemoval

\* touched_groups at a single step: what a group's snapshots are made of does not
\* change unless the group is published.
LEMMA StepPublishes ==
  ASSUME IndInv, [Next]_vars, phase = "serving", phase' = "serving",
         NEW g \in Group, NEW d \in Endpoint, g \notin published'
  PROVE  SnapshotFor(d, g)' = SnapshotFor(d, g)
<1> DEFINE Same == /\ acl'[g] = acl[g] /\ dek'[g] = dek[g]
                   /\ wraps'[g] = wraps[g] /\ secrets'[g] = secrets[g]
                   /\ \A f \in Endpoint : acl[g][f] # {} => identity'[f] = identity[f]
<1>0. TypeOK
  BY SMTT(40) DEF IndInv
<1>1. ASSUME Same PROVE SnapshotFor(d, g)' = SnapshotFor(d, g)
  <2>1. DekVersions(g)' = DekVersions(g)
    BY <1>1, Zenon DEF DekVersions
  <2> QED BY <1>1, <2>1, ZenonT(30) DEF SnapshotFor
<1>2. ASSUME NEW e \in Endpoint, NEW h \in Group, NEW s \in Secret,
             NEW x \in 0..MaxVersion, Put(e, h, s, x) \/ Delete(e, h, s, x)
      PROVE  Same
  BY <1>0, <1>2, Zenon DEF Put, Delete, TypeOK
<1>3. ASSUME NEW e \in Endpoint, NEW h \in Group, CreateGroup(e, h) \/ RotateDek(e, h)
      PROVE  Same
  BY <1>0, <1>3, Zenon DEF CreateGroup, RotateDek, TypeOK
<1>4. ASSUME NEW e \in Endpoint, NEW h \in Group, NEW t \in Endpoint,
             NEW p \in Grants, Grant(e, h, t, p)
      PROVE  Same
  <2>1. g # h /\ UNCHANGED <<identity, secrets>> /\ ChangePerms(h, t, p)
    BY <1>4 DEF Grant
  <2>2. CASE GainRead(h, t, p)
    BY <1>0, <2>1, <2>2, Zenon DEF GainRead, TypeOK
  <2>3. CASE LoseRead(h, t, p)
    BY <1>0, <2>1, <2>3, Zenon DEF LoseRead, TypeOK
  <2>4. CASE KeepRead(h, t, p)
    BY <1>0, <2>1, <2>4, Zenon DEF KeepRead, TypeOK
  <2> QED BY <2>1, <2>2, <2>3, <2>4, Zenon DEF ChangePerms
<1>5. ASSUME NEW e \in Endpoint, NEW t \in Endpoint, NEW b \in BOOLEAN,
             SetServiceAdmin(e, t, b) \/ \E n \in Name : AddIdentity(e, t, n, b)
      PROVE  Same
  <2>1. CASE SetServiceAdmin(e, t, b)
    BY <2>1, Zenon DEF SetServiceAdmin
  <2>2. ASSUME NEW n \in Name, AddIdentity(e, t, n, b) PROVE Same
    <3>1. acl[g][t] = {}
      BY <2>2, ZenonT(30) DEF AddIdentity, IndInv, AclRowsHaveOwners
    <3> QED BY <1>0, <2>2, <3>1, Zenon DEF AddIdentity, TypeOK
  <2> QED BY <1>5, <2>1, <2>2, Zenon
<1>6. ASSUME NEW e \in Endpoint, NEW t \in Endpoint, RemoveIdentity(e, t)
      PROVE  Same
  <2>1. acl[g][t] = {} /\ g \notin GroupsWithRead(t)
    BY <1>6, Zenon DEF RemoveIdentity, GroupsFor, GroupsWithRead
  <2>2. acl'[g] = acl[g]
    BY <1>0, <1>6, <2>1, Zenon DEF RemoveIdentity, AclWithout, TypeOK
  <2> QED BY <1>0, <1>6, <2>1, <2>2, Zenon DEF RemoveIdentity, TypeOK
<1>7. CASE Lifecycle \/ Offline \/ UNCHANGED vars
  <2>1. UNCHANGED vars
    BY <1>7, Zenon DEF Lifecycle, Start, BackfillStep, Backfill, Serve, Stop, Offline,
                DbGrant, Recover
  <2>2. Same
    BY <2>1, Zenon DEF vars
  <2> QED BY <1>1, <2>2, Zenon
<1> HIDE DEF Same
<1>8. CASE Request
  <2>1. Same
    BY <1>2, <1>3, <1>4, <1>5, <1>6, <1>8, Zenon DEF Request
  <2> QED BY <1>1, <2>1
<1> QED BY <1>1, <1>7, <1>8 DEF Next

\* Every change a request makes to some endpoint's snapshot of a group is
\* published under that group's name.
THEOREM ChangesAlwaysPublished == Spec => ChangesArePublished
<1>1. IndInv /\ [Next]_vars =>
        [phase = "serving" /\ phase' = "serving" =>
           \A g \in Group, e \in Endpoint :
             SnapshotFor(e, g)' # SnapshotFor(e, g) => g \in published']_vars
  BY StepPublishes
<1> QED BY <1>1, Inductive, PTL DEF Spec, ChangesArePublished

\* The backfill of a starting node advances with every step and is never stopped
\* by a DEK version the operational key cannot open.
THEOREM BackfillAlwaysAdvances == Spec => BackfillAdvances
<1> DEFINE Opened == \A m \in MissingReaderWraps : OperationalOpens(m[1], m[2])
           Fewer == /\ MissingReaderWraps' \subseteq MissingReaderWraps
                    /\ MissingReaderWraps' # MissingReaderWraps
<1>1. IndInv => Opened
  BY Zenon DEF IndInv, TypeOK, WrapsJustified, MissingReaderWraps, OperationalOpens,
    BaseRecipients
<1>2. ASSUME IndInv, Next, phase = "starting", phase' = "starting" PROVE Fewer
  <2>1. BackfillStep
    BY <1>2, ZenonT(30) DEF Next, Request, Lifecycle, Offline, Start, Serve, Stop, Put, Delete,
      CreateGroup, Grant, RotateDek, AddIdentity, RemoveIdentity, SetServiceAdmin,
      DbGrant, Recover
  <2>2. PICK g \in Group, v \in DekVersion, e \in Endpoint : Backfill(g, v, e)
    BY <2>1 DEF BackfillStep
  <2>3. /\ <<g, v, e>> \in MissingReaderWraps
        /\ e \in wraps'[g][v]
        /\ \A h \in Group, n \in DekVersion : wraps[h][n] \subseteq wraps'[h][n]
        /\ UNCHANGED <<acl, dek>>
    BY <1>2, <2>2, Zenon DEF Backfill, IndInv, TypeOK
  <2>4. <<g, v, e>> \notin MissingReaderWraps'
    BY <2>3, Zenon DEF MissingReaderWraps
  <2>5. MissingReaderWraps' \subseteq MissingReaderWraps
    BY <2>3, Zenon DEF MissingReaderWraps, DekVersions, Readers
  <2> QED BY <2>3, <2>4, <2>5, SMTT(40)
<1>3. IndInv /\ [Next]_vars =>
        [phase = "starting" => Opened /\ (phase' = "starting" => Fewer)]_vars
  BY <1>1, <1>2
<1> QED BY <1>3, Inductive, PTL DEF Spec, BackfillAdvances

-----------------------------------------------------------------------------
(* Forward secrecy of writes *)

HeldWereIssued ==
  \A e \in Endpoint, g \in Group : held[e][g] \subseteq DekVersions(g)

HistoryInv ==
  /\ IndInv
  /\ HeldType
  /\ HeldWereIssued
  /\ CurrentDekUnheldByOutsiders

\* In a state of the inductive invariant an endpoint opens only issued versions,
\* and only of groups it reads: WrapsJustified seen from the endpoint.
LEMMA OpensJustified ==
  ASSUME IndInv, NEW e \in Endpoint, NEW g \in Group
  PROVE  /\ Opens(wraps[g], e) \subseteq DekVersions(g)
         /\ Opens(wraps[g], e) # {} => e \in Readers(g)
<1>1. \A v \in DekVersion : wraps[g][v] \subseteq ExactWraps(g, v)
  BY Zenon DEF IndInv, WrapsJustified
<1>2. \A v \in DekVersion :
        e \in wraps[g][v] => v \in DekVersions(g) /\ e \in WrapSet(g, {})
  BY <1>1, Zenon DEF ExactWraps
<1>3. e \in WrapSet(g, {}) => e \in Readers(g)
  BY KeysAssumption, Zenon DEF IndInv, TypeOK, WrapSet, BaseRecipients
<1> QED
  BY <1>2, <1>3, Zenon DEF Opens

\* Nobody has held anything yet but what the initial database wraps to it.
LEMMA HistoryInitInv == HistoryInit => HistoryInv
<1> SUFFICES ASSUME HistoryInit PROVE HistoryInv
  OBVIOUS
<1>1. IndInv
  BY InitIndInv DEF HistoryInit
<1>2. HeldType
  BY DEF HistoryInit, HeldType, Opens
<1>3. \A e \in Endpoint, g \in Group : held[e][g] = Opens(wraps[g], e)
  BY DEF HistoryInit
<1>4. HeldWereIssued /\ CurrentDekUnheldByOutsiders
  BY <1>1, <1>3, OpensJustified, Zenon DEF HeldWereIssued, CurrentDekUnheldByOutsiders
<1> QED BY <1>1, <1>2, <1>4 DEF HistoryInv

\* A step keeps it: while the DEK version of a group stays the same no reader is
\* lost (StepRotates), and when it changes the new version was held by nobody.
LEMMA HistoryNextInv == HistoryInv /\ [HistoryNext]_historyVars => HistoryInv'
<1> SUFFICES ASSUME HistoryInv, [HistoryNext]_historyVars PROVE HistoryInv'
  OBVIOUS
<1>1. CASE UNCHANGED historyVars
  <2>1. UNCHANGED vars /\ held' = held
    BY <1>1 DEF historyVars
  <2>2. IndInv'
    BY <2>1, NextKeepsIndInv DEF HistoryInv
  <2> QED BY <2>1, <2>2, Zenon DEF vars, HistoryInv, HeldType, HeldWereIssued,
        CurrentDekUnheldByOutsiders, DekVersions, Exists, Readers
<1>2. CASE HistoryNext
  <2>1. IndInv'
    BY <1>2, NextKeepsIndInv, Zenon DEF HistoryInv, HistoryNext
  <2>2. HeldType'
    BY <1>2, Zenon DEF HistoryNext, HistoryInv, HeldType, Opens
  <2>3. ASSUME NEW e \in Endpoint, NEW g \in Group
        PROVE  /\ held'[e][g] \subseteq DekVersions(g)'
               /\ Exists(g)' /\ e \notin Readers(g)' => dek'[g] \notin held'[e][g]
    <3>1. held'[e][g] = held[e][g] \cup Opens(wraps'[g], e)
      BY <1>2, Zenon DEF HistoryNext
    <3>2. /\ Opens(wraps'[g], e) \subseteq DekVersions(g)'
          /\ Opens(wraps'[g], e) # {} => e \in Readers(g)'
      <4>1. \A v \in DekVersion : wraps'[g][v] \subseteq ExactWraps(g, v)'
        BY <2>1, Zenon DEF IndInv, WrapsJustified
      <4>2. \A v \in DekVersion :
              e \in wraps'[g][v] => v \in DekVersions(g)' /\ e \in WrapSet(g, {})'
        BY <4>1, Zenon DEF ExactWraps
      <4>3. e \in WrapSet(g, {})' => e \in Readers(g)'
        BY <2>1, KeysAssumption, Zenon DEF IndInv, TypeOK, WrapSet, BaseRecipients
      <4> QED BY <4>2, <4>3, Zenon DEF Opens
    <3>3. /\ dek[g] \in Nat /\ dek'[g] \in Nat /\ dek[g] <= dek'[g]
          /\ ~(Readers(g) \subseteq Readers(g)') => dek[g] < dek'[g]
      BY <1>2, StepRotates, Zenon DEF HistoryInv, HistoryNext
    <3>4. held[e][g] \subseteq DekVersions(g)
      BY Zenon DEF HistoryInv, HeldWereIssued
    <3>5. DekVersions(g) \subseteq DekVersions(g)'
      BY <3>3 DEF DekVersions, DekVersion
    <3>6. ASSUME Exists(g)', e \notin Readers(g)' PROVE dek'[g] \notin held[e][g]
      <4>1. CASE dek'[g] = dek[g]
        <5>1. Exists(g) /\ e \notin Readers(g)
          BY <3>3, <3>6, <4>1 DEF Exists
        <5> QED BY <4>1, <5>1, Zenon DEF HistoryInv, CurrentDekUnheldByOutsiders
      <4>2. CASE dek'[g] # dek[g]
        BY <3>3, <3>4, <4>2 DEF DekVersions, DekVersion
      <4> QED BY <4>1, <4>2, Zenon
    <3> QED BY <3>1, <3>2, <3>4, <3>5, <3>6, Zenon
  <2> QED BY <2>1, <2>2, <2>3, Zenon DEF HistoryInv, HeldWereIssued,
        CurrentDekUnheldByOutsiders
<1> QED BY <1>1, <1>2

\* The DEK new secrets are encrypted under was never held by an endpoint that is
\* not an explicit reader of the group, for every history of grants, revocations,
\* removals, re-registrations, rotations, restarts and recoveries.
THEOREM OutsidersNeverHeldCurrentDek == HistorySpec => []CurrentDekUnheldByOutsiders
<1>1. HistoryInit => HistoryInv
  BY HistoryInitInv
<1>2. HistoryInv /\ [HistoryNext]_historyVars => HistoryInv'
  BY HistoryNextInv
<1>3. HistoryInv => CurrentDekUnheldByOutsiders
  BY DEF HistoryInv
<1> QED BY <1>1, <1>2, <1>3, PTL DEF HistorySpec

\* The only step that makes a secret's history longer is put, and what it appends
\* is stored under the current DEK of an existing group.
LEMMA OnlyPutAppends ==
  ASSUME IndInv, [Next]_vars, NEW g \in Group, NEW s \in Secret,
         Len(secrets'[g][s]) > Len(secrets[g][s])
  PROVE  Exists(g) /\ secrets'[g][s][Len(secrets'[g][s])] = dek[g]
<1> DEFINE Old == secrets[g][s]
<1>0. Old \in Seq(DekVersion) /\ Len(Old) \in Nat
  BY DEF IndInv, TypeOK
<1>1. secrets' # secrets
  BY <1>0
<1>2. \E e \in Endpoint, h \in Group, r \in Secret, x \in 0..MaxVersion :
        Put(e, h, r, x) \/ Delete(e, h, r, x)
  <2>1. ASSUME NEW e \in Endpoint, NEW t \in Endpoint, NEW b \in BOOLEAN,
               SetServiceAdmin(e, t, b) \/ \E n \in Name : AddIdentity(e, t, n, b)
        PROVE  secrets' = secrets
    BY <2>1, Zenon DEF SetServiceAdmin, AddIdentity
  <2>2. ASSUME NEW e \in Endpoint, NEW h \in Group, NEW t \in Endpoint,
               NEW p \in Grants,
               \/ Grant(e, h, t, p) \/ DbGrant(h, t, p) \/ CreateGroup(e, h)
               \/ RotateDek(e, h) \/ RemoveIdentity(e, t)
        PROVE  secrets' = secrets
    BY <2>2, Zenon DEF Grant, DbGrant, CreateGroup, RotateDek, RemoveIdentity
  <2>3. CASE Lifecycle \/ UNCHANGED vars
    BY <1>1, <2>3, Zenon DEF Lifecycle, Start, BackfillStep, Backfill, Serve, Stop, vars
  <2>4. CASE Offline
    BY <1>1, <2>4, Zenon DEF Offline, DbGrant, Recover
  <2>5. CASE Request
    <3>1. ASSUME NEW e \in Endpoint, NEW h \in Group, NEW t \in Endpoint,
                 CreateGroup(e, h) \/ RotateDek(e, h) \/ RemoveIdentity(e, t)
          PROVE  secrets' = secrets
      BY <3>1, Zenon DEF CreateGroup, RotateDek, RemoveIdentity
    <3> QED BY <1>1, <2>1, <2>2, <2>5, <3>1, Zenon DEF Request
  <2> QED BY <2>3, <2>4, <2>5, Zenon DEF Next
<1>3. PICK e \in Endpoint, h \in Group, r \in Secret, x \in 0..MaxVersion :
        Put(e, h, r, x) \/ Delete(e, h, r, x)
  BY <1>2, Zenon
<1>4. CASE Put(e, h, r, x)
  <2>1. /\ secrets' = [secrets EXCEPT ![h][r] = Append(secrets[h][r], dek[h])]
        /\ Exists(h)
    BY <1>4, Zenon DEF Put, Authorized
  <2>2. g = h /\ s = r
    BY <1>0, <2>1 DEF IndInv, TypeOK
  <2>3. secrets'[g][s] = Append(Old, dek[g])
    BY <2>1, <2>2, Zenon DEF IndInv, TypeOK
  <2>4. dek[g] \in DekVersion
    BY <2>1, <2>2, BoundsAssumption DEF IndInv, TypeOK, Exists, DekVersion
  <2>5. Append(Old, dek[g])[Len(Append(Old, dek[g]))] = dek[g]
    BY <1>0, <2>4
  <2> QED BY <2>1, <2>2, <2>3, <2>5, Zenon
<1>5. CASE Delete(e, h, r, x)
  <2>1. secrets' = [secrets EXCEPT ![h][r] = <<>>]
    BY <1>5, Zenon DEF Delete
  <2>2. secrets'[g][s] = Old \/ secrets'[g][s] = <<>>
    BY <2>1, Zenon DEF IndInv, TypeOK
  <2> QED BY <1>0, <2>2
<1> QED BY <1>3, <1>4, <1>5, Zenon

\* Nothing is ever written under a key that somebody who cannot read the group
\* now has held at any time (put, after any history of revocations).
THEOREM WritesStayForwardSecret == HistorySpec => WritesUnderUnheldKeys
<1> DEFINE Write ==
      \A g \in Group, s \in Secret, e \in Endpoint :
        Len(secrets'[g][s]) > Len(secrets[g][s]) /\ e \notin Readers(g) =>
          secrets'[g][s][Len(secrets'[g][s])] \notin held[e][g]
<1>1. HistoryInit => HistoryInv
  BY HistoryInitInv
<1>2. HistoryInv /\ [HistoryNext]_historyVars => HistoryInv'
  BY HistoryNextInv
<1>3. HistoryInv /\ [HistoryNext]_historyVars => [Write]_historyVars
  <2> SUFFICES ASSUME HistoryInv, HistoryNext PROVE Write
    BY Zenon
  <2>1. IndInv /\ Next
    BY Zenon DEF HistoryInv, HistoryNext
  <2> SUFFICES ASSUME NEW g \in Group, NEW s \in Secret, NEW e \in Endpoint,
                      Len(secrets'[g][s]) > Len(secrets[g][s]), e \notin Readers(g)
               PROVE  secrets'[g][s][Len(secrets'[g][s])] \notin held[e][g]
    BY Zenon
  <2>2. Exists(g) /\ secrets'[g][s][Len(secrets'[g][s])] = dek[g]
    BY <2>1, OnlyPutAppends, Zenon
  <2> QED BY <2>2, Zenon DEF HistoryInv, CurrentDekUnheldByOutsiders
<1> QED BY <1>1, <1>2, <1>3, PTL DEF HistorySpec, WritesUnderUnheldKeys

-----------------------------------------------------------------------------
(* The node implements Upstream *)

ViewType ==
  /\ clock \in Nat
  /\ nonce \in [Group -> [Secret -> Nat]]

ViewInv == IndInv /\ ViewType

\* What ViewNext adds to a step that changes the view.
Counted ==
  /\ clock < MaxClock
  /\ clock' = clock + 1
  /\ nonce' = [g \in Group |-> [s \in Secret |->
                 IF Len(secrets'[g][s]) > Len(secrets[g][s])
                 THEN clock + 1 ELSE nonce[g][s]]]

\* The two history variables keep their types.
LEMMA ViewInvariant == ViewSpec => []ViewInv
<1>1. ViewInit => ViewInv
  BY InitIndInv DEF ViewInit, ViewInv, ViewType
<1>2. ViewInv /\ [ViewNext]_viewVars => ViewInv'
  <2> SUFFICES ASSUME ViewInv, [ViewNext]_viewVars PROVE ViewInv'
    OBVIOUS
  <2>1. IndInv'
    <3>1. [Next]_vars
      BY DEF ViewNext, viewVars
    <3> QED BY <3>1, NextKeepsIndInv DEF ViewInv
  <2>2. clock' \in Nat
    BY DEF ViewInv, ViewType, ViewNext, viewVars
  <2>3. nonce' \in [Group -> [Secret -> Nat]]
    <3>1. CASE UNCHANGED nonce
      BY <3>1 DEF ViewInv, ViewType
    <3>2. CASE Counted
      <4>1. clock + 1 \in Nat /\ nonce \in [Group -> [Secret -> Nat]]
        BY DEF ViewInv, ViewType
      <4> QED BY <3>2, <4>1 DEF Counted
    <3> QED BY <3>1, <3>2, Zenon DEF ViewNext, viewVars, Counted
  <2> QED BY <2>1, <2>2, <2>3 DEF ViewInv, ViewType
<1> QED BY <1>1, <1>2, PTL DEF ViewSpec

-----------------------------------------------------------------------------
(* The view after a step *)

\* A step that writes no secret leaves the current versions and their nonces.
LEMMA SecretsStay ==
  ASSUME ViewInv, Counted, UNCHANGED secrets
  PROVE  SecretView' = SecretView
<1>1. \A g \in Group, s \in Secret : nonce'[g][s] = nonce[g][s]
  BY DEF ViewInv, IndInv, TypeOK, Counted
<1> QED BY <1>1, Zenon DEF SecretView, CurrentView

\* A step on the ACL of the groups G, to which the names in those ACLs matter:
\* the other groups' ACLs look as before.
LEMMA AclsViewChange ==
  ASSUME ViewInv, IndInv', NEW G \in SUBSET Group,
         \A g \in Group \ G : /\ acl'[g] = acl[g]
                              /\ \A e \in Endpoint : acl[g][e] # {} => identity'[e] = identity[e]
  PROVE  Node!AclsChange(G)
<1>1. AclsView' \in [Group -> AclValue]
  <2>1. /\ identity' \in [Endpoint -> Name \cup {NoName}]
        /\ acl' \in [Group -> [Endpoint -> SUBSET Perm]]
    BY Zenon DEF IndInv, TypeOK
  <2>2. \A g \in Group : AclView(g)' \in AclValue
    BY <2>1 DEF AclView, AclValue
  <2> QED BY <2>2, Zenon DEF AclsView
<1>2. ASSUME NEW g \in Group \ G PROVE AclsView'[g] = AclsView[g]
  BY Zenon DEF AclsView, AclView
<1> QED BY <1>1, <1>2, Zenon DEF Node!AclsChange

\* A mutation of Upstream, published if the node serves.
PublishedMutation ==
  \E G \in SUBSET Group : Node!Mutation(G) /\ (phase = "serving" => G \subseteq published')

\* A put writes the next version of one secret, under the group's current DEK and
\* the nonce of this step; a delete takes it away.
LEMMA SecretSteps ==
  ASSUME ViewInv, Counted, NEW e \in Endpoint, NEW g \in Group, NEW s \in Secret,
         NEW x \in 0..MaxVersion, Put(e, g, s, x) \/ Delete(e, g, s, x)
  PROVE  PublishedMutation
<1>1. TypeOK /\ ViewType
  BY DEF ViewInv, IndInv
<1>2. DekVersion \subseteq Nat
  BY BoundsAssumption DEF DekVersion
<1>3. \A q \in Seq(DekVersion) : q # <<>> => Len(q) \in Nat /\ q[Len(q)] \in Nat
  <2> SUFFICES ASSUME NEW q \in Seq(DekVersion), q # <<>>
               PROVE  Len(q) \in Nat /\ q[Len(q)] \in Nat
    OBVIOUS
  <2>1. Len(q) \in Nat /\ Len(q) \in 1..Len(q)
    OBVIOUS
  <2>2. q[Len(q)] \in DekVersion
    BY <2>1
  <2> QED BY <1>2, <2>1, <2>2, Zenon
<1>4. /\ RegisteredView' = RegisteredView /\ ReadsView' = ReadsView
      /\ DekView' = DekView /\ AclsView' = AclsView
      /\ published' = {g} /\ Exists(g)
  BY ZenonT(30) DEF Put, Delete, RegisteredView, Registered, ReadsView, GroupsWithRead,
    DekView, Exists, AclsView, AclView, Authorized
<1>5. \A h \in Group, r \in Secret :
        ~(h = g /\ r = s) => secrets'[h][r] = secrets[h][r] /\ nonce'[h][r] = nonce[h][r]
  <2>1. \A h \in Group, r \in Secret :
          ~(h = g /\ r = s) => secrets'[h][r] = secrets[h][r]
    BY <1>1 DEF Put, Delete, TypeOK
  <2> QED BY <1>1, <2>1 DEF Counted, TypeOK
<1>6. \A h \in Group, r \in Secret :
        ~(h = g /\ r = s) => CurrentView(h, r)' = CurrentView(h, r)
  BY <1>5, Zenon DEF CurrentView
<1>7. ASSUME Put(e, g, s, x) PROVE Node!Put(g, s)
  <2>1. /\ secrets[g][s] \in Seq(DekVersion) /\ dek[g] \in DekVersion
        /\ secrets'[g][s] = Append(secrets[g][s], dek[g])
        /\ nonce[g][s] \in Nat
    BY <1>1, <1>4, <1>7 DEF Put, TypeOK, ViewType, Exists, DekVersion
  <2>2. /\ Len(secrets'[g][s]) = Len(secrets[g][s]) + 1
        /\ secrets'[g][s] # <<>>
        /\ secrets'[g][s][Len(secrets[g][s]) + 1] = dek[g]
    BY <2>1, SMTT(20)
  <2>3. nonce'[g][s] = clock + 1
    BY <2>1, <2>2 DEF Counted
  <2>4. CurrentView(g, s)' = [version |-> Len(secrets[g][s]) + 1, dek |-> dek[g],
                              nonce |-> clock + 1]
    BY <2>2, <2>3, Zenon DEF CurrentView
  <2>5. Len(secrets[g][s]) + 1 = IF CurrentView(g, s) = None THEN 1
                                 ELSE CurrentView(g, s).version + 1
    <3>1. CASE secrets[g][s] = <<>>
      <4>1. CurrentView(g, s) = None
        BY <3>1, Zenon DEF CurrentView
      <4>2. Len(secrets[g][s]) + 1 = 1
        BY <3>1
      <4> QED BY <4>1, <4>2, Zenon
    <3>2. CASE secrets[g][s] # <<>>
      <4> DEFINE row == [version |-> Len(secrets[g][s]),
                         dek     |-> secrets[g][s][Len(secrets[g][s])],
                         nonce   |-> nonce[g][s]]
      <4>1. CurrentView(g, s) = row
        BY <3>2, Zenon DEF CurrentView
      <4>2. Len(secrets[g][s]) \in Nat /\ secrets[g][s][Len(secrets[g][s])] \in Nat
        BY <1>3, <2>1, <3>2, Zenon
      <4>3. row \in [version : Nat, dek : Nat, nonce : Nat]
        BY <2>1, <4>2, Zenon
      <4>4. row # None
        BY <4>3, NoneAssumption, Zenon
      <4>5. row.version = Len(secrets[g][s])
        BY Zenon
      <4> HIDE DEF row
      <4> QED BY <4>1, <4>4, <4>5, Zenon
    <3> QED BY <3>1, <3>2, Zenon
  <2>6. SecretView[g][s] = CurrentView(g, s) /\ DekView[g] = dek[g]
    BY <1>4, Zenon DEF SecretView, DekView
  <2> DEFINE new == [version |-> Len(secrets[g][s]) + 1, dek |-> dek[g],
                     nonce |-> clock + 1]
  <2>7. new = [version |-> IF SecretView[g][s] = None THEN 1
                           ELSE SecretView[g][s].version + 1,
               dek     |-> DekView[g],
               nonce   |-> clock + 1]
    BY <2>5, <2>6, Zenon
  <2> HIDE DEF new
  <2>8. SecretView' = [SecretView EXCEPT ![g][s] = new]
    BY <1>6, <2>4, Zenon DEF SecretView, new
  <2> QED BY <1>4, <2>7, <2>8, Zenon DEF Node!Put
<1>8. ASSUME Delete(e, g, s, x) PROVE Node!Delete(g, s)
  <2>1. /\ secrets[g][s] \in Seq(DekVersion) /\ secrets[g][s] # <<>>
        /\ secrets'[g][s] = <<>> /\ nonce[g][s] \in Nat
    BY <1>1, <1>8 DEF Delete, TypeOK, ViewType
  <2>2. CurrentView(g, s)' = None
    BY <2>1, Zenon DEF CurrentView
  <2>3. CurrentView(g, s) \in [version : Nat, dek : Nat, nonce : Nat]
    BY <1>3, <2>1, Zenon DEF CurrentView
  <2>4. CurrentView(g, s) # None
    BY <2>3, NoneAssumption, Zenon
  <2>5. SecretView[g][s] = CurrentView(g, s)
    BY Zenon DEF SecretView
  <2>6. SecretView' = [SecretView EXCEPT ![g][s] = None]
    BY <1>6, <2>2, Zenon DEF SecretView
  <2> QED BY <1>4, <2>4, <2>5, <2>6, Zenon DEF Node!Delete
<1>9. Node!Mutation({g})
  BY <1>7, <1>8, Zenon DEF Counted, Node!Mutation
<1> QED BY <1>4, <1>9 DEF PublishedMutation

\* What a step on the permissions of endpoint t in group g means for the view: a
\* grant or a revocation of the replica, or a change of others that rotates the
\* group when a reader is lost.
LEMMA PermsStep ==
  ASSUME ViewInv, IndInv', Counted, NEW g \in Group, NEW t \in Endpoint,
         NEW p \in SUBSET Perm, Exists(g), t \in Registered, ChangePerms(g, t, p),
         UNCHANGED <<identity, secrets>>
  PROVE  Node!Mutation({g})
<1>0. TypeOK
  BY DEF ViewInv, IndInv
<1>1. RegisteredView' = RegisteredView /\ SecretView' = SecretView
  BY SecretsStay DEF RegisteredView, Registered
<1>2. acl' = [acl EXCEPT ![g][t] = p]
  BY Zenon DEF ChangePerms, GainRead, LoseRead, KeepRead
<1>3. Node!AclsChange({g})
  <2>1. \A h \in Group \ {g} : acl'[h] = acl[h]
    BY <1>0, <1>2, Zenon DEF TypeOK
  <2> QED BY <2>1, AclsViewChange, Zenon
<1>4. \A h \in Group, e \in Endpoint :
        acl'[h][e] = IF h = g /\ e = t THEN p ELSE acl[h][e]
  BY <1>0, <1>2, Zenon DEF TypeOK
<1>5. ReadsView' = IF t # Replica THEN ReadsView
                   ELSE IF "r" \in p THEN ReadsView \cup {g} ELSE ReadsView \ {g}
  BY <1>4, ReplicaAssumption, Zenon DEF ReadsView, GroupsWithRead
<1>6. CASE UNCHANGED dek
  <2>1. DekView' = DekView
    BY <1>6, Zenon DEF DekView, Exists
  <2>2. DekView = Node!Rotated({})
    BY Zenon DEF DekView, Node!Rotated
  <2>3. CASE t = Replica /\ GainRead(g, t, p)
    <3>1. "r" \notin acl[g][Replica] /\ "r" \in p
      BY <2>3, Zenon DEF GainRead
    <3>2. g \notin ReadsView /\ ReadsView' = ReadsView \cup {g} /\ RegisteredView
      BY <1>5, <2>3, <3>1, Zenon DEF ReadsView, GroupsWithRead, RegisteredView
    <3>3. Node!GrantRead(g)
      BY <1>1, <1>3, <2>1, <3>2 DEF Node!GrantRead
    <3> QED BY <3>3, Zenon DEF Counted, Node!Mutation
  <2>4. CASE ~(t = Replica /\ GainRead(g, t, p))
    <3>1. ReadsView' = ReadsView
      <4>1. CASE t = Replica
        <5>1. "r" \in acl[g][Replica] <=> "r" \in p
          BY <1>0, <1>6, <2>4, <4>1 DEF ChangePerms, LoseRead, KeepRead, TypeOK
        <5>2. g \in ReadsView <=> "r" \in p
          BY <5>1, Zenon DEF ReadsView, GroupsWithRead
        <5> QED BY <1>5, <4>1, <5>2
      <4> QED BY <1>5, <4>1
    <3>2. Node!ChangeOthers({g}, {})
      BY <1>1, <1>3, <2>1, <2>2, <3>1, Zenon DEF Node!ChangeOthers
    <3> QED BY <3>2, Zenon DEF Counted, Node!Mutation
  <2> QED BY <2>3, <2>4, Zenon
<1>7. CASE ~UNCHANGED dek
  <2>1. LoseRead(g, t, p)
    BY <1>7, Zenon DEF ChangePerms, GainRead, KeepRead
  <2>2. DekView' = Node!Rotated({g})
    BY <1>0, <2>1 DEF LoseRead, DekView, Exists, Node!Rotated, TypeOK
  <2>3. CASE t = Replica
    <3>1. g \in ReadsView /\ ReadsView' = ReadsView \ {g}
      BY <1>5, <2>1, <2>3, Zenon DEF LoseRead, ReadsView, GroupsWithRead
    <3>2. Node!RevokeRead(g)
      BY <1>1, <1>3, <2>2, <3>1, Zenon DEF Node!RevokeRead
    <3> QED BY <3>2, Zenon DEF Counted, Node!Mutation
  <2>4. CASE t # Replica
    <3>1. Node!ChangeOthers({g}, {g})
      BY <1>1, <1>3, <1>5, <2>2, <2>4, Zenon DEF Node!ChangeOthers
    <3> QED BY <3>1, Zenon DEF Counted, Node!Mutation
  <2> QED BY <2>3, <2>4, Zenon
<1> QED BY <1>6, <1>7

\* create_group is a grant to its creator; a rotation changes a DEK version alone.
LEMMA NewDekSteps ==
  ASSUME ViewInv, IndInv', Counted, NEW e \in Endpoint, NEW g \in Group,
         CreateGroup(e, g) \/ RotateDek(e, g)
  PROVE  Node!Mutation({g})
<1>0. TypeOK
  BY Zenon DEF ViewInv, IndInv
<1>1. RegisteredView' = RegisteredView /\ SecretView' = SecretView
  <2>1. UNCHANGED <<identity, secrets>>
    BY Zenon DEF CreateGroup, RotateDek
  <2> QED BY <2>1, SecretsStay, Zenon DEF RegisteredView, Registered
<1>2. Node!AclsChange({g})
  <2>1. \A h \in Group \ {g} : acl'[h] = acl[h] /\ UNCHANGED identity
    BY <1>0, Zenon DEF CreateGroup, RotateDek, TypeOK
  <2> QED BY <2>1, AclsViewChange, Zenon
<1>3. CASE CreateGroup(e, g)
  <2>1. /\ e \in Registered
        /\ acl[g][Replica] = {}
        /\ ~Exists(g)
    BY <1>3, ReplicaAssumption, Zenon
      DEF CreateGroup, ViewInv, IndInv, AdministrableOverTheWire, AclRowsHaveOwners
  <2>2. DekView' = DekView
    BY <1>0, <1>3, <2>1, Zenon DEF CreateGroup, DekView, Exists, TypeOK
  <2>3. \A h \in Group, d \in Endpoint :
          acl'[h][d] = IF h = g /\ d = e THEN Perm ELSE acl[h][d]
    BY <1>0, <1>3, Zenon DEF CreateGroup, TypeOK
  <2>4. CASE e = Replica
    <3>1. g \notin ReadsView /\ ReadsView' = ReadsView \cup {g} /\ RegisteredView
      BY <2>1, <2>3, <2>4, Zenon DEF ReadsView, GroupsWithRead, RegisteredView, Perm
    <3>2. Node!GrantRead(g)
      BY <1>1, <1>2, <2>2, <3>1, Zenon DEF Node!GrantRead
    <3> QED BY <3>2, Zenon DEF Counted, Node!Mutation
  <2>5. CASE e # Replica
    <3>1. ReadsView' = ReadsView
      BY <2>3, <2>5, ReplicaAssumption, Zenon DEF ReadsView, GroupsWithRead
    <3>2. DekView = Node!Rotated({})
      BY Zenon DEF DekView, Node!Rotated
    <3>3. Node!ChangeOthers({g}, {})
      BY <1>1, <1>2, <2>2, <3>1, <3>2, Zenon DEF Node!ChangeOthers
    <3> QED BY <3>3, Zenon DEF Counted, Node!Mutation
  <2> QED BY <2>4, <2>5, Zenon
<1>4. CASE RotateDek(e, g)
  <2>1. ReadsView' = ReadsView
    BY <1>4, Zenon DEF RotateDek, ReadsView, GroupsWithRead
  <2>2. DekView' = Node!Rotated({g})
    BY <1>0, <1>4 DEF RotateDek, Authorized, DekView, Exists, Node!Rotated, TypeOK
  <2>3. Node!ChangeOthers({g}, {g})
    BY <1>1, <1>2, <2>1, <2>2, Zenon DEF Node!ChangeOthers
  <2> QED BY <2>3, Zenon DEF Counted, Node!Mutation
<1> QED BY <1>3, <1>4, Zenon

\* Adding an identity touches the view only when it is the replica's: an endpoint
\* without a row has no permissions that its name could show in.
LEMMA AddIdentityStep ==
  ASSUME ViewInv, Counted, NEW e \in Endpoint, NEW t \in Endpoint, NEW n \in Name,
         NEW b \in BOOLEAN, AddIdentity(e, t, n, b), TheView' # TheView
  PROVE  Node!Mutation({})
<1>0. TypeOK
  BY DEF ViewInv, IndInv
<1>1. /\ DekView' = DekView /\ ReadsView' = ReadsView /\ SecretView' = SecretView
      /\ UNCHANGED secrets
  <2>1. UNCHANGED <<acl, dek, secrets>>
    BY Zenon DEF AddIdentity
  <2> QED BY <2>1, SecretsStay, Zenon DEF DekView, Exists, ReadsView, GroupsWithRead
<1>2. AclsView' = AclsView
  <2>1. UNCHANGED acl /\ \A g \in Group : acl[g][t] = {}
    BY Zenon DEF AddIdentity, ViewInv, IndInv, AclRowsHaveOwners
  <2>2. \A d \in Endpoint : d # t => identity'[d] = identity[d]
    BY <1>0, Zenon DEF AddIdentity, TypeOK
  <2>3. \A g \in Group : AclView(g)' = AclView(g)
    BY <2>1, <2>2, Zenon DEF AclView
  <2> QED BY <2>3 DEF AclsView
<1>3. RegisteredView' # RegisteredView
  BY <1>1, <1>2 DEF TheView
<1>4. t = Replica
  BY <1>0, <1>3, ReplicaAssumption DEF AddIdentity, RegisteredView, Registered, TypeOK
<1>5. ~RegisteredView /\ RegisteredView' = TRUE
  BY <1>0, <1>4, KeysAssumption, ReplicaAssumption, Zenon
    DEF AddIdentity, RegisteredView, Registered, TypeOK
<1>6. Node!AddReplica
  BY <1>1, <1>2, <1>5, Zenon DEF Node!AddReplica
<1> QED BY <1>6, Zenon DEF Counted, Node!Mutation

\* Removing an identity rotates every group it could read and changes the ACLs of
\* the groups it had any permission on.
LEMMA RemoveIdentityStep ==
  ASSUME ViewInv, IndInv', Counted, NEW e \in Endpoint, NEW t \in Endpoint,
         RemoveIdentity(e, t), TheView' # TheView
  PROVE  Node!Mutation(GroupsFor(t))
<1>0. TypeOK
  BY DEF ViewInv, IndInv
<1>1. SecretView' = SecretView /\ UNCHANGED secrets
  BY SecretsStay, Zenon DEF RemoveIdentity
<1>2. \A g \in Group, d \in Endpoint :
        acl'[g][d] = IF d = t THEN {} ELSE acl[g][d]
  BY <1>0, Zenon DEF RemoveIdentity, AclWithout, TypeOK
<1>3. Node!AclsChange(GroupsFor(t))
  <2>1. ASSUME NEW g \in Group \ GroupsFor(t)
        PROVE  /\ acl'[g] = acl[g]
               /\ \A d \in Endpoint : acl[g][d] # {} => identity'[d] = identity[d]
    <3>1. acl[g][t] = {}
      BY Zenon DEF GroupsFor
    <3>2. acl'[g] = acl[g]
      BY <1>0, <3>1, Zenon DEF RemoveIdentity, AclWithout, TypeOK
    <3> QED BY <1>0, <3>1, <3>2, Zenon DEF RemoveIdentity, TypeOK
  <2>2. GroupsFor(t) \in SUBSET Group
    BY Zenon DEF GroupsFor
  <2> QED BY <2>1, <2>2, AclsViewChange, Zenon
<1>4. GroupsWithRead(t) \subseteq GroupsFor(t)
  BY Zenon DEF GroupsWithRead, GroupsFor
<1>5. DekView' = Node!Rotated(GroupsWithRead(t))
  <2>1. \A g \in GroupsWithRead(t) : Exists(g)
    BY Zenon DEF GroupsWithRead, ViewInv, IndInv, AclRowsHaveOwners
  <2>2. \A g \in Group : dek'[g] = IF g \in GroupsWithRead(t) THEN dek[g] + 1 ELSE dek[g]
    BY Zenon DEF RemoveIdentity
  <2> QED BY <1>0, <2>1, <2>2, SMTT(20) DEF DekView, Exists, Node!Rotated, TypeOK
<1>6. CASE t = Replica
  <2>1. RegisteredView /\ RegisteredView' = FALSE
    BY <1>0, <1>6, SMTT(20) DEF RemoveIdentity, RegisteredView, Registered, TypeOK
  <2>2. ReadsView' = {}
    BY <1>2, <1>6, Zenon DEF ReadsView, GroupsWithRead
  <2>3. Node!RemoveReplica(GroupsFor(t))
    BY <1>1, <1>3, <1>4, <1>5, <1>6, <2>1, <2>2, Zenon DEF Node!RemoveReplica, ReadsView
  <2> QED BY <2>3, Zenon DEF Counted, Node!Mutation
<1>7. CASE t # Replica
  <2>1. RegisteredView' = RegisteredView
    BY <1>0, <1>7, ReplicaAssumption DEF RemoveIdentity, RegisteredView, Registered, TypeOK
  <2>2. ReadsView' = ReadsView
    BY <1>2, <1>7, ReplicaAssumption, Zenon DEF ReadsView, GroupsWithRead
  <2>3. GroupsFor(t) # {}
    <3> SUFFICES ASSUME GroupsFor(t) = {} PROVE FALSE
      BY SMTT(20)
    <3>1. DekView' = DekView
      BY <1>4, <1>5, Zenon DEF DekView, Node!Rotated
    <3>2. AclsView' = AclsView
      <4>1. \A g \in Group : AclsView'[g] = AclsView[g]
        BY <1>3, Zenon DEF Node!AclsChange
      <4> QED BY <4>1 DEF AclsView
    <3> QED BY <1>1, <2>1, <2>2, <3>1, <3>2 DEF TheView
  <2>4. Node!ChangeOthers(GroupsFor(t), GroupsWithRead(t))
    BY <1>1, <1>3, <1>4, <1>5, <2>1, <2>2, Zenon DEF Node!ChangeOthers
  <2> QED BY <1>4, <2>3, <2>4, Zenon DEF Counted, Node!Mutation
<1> QED BY <1>6, <1>7

\* The wraps, the keys and the service-admin flags are not seen in the view.
LEMMA TablesSeen ==
  ASSUME UNCHANGED <<identity, acl, dek, secrets>>
  PROVE  TheView' = TheView
BY Zenon DEF TheView, RegisteredView, Registered, ReadsView, GroupsWithRead, DekView,
  Exists, AclsView, AclView

\* Every step that changes the view is a published mutation of Upstream.
LEMMA ViewStep ==
  ASSUME ViewInv, IndInv', Counted, Next, TheView' # TheView
  PROVE  PublishedMutation
<1>1. ASSUME NEW G \in SUBSET Group, Node!Mutation(G), phase = "serving" => published' = G
      PROVE  PublishedMutation
  BY <1>1 DEF PublishedMutation
<1>2. CASE Request
  <2>1. PICK e \in Endpoint :
          \/ \E g \in Group, s \in Secret, x \in 0..MaxVersion : Put(e, g, s, x)
          \/ \E g \in Group, s \in Secret, x \in 0..MaxVersion : Delete(e, g, s, x)
          \/ \E g \in Group : CreateGroup(e, g)
          \/ \E g \in Group, t \in Endpoint, p \in Grants : Grant(e, g, t, p)
          \/ \E g \in Group : RotateDek(e, g)
          \/ \E t \in Endpoint, n \in Name, b \in BOOLEAN : AddIdentity(e, t, n, b)
          \/ \E t \in Endpoint : RemoveIdentity(e, t)
          \/ \E t \in Endpoint, b \in BOOLEAN : SetServiceAdmin(e, t, b)
    BY <1>2, Zenon DEF Request
  <2>2. ASSUME NEW g \in Group, NEW s \in Secret, NEW x \in 0..MaxVersion,
               Put(e, g, s, x) \/ Delete(e, g, s, x)
        PROVE  PublishedMutation
    BY <2>2, SecretSteps, Zenon
  <2>3. ASSUME NEW g \in Group, CreateGroup(e, g) \/ RotateDek(e, g)
        PROVE  PublishedMutation
    <3>1. Node!Mutation({g}) /\ published' = {g}
      BY <2>3, NewDekSteps, Zenon DEF CreateGroup, RotateDek
    <3> QED BY <1>1, <3>1, Zenon
  <2>4. ASSUME NEW g \in Group, NEW t \in Endpoint, NEW p \in Grants, Grant(e, g, t, p)
        PROVE  PublishedMutation
    <3>1. /\ Exists(g) /\ t \in Registered /\ ChangePerms(g, t, p)
          /\ UNCHANGED <<identity, secrets>> /\ published' = {g}
      BY <2>4, Zenon DEF Grant, Authorized
    <3>2. p \in SUBSET Perm
      BY GrantsAssumption
    <3>3. Node!Mutation({g})
      BY <3>1, <3>2, PermsStep, Zenon
    <3> QED BY <1>1, <3>1, <3>3, Zenon
  <2>5. ASSUME NEW t \in Endpoint, NEW n \in Name, NEW b \in BOOLEAN,
               AddIdentity(e, t, n, b)
        PROVE  PublishedMutation
    <3>1. Node!Mutation({}) /\ published' = {}
      BY <2>5, AddIdentityStep, Zenon DEF AddIdentity
    <3> QED BY <1>1, <3>1, Zenon
  <2>6. ASSUME NEW t \in Endpoint, RemoveIdentity(e, t)
        PROVE  PublishedMutation
    <3>1. Node!Mutation(GroupsFor(t)) /\ published' = GroupsFor(t)
      BY <2>6, RemoveIdentityStep, Zenon DEF RemoveIdentity
    <3>2. GroupsFor(t) \in SUBSET Group
      BY Zenon DEF GroupsFor
    <3> QED BY <1>1, <3>1, <3>2, Zenon
  <2>7. ASSUME NEW t \in Endpoint, NEW b \in BOOLEAN, SetServiceAdmin(e, t, b)
        PROVE  FALSE
    <3>1. UNCHANGED <<identity, acl, dek, secrets>>
      BY <2>7, Zenon DEF SetServiceAdmin
    <3> QED BY <3>1, TablesSeen
  <2> QED BY <2>1, <2>2, <2>3, <2>4, <2>5, <2>6, <2>7, Zenon
<1>3. CASE Offline
  <2>1. ASSUME NEW g \in Group, NEW t \in Endpoint, NEW p \in Grants, DbGrant(g, t, p)
        PROVE  PublishedMutation
    <3>1. /\ Exists(g) /\ t \in Registered /\ ChangePerms(g, t, p)
          /\ UNCHANGED <<identity, secrets>> /\ phase # "serving"
      BY <2>1, Zenon DEF DbGrant
    <3>2. p \in SUBSET Perm
      BY GrantsAssumption
    <3>3. Node!Mutation({g})
      BY <3>1, <3>2, PermsStep, Zenon
    <3> QED BY <1>1, <3>1, <3>3
  <2>2. ASSUME NEW k \in OpKey, Recover(k) PROVE FALSE
    <3>1. UNCHANGED <<identity, acl, dek, secrets>>
      BY <2>2, Zenon DEF Recover
    <3> QED BY <3>1, TablesSeen
  <2> QED BY <1>3, <2>1, <2>2, Zenon DEF Offline
<1>4. CASE Lifecycle
  <2>1. UNCHANGED <<identity, acl, dek, secrets>>
    BY <1>4, Zenon DEF Lifecycle, Start, BackfillStep, Backfill, Serve, Stop
  <2> QED BY <2>1, TablesSeen
<1> QED BY <1>2, <1>3, <1>4 DEF Next

\* A step that is not counted leaves every variable of Upstream as it is.
LEMMA ViewStutters ==
  ASSUME TheView' = TheView, UNCHANGED <<clock, nonce>>
  PROVE  UNCHANGED Node!upstreamVars
<1>1. SecretView' = SecretView
  BY Zenon DEF TheView, SecretView, CurrentView
<1> QED BY <1>1 DEF TheView, Node!upstreamVars

\* Bunker implements Upstream for every replica, every set of groups, identities
\* and keys and every number of versions: the endpoint that runs a replica sees
\* its node change by the mutations Replication assumes and no others, and what
\* they touch is published by the handler that makes them.
THEOREM BunkerImplementsUpstream == ViewSpec => ImplementsUpstream
<1>1. ASSUME ViewInv, ViewInv', [ViewNext]_viewVars
      PROVE  PublishedMutation \/ UNCHANGED Node!upstreamVars
  <2>1. CASE UNCHANGED viewVars
    <3>1. TheView' = TheView
      BY <2>1, TablesSeen DEF viewVars, vars
    <3> QED BY <2>1, <3>1, ViewStutters DEF viewVars
  <2>2. CASE ViewNext /\ TheView' = TheView
    BY <2>2, ViewStutters, Zenon DEF ViewNext
  <2>3. CASE ViewNext /\ TheView' # TheView
    <3>1. Next /\ Counted /\ IndInv'
      BY <1>1, <2>3, Zenon DEF ViewNext, Counted, ViewInv
    <3> QED BY <1>1, <2>3, <3>1, ViewStep
  <2> QED BY <1>1, <2>1, <2>2, <2>3
<1>2. ViewInv /\ ViewInv' /\ [ViewNext]_viewVars =>
        [\E G \in SUBSET Group :
           /\ Node!Mutation(G)
           /\ phase = "serving" => G \subseteq published']_<<Node!upstreamVars>>
  BY <1>1, Zenon DEF PublishedMutation
<1> QED BY <1>2, ViewInvariant, PTL DEF ViewSpec, ImplementsUpstream

=============================================================================
