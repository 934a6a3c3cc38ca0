------------------------- MODULE ReplicationProofs -------------------------
(***************************************************************************)
(* The types of Replication, DropsAreJustified, NoSilentStaleness and      *)
(* AppliedSecretsDecrypt for every number of groups, secrets, mutations    *)
(* and connection losses and every channel capacity.                       *)
(*                                                                         *)
(* A group that stays readable from the Hello on is in the manifest when   *)
(* the manifest is complete (Carried), so neither the sweep nor a denied   *)
(* fetch ever drops it.                                                    *)
(*                                                                         *)
(* NoSilentStaleness follows a mutation of a group from the broadcast      *)
(* channel to the mirror.  Until the replica has fetched the group again,  *)
(* some part of the pipeline still owes it that fetch (Restarts, Owed,     *)
(* Announced); for a group nothing is owed of, every copy on its way is    *)
(* the node's current state (CopiesCurrent), and when no copy is on its    *)
(* way the mirror is (Applied).  What the session does not count among     *)
(* the replica's groups has no copy and is swept (Absent).                 *)
(*                                                                         *)
(* AppliedSecretsDecrypt rests on the order of a group's copies: one the   *)
(* replica could read since its Hello carries every wrap the mirror's      *)
(* secrets need (KeyInv), for a group's DEK versions only become more.     *)
(***************************************************************************)
EXTENDS Replication, FiniteSetTheorems, TLAPS

Message ==
  [type : {"SyncDenied", "ManifestDone", "ScopeChanged"}]
  \cup [type : {"Group"}, state : State]
  \cup [type : {"Changed"}, group : Group]

IsGroup(m, g) == m.type = "Group" /\ m.state.name = g
IsChanged(m, g) == m.type = "Changed" /\ m.group = g

InStream(g) == \E i \in DOMAIN stream : IsGroup(stream[i], g)

-----------------------------------------------------------------------------

\* the bounds behind the type invariant; a removed replica reads nothing
Bounds ==
  /\ \A g \in Group : dek[g] <= clock + 1
  /\ \A g \in Group, s \in Secret : secret[g][s] # None =>
       /\ secret[g][s].version <= clock + 1
       /\ secret[g][s].dek <= dek[g]
       /\ secret[g][s].nonce <= clock
  /\ ~registered => reads = {}

\* which fields a stage of the session or of the engine uses
Stages ==
  /\ session.phase \in {"hello", "scope"} =>
       /\ engine = "manifest" /\ stream = <<>> /\ stash = <<>> /\ manifest = {}
  /\ session.phase \notin {"debounce", "emit"} =>
       session.batch = {} /\ ~session.lagged
  /\ engine \in {"manifest", "resync", "sweep"} => manifest # None
  /\ engine = "live" => manifest = None
  /\ manifest = None \/ engine = "sweep" => stash = <<>>
  /\ engine \in {"fetch", "reading", "apply", "refetch"} <=> cur # None

TypeInv ==
  /\ TypeOK
  /\ stream \in Seq(Message)
  /\ stash \in Seq(State)
  /\ Bounds
  /\ Stages

\* the manifest will carry g, or has carried it
Carried(g) ==
  /\ engine = "manifest" /\ session.phase = "manifest" =>
       g \in session.todo \cup manifest \/ InStream(g)
  /\ engine = "manifest" => \A i \in DOMAIN stream :
       stream[i].type = "ManifestDone" =>
         g \in manifest \/ \E j \in 1..(i - 1) : IsGroup(stream[j], g)
  /\ engine \notin {"idle", "manifest"} /\ manifest # None => g \in manifest

\* a group is lost to the replica's manifest only if it could not read it
DropInv ==
  /\ engine # "idle" => Unreadable \subseteq lost
  /\ \A g \in Group \ lost : Carried(g)

-----------------------------------------------------------------------------
(* Sets and sequences *)

\* What the session and the engine read of a sequence of messages.
LEMMA SeqFacts ==
  ASSUME NEW S, NEW q \in Seq(S)
  PROVE  /\ Len(q) \in Nat /\ DOMAIN q = 1..Len(q) /\ q \in [1..Len(q) -> S]
         /\ (q = <<>>) <=> (Len(q) = 0)
         /\ \A i \in DOMAIN q : q[i] \in S
OBVIOUS

\* Receiving takes an element and leaves a shorter sequence.
LEMMA HeadTail ==
  ASSUME NEW S, NEW q \in Seq(S), q # <<>>
  PROVE  /\ Head(q) \in S /\ Tail(q) \in Seq(S) /\ Len(Tail(q)) = Len(q) - 1
         /\ \A i \in 1..Len(Tail(q)) : Tail(q)[i] = q[i + 1]
OBVIOUS

\* A sequence over a set is one over any larger set.
LEMMA WiderSeq ==
  ASSUME NEW S, NEW T, S \subseteq T, NEW q \in Seq(S)
  PROVE  q \in Seq(T)
OBVIOUS

\* ORDER BY name picks an element.
LEMMA FirstIn == ASSUME NEW S, S # {} PROVE First(S) \in S
BY DEF First

\* The events of a mutation are enqueued one by one and none is left out.
LEMMA ListedFacts ==
  ASSUME NEW S, IsFiniteSet(S)
  PROVE  /\ Cardinality(S) \in Nat
         /\ Listed(S) \in [1..Cardinality(S) -> S]
         /\ Listed(S) \in Seq(S) /\ Len(Listed(S)) = Cardinality(S)
         /\ \A x \in S : \E i \in 1..Cardinality(S) : Listed(S)[i] = x
<1> DEFINE n == Cardinality(S)
           f == Listed(S)
<1>1. n \in Nat /\ ExistsBijection(1..n, S)
  BY FS_CardinalityType
<1>2. \E h \in [1..n -> S] : IsInjective(h)
  BY <1>1 DEF ExistsBijection, Bijection, Injection
<1>3. f \in [1..n -> S] /\ IsInjective(f)
  BY <1>2 DEF Listed
<1>4. f \in Injection(1..n, S)
  BY <1>3 DEF Injection
<1>5. Cardinality(1..n) = n
  <2>1. IsFiniteSet(1..n) /\ Cardinality(1..n) = IF 1 > n THEN 0 ELSE n - 1 + 1
    BY <1>1, FS_Interval
  <2> QED BY <1>1, <2>1
<1>6. f \in Surjection(1..n, S)
  BY <1>4, <1>5, FS_Injection
<1>7. \A x \in S : \E i \in 1..n : f[i] = x
  BY <1>6 DEF Surjection
<1>8. f \in Seq(S) /\ Len(f) = n
  BY <1>1, <1>3
<1> QED BY <1>1, <1>3, <1>7, <1>8

\* A function on an initial segment is a sequence.
LEMMA FunIsSeq ==
  ASSUME NEW S, NEW n \in Nat, NEW f \in [1..n -> S]
  PROVE  f \in Seq(S) /\ Len(f) = n /\ DOMAIN f = 1..n
OBVIOUS

\* Receiving takes the oldest element and leaves the others in their order.
LEMMA TailFacts ==
  ASSUME NEW S, NEW q \in Seq(S), q # <<>>
  PROVE  /\ Tail(q) \in Seq(S) /\ Head(q) = q[1] /\ 1 \in DOMAIN q
         /\ \A i \in DOMAIN Tail(q) : i + 1 \in DOMAIN q /\ Tail(q)[i] = q[i + 1]
         /\ \A i \in DOMAIN q : i = 1 \/ (i - 1 \in DOMAIN Tail(q) /\ Tail(q)[i - 1] = q[i])
         /\ DOMAIN q \subseteq Nat /\ DOMAIN Tail(q) \subseteq Nat \ {0}
<1>1. /\ Head(q) \in S /\ Tail(q) \in Seq(S) /\ Len(Tail(q)) = Len(q) - 1
      /\ \A i \in 1..Len(Tail(q)) : Tail(q)[i] = q[i + 1]
  BY HeadTail
<1>2. Len(q) \in Nat /\ DOMAIN q = 1..Len(q) /\ DOMAIN Tail(q) = 1..Len(Tail(q))
      /\ Len(q) # 0 /\ Head(q) = q[1]
  BY <1>1, SeqFacts
<1> QED BY <1>1, <1>2

\* Sending puts elements behind the ones that are there.
LEMMA ConcatFacts ==
  ASSUME NEW S, NEW q \in Seq(S), NEW r \in Seq(S)
  PROVE  /\ q \o r \in Seq(S) /\ Len(q \o r) = Len(q) + Len(r)
         /\ Len(q) \in Nat /\ Len(r) \in Nat
         /\ DOMAIN q = 1..Len(q) /\ DOMAIN r = 1..Len(r)
         /\ DOMAIN (q \o r) = 1..(Len(q) + Len(r))
         /\ \A i \in DOMAIN q : (q \o r)[i] = q[i]
         /\ \A i \in DOMAIN r : (q \o r)[Len(q) + i] = r[i]
         /\ \A i \in DOMAIN (q \o r) : i \in DOMAIN q \/ i - Len(q) \in DOMAIN r
<1>1. /\ q \o r \in Seq(S) /\ Len(q \o r) = Len(q) + Len(r)
      /\ \A i \in 1..Len(q) + Len(r) : (q \o r)[i] = IF i <= Len(q) THEN q[i] ELSE r[i - Len(q)]
  OBVIOUS
<1>2. /\ Len(q) \in Nat /\ Len(r) \in Nat
      /\ DOMAIN q = 1..Len(q) /\ DOMAIN r = 1..Len(r) /\ DOMAIN (q \o r) = 1..Len(q \o r)
  BY <1>1, SeqFacts
<1> QED BY <1>1, <1>2

\* The same for a single element.
LEMMA AppendFacts ==
  ASSUME NEW S, NEW q \in Seq(S), NEW x \in S
  PROVE  /\ Append(q, x) \in Seq(S)
         /\ Len(q) \in Nat /\ DOMAIN q = 1..Len(q)
         /\ DOMAIN Append(q, x) = 1..(Len(q) + 1)
         /\ \A i \in DOMAIN q : Append(q, x)[i] = q[i]
         /\ Append(q, x)[Len(q) + 1] = x
         /\ \A i \in DOMAIN Append(q, x) : i \in DOMAIN q \/ i = Len(q) + 1
<1>1. /\ Append(q, x) \in Seq(S) /\ Len(Append(q, x)) = Len(q) + 1
      /\ \A i \in 1..Len(q) : Append(q, x)[i] = q[i]
      /\ Append(q, x)[Len(q) + 1] = x
  OBVIOUS
<1>2. Len(q) \in Nat /\ DOMAIN q = 1..Len(q)
      /\ DOMAIN Append(q, x) = 1..Len(Append(q, x))
  BY <1>1, SeqFacts
<1> QED BY <1>1, <1>2

-----------------------------------------------------------------------------
(* The node *)

\* What a mutation leaves of the node's state, in terms of the types.
LEMMA MutationKeepsType ==
  ASSUME UpstreamType, Bounds, NEW G \in SUBSET Group, Mutation(G)
  PROVE  UpstreamType' /\ Bounds' /\ \A g \in Group : dek[g] <= dek'[g]
<1> DEFINE Result == UpstreamType' /\ Bounds' /\ \A g \in Group : dek[g] <= dek'[g]
<1>0. /\ MaxClock \in Nat /\ clock \in Nat /\ clock' = clock + 1 /\ clock' \in Nonce
      /\ \A g \in Group : dek[g] \in Nat /\ dek[g] <= clock + 1
      /\ dek \in [Group -> DekVersion]
      /\ secret \in [Group -> [Secret -> Entry \cup {None}]]
      /\ acl \in [Group -> Acl] /\ reads \in SUBSET Group /\ registered \in BOOLEAN
  BY ClockBound DEF UpstreamType, Bounds, Mutation, Nonce, DekVersion
<1>1. ASSUME NEW H, dek' = Rotated(H)
      PROVE  /\ dek' \in [Group -> DekVersion]
             /\ \A g \in Group : dek[g] <= dek'[g] /\ dek'[g] <= clock' + 1
  BY <1>0, <1>1 DEF Rotated, DekVersion, Nonce
<1>2. ASSUME dek' = dek
      PROVE  \A g \in Group : dek[g] <= dek'[g] /\ dek'[g] <= clock' + 1
  BY <1>0, <1>2
<1>3. ASSUME secret' = secret, \A g \in Group : dek[g] <= dek'[g],
             dek' \in [Group -> DekVersion]
      PROVE  \A g \in Group, s \in Secret : secret'[g][s] # None =>
               /\ secret'[g][s].version <= clock' + 1
               /\ secret'[g][s].dek <= dek'[g]
               /\ secret'[g][s].nonce <= clock'
  <2> SUFFICES ASSUME NEW g \in Group, NEW s \in Secret, secret[g][s] # None
               PROVE  /\ secret[g][s].version <= clock' + 1
                      /\ secret[g][s].dek <= dek'[g]
                      /\ secret[g][s].nonce <= clock'
    BY <1>3
  <2>1. secret[g][s] \in Entry /\ dek'[g] \in Nat
    BY <1>0, <1>3 DEF DekVersion
  <2>2. secret[g][s].version \in Nat /\ secret[g][s].dek \in Nat /\ secret[g][s].nonce \in Nat
    BY <1>0, <2>1 DEF Entry, DekVersion, Nonce
  <2> QED BY <1>0, <1>3, <2>1, <2>2 DEF Bounds
<1>4. ASSUME NEW g \in Group, NEW s \in Secret, Put(g, s) PROVE Result
  <2> DEFINE e == [version |-> IF secret[g][s] = None THEN 1 ELSE secret[g][s].version + 1,
                   dek |-> dek[g], nonce |-> clock + 1]
  <2>1. secret' = [secret EXCEPT ![g][s] = e]
    BY <1>4 DEF Put
  <2>2. e \in Entry /\ e.version <= clock' + 1 /\ e.dek <= dek[g] /\ e.nonce <= clock'
    <3>1. secret[g][s] # None => secret[g][s].version \in Nat /\ secret[g][s].version <= clock + 1
                                 /\ secret[g][s].version >= 1
      BY <1>0 DEF Entry, Bounds
    <3> QED BY <1>0, <3>1 DEF Entry, DekVersion, Nonce
  <2> HIDE DEF e
  <2>3. secret' \in [Group -> [Secret -> Entry \cup {None}]]
    BY <1>0, <2>1, <2>2
  <2>4. \A h \in Group, r \in Secret : secret'[h][r] = IF h = g /\ r = s THEN e ELSE secret[h][r]
    BY <1>0, <2>1
  <2>5. \A h \in Group, r \in Secret : secret[h][r] # None =>
          /\ secret[h][r].version <= clock' + 1
          /\ secret[h][r].dek <= dek[h]
          /\ secret[h][r].nonce <= clock'
    <3> SUFFICES ASSUME NEW h \in Group, NEW r \in Secret, secret[h][r] # None
                 PROVE  /\ secret[h][r].version <= clock' + 1
                        /\ secret[h][r].dek <= dek[h]
                        /\ secret[h][r].nonce <= clock'
      OBVIOUS
    <3>1. secret[h][r].version \in Nat /\ secret[h][r].nonce \in Nat
      BY <1>0 DEF Entry, Nonce
    <3> QED BY <1>0, <3>1 DEF Bounds
  <2>6. UNCHANGED <<registered, reads, dek, acl>>
    BY <1>4 DEF Put
  <2>7. UpstreamType'
    BY <1>0, <2>3, <2>6 DEF UpstreamType
  <2> QED BY <1>2, <2>2, <2>4, <2>5, <2>6, <2>7 DEF Bounds
<1>5. ASSUME NEW g \in Group, NEW s \in Secret, Delete(g, s) PROVE Result
  <2>1. secret' = [secret EXCEPT ![g][s] = None] /\ UNCHANGED <<registered, reads, dek, acl>>
    BY <1>5 DEF Delete
  <2>2. /\ secret' \in [Group -> [Secret -> Entry \cup {None}]]
        /\ \A h \in Group, r \in Secret : secret'[h][r] # None => secret'[h][r] = secret[h][r]
    BY <1>0, <2>1
  <2>3. \A h \in Group, r \in Secret : secret[h][r] # None =>
          /\ secret[h][r].version <= clock' + 1
          /\ secret[h][r].dek <= dek[h]
          /\ secret[h][r].nonce <= clock'
    <3> SUFFICES ASSUME NEW h \in Group, NEW r \in Secret, secret[h][r] # None
                 PROVE  /\ secret[h][r].version <= clock' + 1
                        /\ secret[h][r].dek <= dek[h]
                        /\ secret[h][r].nonce <= clock'
      OBVIOUS
    <3>1. secret[h][r].version \in Nat /\ secret[h][r].nonce \in Nat
      BY <1>0 DEF Entry, Nonce
    <3> QED BY <1>0, <3>1 DEF Bounds
  <2>4. UpstreamType'
    BY <1>0, <2>1, <2>2 DEF UpstreamType
  <2> QED BY <1>2, <2>1, <2>2, <2>3, <2>4 DEF Bounds
<1>6. ASSUME secret' = secret, acl' \in [Group -> Acl], reads' \in SUBSET Group,
             registered' \in BOOLEAN, ~registered' => reads' = {},
             dek' = dek \/ \E H : dek' = Rotated(H)
      PROVE  Result
  <2>1. /\ dek' \in [Group -> DekVersion]
        /\ \A g \in Group : dek[g] <= dek'[g] /\ dek'[g] <= clock' + 1
    BY <1>0, <1>1, <1>2, <1>6
  <2>2. UpstreamType'
    BY <1>0, <1>6, <2>1 DEF UpstreamType
  <2> QED BY <1>3, <1>6, <2>1, <2>2, Zenon DEF Bounds
<1>7. ASSUME NEW g \in Group, GrantRead(g) \/ RevokeRead(g) PROVE Result
  BY <1>0, <1>6, <1>7, Zenon DEF GrantRead, RevokeRead, AclsChange, Bounds
<1>8. ASSUME RemoveReplica(G) PROVE Result
  BY <1>0, <1>6, <1>8, Zenon DEF RemoveReplica, AclsChange
<1>9. ASSUME AddReplica PROVE Result
  BY <1>0, <1>6, <1>9 DEF AddReplica
<1>10. ASSUME NEW H, ChangeOthers(G, H) PROVE Result
  BY <1>0, <1>6, <1>10, Zenon DEF ChangeOthers, AclsChange, Bounds
<1> HIDE DEF Result
<1>11. Result
  BY <1>4, <1>5, <1>7, <1>8, <1>9, <1>10 DEF Mutation
<1> QED BY <1>11 DEF Result

\* The groups a mutation does not publish look to the replica as before.
LEMMA MutationFacts ==
  ASSUME UpstreamType, Bounds, NEW G \in SUBSET Group, Mutation(G),
         NEW g \in Group \ G
  PROVE  /\ Snapshot(g)' = Snapshot(g)
         /\ g \in Scope' <=> g \in Scope
         /\ View[g]' = View[g]
<1> DEFINE Same == /\ secret'[g] = secret[g] /\ dek'[g] = dek[g] /\ acl'[g] = acl[g]
                   /\ g \in reads' <=> g \in reads
                   /\ registered' /\ g \in reads' <=> registered /\ g \in reads
<1>1. ASSUME NEW h \in G, NEW s \in Secret, Put(h, s) \/ Delete(h, s) PROVE Same
  BY <1>1 DEF Put, Delete, UpstreamType
<1>2. ASSUME NEW h \in G, G = {h}, GrantRead(h) \/ RevokeRead(h) PROVE Same
  BY <1>2 DEF GrantRead, RevokeRead, AclsChange, Rotated, UpstreamType
<1>3. ASSUME RemoveReplica(G) PROVE Same
  BY <1>3 DEF RemoveReplica, AclsChange, Rotated, UpstreamType
<1>4. ASSUME AddReplica PROVE Same
  BY <1>4 DEF AddReplica, Bounds
<1>5. ASSUME NEW H \in SUBSET G, ChangeOthers(G, H) PROVE Same
  BY <1>5 DEF ChangeOthers, AclsChange, Rotated, UpstreamType
<1> HIDE DEF Same
<1>6. Same
  BY <1>1, <1>2, <1>3, <1>4, <1>5 DEF Mutation
<1>7. Snapshot(g)' = Snapshot(g) /\ (ReadAuthorized(g)' <=> ReadAuthorized(g))
  BY <1>6, Zenon DEF Same, Snapshot, ReadAuthorized
<1>8. g \in Scope' <=> g \in Scope
  BY <1>6 DEF Same, Scope
<1> QED BY <1>7, <1>8 DEF View

-----------------------------------------------------------------------------
(* Types *)

\* A snapshot is a group's state, under the group's name.
LEMMA SnapshotType ==
  ASSUME UpstreamType, NEW g \in Group
  PROVE  Snapshot(g) \in State /\ Snapshot(g).name = g
<1>1. MaxClock \in Nat /\ dek[g] \in DekVersion /\ acl[g] \in Acl
      /\ secret[g] \in [Secret -> Entry \cup {None}]
  BY ClockBound DEF UpstreamType
<1>2. 1..dek[g] \subseteq DekVersion
  BY <1>1 DEF DekVersion
<1> QED BY <1>1, <1>2 DEF Snapshot, State

\* What the messages of the session stream carry.
LEMMA MessageFacts ==
  ASSUME NEW m \in Message
  PROVE  /\ m.type = "Group" => m.state \in State /\ m.state.name \in Group
         /\ m.type = "Changed" => m.group \in Group
BY DEF Message, State

\* The channel keeps to its capacity, and an event that was sent to a session is
\* in its queue unless the receiver is overrun.
LEMMA EnqueueFacts ==
  ASSUME TypeOK, NEW G \in SUBSET Group, Enqueue(G)
  PROVE  /\ queue' \in Seq(Group) /\ Len(queue') <= ChannelCap
         /\ overrun' \in BOOLEAN /\ (overrun => overrun')
         /\ session.phase \notin {"hello", "over"} =>
              \A g \in Group : g \in G \/ (\E i \in DOMAIN queue : queue[i] = g) =>
                overrun' \/ \E i \in DOMAIN queue' : queue'[i] = g
<1> DEFINE all == queue \o Listed(G)
<1>0. queue \in Seq(Group) /\ Len(queue) <= ChannelCap /\ ChannelCap \in Nat \ {0}
      /\ overrun \in BOOLEAN
  BY ChannelAssumption DEF TypeOK
<1>1. IsFiniteSet(G)
  BY GroupsAssumption, FS_Subset
<1>2. /\ Cardinality(G) \in Nat /\ Len(Listed(G)) = Cardinality(G)
      /\ Listed(G) \in Seq(Group)
      /\ \A x \in G : \E i \in DOMAIN Listed(G) : Listed(G)[i] = x
  <2>1. Listed(G) \in Seq(G) /\ Seq(G) \subseteq Seq(Group)
    BY <1>1, ListedFacts, WiderSeq
  <2>2. DOMAIN Listed(G) = 1..Cardinality(G)
    BY <1>1, ListedFacts
  <2> QED BY <1>1, <2>1, <2>2, ListedFacts
<1>3. /\ all \in Seq(Group) /\ Len(all) = Len(queue) + Cardinality(G) /\ Len(queue) \in Nat
      /\ \A g \in Group : g \in G \/ (\E i \in DOMAIN queue : queue[i] = g) =>
           \E i \in DOMAIN all : all[i] = g
  <2> DEFINE r == Listed(G)
  <2>1. /\ all \in Seq(Group) /\ Len(all) = Len(queue) + Len(r)
        /\ Len(queue) \in Nat /\ Len(r) \in Nat
        /\ DOMAIN queue = 1..Len(queue) /\ DOMAIN r = 1..Len(r)
        /\ DOMAIN all = 1..(Len(queue) + Len(r))
        /\ \A i \in DOMAIN queue : all[i] = queue[i]
        /\ \A i \in DOMAIN r : all[Len(queue) + i] = r[i]
    <3>1. r \in Seq(Group) /\ all = queue \o r
      BY <1>2
    <3> HIDE DEF r, all
    <3> QED BY <1>0, <3>1, ConcatFacts
  <2>2. ASSUME NEW i \in DOMAIN queue PROVE i \in DOMAIN all
    BY <2>1, <2>2
  <2>3. ASSUME NEW i \in DOMAIN r PROVE Len(queue) + i \in DOMAIN all
    BY <2>1, <2>3
  <2>4. ASSUME NEW g \in G PROVE \E i \in DOMAIN all : all[i] = g
    <3>1. PICK i \in DOMAIN r : r[i] = g
      BY <1>2
    <3> QED BY <2>1, <2>3, <3>1
  <2> QED BY <1>2, <2>1, <2>2, <2>4, Zenon
<1> HIDE DEF all
<1>4. CASE session.phase \in {"hello", "over"}
  BY <1>0, <1>4 DEF Enqueue
<1>5. CASE session.phase \notin {"hello", "over"} /\ Overflows(G)
  <2>1. queue' = SubSeq(all, Len(all) - ChannelCap + 1, Len(all)) /\ overrun' = TRUE
    BY <1>0, <1>5, Zenon DEF Enqueue, all
  <2>2. Len(all) - ChannelCap + 1 \in 1..Len(all) + 1 /\ Len(all) \in Nat
        /\ Len(all) \in 1..Len(all)
    BY <1>0, <1>2, <1>3, <1>5 DEF Overflows
  <2>3. queue' \in Seq(Group) /\ Len(queue') <= ChannelCap
    BY <1>0, <1>3, <2>1, <2>2
  <2> QED BY <2>1, <2>3
<1>6. CASE session.phase \notin {"hello", "over"} /\ ~Overflows(G)
  <2>1. queue' = all /\ overrun' = overrun
    BY <1>0, <1>6 DEF Enqueue, all
  <2>2. Len(all) <= ChannelCap
    BY <1>0, <1>2, <1>3, <1>6 DEF Overflows
  <2> QED BY <1>0, <1>3, <2>1, <2>2
<1> QED BY <1>4, <1>5, <1>6

\* A mutation of the node.
LEMMA MutateKeepsType == ASSUME TypeInv, Mutate PROVE TypeInv'
<1>1. PICK G \in SUBSET Group : Mutation(G) /\ Enqueue(G)
  BY DEF Mutate
<1>2. UpstreamType' /\ Bounds'
  BY <1>1, MutationKeepsType DEF TypeInv, TypeOK
<1>3. queue' \in Seq(Group) /\ Len(queue') <= ChannelCap /\ overrun' \in BOOLEAN
  BY <1>1, EnqueueFacts DEF TypeInv
<1>4. UNCHANGED <<session, stream, engine, stash, manifest, cur, need, fetched,
                  retried, mirror, faults>> /\ lost' \in SUBSET Group
  BY Zenon DEF Mutate, engineVars, Unreadable, TypeInv, TypeOK
<1>5. TypeOK'
  BY <1>2, <1>3, <1>4, Zenon DEF TypeInv, TypeOK
<1>6. Stages'
  BY <1>4, Zenon DEF TypeInv, Stages
<1> QED BY <1>2, <1>4, <1>5, <1>6 DEF TypeInv

\* The server's session task.
LEMMA SessionKeepsType == ASSUME TypeInv, SessionStep PROVE TypeInv'
<1>0. /\ session \in Session /\ stream \in Seq(Message) /\ queue \in Seq(Group)
      /\ ChannelCap \in Nat /\ TypeOK /\ Bounds /\ Stages /\ stash \in Seq(State)
  BY ChannelAssumption, Zenon DEF TypeInv, TypeOK
<1>1. UNCHANGED <<upstreamVars, engineVars, mirror, faults, lost>>
  BY DEF SessionStep, Subscribe, ResolveScope, SendSnapshot, SendManifestDone,
         RecvEvent, WindowElapses, Emit
<1>2. UpstreamType' /\ Bounds'
  BY <1>0, <1>1, Zenon DEF upstreamVars, TypeOK, UpstreamType, Bounds
<1>3. ASSUME session' \in Session, stream' \in Seq(Message), queue' \in Seq(Group),
             Len(queue') <= ChannelCap, overrun' \in BOOLEAN, Stages'
      PROVE  TypeInv'
  BY <1>0, <1>1, <1>2, <1>3, Zenon DEF engineVars, TypeInv, TypeOK
<1>4. Scope \subseteq Group
  BY <1>0 DEF TypeOK, UpstreamType, Scope
<1>5. CASE Subscribe
  <2>1. session' = Fresh("scope") /\ queue' = <<>> /\ overrun' = FALSE /\ stream' = stream
        /\ session.phase = "hello"
    BY <1>5 DEF Subscribe
  <2>2. session' \in Session /\ session'.phase = "scope" /\ session'.batch = {}
        /\ session'.lagged = FALSE
    BY <2>1, Zenon DEF Fresh, Session, SessionPhase
  <2>3. queue' \in Seq(Group) /\ Len(queue') <= ChannelCap
    BY <1>0, <2>1
  <2>4. Stages'
    BY <1>0, <1>1, <2>1, <2>2, Zenon DEF Stages, engineVars
  <2> QED BY <1>0, <1>3, <2>1, <2>2, <2>3, <2>4, Zenon
<1>6. CASE ResolveScope
  <2>0. queue' = queue /\ overrun' = overrun /\ session.phase = "scope"
    BY <1>6 DEF ResolveScope
  <2>1. CASE registered
    <3>1. session' = [session EXCEPT !.phase = "manifest", !.todo = Scope, !.cached = Scope]
          /\ stream' = stream
      BY <1>6, <2>1 DEF ResolveScope
    <3>2. session' \in Session /\ session'.phase = "manifest"
          /\ session'.batch = session.batch /\ session'.lagged = session.lagged
      BY <1>0, <1>4, <3>1, Zenon DEF Session, SessionPhase
    <3>3. Stages'
      BY <1>0, <1>1, <2>0, <3>1, <3>2, SMTT(20) DEF Stages, engineVars
    <3> QED BY <1>0, <1>3, <2>0, <3>1, <3>2, <3>3 DEF TypeOK
  <2>2. CASE ~registered
    <3>1. session' = Fresh("over") /\ stream' = Append(stream, [type |-> "SyncDenied"])
      BY <1>6, <2>2 DEF ResolveScope, Send
    <3>2. session' \in Session /\ session'.phase = "over"
          /\ session'.batch = {} /\ session'.lagged = FALSE
      BY <3>1 DEF Fresh, Session, SessionPhase
    <3>3. stream' \in Seq(Message)
      BY <1>0, <3>1, AppendFacts DEF Message
    <3>4. Stages'
      BY <1>0, <1>1, <2>0, <3>1, <3>2, Zenon DEF Stages, engineVars
    <3> QED BY <1>0, <1>3, <2>0, <3>1, <3>2, <3>3, <3>4, Zenon DEF TypeOK
  <2> QED BY <2>1, <2>2
<1>7. CASE SendSnapshot
  <2> DEFINE g == First(session.todo)
  <2>1. g \in session.todo /\ session.todo \subseteq Group
    BY <1>0, <1>7, FirstIn DEF SendSnapshot, Session
  <2>2. stream' = Append(stream, [type |-> "Group", state |-> Snapshot(g)])
        /\ session' = [session EXCEPT !.todo = session.todo \ {g}]
        /\ queue' = queue /\ overrun' = overrun /\ session.phase = "manifest"
    BY <1>7 DEF SendSnapshot, Send
  <2>3. stream' \in Seq(Message)
    <3>1. Snapshot(g) \in State
      BY <1>0, <2>1, SnapshotType DEF TypeOK
    <3>2. [type |-> "Group", state |-> Snapshot(g)] \in Message
      BY <3>1, Zenon DEF Message
    <3> QED BY <1>0, <2>2, <3>2, AppendFacts
  <2>4. session' \in Session /\ session'.phase = session.phase
        /\ session'.batch = session.batch /\ session'.lagged = session.lagged
    BY <1>0, <2>1, <2>2, Zenon DEF Session
  <2>5. Stages'
    BY <1>0, <1>1, <2>2, <2>4 DEF Stages, engineVars
  <2> QED BY <1>0, <1>3, <2>2, <2>3, <2>4, <2>5 DEF TypeOK
<1>8. CASE SendManifestDone
  <2>1. stream' = Append(stream, [type |-> "ManifestDone"])
        /\ session' = [session EXCEPT !.phase = "live"]
        /\ queue' = queue /\ overrun' = overrun /\ session.phase = "manifest"
    BY <1>8 DEF SendManifestDone, Send
  <2>2. stream' \in Seq(Message)
    BY <1>0, <2>1, AppendFacts DEF Message
  <2>3. session' \in Session /\ session'.phase = "live"
        /\ session'.batch = session.batch /\ session'.lagged = session.lagged
    BY <1>0, <2>1, Zenon DEF Session, SessionPhase
  <2>4. Stages'
    BY <1>0, <1>1, <2>1, <2>3 DEF Stages, engineVars
  <2> QED BY <1>0, <1>3, <2>1, <2>2, <2>3, <2>4 DEF TypeOK
<1>9. CASE RecvEvent
  <2>0. stream' = stream
    BY <1>9 DEF RecvEvent
  <2>1. CASE overrun
    <3>1. overrun' = FALSE /\ queue' = queue
          /\ session' = [session EXCEPT !.phase = "debounce", !.lagged = TRUE]
      BY <1>9, <2>1 DEF RecvEvent
    <3>2. session' \in Session /\ session'.phase = "debounce"
      BY <1>0, <3>1, Zenon DEF Session, SessionPhase
    <3>3. Stages'
      BY <1>0, <1>1, <2>0, <3>2 DEF Stages, engineVars
    <3> QED BY <1>0, <1>3, <2>0, <3>1, <3>2, <3>3, Zenon DEF TypeOK
  <2>2. CASE ~overrun
    <3>1. overrun' = overrun /\ queue' = Tail(queue) /\ queue # <<>>
          /\ session' = [session EXCEPT !.phase = "debounce",
                                        !.batch = session.batch \cup {Head(queue)}]
      BY <1>9, <2>2 DEF RecvEvent
    <3>2. Head(queue) \in Group /\ queue' \in Seq(Group) /\ Len(queue') = Len(queue) - 1
          /\ Len(queue) \in Nat
      BY <1>0, <3>1, HeadTail, SeqFacts
    <3>3. session' \in Session /\ session'.phase = "debounce"
      BY <1>0, <3>1, <3>2, Zenon DEF Session, SessionPhase
    <3>4. Stages'
      BY <1>0, <1>1, <2>0, <3>3 DEF Stages, engineVars
    <3> QED BY <1>0, <1>3, <2>0, <3>1, <3>2, <3>3, <3>4 DEF TypeOK
  <2> QED BY <2>1, <2>2
<1>10. CASE WindowElapses
  <2>1. session' = [session EXCEPT !.phase = "emit"] /\ UNCHANGED <<queue, overrun, stream>>
    BY <1>10 DEF WindowElapses
  <2>2. session' \in Session /\ session'.phase = "emit"
    BY <1>0, <2>1, Zenon DEF Session, SessionPhase
  <2>3. Stages'
    BY <1>0, <1>1, <2>1, <2>2 DEF Stages, engineVars
  <2> QED BY <1>0, <1>3, <2>1, <2>2, <2>3 DEF TypeOK
<1>11. CASE Emit
  <2>1. session' = [Fresh("live") EXCEPT !.cached = Scope] /\ UNCHANGED <<queue, overrun>>
    BY <1>11 DEF Emit
  <2>2. session' \in Session /\ session'.phase = "live" /\ session'.batch = {}
        /\ session'.lagged = FALSE
    BY <1>4, <2>1, Zenon DEF Fresh, Session, SessionPhase
  <2>3. stream' \in Seq(Message)
    <3>1. CASE ScopeMoved
      <4>1. stream' = Append(stream, [type |-> "ScopeChanged"])
        BY <1>11, <3>1 DEF Emit, Send
      <4>2. [type |-> "ScopeChanged"] \in Message
        BY DEF Message
      <4> QED BY <1>0, <4>1, <4>2, AppendFacts
    <3>2. CASE ~ScopeMoved
      <4> DEFINE X == session.batch \cap session.cached
                 msgs == [i \in 1..Cardinality(X) |->
                            [type |-> "Changed", group |-> Listed(X)[i]]]
      <4>1. stream' = stream \o msgs
        BY <1>11, <3>2, Zenon DEF Emit
      <4>2. X \subseteq Group /\ IsFiniteSet(X)
        BY <1>0, GroupsAssumption, FS_Subset DEF Session
      <4>3. Cardinality(X) \in Nat /\ Listed(X) \in [1..Cardinality(X) -> X]
        BY <4>2, ListedFacts, Zenon
      <4>4. msgs \in [1..Cardinality(X) -> Message]
        BY <4>2, <4>3, Zenon DEF Message
      <4>5. msgs \in Seq(Message)
        <5> DEFINE n == Cardinality(X)
        <5>1. n \in Nat /\ msgs \in [1..n -> Message]
          BY <4>3, <4>4, Zenon
        <5> HIDE DEF msgs, n
        <5> QED BY <5>1, FunIsSeq
      <4> QED BY <1>0, <4>1, <4>5, ConcatFacts, Zenon
    <3> QED BY <3>1, <3>2
  <2>4. Stages'
    BY <1>0, <1>1, <1>11, <2>2 DEF Stages, engineVars, Emit
  <2> QED BY <1>0, <1>3, <2>1, <2>2, <2>3, <2>4 DEF TypeOK
<1> QED BY <1>5, <1>6, <1>7, <1>8, <1>9, <1>10, <1>11 DEF SessionStep

\* Where the engine goes when it is done with a group.
LEMMA NextGroupFacts ==
  ASSUME NextGroup
  PROVE  /\ engine' = IF manifest = None THEN "live" ELSE "resync"
         /\ cur' = None /\ need' = {} /\ fetched' = NothingFetched /\ retried' = FALSE
         /\ fetched' \in [Secret -> Entry \cup {None}]
BY DEF NextGroup, Between, NothingFetched

\* What it has in hand when it takes up a group.
LEMMA BeginApplyFacts ==
  ASSUME NEW state \in State, NEW again \in BOOLEAN, BeginApply(state, again)
  PROVE  /\ engine' \in {"apply", "fetch"} /\ (engine' = "apply" => need' = {})
         /\ cur' = state /\ cur' # None
         /\ need' = NeedingFetch(state) /\ need' \subseteq Secret
         /\ fetched' = NothingFetched /\ fetched' \in [Secret -> Entry \cup {None}]
         /\ retried' \in BOOLEAN
BY NoneIsNoState DEF BeginApply, NothingFetched, NeedingFetch

\* The two outcomes of the FetchGroup stream.
LEMMA FetchGroupFacts ==
  ASSUME UpstreamType, mirror \in [Group -> Mirrored \cup {None}],
         NEW g \in Group, NEW again \in BOOLEAN, FetchGroup(g, again)
  PROVE  /\ \/ /\ ReadAuthorized(g) /\ mirror' = mirror
               /\ engine' \in {"apply", "fetch"} /\ (engine' = "apply" => need' = {})
               /\ cur' = Snapshot(g) /\ cur' # None /\ need' = NeedingFetch(Snapshot(g))
            \/ /\ ~ReadAuthorized(g) /\ mirror' = [mirror EXCEPT ![g] = None]
               /\ engine' = IF manifest = None THEN "live" ELSE "resync"
               /\ cur' = None /\ need' = {}
         /\ fetched' = NothingFetched /\ fetched' \in [Secret -> Entry \cup {None}]
         /\ cur' \in State \cup {None} /\ need' \subseteq Secret /\ retried' \in BOOLEAN
         /\ mirror' \in [Group -> Mirrored \cup {None}]
<1>1. Snapshot(g) \in State
  BY SnapshotType
<1>2. CASE ReadAuthorized(g)
  <2>1. BeginApply(Snapshot(g), again) /\ mirror' = mirror
    BY <1>2 DEF FetchGroup
  <2> QED BY <1>1, <1>2, <2>1, BeginApplyFacts
<1>3. CASE ~ReadAuthorized(g)
  <2>1. NextGroup /\ mirror' = [mirror EXCEPT ![g] = None]
    BY <1>3 DEF FetchGroup, DropGroup
  <2> QED BY <1>3, <2>1, NextGroupFacts
<1> QED BY <1>2, <1>3, Zenon

\* A new session stream and the loss of a connection leave the node alone and
\* put everything of the session back to its start.
LEMMA HelloKeepsType ==
  ASSUME TypeInv, UNCHANGED <<upstreamVars, mirror>>, faults' \in 0..MaxFaults,
         Hello \/ (Disconnected /\ lost' = lost)
  PROVE  TypeInv'
<1>0. TypeOK /\ Bounds /\ ChannelCap \in Nat
  BY ChannelAssumption DEF TypeInv
<1>1. UpstreamType' /\ Bounds'
  BY <1>0, Zenon DEF upstreamVars, TypeOK, UpstreamType, Bounds
<1>2. /\ cur' = None /\ need' = {} /\ fetched' \in [Secret -> Entry \cup {None}]
      /\ retried' = FALSE /\ stash' = <<>> /\ stream' = <<>> /\ queue' = <<>>
      /\ overrun' = FALSE /\ lost' \in SUBSET Group
  BY <1>0, Zenon DEF Hello, Disconnected, Between, NothingFetched, Unreadable, TypeOK
<1>3. \/ engine' = "manifest" /\ manifest' = {} /\ session' = Fresh("hello")
      \/ engine' = "idle" /\ manifest' = None /\ session' = Fresh("over")
  BY DEF Hello, Disconnected, Between
<1>4. session' \in Session /\ session'.batch = {} /\ session'.lagged = FALSE
      /\ (session'.phase = "hello" \/ session'.phase = "over")
      /\ (session'.phase = "hello" => engine' = "manifest")
  <2>1. CASE engine' = "manifest" /\ session' = Fresh("hello")
    BY <2>1, Zenon DEF Fresh, Session, SessionPhase
  <2>2. CASE session' = Fresh("over")
    BY <2>2, Zenon DEF Fresh, Session, SessionPhase
  <2> QED BY <1>3, <2>1, <2>2, ZenonT(30)
<1>5. <<>> \in Seq(Group) /\ <<>> \in Seq(Message) /\ <<>> \in Seq(State) /\ Len(<<>>) = 0
  OBVIOUS
<1>6. Stages'
  <2>1. {} # None
    BY GroupsAssumption
  <2> QED BY <1>2, <1>3, <1>4, <2>1 DEF Stages
<1>7. TypeOK'
  <2>1. queue' \in Seq(Group) /\ Len(queue') <= ChannelCap
    BY <1>0, <1>2, <1>5
  <2>2. \A i \in DOMAIN stash' : stash'[i] \in State
    BY <1>2, <1>5, SeqFacts
  <2>3. overrun' \in BOOLEAN /\ retried' \in BOOLEAN
    BY <1>2, Zenon
  <2>4. engine' \in Engine /\ manifest' \in (SUBSET Group) \cup {None}
    BY <1>3 DEF Engine
  <2> QED BY <1>0, <1>1, <1>2, <1>4, <2>1, <2>2, <2>3, <2>4, ZenonT(30) DEF TypeOK
<1> QED BY <1>1, <1>2, <1>5, <1>6, <1>7 DEF TypeInv

\* What an engine step within a session has to show for the types.
LEMMA EngineFrame ==
  ASSUME TypeInv, UNCHANGED <<upstreamVars, sessionVars, faults, lost>>,
         session.phase \notin {"hello", "scope"},
         stream' \in Seq(Message), stash' \in Seq(State), engine' \in Engine,
         manifest' \in (SUBSET Group) \cup {None}, cur' \in State \cup {None},
         need' \in SUBSET Secret, fetched' \in [Secret -> Entry \cup {None}],
         retried' \in BOOLEAN, mirror' \in [Group -> Mirrored \cup {None}],
         engine' \in {"manifest", "resync", "sweep"} => manifest' # None,
         engine' = "live" => manifest' = None,
         manifest' = None \/ engine' = "sweep" => stash' = <<>>,
         engine' \in {"fetch", "reading", "apply", "refetch"} <=> cur' # None
  PROVE  TypeInv'
<1>1. UNCHANGED <<session, queue, overrun, faults, lost>>
  BY DEF sessionVars
<1>2. UpstreamType' /\ Bounds'
  BY Zenon DEF upstreamVars, TypeInv, TypeOK, UpstreamType, Bounds
<1>3. \A i \in DOMAIN stash' : stash'[i] \in State
  BY SeqFacts, SMTT(20)
<1>4. TypeOK'
  BY <1>1, <1>2, <1>3, Zenon DEF TypeInv, TypeOK
<1>5. Stages'
  BY <1>1, Zenon DEF TypeInv, Stages
<1> QED BY <1>2, <1>4, <1>5 DEF TypeInv

\* The engine's steps.
LEMMA EngineKeepsType == ASSUME TypeInv, EngineStep \/ ConnectionLost PROVE TypeInv'
<1>0. /\ TypeOK /\ Stages /\ UpstreamType
      /\ stream \in Seq(Message) /\ stash \in Seq(State) /\ engine \in Engine
      /\ manifest \in (SUBSET Group) \cup {None} /\ cur \in State \cup {None}
      /\ need \in SUBSET Secret /\ fetched \in [Secret -> Entry \cup {None}]
      /\ retried \in BOOLEAN /\ mirror \in [Group -> Mirrored \cup {None}]
      /\ faults \in 0..MaxFaults /\ MaxFaults \in Nat
  BY ChannelAssumption, Zenon DEF TypeInv, TypeOK
<1>1. CASE Connect \/ RecvScopeChanged \/ RecvDenied \/ ConnectionLost
  <2>1. Hello \/ (Disconnected /\ lost' = lost)
    BY <1>1 DEF Connect, RecvScopeChanged, RecvDenied, ConnectionLost
  <2>2. UNCHANGED <<upstreamVars, mirror>>
    BY <1>1 DEF Connect, RecvScopeChanged, RecvDenied, ConnectionLost
  <2>3. faults' \in 0..MaxFaults
    BY <1>0, <1>1 DEF Connect, RecvScopeChanged, RecvDenied, ConnectionLost
  <2> QED BY <2>1, <2>2, <2>3, HelloKeepsType
<1>2. ASSUME stream # <<>> \/ engine \notin {"idle", "manifest"}
      PROVE  session.phase \notin {"hello", "scope"}
  BY <1>0, <1>2, Zenon DEF Stages
<1>3. CASE RecvGroup
  <2>1. Head(stream) \in Message /\ Tail(stream) \in Seq(Message) /\ stream # <<>>
    BY <1>0, <1>3, HeadTail, Zenon DEF RecvGroup
  <2>2. Head(stream).state \in State /\ Head(stream).state.name \in Group
    BY <1>3, <2>1, MessageFacts, Zenon DEF RecvGroup
  <2>3. stash' \in Seq(State)
    BY <1>0, <1>3, <2>2, AppendFacts, Zenon DEF RecvGroup
  <2>4. manifest \in SUBSET Group /\ manifest' = manifest \cup {Head(stream).state.name}
        /\ engine = "manifest"
    BY <1>0, <1>3, Zenon DEF RecvGroup, Stages
  <2>5. manifest' \in SUBSET Group /\ manifest' # None
    BY <2>2, <2>4, GroupsAssumption
  <2>6. UNCHANGED <<upstreamVars, sessionVars, faults, lost, engine, cur, need, fetched,
                    retried, mirror>> /\ stream' = Tail(stream)
    BY <1>3 DEF RecvGroup
  <2>7. cur = None
    BY <1>0, <2>4, Zenon DEF Stages
  <2> QED BY <1>0, <1>2, <2>1, <2>3, <2>4, <2>5, <2>6, <2>7, EngineFrame, ZenonT(30)
<1>4. CASE RecvManifestDone
  <2>1. Tail(stream) \in Seq(Message) /\ stream # <<>>
    BY <1>0, <1>4, HeadTail DEF RecvManifestDone
  <2>2. UNCHANGED <<upstreamVars, sessionVars, faults, lost, stash, manifest, cur, need,
                    fetched, retried, mirror>>
        /\ stream' = Tail(stream) /\ engine = "manifest" /\ engine' = "resync"
    BY <1>4 DEF RecvManifestDone
  <2>3. manifest # None /\ cur = None /\ engine' \in Engine
    BY <1>0, <2>2, Zenon DEF Stages, Engine
  <2> QED BY <1>0, <1>2, <2>1, <2>2, <2>3, EngineFrame, ZenonT(30)
<1>5. CASE ResyncGroup
  <2>1. Head(stash) \in State /\ Tail(stash) \in Seq(State)
    BY <1>0, <1>5, HeadTail, Zenon DEF ResyncGroup
  <2>2. UNCHANGED <<upstreamVars, sessionVars, faults, lost, stream, manifest, mirror>>
        /\ stash' = Tail(stash) /\ engine = "resync" /\ BeginApply(Head(stash), FALSE)
    BY <1>5, Zenon DEF ResyncGroup
  <2>3. /\ engine' \in {"apply", "fetch"} /\ cur' = Head(stash) /\ cur' # None
        /\ need' \subseteq Secret /\ fetched' \in [Secret -> Entry \cup {None}]
        /\ retried' \in BOOLEAN
    BY <2>1, <2>2, BeginApplyFacts, ZenonT(30)
  <2>4. manifest # None /\ engine' \in Engine
    BY <1>0, <2>2, <2>3, ZenonT(30) DEF Stages, Engine
  <2> QED BY <1>0, <1>2, <2>1, <2>2, <2>3, <2>4, EngineFrame, ZenonT(30)
<1>6. CASE BeginSweep
  <2>1. UNCHANGED <<upstreamVars, sessionVars, faults, lost, stream, stash, manifest, cur,
                    need, fetched, retried, mirror>>
        /\ engine = "resync" /\ engine' = "sweep" /\ stash = <<>>
    BY <1>6 DEF BeginSweep
  <2>2. manifest # None /\ cur = None /\ engine' \in Engine
    BY <1>0, <2>1, Zenon DEF Stages, Engine
  <2> QED BY <1>0, <1>2, <2>1, <2>2, EngineFrame, ZenonT(30)
<1>7. CASE DropStale
  <2>1. UNCHANGED <<upstreamVars, sessionVars, faults, lost, stream, engine, stash,
                    manifest, cur, need, fetched, retried>>
        /\ engine = "sweep" /\ mirror' \in [Group -> Mirrored \cup {None}]
    BY <1>0, <1>7, Zenon DEF DropStale, DropGroup, engineVars
  <2> QED BY <1>0, <1>2, <2>1, EngineFrame, ZenonT(30) DEF Stages
<1>8. CASE EndResync
  <2>1. UNCHANGED <<upstreamVars, sessionVars, faults, lost, stream, stash, cur, need,
                    fetched, retried, mirror>>
        /\ engine = "sweep" /\ engine' = "live" /\ manifest' = None
    BY <1>8 DEF EndResync
  <2>2. stash = <<>> /\ cur = None /\ engine' \in Engine
    BY <1>0, <2>1, Zenon DEF Stages, Engine
  <2> QED BY <1>0, <1>2, <2>1, <2>2, EngineFrame, ZenonT(30)
<1>9. ASSUME NEW g \in Group, NEW again \in BOOLEAN, FetchGroup(g, again),
             UNCHANGED <<upstreamVars, sessionVars, stash, manifest, faults, lost>>,
             stream' \in Seq(Message), session.phase \notin {"hello", "scope"},
             manifest = None => stash = <<>>
      PROVE  TypeInv'
  <2>1. /\ fetched' \in [Secret -> Entry \cup {None}]
        /\ cur' \in State \cup {None} /\ need' \in SUBSET Secret /\ retried' \in BOOLEAN
        /\ mirror' \in [Group -> Mirrored \cup {None}]
        /\ \/ engine' \in {"apply", "fetch"} /\ cur' # None
           \/ engine' = (IF manifest = None THEN "live" ELSE "resync") /\ cur' = None
    BY <1>0, <1>9, FetchGroupFacts, Zenon
  <2>2. engine' \in Engine
    BY <2>1 DEF Engine
  <2> QED BY <1>0, <1>9, <2>1, <2>2, EngineFrame, ZenonT(30)
<1>10. CASE RecvChanged
  <2>1. Head(stream) \in Message /\ Tail(stream) \in Seq(Message) /\ stream # <<>>
    BY <1>0, <1>10, HeadTail, Zenon DEF RecvChanged
  <2>2. Head(stream).group \in Group
    BY <1>10, <2>1, MessageFacts, Zenon DEF RecvChanged
  <2>3. FetchGroup(Head(stream).group, FALSE) /\ stream' = Tail(stream)
        /\ UNCHANGED <<upstreamVars, sessionVars, stash, manifest, faults, lost>>
    BY <1>10, Zenon DEF RecvChanged
  <2>4. manifest = None => stash = <<>>
    BY <1>0, Zenon DEF Stages
  <2> QED BY <1>2, <1>9, <2>1, <2>2, <2>3, <2>4, ZenonT(30)
<1>11. CASE Refetch
  <2>1. FetchGroup(cur.name, TRUE) /\ engine = "refetch"
        /\ UNCHANGED <<upstreamVars, sessionVars, stream, stash, manifest, faults, lost>>
    BY <1>11, Zenon DEF Refetch
  <2>2. cur.name \in Group /\ (manifest = None => stash = <<>>)
    BY <1>0, <2>1, Zenon DEF Stages, State
  <2> QED BY <1>0, <1>2, <1>9, <2>1, <2>2, Zenon
<1>12. CASE FetchSecrets
  <2>1. engine = "fetch" /\ cur # None
        /\ UNCHANGED <<upstreamVars, sessionVars, stream, stash, manifest, faults, lost>>
    BY <1>0, <1>12, Zenon DEF FetchSecrets, Stages
  <2>2. CASE engine' = "reading" /\ UNCHANGED <<cur, need, fetched, retried, mirror>>
    <3>1. engine' \in Engine
      BY <2>2 DEF Engine
    <3> QED BY <1>0, <1>2, <2>1, <2>2, <3>1, EngineFrame, ZenonT(30) DEF Stages
  <2>3. CASE DropGroup(cur.name) /\ NextGroup
    <3>1. mirror' \in [Group -> Mirrored \cup {None}]
      BY <1>0, <2>3, Zenon DEF DropGroup
    <3>2. engine' = (IF manifest = None THEN "live" ELSE "resync") /\ cur' = None
          /\ need' = {} /\ retried' = FALSE /\ fetched' \in [Secret -> Entry \cup {None}]
      BY <2>3, NextGroupFacts
    <3>3. engine' \in Engine /\ retried' \in BOOLEAN
      BY <3>2, ZenonT(30) DEF Engine
    <3> QED BY <1>0, <1>2, <2>1, <3>1, <3>2, <3>3, EngineFrame, ZenonT(30) DEF Stages
  <2> QED BY <1>12, <2>2, <2>3 DEF FetchSecrets
<1>13. CASE ReadSecretData
  <2>1. engine = "reading" /\ need # {} /\ need' \in SUBSET Secret
        /\ fetched' = [fetched EXCEPT ![First(need)] = secret[cur.name][First(need)]]
        /\ UNCHANGED <<upstreamVars, sessionVars, stream, engine, stash, manifest, cur,
                       retried, mirror, faults, lost>>
    BY <1>0, <1>13, Zenon DEF ReadSecretData
  <2>2. First(need) \in Secret /\ cur \in State
    BY <1>0, <2>1, FirstIn, Zenon DEF Stages
  <2>3. secret[cur.name][First(need)] \in Entry \cup {None}
    BY <1>0, <2>2 DEF State, UpstreamType
  <2>4. fetched' \in [Secret -> Entry \cup {None}]
    BY <1>0, <2>1, <2>3, ZenonT(30)
  <2> QED BY <1>0, <1>2, <2>1, <2>4, EngineFrame, ZenonT(30) DEF Stages
<1>14. CASE FetchDone
  <2>1. engine = "reading" /\ engine' = "apply"
        /\ UNCHANGED <<upstreamVars, sessionVars, stream, stash, manifest, cur, need,
                       fetched, retried, mirror, faults, lost>>
    BY <1>14, Zenon DEF FetchDone
  <2>2. engine' \in Engine
    BY <2>1 DEF Engine
  <2> QED BY <1>0, <1>2, <2>1, <2>2, EngineFrame, Zenon DEF Stages
<1>15. CASE Apply
  <2>1. engine = "apply" /\ cur \in State /\ cur # None
        /\ UNCHANGED <<upstreamVars, sessionVars, stream, stash, manifest, faults, lost>>
    BY <1>0, <1>15, Zenon DEF Apply, Stages
  <2>2. mirror' \in [Group -> Mirrored \cup {None}]
    <3> DEFINE new == [s \in Secret |-> IF s \in Withheld THEN None ELSE fetched[s]]
               local(s) == IF mirror[cur.name] = None THEN None
                           ELSE mirror[cur.name].secrets[s]
               kept == [s \in Secret |->
                          CASE cur.secrets[s] = None -> None
                            [] cur.secrets[s] # None /\ new[s] # None -> new[s]
                            [] OTHER -> local(s)]
    <3>1. mirror' = [mirror EXCEPT ![cur.name] =
                       [deks |-> cur.deks, acl |-> cur.acl, secrets |-> kept]]
      BY <1>15 DEF Apply, ApplyGroupSync
    <3>2. new \in [Secret -> Entry \cup {None}]
      BY <1>0, Zenon
    <3>3. \A s \in Secret : local(s) \in Entry \cup {None}
      BY <1>0, <2>1, Zenon DEF State, Mirrored
    <3> HIDE DEF new, local
    <3>4. kept \in [Secret -> Entry \cup {None}]
      BY <3>2, <3>3, SMTT(20)
    <3> HIDE DEF kept
    <3>5. [deks |-> cur.deks, acl |-> cur.acl, secrets |-> kept] \in Mirrored
      BY <2>1, <3>4, Zenon DEF State, Mirrored
    <3> QED BY <1>0, <3>1, <3>5, Zenon
  <2>3. CASE engine' = "refetch" /\ UNCHANGED <<cur, need, fetched, retried>>
    <3>1. engine' \in Engine
      BY <2>3, SMTT(20) DEF Engine
    <3> QED BY <1>0, <1>2, <2>1, <2>2, <2>3, <3>1, EngineFrame, Zenon DEF Stages
  <2>4. CASE NextGroup
    <3>1. engine' = (IF manifest = None THEN "live" ELSE "resync") /\ cur' = None
          /\ need' = {} /\ retried' = FALSE /\ fetched' \in [Secret -> Entry \cup {None}]
      BY <2>4, NextGroupFacts
    <3>2. engine' \in Engine /\ retried' \in BOOLEAN
      BY <3>1, Zenon DEF Engine
    <3> QED BY <1>0, <1>2, <2>1, <2>2, <3>1, <3>2, EngineFrame, Zenon DEF Stages
  <2> QED BY <1>15, <2>3, <2>4, Zenon DEF Apply
<1> QED BY <1>1, <1>3, <1>4, <1>5, <1>6, <1>7, <1>8, <1>10, <1>11, <1>12, <1>13, SMTT(20),
           <1>14, <1>15 DEF EngineStep

\* TypeInv holds of the node and the replica before they first talk.
LEMMA TypeInitial == Init => TypeInv
<1> SUFFICES ASSUME Init PROVE TypeInv
  OBVIOUS
<1>0. MaxClock \in Nat /\ MaxFaults \in Nat /\ ChannelCap \in Nat
  BY ClockBound, ChannelAssumption
<1>1. /\ registered = TRUE /\ reads \in SUBSET Group /\ acl \in [Group -> Acl] /\ clock = 0
      /\ dek = [g \in Group |-> 1]
      /\ secret = [g \in Group |-> [s \in Secret |-> [version |-> 1, dek |-> 1, nonce |-> 0]]]
  BY Zenon DEF Init, UpstreamInit
<1>2. [version |-> 1, dek |-> 1, nonce |-> 0] \in Entry /\ 1 \in DekVersion /\ 0 \in Nonce
  BY <1>0 DEF Entry, DekVersion, Nonce
<1>3. UpstreamType
  BY <1>1, <1>2, SMTT(20) DEF UpstreamType
<1>4. Bounds
  BY <1>0, <1>1 DEF Bounds
<1>5. /\ session = Fresh("over") /\ queue = <<>> /\ overrun = FALSE /\ stream = <<>>
      /\ engine = "idle" /\ stash = <<>> /\ manifest = None /\ cur = None /\ need = {}
      /\ fetched = NothingFetched /\ retried = FALSE /\ mirror = [g \in Group |-> None]
      /\ faults = 0 /\ lost = {}
  BY DEF Init
<1>6. session \in Session /\ session.phase = "over" /\ session.batch = {}
      /\ session.lagged = FALSE
  BY <1>5, Zenon DEF Fresh, Session, SessionPhase
<1>7. <<>> \in Seq(Group) /\ <<>> \in Seq(Message) /\ <<>> \in Seq(State) /\ Len(<<>>) = 0
  OBVIOUS
<1>8. Stages
  BY <1>5, <1>6, Zenon DEF Stages
<1>9. TypeOK
  <2>1. queue \in Seq(Group) /\ Len(queue) <= ChannelCap
    BY <1>0, <1>5, <1>7
  <2>2. \A i \in DOMAIN stash : stash[i] \in State
    BY <1>5, <1>7, SeqFacts
  <2>3. overrun \in BOOLEAN /\ retried \in BOOLEAN
    BY <1>5, Zenon
  <2>4. fetched \in [Secret -> Entry \cup {None}]
    BY <1>5 DEF NothingFetched
  <2>5. engine \in Engine
    BY <1>5 DEF Engine
  <2> QED BY <1>0, <1>3, <1>5, <1>6, <2>1, <2>2, <2>3, <2>4, <2>5, SMTT(20) DEF TypeOK
<1> QED BY <1>3, <1>4, <1>5, <1>7, <1>8, <1>9 DEF TypeInv

\* TypeInv is inductive.
LEMMA TypeInductive == TypeInv /\ [Next]_vars => TypeInv'
<1>1. ASSUME TypeInv, UNCHANGED vars PROVE TypeInv'
  BY <1>1, ZenonT(30) DEF vars, upstreamVars, sessionVars, engineVars, TypeInv, TypeOK,
       UpstreamType, Bounds, Stages
<1> QED BY <1>1, MutateKeepsType, SessionKeepsType, EngineKeepsType, SMTT(20) DEF Next

\* Every variable of the sync protocol keeps its type: queues within the channel's
\* capacity, versions and nonces within the clock.
THEOREM ReplicationTypeCorrect == Spec => []TypeOK
<1>1. Spec => []TypeInv
  BY TypeInitial, TypeInductive, PTL DEF Spec
<1>2. TypeInv => TypeOK
  BY DEF TypeInv
<1> QED BY <1>1, <1>2, PTL

\* p has the elements of q where q has them, and those of r
Extended(p, q, r) ==
  /\ \A i \in DOMAIN q : /\ i \in DOMAIN p /\ p[i] = q[i]
                         /\ \A j \in 1..(i - 1) : j \in DOMAIN q
  /\ \A j \in DOMAIN r : \E i \in DOMAIN p : p[i] = r[j]
  /\ \A i \in DOMAIN p : i \in DOMAIN q \/ \E j \in DOMAIN r : p[i] = r[j]

\* The places of a concatenation are those of its parts.
LEMMA ConcatRange ==
  ASSUME NEW S, NEW q \in Seq(S), NEW r \in Seq(S)
  PROVE  Extended(q \o r, q, r)
<1> DEFINE p == q \o r
<1>1. /\ Len(p) = Len(q) + Len(r) /\ DOMAIN p = 1..Len(p) /\ Len(q) \in Nat /\ Len(r) \in Nat
      /\ DOMAIN q = 1..Len(q) /\ DOMAIN r = 1..Len(r)
  BY ConcatFacts
<1>2. \A i \in 1..Len(q) + Len(r) : p[i] = IF i <= Len(q) THEN q[i] ELSE r[i - Len(q)]
  OBVIOUS
<1> HIDE DEF p
<1>3. \A j \in DOMAIN r : \E i \in DOMAIN p : p[i] = r[j]
  <2> SUFFICES ASSUME NEW j \in DOMAIN r PROVE \E i \in DOMAIN p : p[i] = r[j]
    OBVIOUS
  <2>1. Len(q) + j \in 1..Len(q) + Len(r) /\ ~(Len(q) + j <= Len(q))
    BY <1>1
  <2>2. (Len(q) + j) - Len(q) = j
    BY <1>1
  <2>3. p[Len(q) + j] = r[j]
    BY <1>2, <2>1, <2>2
  <2> QED BY <1>1, <2>1, <2>3
<1>4. \A i \in DOMAIN p : i \in DOMAIN q \/ \E j \in DOMAIN r : p[i] = r[j]
  <2> SUFFICES ASSUME NEW i \in DOMAIN p, i \notin DOMAIN q
               PROVE  \E j \in DOMAIN r : p[i] = r[j]
    OBVIOUS
  <2>1. i - Len(q) \in DOMAIN r /\ ~(i <= Len(q)) /\ i \in 1..Len(q) + Len(r)
    BY <1>1, SMTT(20)
  <2> QED BY <1>2, <2>1
<1>5. \A i \in DOMAIN q : i \in DOMAIN p /\ p[i] = q[i] /\ \A j \in 1..(i - 1) : j \in DOMAIN q
  <2> SUFFICES ASSUME NEW i \in DOMAIN q
               PROVE  i \in DOMAIN p /\ p[i] = q[i] /\ \A j \in 1..(i - 1) : j \in DOMAIN q
    OBVIOUS
  <2>1. i \in 1..Len(q) + Len(r) /\ i <= Len(q)
    BY <1>1, SMTT(40)
  <2> QED BY <1>1, <1>2, <2>1, SMTT(40)
<1> QED BY <1>3, <1>4, <1>5, Zenon DEF Extended, p

\* The end of a debounce window whose events moved no scope: Changed for every
\* group of the batch among the replica's groups, and nothing else.
LEMMA EmitFacts ==
  ASSUME TypeInv, Emit, ~ScopeMoved
  PROVE  /\ \A i \in DOMAIN stream : /\ i \in DOMAIN stream' /\ stream'[i] = stream[i]
                                     /\ \A j \in 1..(i - 1) : j \in DOMAIN stream
         /\ \A i \in DOMAIN stream' : i \in DOMAIN stream \/ stream'[i].type = "Changed"
         /\ \A g \in session.batch \cap session.cached :
              \E i \in DOMAIN stream' : IsChanged(stream'[i], g)
         /\ \A i \in DOMAIN stream', g \in Group : IsChanged(stream'[i], g) =>
              \/ g \in session.batch \cap session.cached
              \/ i \in DOMAIN stream /\ IsChanged(stream[i], g)
<1> DEFINE B == session.batch \cap session.cached
           out == [i \in 1..Cardinality(B) |-> [type |-> "Changed", group |-> Listed(B)[i]]]
<1>1. stream' = stream \o out
  BY ZenonT(30) DEF Emit
<1>2. IsFiniteSet(B) /\ B \subseteq Group
  BY GroupsAssumption, FS_Subset DEF TypeInv, TypeOK, Session
<1> HIDE DEF B
<1>3. Cardinality(B) \in Nat /\ Listed(B) \in [1..Cardinality(B) -> B]
      /\ \A x \in B : \E i \in 1..Cardinality(B) : Listed(B)[i] = x
  BY <1>2, ListedFacts
<1>4. out \in [1..Cardinality(B) -> Message]
  BY <1>2, <1>3, Zenon DEF Message
<1>5. out \in Seq(Message) /\ DOMAIN out = 1..Cardinality(B)
  BY <1>3, <1>4, FunIsSeq, ZenonT(30)
<1>6. /\ \A i \in DOMAIN out : out[i].type = "Changed" /\ out[i].group \in B
      /\ \A g \in B : \E i \in DOMAIN out : out[i].type = "Changed" /\ out[i].group = g
  BY <1>3, <1>5, Zenon
<1> HIDE DEF out
<1>7. stream \in Seq(Message)
  BY DEF TypeInv
<1>8. /\ \A i \in DOMAIN stream : /\ i \in DOMAIN stream' /\ stream'[i] = stream[i]
                                  /\ \A j \in 1..(i - 1) : j \in DOMAIN stream
      /\ \A j \in DOMAIN out : \E i \in DOMAIN stream' : stream'[i] = out[j]
      /\ \A i \in DOMAIN stream' :
           i \in DOMAIN stream \/ \E j \in DOMAIN out : stream'[i] = out[j]
  <2>1. Extended(stream', stream, out)
    BY <1>1, <1>5, <1>7, ConcatRange, ZenonT(30)
  <2> QED BY <2>1, Zenon DEF Extended
<1>9. \A g \in B : \E i \in DOMAIN stream' : IsChanged(stream'[i], g)
  BY <1>6, <1>8 DEF IsChanged
<1>10. \A i \in DOMAIN stream', g \in Group : IsChanged(stream'[i], g) =>
         g \in B \/ (i \in DOMAIN stream /\ IsChanged(stream[i], g))
  BY <1>6, <1>8 DEF IsChanged
<1> QED BY <1>6, <1>8, <1>9, <1>10 DEF B

-----------------------------------------------------------------------------
(* Drops *)

\* A new Hello, or no connection, owes the manifest nothing yet.
LEMMA CarriedAfresh ==
  ASSUME NEW g \in Group, Hello \/ Disconnected PROVE Carried(g)'
<1>1. stream' = <<>> /\ (engine' = "manifest" \/ engine' = "idle")
      /\ session'.phase # "manifest"
  BY DEF Hello, Disconnected, Between, Fresh
<1>2. DOMAIN stream' = {}
  BY <1>1
<1> QED BY <1>1, <1>2, Zenon DEF Carried

\* A group the manifest is to carry stays one through every step.
LEMMA CarriedStep ==
  ASSUME TypeInv, NEW g \in Group, Carried(g), [Next]_vars,
         ResolveScope => g \in Scope
  PROVE  Carried(g)'
<1>0. /\ Stages /\ stream \in Seq(Message) /\ session \in Session
      /\ manifest \in (SUBSET Group) \cup {None}
  BY Zenon DEF TypeInv, TypeOK
<1>1. ASSUME UNCHANGED <<stream, manifest, engine>>,
             session'.phase # "manifest" \/ session' = session
      PROVE  Carried(g)'
  BY <1>1, Zenon DEF Carried, InStream, IsGroup
<1>2. ASSUME engine \notin {"idle", "manifest"}, engine' \notin {"idle", "manifest"},
             manifest' \in {manifest, None}
      PROVE  Carried(g)'
  BY <1>2, Zenon DEF Carried
<1>3. ASSUME NEW m \in Message, stream' = Append(stream, m), UNCHANGED <<manifest, engine>>,
             m.type # "ManifestDone",
             session.phase = "manifest" => \/ IsGroup(m, g) \/ session'.phase # "manifest"
                                           \/ (g \in session.todo => g \in session'.todo),
             session'.phase = "manifest" => session.phase = "manifest"
      PROVE  Carried(g)'
  <2> DEFINE n == Len(stream) + 1
  <2>1. /\ DOMAIN stream' = 1..n /\ n \in DOMAIN stream' /\ stream'[n] = m /\ n \in Nat
        /\ DOMAIN stream = 1..(n - 1)
        /\ \A i \in DOMAIN stream : i \in DOMAIN stream' /\ stream'[i] = stream[i]
        /\ \A i \in DOMAIN stream' : i \in DOMAIN stream \/ i = n
    BY <1>0, <1>3, AppendFacts, SMTT(20)
  <2> HIDE DEF n
  <2>2. InStream(g) \/ IsGroup(m, g) => InStream(g)'
    BY <2>1, Zenon DEF InStream, IsGroup
  <2>3. \A i \in DOMAIN stream' : stream'[i].type = "ManifestDone" =>
          /\ i \in DOMAIN stream /\ stream[i].type = "ManifestDone"
          /\ \A j \in 1..(i - 1) : j \in DOMAIN stream /\ stream'[j] = stream[j]
    BY <1>3, <2>1, SMTT(40)
  <2>4. ASSUME engine' = "manifest", session'.phase = "manifest"
        PROVE  g \in session'.todo \cup manifest' \/ InStream(g)'
    BY <1>3, <2>2, <2>4, Zenon DEF Carried
  <2>5. ASSUME engine' = "manifest", NEW i \in DOMAIN stream', stream'[i].type = "ManifestDone"
        PROVE  g \in manifest' \/ \E j \in 1..(i - 1) : IsGroup(stream'[j], g)
    <3>1. g \in manifest \/ \E j \in 1..(i - 1) : IsGroup(stream[j], g)
      BY <1>3, <2>3, <2>5, Zenon DEF Carried
    <3> QED BY <1>3, <2>3, <2>5, <3>1, Zenon
  <2> QED BY <1>3, <2>4, <2>5, Zenon DEF Carried
<1>4. CASE Mutate
  BY <1>1, <1>4, SMTT(20) DEF Mutate, engineVars
<1>5. CASE Subscribe
  BY <1>1, <1>5, Zenon DEF Subscribe, engineVars, Fresh
<1>6. CASE ResolveScope
  <2>1. stream = <<>> /\ engine = "manifest" /\ session.phase = "scope"
        /\ UNCHANGED <<manifest, engine>>
    BY <1>0, <1>6, SMTT(40) DEF ResolveScope, Stages, engineVars
  <2>2. CASE session' = [session EXCEPT !.phase = "manifest", !.todo = Scope,
                                        !.cached = Scope] /\ stream' = stream
    <3>1. session'.todo = Scope
      BY <1>0, <2>2 DEF Session
    <3>2. DOMAIN stream' = {}
      BY <2>1, <2>2, SMTT(20)
    <3> QED BY <1>6, <2>1, <3>1, <3>2, ZenonT(30) DEF Carried
  <2>3. CASE session' = Fresh("over") /\ Send([type |-> "SyncDenied"])
    <3>1. [type |-> "SyncDenied"] \in Message
      BY Zenon DEF Message
    <3> QED BY <1>3, <2>1, <2>3, <3>1, Zenon DEF Send, Fresh
  <2> QED BY <1>6, <2>2, <2>3 DEF ResolveScope
<1>7. CASE SendSnapshot
  <2> DEFINE h == First(session.todo)
             m == [type |-> "Group", state |-> Snapshot(h)]
  <2>1. /\ session.phase = "manifest" /\ session.todo # {} /\ stream' = Append(stream, m)
        /\ session' = [session EXCEPT !.todo = session.todo \ {h}]
        /\ UNCHANGED <<manifest, engine>>
    BY <1>7 DEF SendSnapshot, Send, engineVars
  <2>2. h \in Group
    BY <1>0, <2>1, FirstIn, SMTT(20) DEF Session
  <2> HIDE DEF h
  <2>3. Snapshot(h) \in State /\ Snapshot(h).name = h
    BY <2>2, SnapshotType, Zenon DEF TypeInv, TypeOK
  <2>4. m \in Message /\ (h = g => IsGroup(m, g)) /\ m.type # "ManifestDone"
    BY <2>3, Zenon DEF Message, IsGroup
  <2>5. session'.todo = session.todo \ {h} /\ session'.phase = "manifest"
    BY <1>0, <2>1 DEF Session
  <2> HIDE DEF m
  <2> QED BY <1>3, <2>1, <2>4, <2>5
<1>8. CASE SendManifestDone
  <2> DEFINE m == [type |-> "ManifestDone"]
             n == Len(stream) + 1
  <2>1. /\ session.phase = "manifest" /\ session.todo = {} /\ stream' = Append(stream, m)
        /\ session' = [session EXCEPT !.phase = "live"]
        /\ UNCHANGED <<manifest, engine>>
    BY <1>8 DEF SendManifestDone, Send, engineVars
  <2>2. m \in Message
    BY Zenon DEF Message
  <2>3. session'.phase = "live"
    BY <1>0, <2>1 DEF Session
  <2>4. /\ DOMAIN stream' = 1..n /\ stream'[n] = m /\ n \in Nat
        /\ DOMAIN stream = 1..(n - 1)
        /\ \A i \in DOMAIN stream : i \in DOMAIN stream' /\ stream'[i] = stream[i]
        /\ \A i \in DOMAIN stream' : i \in DOMAIN stream \/ i = n
    BY <1>0, <2>1, <2>2, AppendFacts, SMTT(20)
  <2> HIDE DEF n, m
  <2>5. ASSUME engine' = "manifest", NEW i \in DOMAIN stream', stream'[i].type = "ManifestDone"
        PROVE  g \in manifest' \/ \E j \in 1..(i - 1) : IsGroup(stream'[j], g)
    <3>1. CASE i \in DOMAIN stream
      <4>1. g \in manifest \/ \E j \in 1..(i - 1) : IsGroup(stream[j], g)
        BY <2>1, <2>4, <2>5, <3>1, SMTT(20) DEF Carried
      <4>2. \A j \in 1..(i - 1) : j \in DOMAIN stream /\ stream'[j] = stream[j]
        BY <2>4, <3>1
      <4> QED BY <2>1, <4>1, <4>2
    <3>2. CASE i = n
      <4>1. g \in manifest \/ InStream(g)
        BY <2>1, <2>5 DEF Carried
      <4>2. InStream(g) => \E j \in 1..(i - 1) : IsGroup(stream'[j], g)
        BY <2>4, <3>2, Zenon DEF InStream
      <4> QED BY <2>1, <4>1, <4>2
    <3> QED BY <2>4, <2>5, <3>1, <3>2, Zenon
  <2> QED BY <2>1, <2>3, <2>5 DEF Carried
<1>9. CASE RecvEvent \/ WindowElapses
  <2>1. session'.phase # "manifest" /\ UNCHANGED <<stream, manifest, engine>>
    BY <1>0, <1>9, Zenon DEF RecvEvent, WindowElapses, engineVars, Session
  <2> QED BY <1>1, <2>1
<1>10. CASE Emit
  <2>1. session'.phase = "live" /\ UNCHANGED <<manifest, engine>> /\ session.phase = "emit"
    BY <1>10 DEF Emit, Fresh, engineVars
  <2>2. CASE Send([type |-> "ScopeChanged"])
    <3>1. [type |-> "ScopeChanged"] \in Message
      BY Zenon DEF Message
    <3> QED BY <1>3, <2>1, <2>2, <3>1, Zenon DEF Send
  <2>3. CASE ~ScopeMoved
    <3>1. \A i \in DOMAIN stream' : stream'[i].type = "ManifestDone" =>
            /\ i \in DOMAIN stream /\ stream[i].type = "ManifestDone"
            /\ \A j \in 1..(i - 1) : j \in DOMAIN stream /\ stream'[j] = stream[j]
      BY <1>10, <2>3, EmitFacts, Zenon
    <3>2. ASSUME engine' = "manifest", NEW i \in DOMAIN stream', stream'[i].type = "ManifestDone"
          PROVE  g \in manifest' \/ \E j \in 1..(i - 1) : IsGroup(stream'[j], g)
      <4>1. g \in manifest \/ \E j \in 1..(i - 1) : IsGroup(stream[j], g)
        BY <2>1, <3>1, <3>2, Zenon DEF Carried
      <4> QED BY <2>1, <3>1, <3>2, <4>1, ZenonT(30)
    <3> QED BY <2>1, <3>2, Zenon DEF Carried
  <2> QED BY <1>10, <2>2, <2>3 DEF Emit
<1>11. CASE Connect \/ RecvScopeChanged \/ RecvDenied \/ ConnectionLost
  BY <1>11, CarriedAfresh, Zenon DEF Connect, RecvScopeChanged, RecvDenied, ConnectionLost
<1>12. CASE RecvGroup
  <2> DEFINE h == Head(stream).state.name
  <2>1. /\ stream # <<>> /\ Head(stream).type = "Group" /\ engine = "manifest"
        /\ stream' = Tail(stream) /\ manifest' = manifest \cup {h}
        /\ session' = session /\ engine' = engine
    BY <1>12, Zenon DEF RecvGroup, sessionVars
  <2>2. /\ Head(stream) = stream[1]
        /\ \A i \in DOMAIN stream' : i + 1 \in DOMAIN stream /\ stream'[i] = stream[i + 1]
        /\ \A i \in DOMAIN stream :
             i = 1 \/ (i - 1 \in DOMAIN stream' /\ stream'[i - 1] = stream[i])
        /\ DOMAIN stream \subseteq Nat /\ DOMAIN stream' \subseteq Nat \ {0}
    BY <1>0, <2>1, TailFacts, Zenon
  <2>3. InStream(g) => g = h \/ InStream(g)'
    BY <2>1, <2>2, ZenonT(30) DEF InStream, IsGroup
  <2>4. ASSUME NEW i \in DOMAIN stream', stream'[i].type = "ManifestDone"
        PROVE  g \in manifest' \/ \E j \in 1..(i - 1) : IsGroup(stream'[j], g)
    <3>1. i + 1 \in DOMAIN stream /\ stream[i + 1].type = "ManifestDone" /\ i \in Nat \ {0}
      BY <2>2, <2>4, Zenon
    <3>2. g \in manifest \/ \E j \in 1..((i + 1) - 1) : IsGroup(stream[j], g)
      BY <2>1, <3>1, Zenon DEF Carried
    <3>3. ASSUME NEW j \in 1..((i + 1) - 1), IsGroup(stream[j], g)
          PROVE  g = h \/ \E k \in 1..(i - 1) : IsGroup(stream'[k], g)
      <4>1. CASE j = 1
        BY <2>1, <2>2, <3>3, <4>1, Zenon DEF IsGroup
      <4>2. CASE j # 1
        <5>1. j - 1 \in 1..(i - 1) /\ j \in DOMAIN stream
          BY <1>0, <3>1, <3>3, <4>2, SeqFacts, SMTT(20)
        <5>2. stream'[j - 1] = stream[j]
          BY <2>2, <4>2, <5>1, Zenon
        <5> QED BY <3>3, <5>1, <5>2, Zenon
      <4> QED BY <4>1, <4>2, Zenon
    <3> QED BY <2>1, <3>2, <3>3, Zenon
  <2> QED BY <2>1, <2>3, <2>4, Zenon DEF Carried
<1>13. CASE RecvManifestDone
  <2>1. /\ stream # <<>> /\ Head(stream).type = "ManifestDone" /\ engine = "manifest"
        /\ engine' = "resync" /\ manifest' = manifest
    BY <1>13, Zenon DEF RecvManifestDone
  <2>2. 1 \in DOMAIN stream /\ stream[1].type = "ManifestDone"
    BY <1>0, <2>1, TailFacts, Zenon
  <2>3. g \in manifest \/ \E j \in 1..(1 - 1) : IsGroup(stream[j], g)
    BY <2>1, <2>2, Zenon DEF Carried
  <2>4. g \in manifest
    BY <2>3
  <2> QED BY <2>1, <2>4, Zenon DEF Carried
<1>14. CASE \/ ResyncGroup \/ BeginSweep \/ DropStale \/ EndResync \/ RecvChanged
            \/ FetchSecrets \/ ReadSecretData \/ FetchDone \/ Apply \/ Refetch
  <2>1. engine \notin {"idle", "manifest"} /\ manifest' \in {manifest, None}
    BY <1>14, Zenon DEF ResyncGroup, BeginSweep, DropStale, EndResync, RecvChanged,
         FetchSecrets, ReadSecretData, FetchDone, Apply, Refetch, engineVars
  <2>2. engine' \notin {"idle", "manifest"}
    BY <1>14, <2>1, ZenonT(30) DEF ResyncGroup, BeginSweep, DropStale, EndResync, RecvChanged,
         FetchSecrets, ReadSecretData, FetchDone, Apply, Refetch, engineVars, FetchGroup,
         BeginApply, NextGroup, Between
  <2> QED BY <1>2, <2>1, <2>2, Zenon
<1>15. CASE UNCHANGED vars
  BY <1>1, <1>15, Zenon DEF vars, engineVars, sessionVars
<1> QED BY <1>4, <1>5, <1>6, <1>7, <1>8, <1>9, <1>10, <1>11, <1>12, <1>13, <1>14, <1>15, SMTT(20)
        DEF Next, SessionStep, EngineStep

\* DropInv is inductive.
LEMMA DropInductive == TypeInv /\ DropInv /\ [Next]_vars => DropInv'
<1> SUFFICES ASSUME TypeInv, DropInv, [Next]_vars PROVE DropInv'
  OBVIOUS
<1>1. CASE Hello /\ UNCHANGED upstreamVars
  <2>1. Unreadable' = Unreadable
    BY <1>1, Zenon DEF Unreadable, Scope, ReadAuthorized, upstreamVars
  <2> QED BY <1>1, <2>1, CarriedAfresh, ZenonT(30) DEF DropInv, Hello
<1>2. CASE Disconnected
  BY <1>2, CarriedAfresh, Zenon DEF DropInv, Disconnected, Between
<1>3. ASSUME lost \subseteq lost', engine' # "idle" => Unreadable' \subseteq lost'
      PROVE  DropInv'
  <2> SUFFICES ASSUME NEW g \in Group \ lost' PROVE Carried(g)'
    BY <1>3 DEF DropInv
  <2>1. Carried(g)
    BY <1>3 DEF DropInv
  <2>2. ResolveScope => g \in Scope
    BY <1>3 DEF DropInv, ResolveScope, TypeInv, Stages, Unreadable
  <2> QED BY <2>1, <2>2, CarriedStep
<1>4. CASE Mutate
  BY <1>3, <1>4, Zenon DEF Mutate
<1>5. ASSUME lost' = lost, UNCHANGED upstreamVars, engine = "idle" => engine' = "idle"
      PROVE  DropInv'
  <2>1. Unreadable' = Unreadable
    BY <1>5, Zenon DEF Unreadable, Scope, ReadAuthorized, upstreamVars
  <2> QED BY <1>3, <1>5, <2>1, Zenon DEF DropInv
<1>6. CASE SessionStep \/ UNCHANGED vars
  BY <1>5, <1>6, Zenon DEF SessionStep, Subscribe, ResolveScope, SendSnapshot, SendManifestDone,
       RecvEvent, WindowElapses, Emit, engineVars, vars
<1>7. CASE Connect \/ RecvScopeChanged \/ RecvDenied \/ ConnectionLost
  BY <1>1, <1>2, <1>7, Zenon DEF Connect, RecvScopeChanged, RecvDenied, ConnectionLost
<1>8. CASE \/ RecvGroup \/ RecvManifestDone \/ ResyncGroup \/ BeginSweep \/ DropStale
           \/ EndResync \/ RecvChanged \/ FetchSecrets \/ ReadSecretData \/ FetchDone
           \/ Apply \/ Refetch
  BY <1>5, <1>8, ZenonT(30) DEF RecvGroup, RecvManifestDone, ResyncGroup, BeginSweep, DropStale,
       EndResync, RecvChanged, FetchSecrets, ReadSecretData, FetchDone, Apply, Refetch
<1> QED BY <1>4, <1>6, <1>7, <1>8 DEF Next, EngineStep


\* A step that empties a group's mirror has its reason.
LEMMA StepJustifiesDrops ==
  ASSUME TypeInv, DropInv, [Next]_vars, NEW g \in Group,
         mirror[g] # None, mirror'[g] = None
  PROVE  g \in lost
<1>0. /\ mirror \in [Group -> Mirrored \cup {None}] /\ Stages /\ cur \in State \cup {None}
      /\ fetched \in [Secret -> Entry \cup {None}] /\ stream \in Seq(Message)
  BY Zenon DEF TypeInv, TypeOK
<1>1. ASSUME NEW h \in Group, engine # "idle", ~ReadAuthorized(h),
             mirror' = [mirror EXCEPT ![h] = None]
      PROVE  g \in lost
  <2>1. g = h
    BY <1>0, <1>1, Zenon
  <2>2. h \in Unreadable
    BY <1>1, Zenon DEF Unreadable, Scope, ReadAuthorized
  <2>3. Unreadable \subseteq lost
    BY <1>1 DEF DropInv
  <2> QED BY <2>1, <2>2, <2>3, ZenonT(30)
<1>2. CASE \/ Mutate \/ SessionStep \/ Connect \/ RecvDenied \/ RecvGroup \/ RecvManifestDone
           \/ RecvScopeChanged \/ ResyncGroup \/ BeginSweep \/ EndResync \/ ReadSecretData
           \/ FetchDone \/ ConnectionLost \/ UNCHANGED vars
  <2>1. mirror' = mirror
    BY <1>2, ZenonT(30) DEF Mutate, SessionStep, Subscribe, ResolveScope, SendSnapshot,
         SendManifestDone, RecvEvent, WindowElapses, Emit, Connect, RecvDenied, RecvGroup,
         RecvManifestDone, RecvScopeChanged, ResyncGroup, BeginSweep, EndResync,
         ReadSecretData, FetchDone, ConnectionLost, vars
  <2> QED BY <2>1
<1>3. CASE DropStale
  <2>1. First(StaleGroups) \in StaleGroups /\ engine = "sweep"
        /\ mirror' = [mirror EXCEPT ![First(StaleGroups)] = None]
    BY <1>3, FirstIn, Zenon DEF DropStale, DropGroup
  <2>2. g \notin manifest /\ manifest # None
    BY <1>0, <2>1, Zenon DEF StaleGroups, Stages
  <2>3. g \notin lost => Carried(g)
    BY Zenon DEF DropInv
  <2>4. Carried(g) => g \in manifest
    BY <2>1, <2>2, Zenon DEF Carried
  <2> QED BY <2>2, <2>3, <2>4, Zenon
<1>4. ASSUME NEW h \in Group, NEW again, FetchGroup(h, again), engine # "idle"
      PROVE  g \in lost
  BY <1>1, <1>4, Zenon DEF FetchGroup, DropGroup
<1>5. CASE RecvChanged
  <2>1. Head(stream) \in Message
    BY <1>0, <1>5, HeadTail, ZenonT(30) DEF RecvChanged
  <2> QED BY <1>4, <1>5, <2>1, MessageFacts, ZenonT(30) DEF RecvChanged
<1>6. ASSUME cur # None PROVE cur \in State /\ cur.name \in Group
  BY <1>0, <1>6, Zenon DEF State
<1>7. CASE Refetch
  BY <1>0, <1>4, <1>6, <1>7, ZenonT(30) DEF Refetch, Stages
<1>8. CASE FetchSecrets
  <2>1. engine = "fetch" /\ cur.name \in Group
    BY <1>0, <1>6, <1>8, ZenonT(30) DEF FetchSecrets, Stages
  <2> QED BY <1>1, <1>8, <2>1, ZenonT(30) DEF FetchSecrets, DropGroup
<1>9. CASE Apply
  <2>1. cur \in State /\ cur.name \in Group /\ TypeInv'
    BY <1>0, <1>6, <1>9, EngineKeepsType, ZenonT(30) DEF Apply, Stages, EngineStep
  <2>2. mirror'[cur.name] # None /\ (g # cur.name => mirror'[g] = mirror[g])
    <3> DEFINE new == [s \in Secret |-> IF s \in Withheld THEN None ELSE fetched[s]]
               local(s) == IF mirror[cur.name] = None THEN None
                           ELSE mirror[cur.name].secrets[s]
               kept == [s \in Secret |->
                          CASE cur.secrets[s] = None -> None
                            [] cur.secrets[s] # None /\ new[s] # None -> new[s]
                            [] OTHER -> local(s)]
               row == [deks |-> cur.deks, acl |-> cur.acl, secrets |-> kept]
    <3>1. mirror' = [mirror EXCEPT ![cur.name] = row]
      BY <1>9 DEF Apply, ApplyGroupSync
    <3>2. row.secrets \in [Secret -> Entry \cup {None}]
      <4>1. new \in [Secret -> Entry \cup {None}]
        BY <1>0
      <4>2. \A s \in Secret : local(s) \in Entry \cup {None}
        BY <1>0, <2>1, ZenonT(30) DEF State, Mirrored
      <4> HIDE DEF new, local
      <4> QED BY <4>1, <4>2
    <3> HIDE DEF kept
    <3>3. row \in Mirrored
      BY <2>1, <3>2, Zenon DEF State, Mirrored
    <3> HIDE DEF row
    <3> QED BY <1>0, <2>1, <3>1, <3>3, NoneIsNoState, ZenonT(30)
  <2> QED BY <2>2, Zenon
<1> QED BY <1>2, <1>3, <1>5, <1>7, <1>8, <1>9, Zenon DEF Next, EngineStep

\* Only a completed manifest proves absence: whatever races the resync, the fetches
\* and the scope check, full_resync and sync_one_group drop no group that the
\* replica could read ever since its Hello.
THEOREM DropsAlwaysJustified == Spec => DropsAreJustified
<1>1. Init => DropInv
  <2> SUFFICES ASSUME Init PROVE DropInv
    OBVIOUS
  <2>1. engine = "idle" /\ stream = <<>> /\ DOMAIN stream = {}
    BY DEF Init
  <2> QED BY <2>1, Zenon DEF DropInv, Carried
<1>2. TypeInv /\ DropInv /\ [Next]_vars =>
        [\A g \in Group : mirror[g] # None /\ mirror'[g] = None => g \in lost]_vars
  BY StepJustifiesDrops, Zenon
<1> QED BY <1>1, <1>2, TypeInitial, TypeInductive, DropInductive, PTL
        DEF Spec, DropsAreJustified


-----------------------------------------------------------------------------

InStash(g) == \E i \in DOMAIN stash : stash[i].name = g
InHand(g) == engine \in {"fetch", "reading", "apply"} /\ cur.name = g

\* the replica will say Hello again, or the server take its snapshots, before
\* the pipeline can be empty
Restarts ==
  \/ engine = "idle" \/ session.phase \in {"hello", "scope", "over"}
  \/ overrun \/ session.lagged
  \/ \E i \in DOMAIN stream : stream[i].type = "ScopeChanged"

\* the session has an event of g in its channel or in its batch
Owed(g) == g \in session.batch \/ \E i \in DOMAIN queue : queue[i] = g

\* the replica has been told to fetch g, or is to be sent it
Announced(g) ==
  \/ \E i \in DOMAIN stream : IsChanged(stream[i], g)
  \/ engine = "refetch" /\ cur.name = g
  \/ session.phase = "manifest" /\ g \in session.todo

Settled(g) == ~Owed(g) /\ ~Announced(g)

\* the group in hand is the node's, and so is what was fetched for it
HandCurrent ==
  /\ cur = Snapshot(cur.name)
  /\ \A s \in Secret :
       /\ fetched[s] \in {None, cur.secrets[s]}
       /\ s \in need => cur.secrets[s] # None
       /\ cur.secrets[s] # None /\ s \notin need /\ fetched[s] = None =>
            mirror[cur.name] # None /\ mirror[cur.name].secrets[s] = cur.secrets[s]
  /\ engine = "apply" => need = {}

CopiesCurrent(g) ==
  /\ \A i \in DOMAIN stream : IsGroup(stream[i], g) => stream[i].state = Snapshot(g)
  /\ \A i \in DOMAIN stash : stash[i].name = g => stash[i] = Snapshot(g)
  /\ InHand(g) => HandCurrent

Applied(g) ==
  InStream(g) \/ InStash(g) \/ InHand(g) \/ mirror[g] = View[g]

Absent(g) ==
  /\ ~InStream(g) /\ ~InStash(g) /\ ~Announced(g)
  /\ cur # None => cur.name # g
  /\ IF manifest = None THEN mirror[g] = None ELSE g \notin manifest

\* what holds of a group while the session is not bound to start over
Follows(g) ==
  /\ ~Owed(g) => (g \in Scope <=> g \in session.cached)
  /\ Settled(g) => CopiesCurrent(g)
  /\ Settled(g) /\ g \in session.cached => Applied(g)
  /\ g \in session.cached => Carried(g)
  /\ g \notin session.cached => Absent(g)

FollowInv == ~Restarts => \A g \in Group : Follows(g)

\* between the manifest's snapshots and the mirror a group is in one place
OneCopy ==
  /\ session.phase = "manifest" =>
       /\ engine = "manifest"
       /\ \A i \in DOMAIN stream : stream[i].type = "Group"
       /\ \A g \in session.todo : g \notin manifest /\ ~InStream(g)
  /\ \A i \in DOMAIN stream : stream[i].type = "Group" =>
       /\ engine = "manifest" /\ stream[i].state.name \notin manifest
       /\ \A j \in 1..(i - 1) :
            stream[j].type = "Group" /\ stream[j].state.name # stream[i].state.name
  /\ \A i \in DOMAIN stash :
       /\ stash[i].name \in manifest
       /\ cur # None => cur.name # stash[i].name
       /\ \A j \in 1..(i - 1) : stash[j].name # stash[i].name

-----------------------------------------------------------------------------
(* One copy of a group between the snapshot and the mirror *)

\* OneCopy is inductive.
LEMMA OneCopyInductive == TypeInv /\ OneCopy /\ [Next]_vars => OneCopy'
<1> SUFFICES ASSUME TypeInv, OneCopy, [Next]_vars PROVE OneCopy'
  OBVIOUS
<1>0. /\ Stages /\ stream \in Seq(Message) /\ stash \in Seq(State) /\ session \in Session
      /\ cur \in State \cup {None} /\ UpstreamType
  BY DEF TypeInv, TypeOK
<1>1. ASSUME UNCHANGED <<stream, stash, manifest>>,
             session' = session \/ session'.phase # "manifest",
             engine' = engine \/ engine # "manifest",
             cur' # None => cur # None /\ cur'.name = cur.name
      PROVE  OneCopy'
  <2>1. ASSUME session'.phase = "manifest"
        PROVE  /\ engine' = "manifest"
               /\ \A i \in DOMAIN stream' : stream'[i].type = "Group"
               /\ \A g \in session'.todo : g \notin manifest' /\ ~InStream(g)'
    BY <1>1, <2>1 DEF OneCopy, InStream, IsGroup
  <2>2. \A i \in DOMAIN stream' : stream'[i].type = "Group" =>
          /\ engine' = "manifest" /\ stream'[i].state.name \notin manifest'
          /\ \A j \in 1..(i - 1) :
               stream'[j].type = "Group" /\ stream'[j].state.name # stream'[i].state.name
    BY <1>1 DEF OneCopy
  <2>3. \A i \in DOMAIN stash' :
          /\ stash'[i].name \in manifest'
          /\ cur' # None => cur'.name # stash'[i].name
          /\ \A j \in 1..(i - 1) : stash'[j].name # stash'[i].name
    BY <1>1 DEF OneCopy
  <2> QED BY <2>1, <2>2, <2>3 DEF OneCopy
<1>2. ASSUME UNCHANGED <<stash, manifest, engine, cur>>, session'.phase # "manifest",
             \A i \in DOMAIN stream' : stream'[i].type = "Group" =>
               /\ i \in DOMAIN stream /\ stream'[i] = stream[i]
               /\ \A j \in 1..(i - 1) : stream'[j] = stream[j]
      PROVE  OneCopy'
  <2>1. \A i \in DOMAIN stream' : stream'[i].type = "Group" =>
          /\ engine' = "manifest" /\ stream'[i].state.name \notin manifest'
          /\ \A j \in 1..(i - 1) :
               stream'[j].type = "Group" /\ stream'[j].state.name # stream'[i].state.name
    BY <1>2 DEF OneCopy
  <2>2. \A i \in DOMAIN stash' :
          /\ stash'[i].name \in manifest'
          /\ cur' # None => cur'.name # stash'[i].name
          /\ \A j \in 1..(i - 1) : stash'[j].name # stash'[i].name
    BY <1>2 DEF OneCopy
  <2> QED BY <1>2, <2>1, <2>2 DEF OneCopy
<1>3. ASSUME NEW m \in Message, stream' = Append(stream, m), m.type # "Group",
             UNCHANGED <<stash, manifest, engine, cur>>, session'.phase # "manifest"
      PROVE  OneCopy'
  <2> DEFINE n == Len(stream) + 1
  <2>1. /\ DOMAIN stream' = 1..n /\ stream'[n] = m /\ n \in Nat /\ DOMAIN stream = 1..(n - 1)
        /\ \A i \in DOMAIN stream : stream'[i] = stream[i]
        /\ \A i \in DOMAIN stream' : i \in DOMAIN stream \/ i = n
    BY <1>0, <1>3, AppendFacts
  <2> HIDE DEF n
  <2>2. \A i \in DOMAIN stream' : stream'[i].type = "Group" =>
          /\ i \in DOMAIN stream /\ stream'[i] = stream[i]
          /\ \A j \in 1..(i - 1) : stream'[j] = stream[j]
    BY <1>3, <2>1
  <2> QED BY <1>2, <1>3, <2>2
<1>4. CASE Mutate \/ UNCHANGED vars
  BY <1>1, <1>4 DEF Mutate, engineVars, vars, sessionVars
<1>5. CASE Subscribe \/ RecvEvent \/ WindowElapses
  <2>1. session'.phase # "manifest"
    <3>1. CASE Subscribe
      BY <3>1 DEF Subscribe, Fresh
    <3>2. CASE RecvEvent \/ WindowElapses
      BY <1>0, <3>2, Zenon DEF RecvEvent, WindowElapses, Session
    <3> QED BY <1>5, <3>1, <3>2
  <2>2. UNCHANGED <<stream, stash, manifest, engine, cur>>
    BY <1>5 DEF Subscribe, RecvEvent, WindowElapses, engineVars
  <2> QED BY <1>1, <2>1, <2>2
<1>6. CASE ResolveScope
  <2>1. stream = <<>> /\ stash = <<>> /\ manifest = {} /\ engine = "manifest"
        /\ UNCHANGED <<stash, manifest, engine, cur>>
    BY <1>0, <1>6 DEF ResolveScope, Stages, engineVars
  <2>2. CASE stream' = stream
    <3>1. DOMAIN stream' = {} /\ DOMAIN stash' = {}
      BY <2>1, <2>2
    <3> QED BY <2>1, <3>1 DEF OneCopy, InStream
  <2>3. CASE session' = Fresh("over") /\ Send([type |-> "SyncDenied"])
    <3>1. [type |-> "SyncDenied"] \in Message
      BY DEF Message
    <3> QED BY <1>3, <2>1, <2>3, <3>1 DEF Send, Fresh
  <2> QED BY <1>6, <2>2, <2>3 DEF ResolveScope
<1>7. CASE SendSnapshot
  <2> DEFINE h == First(session.todo)
             m == [type |-> "Group", state |-> Snapshot(h)]
             n == Len(stream) + 1
  <2>1. /\ session.phase = "manifest" /\ session.todo # {} /\ stream' = Append(stream, m)
        /\ session' = [session EXCEPT !.todo = session.todo \ {h}]
        /\ UNCHANGED <<stash, manifest, engine, cur>>
    BY <1>7 DEF SendSnapshot, Send, engineVars
  <2>2. h \in Group /\ h \in session.todo
    BY <1>0, <2>1, FirstIn DEF Session
  <2> HIDE DEF h
  <2>3. Snapshot(h) \in State /\ Snapshot(h).name = h
    BY <1>0, <2>2, SnapshotType
  <2>4. m \in Message /\ m.type = "Group" /\ m.state.name = h
    BY <2>3 DEF Message
  <2>5. session'.todo = session.todo \ {h}
    BY <1>0, <2>1 DEF Session
  <2>6. /\ DOMAIN stream' = 1..n /\ stream'[n] = m /\ n \in Nat /\ DOMAIN stream = 1..(n - 1)
        /\ \A i \in DOMAIN stream : stream'[i] = stream[i]
        /\ \A i \in DOMAIN stream' : i \in DOMAIN stream \/ i = n
    BY <1>0, <2>1, <2>4, AppendFacts
  <2> HIDE DEF m, n
  <2>7. engine = "manifest" /\ \A i \in DOMAIN stream : stream[i].type = "Group"
    BY <2>1 DEF OneCopy
  <2>8. \A g \in session.todo : g \notin manifest /\ ~InStream(g)
    BY <2>1 DEF OneCopy
  <2>9. \A i \in DOMAIN stream' : stream'[i].type = "Group"
    BY <2>4, <2>6, <2>7
  <2>10. \A g \in session'.todo : g \notin manifest' /\ ~InStream(g)'
    <3>1. \A i \in DOMAIN stream, g \in session.todo : stream[i].state.name # g
      BY <2>7, <2>8 DEF InStream, IsGroup
    <3> QED BY <2>1, <2>4, <2>5, <2>6, <2>8, <3>1 DEF InStream, IsGroup
  <2>11. \A i \in DOMAIN stream' :
           /\ engine' = "manifest" /\ stream'[i].state.name \notin manifest'
           /\ \A j \in 1..(i - 1) :
                stream'[j].type = "Group" /\ stream'[j].state.name # stream'[i].state.name
    <3>0. \A i \in DOMAIN stream' : \A j \in 1..(i - 1) : j \in DOMAIN stream'
      BY <2>6
    <3> SUFFICES ASSUME NEW i \in DOMAIN stream'
                 PROVE  /\ stream'[i].state.name \notin manifest
                        /\ \A j \in 1..(i - 1) :
                             stream'[j].state.name # stream'[i].state.name
      BY <2>1, <2>7, <2>9, <3>0
    <3>1. CASE i = n
      <4>1. \A j \in 1..(i - 1) : j \in DOMAIN stream /\ stream'[j] = stream[j]
        BY <2>6, <3>1
      <4>2. \A j \in DOMAIN stream : stream[j].state.name # h
        BY <2>2, <2>7, <2>8 DEF InStream, IsGroup
      <4> QED BY <2>2, <2>4, <2>6, <2>8, <3>1, <4>1, <4>2, SMTT(20)
    <3>2. CASE i \in DOMAIN stream
      <4>1. \A j \in 1..(i - 1) : j \in DOMAIN stream /\ stream'[j] = stream[j]
        BY <2>6, <3>2
      <4> QED BY <2>6, <2>7, <3>2, <4>1 DEF OneCopy
    <3> QED BY <2>6, <3>1, <3>2
  <2>12. \A i \in DOMAIN stash' :
           /\ stash'[i].name \in manifest'
           /\ cur' # None => cur'.name # stash'[i].name
           /\ \A j \in 1..(i - 1) : stash'[j].name # stash'[i].name
    BY <2>1 DEF OneCopy
  <2> QED BY <2>1, <2>7, <2>9, <2>10, <2>11, <2>12, ZenonT(30) DEF OneCopy
<1>8. CASE SendManifestDone
  <2>1. [type |-> "ManifestDone"] \in Message /\ session'.phase = "live"
    BY <1>0, <1>8 DEF Message, SendManifestDone, Session
  <2> QED BY <1>3, <1>8, <2>1 DEF SendManifestDone, Send, engineVars
<1>9. CASE Emit
  <2>1. session'.phase = "live" /\ UNCHANGED <<stash, manifest, engine, cur>>
    BY <1>9 DEF Emit, Fresh, engineVars
  <2>2. CASE Send([type |-> "ScopeChanged"])
    <3>1. [type |-> "ScopeChanged"] \in Message
      BY DEF Message
    <3> QED BY <1>3, <2>1, <2>2, <3>1 DEF Send
  <2>3. CASE ~ScopeMoved
    <3>1. \A i \in DOMAIN stream' : stream'[i].type = "Group" =>
            /\ i \in DOMAIN stream /\ stream'[i] = stream[i]
            /\ \A j \in 1..(i - 1) : stream'[j] = stream[j]
      BY <1>9, <2>3, EmitFacts
    <3> QED BY <1>2, <2>1, <3>1
  <2> QED BY <1>9, <2>2, <2>3 DEF Emit
<1>10. CASE Connect \/ RecvScopeChanged \/ RecvDenied \/ ConnectionLost
  <2>1. stream' = <<>> /\ stash' = <<>> /\ session'.phase # "manifest"
    BY <1>10 DEF Connect, RecvScopeChanged, RecvDenied, ConnectionLost, Hello, Disconnected,
         Fresh
  <2>2. DOMAIN stream' = {} /\ DOMAIN stash' = {}
    BY <2>1
  <2> QED BY <2>1, <2>2, ZenonT(30) DEF OneCopy
<1>11. ASSUME stream # <<>>, stream' = Tail(stream)
       PROVE  /\ Head(stream) = stream[1] /\ 1 \in DOMAIN stream
              /\ \A i \in DOMAIN stream' :
                   /\ i \in Nat \ {0} /\ i + 1 \in DOMAIN stream /\ stream'[i] = stream[i + 1]
                   /\ 1 \in 1..((i + 1) - 1)
                   /\ \A j \in 1..(i - 1) :
                        j + 1 \in 1..((i + 1) - 1) /\ stream'[j] = stream[j + 1]
  <2>1. /\ Head(stream) = stream[1] /\ 1 \in DOMAIN stream
        /\ Len(stream') = Len(stream) - 1 /\ Len(stream) \in Nat
        /\ \A i \in 1..Len(stream') : stream'[i] = stream[i + 1]
        /\ DOMAIN stream = 1..Len(stream) /\ DOMAIN stream' = 1..Len(stream')
    BY <1>0, <1>11, HeadTail, SeqFacts, TailFacts, SMTT(20)
  <2> QED BY <2>1
<1>12. CASE RecvGroup
  <2> DEFINE x == Head(stream).state
             n == Len(stash) + 1
  <2>1. /\ stream # <<>> /\ Head(stream).type = "Group" /\ engine = "manifest"
        /\ stream' = Tail(stream) /\ manifest' = manifest \cup {x.name}
        /\ stash' = Append(stash, x) /\ session' = session /\ engine' = engine /\ cur' = cur
    BY <1>12 DEF RecvGroup, sessionVars
  <2>2. /\ Head(stream) = stream[1] /\ 1 \in DOMAIN stream
        /\ \A i \in DOMAIN stream' :
             /\ i \in Nat \ {0} /\ i + 1 \in DOMAIN stream /\ stream'[i] = stream[i + 1]
             /\ 1 \in 1..((i + 1) - 1)
             /\ \A j \in 1..(i - 1) :
                  j + 1 \in 1..((i + 1) - 1) /\ stream'[j] = stream[j + 1]
    BY <1>11, <2>1
  <2>3. x \in State
    BY <1>0, <2>1, HeadTail, MessageFacts, SMTT(20)
  <2>4. x.name \notin manifest /\ cur = None
    <3>1. cur = None
      BY <1>0, <2>1 DEF Stages
    <3>2. stream[1].type = "Group" => stream[1].state.name \notin manifest
      BY <2>2, Zenon DEF OneCopy
    <3> QED BY <2>1, <2>2, <3>1, <3>2, Zenon
  <2>5. /\ n \in Nat /\ DOMAIN stash = 1..(n - 1) /\ stash'[n] = x
        /\ \A i \in DOMAIN stash : stash'[i] = stash[i]
        /\ \A i \in DOMAIN stash' : i \in DOMAIN stash \/ i = n
    <3>1. /\ Len(stash) \in Nat /\ DOMAIN stash = 1..Len(stash)
          /\ \A i \in DOMAIN stash : Append(stash, x)[i] = stash[i]
          /\ Append(stash, x)[n] = x
          /\ \A i \in DOMAIN Append(stash, x) : i \in DOMAIN stash \/ i = n
      <4> HIDE DEF x
      <4>1. stash \in Seq(State) /\ x \in State
        BY <1>0, <2>3, Zenon
      <4> QED BY <4>1, AppendFacts, SMTT(20)
    <3>2. Len(stash) \in Nat => n \in Nat /\ n - 1 = Len(stash)
      OBVIOUS
    <3> HIDE DEF x, n
    <3> QED BY <2>1, <3>1, <3>2, Zenon
  <2> HIDE DEF n
  <2>6. \A i \in DOMAIN stash' :
          /\ stash'[i].name \in manifest'
          /\ \A j \in 1..(i - 1) : stash'[j].name # stash'[i].name
    <3> SUFFICES ASSUME NEW i \in DOMAIN stash'
                 PROVE  /\ stash'[i].name \in manifest'
                        /\ \A j \in 1..(i - 1) : stash'[j].name # stash'[i].name
      OBVIOUS
    <3>1. \A j \in 1..(i - 1) : j \in DOMAIN stash /\ stash'[j] = stash[j]
      BY <2>5
    <3>2. CASE i = n
      BY <2>1, <2>4, <2>5, <3>1, <3>2, SMTT(40) DEF OneCopy
    <3>3. CASE i \in DOMAIN stash
      BY <2>1, <2>5, <3>1, <3>3, ZenonT(60) DEF OneCopy
    <3> QED BY <2>5, <3>2, <3>3
  <2>7. \A i \in DOMAIN stream' : stream'[i].type = "Group" =>
          /\ stream'[i].state.name \notin manifest'
          /\ \A j \in 1..(i - 1) :
               stream'[j].type = "Group" /\ stream'[j].state.name # stream'[i].state.name
    <3> SUFFICES ASSUME NEW i \in DOMAIN stream', stream'[i].type = "Group"
                 PROVE  /\ stream'[i].state.name \notin manifest'
                        /\ \A j \in 1..(i - 1) :
                             /\ stream'[j].type = "Group"
                             /\ stream'[j].state.name # stream'[i].state.name
      OBVIOUS
    <3>1. /\ stream[i + 1].state.name \notin manifest
          /\ \A j \in 1..((i + 1) - 1) :
               stream[j].type = "Group" /\ stream[j].state.name # stream[i + 1].state.name
      BY <2>2 DEF OneCopy
    <3>2. stream[i + 1].state.name # x.name
      BY <2>2, <3>1, Zenon
    <3> QED BY <2>1, <2>2, <3>1, <3>2
  <2>8. ASSUME session'.phase = "manifest"
        PROVE  /\ \A i \in DOMAIN stream' : stream'[i].type = "Group"
               /\ \A g \in session'.todo : g \notin manifest' /\ ~InStream(g)'
    <3>1. /\ \A i \in DOMAIN stream : stream[i].type = "Group"
          /\ \A g \in session.todo : g \notin manifest /\ ~InStream(g)
      BY <2>1, <2>8 DEF OneCopy
    <3>2. \A g \in session.todo, i \in DOMAIN stream : stream[i].state.name # g
      BY <3>1 DEF InStream, IsGroup
    <3> QED BY <2>1, <2>2, <3>1, <3>2 DEF InStream, IsGroup
  <2> QED BY <2>1, <2>4, <2>6, <2>7, <2>8, ZenonT(30) DEF OneCopy
<1>13. CASE RecvManifestDone \/ RecvChanged
  <2>1. /\ stream # <<>> /\ Head(stream).type # "Group" /\ engine' # "manifest"
        /\ stream' = Tail(stream) /\ UNCHANGED <<session, stash, manifest>>
    BY <1>13, Zenon DEF RecvManifestDone, RecvChanged, sessionVars, FetchGroup, BeginApply,
         NextGroup, Between
  <2>2. /\ Head(stream) = stream[1] /\ 1 \in DOMAIN stream
        /\ \A i \in DOMAIN stream' :
             /\ i + 1 \in DOMAIN stream /\ stream'[i] = stream[i + 1]
             /\ 1 \in 1..((i + 1) - 1)
    BY <1>11, <2>1
  <2>3. \A i \in DOMAIN stream' : stream'[i].type # "Group"
    BY <2>1, <2>2 DEF OneCopy
  <2>4. session.phase # "manifest"
    BY <2>1, <2>2 DEF OneCopy
  <2>5. \A i \in DOMAIN stash' :
          /\ stash'[i].name \in manifest'
          /\ cur' # None => cur'.name # stash'[i].name
          /\ \A j \in 1..(i - 1) : stash'[j].name # stash'[i].name
    <3>1. CASE RecvManifestDone
      BY <2>1, <3>1, Zenon DEF OneCopy, RecvManifestDone
    <3>2. CASE RecvChanged
      <4>1. stash' = <<>>
        BY <1>0, <2>1, <3>2, Zenon DEF RecvChanged, Stages
      <4>2. DOMAIN stash' = {}
        BY <4>1
      <4> QED BY <4>2
    <3> QED BY <1>13, <3>1, <3>2
  <2> QED BY <2>1, <2>3, <2>4, <2>5, Zenon DEF OneCopy
<1>14. CASE ResyncGroup
  <2>1. /\ engine = "resync" /\ stash # <<>> /\ stash' = Tail(stash) /\ cur' = Head(stash)
        /\ UNCHANGED <<session, stream, manifest>>
    BY <1>14 DEF ResyncGroup, BeginApply, sessionVars
  <2>2. /\ Head(stash) = stash[1] /\ 1 \in DOMAIN stash
        /\ Len(stash') = Len(stash) - 1 /\ Len(stash) \in Nat
        /\ \A i \in 1..Len(stash') : stash'[i] = stash[i + 1]
        /\ DOMAIN stash = 1..Len(stash) /\ DOMAIN stash' = 1..Len(stash')
    BY <1>0, <2>1, HeadTail, SeqFacts, TailFacts
  <2>3. \A i \in DOMAIN stash' :
          /\ i + 1 \in DOMAIN stash /\ stash'[i] = stash[i + 1] /\ 1 \in 1..((i + 1) - 1)
          /\ \A j \in 1..(i - 1) : j + 1 \in 1..((i + 1) - 1) /\ stash'[j] = stash[j + 1]
    BY <2>2
  <2>4. \A i \in DOMAIN stash' :
          /\ stash'[i].name \in manifest'
          /\ cur'.name # stash'[i].name
          /\ \A j \in 1..(i - 1) : stash'[j].name # stash'[i].name
    BY <2>1, <2>2, <2>3 DEF OneCopy
  <2>5. session.phase # "manifest" /\ \A i \in DOMAIN stream : stream[i].type # "Group"
    BY <2>1 DEF OneCopy
  <2> QED BY <2>1, <2>4, <2>5, Zenon DEF OneCopy
<1>15. CASE BeginSweep \/ DropStale \/ FetchSecrets \/ ReadSecretData \/ FetchDone \/ Apply
  BY <1>1, <1>15, ZenonT(30) DEF BeginSweep, DropStale, FetchSecrets, ReadSecretData, FetchDone, Apply,
       engineVars, sessionVars, NextGroup, Between
<1>16. CASE EndResync
  <2>1. stash = <<>> /\ stash' = stash /\ engine = "sweep" /\ UNCHANGED <<session, stream>>
    BY <1>0, <1>16, Zenon DEF EndResync, Stages, sessionVars
  <2>2. DOMAIN stash' = {}
    BY <2>1
  <2>3. session.phase # "manifest" /\ \A i \in DOMAIN stream : stream[i].type # "Group"
    BY <2>1, Zenon DEF OneCopy
  <2> QED BY <2>1, <2>2, <2>3, Zenon DEF OneCopy
<1>17. CASE Refetch
  <2>1. cur # None /\ cur.name \in Group /\ engine = "refetch"
    BY <1>0, <1>17, ZenonT(30) DEF Refetch, Stages, State
  <2>2. Snapshot(cur.name).name = cur.name
    BY <1>0, <2>1, SnapshotType
  <2>3. cur' # None => cur'.name = cur.name
    BY <1>17, <2>2, Zenon DEF Refetch, FetchGroup, BeginApply, NextGroup, Between
  <2> QED BY <1>1, <1>17, <2>1, <2>3 DEF Refetch, sessionVars
<1> QED BY <1>4, <1>5, <1>6, <1>7, <1>8, <1>9, <1>10, <1>12, <1>13, <1>14, <1>15, <1>16,
           <1>17 DEF Next, SessionStep, EngineStep


-----------------------------------------------------------------------------
(* From the mutation to the mirror *)

\* What a step has to show of a group that it does not resolve anew.
LEMMA FollowsFrame ==
  ASSUME NEW g \in Group, Follows(g),
         (g \in Scope)' <=> g \in Scope,
         g \in session'.cached <=> g \in session.cached,
         Owed(g) => Owed(g)', Announced(g) => Announced(g)',
         Settled(g) /\ CopiesCurrent(g) /\ Settled(g)' => CopiesCurrent(g)',
         Settled(g) /\ g \in session.cached /\ CopiesCurrent(g) /\ Applied(g) /\ Settled(g)'
           => Applied(g)',
         g \in session.cached /\ Carried(g) => Carried(g)',
         g \notin session.cached /\ Absent(g) => Absent(g)'
  PROVE  Follows(g)'
BY Zenon DEF Follows, Settled

\* A step that leaves the node alone changes neither its snapshots nor its view.
LEMMA UpstreamFrame ==
  ASSUME UNCHANGED upstreamVars
  PROVE  /\ Scope' = Scope /\ View' = View
         /\ \A h \in Group : Snapshot(h)' = Snapshot(h)
         /\ \A h \in Group : ReadAuthorized(h)' <=> ReadAuthorized(h)
BY Zenon DEF upstreamVars, Scope, View, Snapshot, ReadAuthorized

\* A mutation owes its groups to a session that is not overrun, and leaves the
\* others as they are.
LEMMA FollowMutate ==
  ASSUME TypeInv, FollowInv, Mutate, ~Restarts', NEW g \in Group
  PROVE  Follows(g)'
<1>1. PICK G \in SUBSET Group : Mutation(G) /\ Enqueue(G)
  BY DEF Mutate
<1>2. UNCHANGED <<session, stream, engine, stash, manifest, cur, need, fetched, retried,
                  mirror>>
  BY DEF Mutate, engineVars
<1>3. session.phase \notin {"hello", "over"} /\ ~overrun'
  BY <1>2 DEF Restarts
<1>4. /\ overrun => overrun'
      /\ g \in G \/ (\E i \in DOMAIN queue : queue[i] = g) =>
           \E i \in DOMAIN queue' : queue'[i] = g
  BY <1>1, <1>3, EnqueueFacts DEF TypeInv
<1>5. Follows(g)
  BY <1>2, <1>3, <1>4 DEF FollowInv, Restarts
<1>6. g \in G \/ Owed(g) => Owed(g)'
  BY <1>2, <1>4 DEF Owed
<1>7. Announced(g) <=> Announced(g)'
  BY <1>2 DEF Announced, IsChanged
<1>8. Carried(g) => Carried(g)'
  BY <1>2 DEF Carried, InStream, IsGroup
<1>9. Absent(g) => Absent(g)'
  BY <1>2, <1>7, Zenon DEF Absent, InStream, InStash, IsGroup
<1>10. CASE Owed(g)'
  BY <1>2, <1>5, <1>8, <1>9, <1>10, ZenonT(30) DEF Follows, Settled
<1>11. CASE ~Owed(g)'
  <2>1. g \notin G /\ ~Owed(g)
    BY <1>6, <1>11, SMTT(20)
  <2>2. Snapshot(g)' = Snapshot(g) /\ ((g \in Scope)' <=> g \in Scope) /\ View[g]' = View[g]
    BY <1>1, <2>1, MutationFacts, ZenonT(30) DEF TypeInv, TypeOK
  <2>3. CopiesCurrent(g) => CopiesCurrent(g)'
    <3> SUFFICES ASSUME CopiesCurrent(g) PROVE CopiesCurrent(g)'
      OBVIOUS
    <3>1. \A i \in DOMAIN stream' : IsGroup(stream'[i], g) => stream'[i].state = Snapshot(g)'
      BY <1>2, <2>2, Zenon DEF CopiesCurrent
    <3>2. \A i \in DOMAIN stash' : stash'[i].name = g => stash'[i] = Snapshot(g)'
      BY <1>2, <2>2, Zenon DEF CopiesCurrent
    <3>3. ASSUME InHand(g)' PROVE HandCurrent'
      <4>1. InHand(g) /\ HandCurrent /\ cur.name = g
        BY <1>2, <3>3, Zenon DEF InHand, CopiesCurrent
      <4>2. cur' = Snapshot(cur.name)'
        BY <1>2, <2>2, <4>1, Zenon DEF HandCurrent, Snapshot
      <4> QED BY <1>2, <4>1, <4>2, Zenon DEF HandCurrent
    <3> QED BY <3>1, <3>2, <3>3, ZenonT(30) DEF CopiesCurrent
  <2>4. Applied(g) => Applied(g)'
    BY <1>2, <2>2, Zenon DEF Applied, InStream, InStash, InHand, IsGroup
  <2> QED BY <1>2, <1>5, <1>6, <1>7, <1>8, <1>9, <2>2, <2>3, <2>4, FollowsFrame, ZenonT(30)
<1> QED BY <1>10, <1>11


\* The session's steps hand on what the node owes the replica.
LEMMA FollowSession ==
  ASSUME TypeInv, OneCopy, FollowInv, SessionStep, ~Restarts', NEW g \in Group
  PROVE  Follows(g)'
<1>0. /\ Stages /\ stream \in Seq(Message) /\ session \in Session /\ UpstreamType
      /\ queue \in Seq(Group)
  BY Zenon DEF TypeInv, TypeOK
<1>1. /\ UNCHANGED upstreamVars
      /\ UNCHANGED <<engine, stash, manifest, cur, need, fetched, retried, mirror>>
  BY Zenon DEF SessionStep, Subscribe, ResolveScope, SendSnapshot, SendManifestDone, RecvEvent,
       WindowElapses, Emit, engineVars
<1>2. Scope' = Scope /\ View' = View /\ Snapshot(g)' = Snapshot(g)
  BY <1>1, UpstreamFrame
<1>3. ~ResolveScope /\ Carried(g) => Carried(g)'
  BY CarriedStep DEF Next
<1>4. InHand(g)' = InHand(g) /\ InStash(g)' = InStash(g)
  BY <1>1, Zenon DEF InHand, InStash
<1>5. ASSUME InHand(g), HandCurrent PROVE HandCurrent'
  BY <1>1, <1>5, ZenonT(30) DEF HandCurrent, Snapshot, upstreamVars
<1>6. ASSUME ~ResolveScope, Follows(g), session'.cached = session.cached,
             Owed(g) => Owed(g)', Announced(g) => Announced(g)',
             g \notin session.cached => (Announced(g)' => Announced(g)),
             \A i \in DOMAIN stream : i \in DOMAIN stream' /\ stream'[i] = stream[i],
             \A i \in DOMAIN stream' : i \in DOMAIN stream \/ ~IsGroup(stream'[i], g)
      PROVE  Follows(g)'
  <2>1. InStream(g)' <=> InStream(g)
    BY <1>6, Zenon DEF InStream
  <2>2. CopiesCurrent(g) => CopiesCurrent(g)'
    <3> SUFFICES ASSUME CopiesCurrent(g) PROVE CopiesCurrent(g)'
      OBVIOUS
    <3>1. \A i \in DOMAIN stream' : IsGroup(stream'[i], g) => stream'[i].state = Snapshot(g)'
      BY <1>2, <1>6, Zenon DEF CopiesCurrent
    <3>2. \A i \in DOMAIN stash' : stash'[i].name = g => stash'[i] = Snapshot(g)'
      BY <1>1, <1>2, ZenonT(30) DEF CopiesCurrent
    <3> QED BY <1>4, <1>5, <3>1, <3>2, ZenonT(30) DEF CopiesCurrent
  <2>3. Applied(g) => Applied(g)'
    BY <1>1, <1>2, <1>4, <2>1, ZenonT(30) DEF Applied
  <2>4. g \notin session.cached /\ Absent(g) => Absent(g)'
    BY <1>1, <1>4, <1>6, <2>1, ZenonT(30) DEF Absent
  <2> QED BY <1>2, <1>3, <1>6, <2>2, <2>3, <2>4, FollowsFrame, ZenonT(30)
<1>7. CASE Subscribe
  BY <1>7, ZenonT(30) DEF Subscribe, Fresh, Restarts
<1>8. CASE ResolveScope
  <2>1. /\ stream = <<>> /\ stash = <<>> /\ manifest = {} /\ engine = "manifest"
        /\ cur = None /\ session.batch = {} /\ session.phase = "scope"
    BY <1>0, <1>8 DEF ResolveScope, Stages
  <2>2. session'.phase # "over"
    BY DEF Restarts
  <2>3. session' = [session EXCEPT !.phase = "manifest", !.todo = Scope, !.cached = Scope]
        /\ stream' = stream
    BY <1>8, <2>2 DEF ResolveScope, Fresh
  <2>4. session'.phase = "manifest" /\ session'.todo = Scope /\ session'.cached = Scope
    BY <1>0, <2>3 DEF Session
  <2>5. DOMAIN stream' = {} /\ DOMAIN stash' = {} /\ {} # None
    BY <1>1, <2>1, <2>3, GroupsAssumption
  <2>6. ~InStream(g)' /\ ~InStash(g)' /\ ~InHand(g)'
    BY <1>1, <2>1, <2>5, ZenonT(30) DEF InStream, InStash, InHand
  <2>7. CopiesCurrent(g)'
    BY <2>5, <2>6, Zenon DEF CopiesCurrent
  <2>8. Announced(g)' <=> g \in Scope
    BY <1>1, <2>1, <2>4, <2>5, ZenonT(30) DEF Announced
  <2>9. g \in Scope => Carried(g)'
    BY <1>1, <2>1, <2>4, <2>5, ZenonT(30) DEF Carried
  <2>10. g \notin Scope => Absent(g)'
    BY <1>1, <2>1, <2>5, <2>6, <2>8 DEF Absent
  <2> QED BY <1>2, <2>4, <2>7, <2>8, <2>9, <2>10, ZenonT(30) DEF Follows, Settled
<1>9. CASE SendSnapshot
  <2> DEFINE h == First(session.todo)
             m == [type |-> "Group", state |-> Snapshot(h)]
             n == Len(stream) + 1
  <2>1. /\ session.phase = "manifest" /\ session.todo # {} /\ stream' = Append(stream, m)
        /\ session' = [session EXCEPT !.todo = session.todo \ {h}]
        /\ UNCHANGED <<queue, overrun>>
    BY <1>9 DEF SendSnapshot, Send
  <2>2. h \in Group /\ h \in session.todo
    BY <1>0, <2>1, FirstIn DEF Session
  <2> HIDE DEF h
  <2>3. Snapshot(h) \in State /\ Snapshot(h).name = h
    BY <1>0, <2>2, SnapshotType
  <2>4. m \in Message /\ m.type = "Group" /\ m.state.name = h /\ m.state = Snapshot(h)
    BY <2>3, Zenon DEF Message
  <2>5. session'.todo = session.todo \ {h} /\ session'.phase = "manifest"
        /\ session'.cached = session.cached /\ session'.batch = session.batch
        /\ session'.lagged = session.lagged
    BY <1>0, <2>1 DEF Session
  <2>6. /\ DOMAIN stream' = 1..n /\ stream'[n] = m /\ n \in Nat \ {0}
        /\ DOMAIN stream = 1..(n - 1)
        /\ \A i \in DOMAIN stream : stream'[i] = stream[i]
        /\ \A i \in DOMAIN stream' : i \in DOMAIN stream \/ i = n
    BY <1>0, <2>1, <2>4, AppendFacts
  <2> HIDE DEF m, n
  <2>7. /\ \A i \in DOMAIN stream : i \in DOMAIN stream' /\ stream'[i] = stream[i]
        /\ n \in DOMAIN stream'
    BY <2>6
  <2>8. Follows(g)
    <3>1. ~Restarts
      BY <1>1, <2>1, <2>5, <2>7 DEF Restarts
    <3> QED BY <3>1 DEF FollowInv
  <2>9. Owed(g) <=> Owed(g)'
    BY <2>1, <2>5 DEF Owed
  <2>10. CASE g # h
    <3>1. Announced(g) <=> Announced(g)'
      BY <1>1, <2>1, <2>4, <2>5, <2>6, <2>7, <2>10, SMTT(20) DEF Announced, IsChanged
    <3>2. \A i \in DOMAIN stream' : i \in DOMAIN stream \/ ~IsGroup(stream'[i], g)
      BY <2>4, <2>6, <2>10, ZenonT(30) DEF IsGroup
    <3>3. ~ResolveScope
      BY <2>1, SMTT(20) DEF ResolveScope
    <3> QED BY <1>6, <2>5, <2>7, <2>8, <2>9, <3>1, <3>2, <3>3, ZenonT(30)
  <2>11. CASE g = h
    <3>1. engine = "manifest" /\ g \notin manifest /\ ~InStream(g)
      BY <2>1, <2>2, <2>11 DEF OneCopy
    <3>2. ~InStash(g) /\ ~InHand(g)
      BY <3>1, Zenon DEF InStash, InHand, OneCopy
    <3>3. InStream(g)'
      BY <2>4, <2>6, <2>7, <2>11, ZenonT(30) DEF InStream, IsGroup
    <3>4. CopiesCurrent(g)'
      <4>1. \A i \in DOMAIN stream' : IsGroup(stream'[i], g) => stream'[i].state = Snapshot(g)'
        BY <1>2, <2>4, <2>6, <2>11, <3>1, ZenonT(30) DEF InStream
      <4>2. \A i \in DOMAIN stash' : stash'[i].name # g
        BY <1>1, <3>2 DEF InStash
      <4> QED BY <1>4, <3>2, <4>1, <4>2, ZenonT(30) DEF CopiesCurrent
    <3>5. g \in session.cached
      BY <2>1, <2>2, <2>8, <2>11 DEF Follows, Absent, Announced
    <3>6. Carried(g)'
      BY <1>3, <2>1, <2>8, <3>5, SMTT(20) DEF Follows, ResolveScope
    <3> QED BY <1>2, <2>5, <2>8, <2>9, <3>3, <3>4, <3>5, <3>6, ZenonT(30) DEF Follows, Applied
  <2> QED BY <2>10, <2>11
<1>10. CASE SendManifestDone
  <2> DEFINE m == [type |-> "ManifestDone"]
             n == Len(stream) + 1
  <2>1. /\ session.phase = "manifest" /\ session.todo = {} /\ stream' = Append(stream, m)
        /\ session' = [session EXCEPT !.phase = "live"] /\ UNCHANGED <<queue, overrun>>
    BY <1>10 DEF SendManifestDone, Send
  <2>2. m \in Message /\ m.type = "ManifestDone"
    BY DEF Message
  <2>3. session'.phase = "live" /\ session'.cached = session.cached
        /\ session'.batch = session.batch /\ session'.lagged = session.lagged
    BY <1>0, <2>1 DEF Session
  <2>4. /\ DOMAIN stream' = 1..n /\ stream'[n] = m /\ n \in Nat /\ DOMAIN stream = 1..(n - 1)
        /\ \A i \in DOMAIN stream : stream'[i] = stream[i]
        /\ \A i \in DOMAIN stream' : i \in DOMAIN stream \/ i = n
    BY <1>0, <2>1, <2>2, AppendFacts
  <2> HIDE DEF m, n
  <2>5. \A i \in DOMAIN stream : i \in DOMAIN stream' /\ stream'[i] = stream[i]
    BY <2>4
  <2>6. ~Restarts /\ ~ResolveScope
    BY <1>1, <2>1, <2>3, <2>5 DEF Restarts, ResolveScope
  <2>7. Owed(g) <=> Owed(g)'
    BY <2>1, <2>3 DEF Owed
  <2>8. Announced(g) <=> Announced(g)'
    BY <1>1, <2>1, <2>2, <2>3, <2>4, <2>5 DEF Announced, IsChanged
  <2>9. \A i \in DOMAIN stream' : i \in DOMAIN stream \/ ~IsGroup(stream'[i], g)
    BY <2>2, <2>4, ZenonT(30) DEF IsGroup
  <2> QED BY <1>6, <2>3, <2>5, <2>6, <2>7, <2>8, <2>9, ZenonT(30) DEF FollowInv
<1>11. CASE RecvEvent
  <2>1. session.phase \in {"live", "debounce"} /\ stream' = stream
    BY <1>11 DEF RecvEvent
  <2>2. ~overrun
    <3> SUFFICES ASSUME overrun PROVE FALSE
      OBVIOUS
    <3>1. session' = [session EXCEPT !.phase = "debounce", !.lagged = TRUE]
      BY <1>11 DEF RecvEvent
    <3>2. session'.lagged
      BY <1>0, <3>1 DEF Session
    <3> QED BY <3>2 DEF Restarts
  <2>3. /\ queue # <<>> /\ queue' = Tail(queue) /\ overrun' = overrun
        /\ session' = [session EXCEPT !.phase = "debounce",
                                      !.batch = session.batch \cup {Head(queue)}]
    BY <1>11, <2>2 DEF RecvEvent
  <2>4. session'.phase = "debounce" /\ session'.cached = session.cached
        /\ session'.batch = session.batch \cup {Head(queue)}
        /\ session'.lagged = session.lagged
    BY <1>0, <2>3 DEF Session
  <2>5. /\ Head(queue) = queue[1]
        /\ \A i \in DOMAIN queue :
             i = 1 \/ (i - 1 \in DOMAIN queue' /\ queue'[i - 1] = queue[i])
    BY <1>0, <2>3, TailFacts
  <2>6. Owed(g) => Owed(g)'
    BY <2>4, <2>5 DEF Owed
  <2>7. Announced(g) <=> Announced(g)'
    BY <1>1, <2>1, <2>4, ZenonT(30) DEF Announced, IsChanged
  <2>8. ~Restarts /\ ~ResolveScope
    BY <1>1, <2>1, <2>3, <2>4 DEF Restarts, ResolveScope
  <2> QED BY <1>6, <2>1, <2>4, <2>6, <2>7, <2>8, ZenonT(30) DEF FollowInv
<1>12. CASE WindowElapses
  <2>1. /\ session.phase = "debounce" /\ UNCHANGED <<queue, overrun, stream>>
        /\ session' = [session EXCEPT !.phase = "emit"]
    BY <1>12 DEF WindowElapses
  <2>2. session'.phase = "emit" /\ session'.cached = session.cached
        /\ session'.batch = session.batch /\ session'.lagged = session.lagged
    BY <1>0, <2>1 DEF Session
  <2>3. Owed(g) <=> Owed(g)'
    BY <2>1, <2>2 DEF Owed
  <2>4. Announced(g) <=> Announced(g)'
    BY <1>1, <2>1, <2>2 DEF Announced, IsChanged
  <2>5. ~Restarts /\ ~ResolveScope
    BY <1>1, <2>1, <2>2 DEF Restarts, ResolveScope
  <2> QED BY <1>6, <2>1, <2>2, <2>3, <2>4, <2>5 DEF FollowInv
<1>13. CASE Emit
  <2>1. ~ScopeMoved
    <3> SUFFICES ASSUME ScopeMoved PROVE FALSE
      OBVIOUS
    <3> DEFINE m == [type |-> "ScopeChanged"]
    <3>1. stream' = Append(stream, m)
      BY <1>13 DEF Emit, Send
    <3>2. m \in Message /\ m.type = "ScopeChanged"
      BY DEF Message
    <3> HIDE DEF m
    <3>3. Len(stream) + 1 \in DOMAIN stream' /\ stream'[Len(stream) + 1] = m
      BY <1>0, <3>1, <3>2, AppendFacts
    <3> QED BY <3>2, <3>3 DEF Restarts
  <2>2. /\ session.phase = "emit" /\ session' = [Fresh("live") EXCEPT !.cached = Scope]
        /\ UNCHANGED <<queue, overrun>>
    BY <1>13 DEF Emit
  <2>3. session'.phase = "live" /\ session'.cached = Scope /\ session'.batch = {}
    BY <2>2 DEF Fresh
  <2>4. ~session.lagged /\ Scope = session.cached
    BY <2>1 DEF ScopeMoved
  <2>5. /\ \A i \in DOMAIN stream : i \in DOMAIN stream' /\ stream'[i] = stream[i]
        /\ \A i \in DOMAIN stream' : i \in DOMAIN stream \/ stream'[i].type = "Changed"
        /\ g \in session.batch \cap session.cached =>
             \E i \in DOMAIN stream' : IsChanged(stream'[i], g)
        /\ \A i \in DOMAIN stream' : IsChanged(stream'[i], g) =>
             g \in session.cached \/ (i \in DOMAIN stream /\ IsChanged(stream[i], g))
    BY <1>13, <2>1, EmitFacts, ZenonT(30)
  <2>6. ~Restarts /\ ~ResolveScope
    BY <1>1, <2>2, <2>4, <2>5 DEF Restarts, ResolveScope
  <2>7. Follows(g)
    BY <2>6 DEF FollowInv
  <2>8. Announced(g) => Announced(g)'
    BY <1>1, <2>2, <2>5 DEF Announced
  <2>9. g \notin session.cached => (Announced(g)' => Announced(g))
    BY <1>1, <2>3, <2>5, ZenonT(30) DEF Announced
  <2>10. \A i \in DOMAIN stream' : i \in DOMAIN stream \/ ~IsGroup(stream'[i], g)
    BY <2>5, Zenon DEF IsGroup
  <2>11. CASE g \notin session.batch
    <3>1. Owed(g) => Owed(g)'
      BY <2>2, <2>11, SMTT(20) DEF Owed
    <3> QED BY <1>6, <2>3, <2>4, <2>5, <2>6, <2>7, <2>8, <2>9, <2>10, <3>1, ZenonT(30)
  <2>12. CASE g \in session.batch /\ g \in session.cached
    <3>1. Announced(g)'
      BY <2>5, <2>12, ZenonT(30) DEF Announced
    <3>2. Carried(g)'
      BY <1>3, <2>6, <2>7, <2>12, ZenonT(30) DEF Follows
    <3> QED BY <1>2, <2>3, <2>4, <2>12, <3>1, <3>2, ZenonT(30) DEF Follows, Settled
  <2>13. CASE g \in session.batch /\ g \notin session.cached
    <3>1. Absent(g)
      BY <2>7, <2>13, ZenonT(30) DEF Follows
    <3>2. ~InStream(g)'
      BY <2>5, <2>10, <3>1 DEF InStream, Absent
    <3>3. Absent(g)'
      BY <1>1, <1>4, <2>9, <2>13, <3>1, <3>2, SMTT(40) DEF Absent
    <3>4. ~InHand(g)'
      BY <1>0, <1>4, <3>1, ZenonT(30) DEF Absent, InHand, Stages
    <3>5. CopiesCurrent(g)'
      BY <3>2, <3>3, <3>4, ZenonT(30) DEF CopiesCurrent, Absent, InStream, InStash
    <3> QED BY <1>2, <2>3, <2>4, <2>13, <3>3, <3>5, ZenonT(30) DEF Follows
  <2> QED BY <2>11, <2>12, <2>13
<1> QED BY <1>7, <1>8, <1>9, <1>10, <1>11, <1>12, <1>13, SMTT(20) DEF SessionStep


\* What begins to be applied is in hand as it was snapshot, with nothing fetched
\* but what the mirror holds in just this version.
LEMMA BeginApplyCurrent ==
  ASSUME NEW state \in State, NEW again \in BOOLEAN, BeginApply(state, again),
         UNCHANGED <<upstreamVars, mirror>>, state = Snapshot(state.name)
  PROVE  HandCurrent'
<1>1. /\ engine' \in {"apply", "fetch"} /\ (engine' = "apply" => need' = {})
      /\ cur' = state /\ need' = NeedingFetch(state) /\ fetched' = NothingFetched
  BY BeginApplyFacts
<1>2. Snapshot(state.name)' = Snapshot(state.name)
  BY Zenon DEF Snapshot, upstreamVars
<1>3. cur' = Snapshot(cur.name)'
  BY <1>1, <1>2, ZenonT(30) DEF Snapshot
<1>4. \A s \in Secret :
        /\ fetched'[s] = None
        /\ s \in need' => cur'.secrets[s] # None
        /\ cur'.secrets[s] # None /\ s \notin need' =>
             mirror'[cur'.name] # None /\ mirror'[cur'.name].secrets[s] = cur'.secrets[s]
  BY <1>1, Zenon DEF NeedingFetch, NothingFetched
<1> QED BY <1>1, <1>3, <1>4, ZenonT(30) DEF HandCurrent

\* FetchGroup brings the group h as it is, or drops it when it may not be read.
LEMMA FollowFetch ==
  ASSUME TypeInv, OneCopy, NEW h \in Group, NEW again \in BOOLEAN, FetchGroup(h, again),
         engine \in {"live", "refetch"},
         UNCHANGED <<upstreamVars, session, queue, stash, manifest>>,
         \A x \in Group : InStream(x)' <=> InStream(x),
         \A i \in DOMAIN stream' : stream'[i].type # "Group",
         ~InStash(h), h \in session.cached, Carried(h) => Carried(h)',
         NEW g \in Group, Follows(g), Carried(g) => Carried(g)',
         g # h => (Announced(g) <=> Announced(g)')
  PROVE  Follows(g)'
<1>0. /\ UpstreamType /\ mirror \in [Group -> Mirrored \cup {None}]
  BY Zenon DEF TypeInv, TypeOK
<1>1. Scope' = Scope /\ View' = View /\ Snapshot(g)' = Snapshot(g)
  BY UpstreamFrame, Zenon
<1>2. /\ \/ /\ ReadAuthorized(h) /\ mirror' = mirror
            /\ engine' \in {"apply", "fetch"}
            /\ cur' = Snapshot(h) /\ cur' # None
         \/ /\ ~ReadAuthorized(h) /\ mirror' = [mirror EXCEPT ![h] = None]
            /\ engine' = IF manifest = None THEN "live" ELSE "resync"
            /\ cur' = None
  BY <1>0, FetchGroupFacts, Zenon
<1>3. InStash(g)' <=> InStash(g)
  BY Zenon DEF InStash
<1>4. ~InHand(g) /\ (Owed(g) <=> Owed(g)')
  BY Zenon DEF InHand, Owed
<1>5. Snapshot(h) \in State /\ Snapshot(h).name = h
  BY <1>0, SnapshotType, ZenonT(30)
<1>6. ASSUME g # h PROVE ~InHand(g)' /\ mirror'[g] = mirror[g] /\ (cur' # None => cur'.name # g)
  BY <1>0, <1>2, <1>5, <1>6, ZenonT(30) DEF InHand
<1>7. CASE g # h
  <2>1. CopiesCurrent(g) => CopiesCurrent(g)'
    BY <1>1, <1>6, <1>7, Zenon DEF CopiesCurrent, IsGroup
  <2>2. Applied(g) => Applied(g)'
    BY <1>1, <1>3, <1>4, <1>6, <1>7, ZenonT(30) DEF Applied
  <2>3. Absent(g) => Absent(g)'
    BY <1>3, <1>6, <1>7, Zenon DEF Absent
  <2> QED BY <1>1, <1>4, <1>7, <2>1, <2>2, <2>3, FollowsFrame, ZenonT(30)
<1>8. CASE g = h
  <2>1. CopiesCurrent(g)' /\ Applied(g)'
    <3>1. /\ \A i \in DOMAIN stream' : ~IsGroup(stream'[i], g)
          /\ \A i \in DOMAIN stash' : stash'[i].name # g
      BY <1>8, Zenon DEF IsGroup, InStash
    <3>2. CASE ReadAuthorized(h)
      <4>1. BeginApply(Snapshot(h), again) /\ mirror' = mirror
        BY <3>2, ZenonT(30) DEF FetchGroup
      <4>2. HandCurrent'
        BY <1>5, <4>1, BeginApplyCurrent, ZenonT(30)
      <4>3. InHand(g)'
        BY <1>2, <1>5, <1>8, <3>2, ZenonT(30) DEF InHand
      <4> QED BY <3>1, <4>2, <4>3, ZenonT(30) DEF CopiesCurrent, Applied
    <3>3. CASE ~ReadAuthorized(h)
      <4>1. ~InHand(g)'
        BY <1>2, <3>3, ZenonT(30) DEF InHand
      <4>2. mirror'[g] = None /\ View[g] = None
        BY <1>0, <1>2, <1>8, <3>3, ZenonT(30) DEF View
      <4>3. mirror'[g] = View[g]'
        BY <1>1, <4>2, ZenonT(30)
      <4> QED BY <3>1, <4>1, <4>3, ZenonT(30) DEF CopiesCurrent, Applied
    <3> QED BY <3>2, <3>3, ZenonT(30)
  <2> QED BY <1>1, <1>4, <1>8, <2>1, ZenonT(30) DEF Follows
<1> QED BY <1>7, <1>8, Zenon

\* apply_group_sync of a group in hand that is the node's current state makes the
\* mirror that state: nothing is withheld, for the snapshot has every wrap.
LEMMA ApplyCurrent ==
  ASSUME TypeInv, Apply, HandCurrent, ReadAuthorized(cur.name)
  PROVE  mirror'[cur.name] = View[cur.name]
<1> DEFINE h == cur.name
           new == [s \in Secret |-> IF s \in Withheld THEN None ELSE fetched[s]]
           local(s) == IF mirror[h] = None THEN None ELSE mirror[h].secrets[s]
           kept == [s \in Secret |->
                      CASE cur.secrets[s] = None -> None
                        [] cur.secrets[s] # None /\ new[s] # None -> new[s]
                        [] OTHER -> local(s)]
<1>0. /\ UpstreamType /\ Bounds /\ mirror \in [Group -> Mirrored \cup {None}]
      /\ cur \in State /\ h \in Group /\ engine = "apply" /\ need = {}
      /\ fetched \in [Secret -> Entry \cup {None}]
  BY Zenon DEF TypeInv, TypeOK, Stages, Apply, HandCurrent, State
<1>1. mirror' = [mirror EXCEPT ![h] = [deks |-> cur.deks, acl |-> cur.acl, secrets |-> kept]]
  BY DEF Apply, ApplyGroupSync
<1>2. h \in reads /\ cur = Snapshot(h)
  BY Zenon DEF ReadAuthorized, HandCurrent
<1>3. cur.deks = 1..dek[h] /\ cur.acl = acl[h] /\ cur.secrets = secret[h]
  BY <1>2 DEF Snapshot
<1>4. \A s \in Secret : secret[h][s] # None => secret[h][s].dek \in 1..dek[h]
  <2> SUFFICES ASSUME NEW s \in Secret, secret[h][s] # None
               PROVE  secret[h][s].dek \in 1..dek[h]
    BY Zenon
  <2>1. secret[h][s] \in Entry /\ dek[h] \in DekVersion
    BY <1>0, SMTT(20) DEF UpstreamType
  <2>2. secret[h][s].dek \in DekVersion
    BY <2>1, Zenon DEF Entry
  <2>3. secret[h][s].dek <= dek[h]
    BY <1>0, Zenon DEF Bounds
  <2> QED BY <2>1, <2>2, <2>3, ClockBound, SMTT(20) DEF DekVersion
<1>5. \A s \in Secret : s \notin Withheld
  BY <1>3, <1>4, Zenon DEF Withheld, HandCurrent
<1>6. \A s \in Secret : new[s] = fetched[s]
  BY <1>5, SMTT(20)
<1>7. \A s \in Secret : cur.secrets[s] # None =>
        \/ fetched[s] # None /\ fetched[s] = cur.secrets[s]
        \/ fetched[s] = None /\ local(s) = cur.secrets[s]
  BY <1>0, Zenon DEF HandCurrent
<1> HIDE DEF new, local
<1>8. \A s \in Secret : kept[s] = cur.secrets[s]
  BY <1>6, <1>7
<1>9. cur.secrets \in [Secret -> Entry \cup {None}]
  BY <1>0, Zenon DEF State
<1>10. kept = cur.secrets
  BY <1>8, <1>9
<1> HIDE DEF kept
<1>11. mirror'[h] = [deks |-> cur.deks, acl |-> cur.acl, secrets |-> cur.secrets]
  BY <1>0, <1>1, <1>10, Zenon
<1>12. View[h] = [deks |-> Snapshot(h).deks, acl |-> Snapshot(h).acl,
                  secrets |-> Snapshot(h).secrets]
  BY <1>0, ZenonT(30) DEF View
<1> QED BY <1>2, <1>11, <1>12, ZenonT(30)


\* The engine's steps carry the copies to the mirror.
LEMMA FollowEngine ==
  ASSUME TypeInv, OneCopy, FollowInv, EngineStep \/ ConnectionLost, ~Restarts',
         NEW g \in Group
  PROVE  Follows(g)'
<1>0. /\ Stages /\ stream \in Seq(Message) /\ stash \in Seq(State) /\ UpstreamType
      /\ cur \in State \cup {None} /\ mirror \in [Group -> Mirrored \cup {None}]
      /\ fetched \in [Secret -> Entry \cup {None}] /\ need \in SUBSET Secret
      /\ engine \in Engine /\ manifest \in (SUBSET Group) \cup {None}
  BY Zenon DEF TypeInv, TypeOK
<1>1. ~(Connect \/ RecvScopeChanged \/ RecvDenied \/ ConnectionLost)
  <2> SUFFICES ASSUME Connect \/ RecvScopeChanged \/ RecvDenied \/ ConnectionLost
               PROVE  Restarts'
    BY SMTT(20)
  <2>1. engine' = "idle" \/ session'.phase = "hello"
    <3>1. Hello \/ Disconnected
      BY Zenon DEF Connect, RecvScopeChanged, RecvDenied, ConnectionLost
    <3>2. Fresh("hello").phase = "hello"
      BY DEF Fresh
    <3> QED BY <3>1, <3>2, Zenon DEF Hello, Disconnected, Between
  <2> QED BY <2>1, Zenon DEF Restarts
<1>2. UNCHANGED <<upstreamVars, session, queue, overrun>> /\ engine # "idle"
  BY <1>1, Zenon DEF EngineStep, RecvGroup, RecvManifestDone, ResyncGroup, BeginSweep, DropStale,
       EndResync, RecvChanged, FetchSecrets, ReadSecretData, FetchDone, Apply, Refetch,
       sessionVars
<1>3. Scope' = Scope /\ View' = View /\ Snapshot(g)' = Snapshot(g)
  BY <1>2, UpstreamFrame, ZenonT(30)
<1>4. \A x \in Group : Carried(x) => Carried(x)'
  <2>1. ~ResolveScope
    <3> SUFFICES ASSUME ResolveScope PROVE FALSE
      OBVIOUS
    <3>1. session.phase = "scope" /\ session \in Session
      BY DEF ResolveScope, TypeInv, TypeOK
    <3>2. \/ session' = [session EXCEPT !.phase = "manifest", !.todo = Scope, !.cached = Scope]
          \/ session' = Fresh("over")
      BY DEF ResolveScope
    <3>3. session'.phase = "manifest" \/ session'.phase = "over"
      <4>1. CASE session' = Fresh("over")
        BY <4>1, ZenonT(30) DEF Fresh
      <4>2. CASE session' = [session EXCEPT !.phase = "manifest", !.todo = Scope,
                                            !.cached = Scope]
        BY <3>1, <4>2 DEF Session
      <4> QED BY <3>2, <4>1, <4>2
    <3> QED BY <1>2, <3>1, <3>3, ZenonT(30)
  <2> QED BY <2>1, CarriedStep DEF Next
<1>5. Owed(g) <=> Owed(g)'
  BY <1>2, ZenonT(30) DEF Owed
<1>6. ASSUME stream' = stream PROVE Follows(g) /\ (InStream(g)' <=> InStream(g))
  BY <1>2, <1>6, ZenonT(30) DEF Restarts, FollowInv, InStream
<1>7. ASSUME stream # <<>>, stream' = Tail(stream), Head(stream).type # "ScopeChanged"
      PROVE  /\ Head(stream) = stream[1] /\ 1 \in DOMAIN stream
             /\ \A i \in DOMAIN stream' : i + 1 \in DOMAIN stream /\ stream'[i] = stream[i + 1]
             /\ \A i \in DOMAIN stream :
                  i = 1 \/ (i - 1 \in DOMAIN stream' /\ stream'[i - 1] = stream[i])
             /\ \A x \in Group : Follows(x)
  <2>1. /\ Head(stream) = stream[1] /\ 1 \in DOMAIN stream
        /\ \A i \in DOMAIN stream' : i + 1 \in DOMAIN stream /\ stream'[i] = stream[i + 1]
        /\ \A i \in DOMAIN stream :
             i = 1 \/ (i - 1 \in DOMAIN stream' /\ stream'[i - 1] = stream[i])
    BY <1>0, <1>7, TailFacts, ZenonT(30)
  <2>2. ~Restarts
    BY <1>2, <1>7, <2>1, ZenonT(30) DEF Restarts
  <2> QED BY <2>1, <2>2, ZenonT(30) DEF FollowInv
<1>8. ASSUME ~(engine = "refetch" /\ cur.name = g), ~(engine' = "refetch" /\ cur'.name = g),
             (\E i \in DOMAIN stream' : IsChanged(stream'[i], g)) <=>
             (\E i \in DOMAIN stream : IsChanged(stream[i], g))
      PROVE  Announced(g) <=> Announced(g)'
  BY <1>2, <1>8, Zenon DEF Announced
<1>9. ASSUME cur # None PROVE cur \in State /\ cur.name \in Group
  BY <1>0, <1>9, Zenon DEF State

\* steps that touch none of the copies
<1>10. CASE BeginSweep \/ EndResync \/ DropStale
  <2>1. /\ UNCHANGED <<stream, stash, cur>> /\ engine \in {"resync", "sweep"}
        /\ engine' \in {"sweep", "live"}
    BY <1>10, Zenon DEF BeginSweep, EndResync, DropStale, engineVars
  <2>2. Follows(g) /\ (InStream(g)' <=> InStream(g)) /\ (Announced(g) <=> Announced(g)')
    BY <1>6, <1>8, <2>1, ZenonT(30)
  <2>3. (InStash(g)' <=> InStash(g)) /\ ~InHand(g) /\ ~InHand(g)' /\ cur' = None
    BY <1>0, <2>1, ZenonT(30) DEF InStash, InHand, Stages
  <2>4. CopiesCurrent(g) => CopiesCurrent(g)'
    BY <1>3, <2>1, <2>3, ZenonT(30) DEF CopiesCurrent
  <2>5. ASSUME g \in session.cached PROVE mirror'[g] = mirror[g]
    <3>1. CASE DropStale
      <4>1. First(StaleGroups) \in StaleGroups /\ engine = "sweep" /\ manifest # None
        BY <1>0, <3>1, FirstIn, ZenonT(30) DEF DropStale, Stages
      <4>2. g \in manifest
        BY <2>2, <2>5, <4>1, ZenonT(30) DEF Follows, Carried
      <4> QED BY <1>0, <3>1, <4>1, <4>2, ZenonT(30) DEF DropStale, DropGroup, StaleGroups
    <3> QED BY <1>10, <3>1, ZenonT(30) DEF BeginSweep, EndResync
  <2>6. g \in session.cached /\ Applied(g) => Applied(g)'
    BY <1>3, <2>2, <2>3, <2>5, ZenonT(30) DEF Applied
  <2>7. Absent(g) => Absent(g)'
    <3>1. CASE EndResync
      <4>1. manifest' = None /\ manifest # None /\ mirror' = mirror /\ StaleGroups = {}
        BY <1>0, <3>1, ZenonT(30) DEF EndResync, Stages
      <4> QED BY <2>2, <2>3, <4>1, ZenonT(30) DEF Absent, StaleGroups
    <3>2. CASE BeginSweep \/ DropStale
      <4>1. manifest' = manifest /\ manifest # None
        BY <1>0, <3>2, ZenonT(30) DEF BeginSweep, DropStale, engineVars, Stages
      <4> QED BY <2>2, <2>3, <4>1, ZenonT(30) DEF Absent
    <3> QED BY <1>10, <3>1, <3>2, SMTT(40)
  <2> QED BY <1>2, <1>3, <1>4, <1>5, <2>2, <2>4, <2>6, <2>7, FollowsFrame, ZenonT(30)

\* the manifest
<1>11. CASE RecvGroup
  <2> DEFINE x == Head(stream).state
             n == Len(stash) + 1
  <2>1. /\ stream # <<>> /\ Head(stream).type = "Group" /\ engine = "manifest"
        /\ stream' = Tail(stream) /\ manifest' = manifest \cup {x.name} /\ cur = None
        /\ stash' = Append(stash, x) /\ UNCHANGED <<engine, cur, mirror>>
    BY <1>0, <1>11, ZenonT(30) DEF RecvGroup, Stages
  <2>2. /\ Head(stream) = stream[1] /\ 1 \in DOMAIN stream
        /\ \A i \in DOMAIN stream' : i + 1 \in DOMAIN stream /\ stream'[i] = stream[i + 1]
        /\ \A i \in DOMAIN stream :
             i = 1 \/ (i - 1 \in DOMAIN stream' /\ stream'[i - 1] = stream[i])
        /\ Follows(g)
    BY <1>7, <2>1, ZenonT(30)
  <2>3. x \in State
    BY <1>0, <2>1, HeadTail, MessageFacts, ZenonT(30)
  <2>4. /\ n \in DOMAIN stash' /\ stash'[n] = x
        /\ \A i \in DOMAIN stash : i \in DOMAIN stash' /\ stash'[i] = stash[i]
        /\ \A i \in DOMAIN stash' : i \in DOMAIN stash \/ i = n
    <3>1. /\ Len(stash) \in Nat /\ DOMAIN stash = 1..Len(stash) /\ DOMAIN stash' = 1..n
          /\ \A i \in DOMAIN stash : stash'[i] = stash[i]
          /\ stash'[n] = x
          /\ \A i \in DOMAIN stash' : i \in DOMAIN stash \/ i = n
      BY <1>0, <2>1, <2>3, AppendFacts, SMTT(20)
    <3> QED BY <3>1
  <2> HIDE DEF n
  <2>5. Announced(g) <=> Announced(g)'
    <3>1. ~IsChanged(stream[1], g)
      BY <2>1, <2>2, ZenonT(30) DEF IsChanged
    <3>2. (\E i \in DOMAIN stream' : IsChanged(stream'[i], g)) =>
          (\E i \in DOMAIN stream : IsChanged(stream[i], g))
      BY <2>2, Zenon
    <3>3. (\E i \in DOMAIN stream : IsChanged(stream[i], g)) =>
          (\E i \in DOMAIN stream' : IsChanged(stream'[i], g))
      BY <2>2, <3>1, Zenon
    <3> QED BY <1>8, <2>1, <3>2, <3>3, Zenon
  <2>6. ~InHand(g) /\ ~InHand(g)'
    BY <2>1, Zenon DEF InHand
  <2>7. CopiesCurrent(g) => CopiesCurrent(g)'
    <3> SUFFICES ASSUME CopiesCurrent(g) PROVE CopiesCurrent(g)'
      BY SMTT(20)
    <3>1. \A i \in DOMAIN stream' : IsGroup(stream'[i], g) => stream'[i].state = Snapshot(g)'
      BY <1>3, <2>2 DEF CopiesCurrent
    <3>2. x.name = g => x = Snapshot(g)
      BY <2>1, <2>2, Zenon DEF CopiesCurrent, IsGroup
    <3>3. \A i \in DOMAIN stash' : stash'[i].name = g => stash'[i] = Snapshot(g)'
      BY <1>3, <2>4, <3>2, ZenonT(30) DEF CopiesCurrent
    <3> QED BY <2>6, <3>1, <3>3, ZenonT(30) DEF CopiesCurrent
  <2>8. InStash(g) => InStash(g)'
    BY <2>4, Zenon DEF InStash
  <2>9. InStream(g) => InStream(g)' \/ InStash(g)'
    BY <2>2, <2>4, SMTT(20) DEF InStream, InStash, IsGroup
  <2>10. Applied(g) => Applied(g)'
    BY <1>3, <2>1, <2>6, <2>8, <2>9, Zenon DEF Applied
  <2>11. Absent(g) => Absent(g)'
    <3> SUFFICES ASSUME Absent(g) PROVE Absent(g)'
      OBVIOUS
    <3>1. x.name # g
      BY <2>1, <2>2, Zenon DEF Absent, InStream, IsGroup
    <3>2. ~InStream(g)' /\ ~InStash(g)'
      BY <2>2, <2>4, <3>1, Zenon DEF Absent, InStream, InStash
    <3>3. manifest # None /\ g \notin manifest /\ manifest \in SUBSET Group
      BY <1>0, <2>1, Zenon DEF Absent, Stages
    <3>4. manifest' # None
      BY <2>1, <2>3, <3>3, GroupsAssumption, ZenonT(30) DEF State
    <3> QED BY <2>1, <2>5, <3>1, <3>2, <3>3, <3>4, ZenonT(30) DEF Absent
  <2> QED BY <1>2, <1>3, <1>4, <1>5, <2>2, <2>5, <2>7, <2>10, <2>11, FollowsFrame, ZenonT(30)
<1>12. CASE RecvManifestDone
  <2>1. /\ stream # <<>> /\ Head(stream).type = "ManifestDone" /\ engine = "manifest"
        /\ stream' = Tail(stream) /\ cur = None /\ engine' = "resync"
        /\ UNCHANGED <<stash, manifest, cur, mirror>>
    BY <1>0, <1>12, Zenon DEF RecvManifestDone, Stages
  <2>2. /\ Head(stream) = stream[1] /\ 1 \in DOMAIN stream
        /\ \A i \in DOMAIN stream' : i + 1 \in DOMAIN stream /\ stream'[i] = stream[i + 1]
        /\ \A i \in DOMAIN stream :
             i = 1 \/ (i - 1 \in DOMAIN stream' /\ stream'[i - 1] = stream[i])
        /\ Follows(g)
    BY <1>7, <2>1, Zenon
  <2>3. Announced(g) <=> Announced(g)'
    <3>1. (\E i \in DOMAIN stream' : IsChanged(stream'[i], g)) <=>
          (\E i \in DOMAIN stream : IsChanged(stream[i], g))
      BY <2>1, <2>2, SMTT(20) DEF IsChanged
    <3> QED BY <1>8, <2>1, <3>1, ZenonT(30)
  <2>4. ~InHand(g) /\ ~InHand(g)' /\ (InStash(g)' <=> InStash(g))
    BY <2>1, Zenon DEF InHand, InStash
  <2>5. InStream(g)' <=> InStream(g)
    <3>1. ~IsGroup(stream[1], g)
      BY <2>1, <2>2, ZenonT(30) DEF IsGroup
    <3>2. InStream(g)' => InStream(g)
      BY <2>2, Zenon DEF InStream
    <3>3. InStream(g) => InStream(g)'
      BY <2>2, <3>1, ZenonT(30) DEF InStream
    <3> QED BY <3>2, <3>3
  <2>6. ASSUME CopiesCurrent(g) PROVE CopiesCurrent(g)'
    <3>1. \A i \in DOMAIN stream' : IsGroup(stream'[i], g) => stream'[i].state = Snapshot(g)
      <4>1. \A i \in DOMAIN stream : IsGroup(stream[i], g) => stream[i].state = Snapshot(g)
        BY <2>6, Zenon DEF CopiesCurrent
      <4>2. \A i \in DOMAIN stream' : i + 1 \in DOMAIN stream /\ stream'[i] = stream[i + 1]
        BY <2>2, Zenon
      <4> QED BY <4>1, <4>2, Zenon
    <3>2. \A i \in DOMAIN stash' : stash'[i].name = g => stash'[i] = Snapshot(g)
      BY <2>1, <2>6, Zenon DEF CopiesCurrent
    <3>3. Snapshot(g)' = Snapshot(g)
      BY <1>3, Zenon
    <3> QED BY <2>4, <3>1, <3>2, <3>3, Zenon DEF CopiesCurrent
  <2>7. Applied(g) => Applied(g)'
    BY <1>3, <2>1, <2>4, <2>5, Zenon DEF Applied
  <2>8. Absent(g) => Absent(g)'
    BY <2>1, <2>3, <2>4, <2>5, ZenonT(30) DEF Absent
  <2> QED BY <1>2, <1>3, <1>4, <1>5, <2>2, <2>3, <2>6, <2>7, <2>8, FollowsFrame, Zenon
<1>13. CASE ResyncGroup
  <2> DEFINE x == Head(stash)
  <2>1. /\ engine = "resync" /\ stash # <<>> /\ stash' = Tail(stash) /\ BeginApply(x, FALSE)
        /\ UNCHANGED <<stream, manifest, mirror>>
    BY <1>13, ZenonT(30) DEF ResyncGroup
  <2>2. /\ x = stash[1] /\ 1 \in DOMAIN stash
        /\ \A i \in DOMAIN stash' : i + 1 \in DOMAIN stash /\ stash'[i] = stash[i + 1]
        /\ \A i \in DOMAIN stash :
             i = 1 \/ (i - 1 \in DOMAIN stash' /\ stash'[i - 1] = stash[i])
    BY <1>0, <2>1, TailFacts, ZenonT(30)
  <2>3. x \in State
    BY <1>0, <2>1, HeadTail, ZenonT(30)
  <2> HIDE DEF x
  <2>4. engine' \in {"apply", "fetch"} /\ cur' = x /\ cur' # None
    BY <2>1, <2>3, BeginApplyFacts, ZenonT(30)
  <2>5. Follows(g) /\ (InStream(g)' <=> InStream(g)) /\ (Announced(g) <=> Announced(g)')
    BY <1>6, <1>8, <2>1, <2>4, ZenonT(30)
  <2>6. CopiesCurrent(g) => CopiesCurrent(g)'
    <3> SUFFICES ASSUME CopiesCurrent(g) PROVE CopiesCurrent(g)'
      OBVIOUS
    <3>1. \A i \in DOMAIN stream' : IsGroup(stream'[i], g) => stream'[i].state = Snapshot(g)'
      BY <1>3, <2>1, ZenonT(30) DEF CopiesCurrent
    <3>2. \A i \in DOMAIN stash' : stash'[i].name = g => stash'[i] = Snapshot(g)'
      BY <1>3, <2>2, ZenonT(30) DEF CopiesCurrent
    <3>3. ASSUME InHand(g)' PROVE HandCurrent'
      <4>1. x.name = g
        BY <2>4, <3>3, ZenonT(30) DEF InHand
      <4>2. x = Snapshot(x.name)
        BY <2>2, <4>1, ZenonT(30) DEF CopiesCurrent
      <4> QED BY <1>2, <2>1, <2>3, <4>2, BeginApplyCurrent, ZenonT(30)
    <3> QED BY <3>1, <3>2, <3>3, ZenonT(30) DEF CopiesCurrent
  <2>7. Applied(g) => Applied(g)'
    <3>1. InStash(g) => InStash(g)' \/ InHand(g)'
      BY <2>2, <2>4, ZenonT(30) DEF InStash, InHand
    <3>2. ~InHand(g)
      BY <2>1, Zenon DEF InHand
    <3> QED BY <1>3, <2>1, <2>5, <3>1, <3>2, ZenonT(30) DEF Applied
  <2>8. Absent(g) => Absent(g)'
    <3>1. Absent(g) => ~InStash(g)' /\ cur'.name # g
      BY <2>2, <2>4, ZenonT(30) DEF Absent, InStash
    <3> QED BY <2>1, <2>5, <3>1, ZenonT(30) DEF Absent
  <2> QED BY <1>2, <1>3, <1>4, <1>5, <2>5, <2>6, <2>7, <2>8, FollowsFrame, ZenonT(30)

\* fetches
<1>14. CASE RecvChanged
  <2> DEFINE h == Head(stream).group
  <2>1. /\ stream # <<>> /\ Head(stream).type = "Changed" /\ engine = "live"
        /\ stream' = Tail(stream) /\ FetchGroup(h, FALSE) /\ UNCHANGED <<stash, manifest>>
    BY <1>14, Zenon DEF RecvChanged
  <2>2. /\ Head(stream) = stream[1] /\ 1 \in DOMAIN stream
        /\ \A i \in DOMAIN stream' : i + 1 \in DOMAIN stream /\ stream'[i] = stream[i + 1]
        /\ \A i \in DOMAIN stream :
             i = 1 \/ (i - 1 \in DOMAIN stream' /\ stream'[i - 1] = stream[i])
        /\ \A y \in Group : Follows(y)
    BY <1>7, <2>1, Zenon
  <2>3. h \in Group
    BY <1>0, <2>1, HeadTail, MessageFacts, ZenonT(30)
  <2>4. \A i \in DOMAIN stream : stream[i].type # "Group"
    BY <2>1, Zenon DEF OneCopy
  <2>5. \A i \in DOMAIN stream' : stream'[i].type # "Group"
    BY <2>2, <2>4
  <2>6. \A y \in Group : InStream(y)' <=> InStream(y)
    BY <2>4, <2>5, Zenon DEF InStream, IsGroup
  <2>7. ~InStash(h)
    <3>1. stash = <<>>
      BY <1>0, <2>1, Zenon DEF Stages
    <3>2. DOMAIN stash = {}
      BY <3>1, SMTT(20)
    <3> QED BY <3>2, ZenonT(30) DEF InStash
  <2>8. Announced(h)
    BY <2>1, <2>2, Zenon DEF Announced, IsChanged
  <2>9. h \in session.cached
    BY <2>2, <2>3, <2>8, ZenonT(30) DEF Follows, Absent
  <2>10. g # h => (Announced(g) <=> Announced(g)')
    <3> SUFFICES ASSUME g # h PROVE Announced(g) <=> Announced(g)'
      BY ZenonT(30)
    <3>1. (\E i \in DOMAIN stream' : IsChanged(stream'[i], g)) <=>
          (\E i \in DOMAIN stream : IsChanged(stream[i], g))
      BY <2>1, <2>2 DEF IsChanged
    <3>2. engine' # "refetch"
      BY <2>1, ZenonT(30) DEF FetchGroup, BeginApply, NextGroup, Between
    <3> QED BY <1>8, <2>1, <3>1, <3>2, ZenonT(30)
  <2> HIDE DEF h
  <2> QED BY <1>2, <1>4, <2>1, <2>2, <2>3, <2>5, <2>6, <2>7, <2>9, <2>10, FollowFetch, ZenonT(30)
<1>15. CASE Refetch
  <2> DEFINE h == cur.name
  <2>1. /\ engine = "refetch" /\ FetchGroup(h, TRUE) /\ UNCHANGED <<stream, stash, manifest>>
        /\ cur # None /\ h \in Group
    BY <1>0, <1>9, <1>15, ZenonT(30) DEF Refetch, Stages
  <2>2. \A y \in Group : Follows(y) /\ (InStream(y)' <=> InStream(y))
    BY <1>2, <2>1, ZenonT(30) DEF Restarts, FollowInv, InStream
  <2>3. \A i \in DOMAIN stream' : stream'[i].type # "Group"
    BY <2>1, Zenon DEF OneCopy
  <2>4. ~InStash(h)
    BY <2>1, Zenon DEF InStash, OneCopy
  <2>5. h \in session.cached
    BY <2>1, <2>2, ZenonT(30) DEF Follows, Absent
  <2>6. g # h => (Announced(g) <=> Announced(g)')
    <3>1. engine' # "refetch"
      BY <2>1, ZenonT(30) DEF FetchGroup, BeginApply, NextGroup, Between
    <3> QED BY <1>8, <2>1, <3>1, Zenon
  <2> HIDE DEF h
  <2> QED BY <1>2, <1>4, <2>1, <2>2, <2>3, <2>4, <2>5, <2>6, FollowFetch, ZenonT(30)
<1>16. CASE FetchSecrets
  <2>1. /\ engine = "fetch" /\ cur # None /\ cur.name \in Group
        /\ UNCHANGED <<stream, stash, manifest>>
    BY <1>0, <1>9, <1>16, ZenonT(30) DEF FetchSecrets, Stages
  <2>2. engine' # "refetch"
    BY <1>16, Zenon DEF FetchSecrets, NextGroup, Between
  <2>3. Follows(g) /\ (InStream(g)' <=> InStream(g)) /\ (Announced(g) <=> Announced(g)')
        /\ (InStash(g)' <=> InStash(g))
    BY <1>6, <1>8, <2>1, <2>2, ZenonT(30) DEF InStash
  <2>4. CASE engine' = "reading" /\ UNCHANGED <<cur, need, fetched, retried, mirror>>
    <3>1. InHand(g)' <=> InHand(g)
      BY <2>1, <2>4 DEF InHand
    <3>2. HandCurrent => HandCurrent'
      BY <1>2, <2>4, Zenon DEF HandCurrent, Snapshot, upstreamVars
    <3>3. CopiesCurrent(g) => CopiesCurrent(g)'
      BY <1>3, <2>1, <3>1, <3>2, ZenonT(30) DEF CopiesCurrent
    <3>4. Applied(g) => Applied(g)'
      BY <1>3, <2>3, <2>4, <3>1, Zenon DEF Applied
    <3>5. Absent(g) => Absent(g)'
      BY <2>1, <2>3, <2>4, ZenonT(30) DEF Absent
    <3> QED BY <1>2, <1>3, <1>4, <1>5, <2>3, <3>3, <3>4, <3>5, FollowsFrame, ZenonT(30)
  <2>5. CASE ~ReadAuthorized(cur.name) /\ DropGroup(cur.name) /\ NextGroup
    <3>1. ~InHand(g)' /\ cur' = None
      BY <2>5, Zenon DEF NextGroup, Between, InHand
    <3>2. mirror'[g] = (IF g = cur.name THEN None ELSE mirror[g])
      BY <1>0, <2>1, <2>5, ZenonT(30) DEF DropGroup
    <3>3. CopiesCurrent(g) => CopiesCurrent(g)'
      BY <1>3, <2>1, <3>1, ZenonT(30) DEF CopiesCurrent
    <3>4. Applied(g) => Applied(g)'
      <4>1. CASE g = cur.name
        <5>1. mirror'[g] = View[g]'
          <6>1. View[g] = None
            BY <2>5, <4>1, ZenonT(30) DEF View
          <6> QED BY <1>3, <3>2, <4>1, <6>1, ZenonT(30)
        <5> QED BY <5>1, ZenonT(30) DEF Applied
      <4>2. CASE g # cur.name
        BY <1>3, <2>3, <3>2, <4>2, ZenonT(30) DEF Applied, InHand
      <4> QED BY <4>1, <4>2
    <3>5. Absent(g) => Absent(g)'
      BY <2>1, <2>3, <3>1, <3>2, ZenonT(30) DEF Absent
    <3> QED BY <1>2, <1>3, <1>4, <1>5, <2>3, <3>3, <3>4, <3>5, FollowsFrame, Zenon
  <2> QED BY <1>16, <2>4, <2>5, Zenon DEF FetchSecrets
<1>17. CASE ReadSecretData \/ FetchDone
  <2>1. /\ engine = "reading" /\ engine' \in {"reading", "apply"}
        /\ UNCHANGED <<stream, stash, manifest, cur, mirror>>
    BY <1>17, ZenonT(30) DEF ReadSecretData, FetchDone
  <2>2. Follows(g) /\ (InStream(g)' <=> InStream(g)) /\ (Announced(g) <=> Announced(g)')
        /\ (InStash(g)' <=> InStash(g)) /\ (InHand(g)' <=> InHand(g))
    BY <1>6, <1>8, <2>1, Zenon DEF InStash, InHand
  <2>3. ASSUME HandCurrent PROVE HandCurrent'
    <3>1. cur' = Snapshot(cur.name)'
      BY <1>2, <2>1, <2>3, ZenonT(30) DEF HandCurrent, Snapshot, upstreamVars
    <3>2. CASE FetchDone
      BY <2>1, <2>3, <3>1, <3>2, ZenonT(30) DEF HandCurrent, FetchDone
    <3>3. CASE ReadSecretData
      <4> DEFINE s == First(need)
      <4>1. /\ need # {} /\ need' = need \ {s} /\ engine' = engine
            /\ fetched' = [fetched EXCEPT ![s] = secret[cur.name][s]]
        BY <3>3, ZenonT(30) DEF ReadSecretData
      <4>2. s \in need /\ s \in Secret
        BY <1>0, <4>1, FirstIn, ZenonT(30)
      <4> HIDE DEF s
      <4>3. secret[cur.name][s] = cur.secrets[s] /\ cur.secrets[s] # None
        BY <2>3, <4>2, SMTT(20) DEF HandCurrent, Snapshot
      <4>4. \A t \in Secret :
              fetched'[t] = (IF t = s THEN cur.secrets[s] ELSE fetched[t])
        BY <1>0, <4>1, <4>2, <4>3, Zenon
      <4>5. \A t \in Secret :
              /\ fetched'[t] \in {None, cur.secrets[t]}
              /\ t \in need' => cur.secrets[t] # None
              /\ cur.secrets[t] # None /\ t \notin need' /\ fetched'[t] = None =>
                   mirror[cur.name] # None /\ mirror[cur.name].secrets[t] = cur.secrets[t]
        BY <2>3, <4>1, <4>3, <4>4, ZenonT(30) DEF HandCurrent
      <4> QED BY <2>1, <3>1, <4>1, <4>5, ZenonT(30) DEF HandCurrent
    <3> QED BY <1>17, <3>2, <3>3, SMTT(20)
  <2>4. CopiesCurrent(g) => CopiesCurrent(g)'
    BY <1>3, <2>1, <2>2, <2>3, Zenon DEF CopiesCurrent
  <2>5. Applied(g) => Applied(g)'
    BY <1>3, <2>1, <2>2, ZenonT(30) DEF Applied
  <2>6. Absent(g) => Absent(g)'
    BY <2>1, <2>2, Zenon DEF Absent
  <2> QED BY <1>2, <1>3, <1>4, <1>5, <2>2, <2>4, <2>5, <2>6, FollowsFrame, ZenonT(30)

\* the apply
<1>18. CASE Apply
  <2>1. /\ engine = "apply" /\ cur # None /\ cur.name \in Group
        /\ UNCHANGED <<stream, stash, manifest>>
    BY <1>0, <1>9, <1>18, Zenon DEF Apply, Stages
  <2>2. Follows(g) /\ (InStream(g)' <=> InStream(g)) /\ (InStash(g)' <=> InStash(g))
    BY <1>6, <2>1, ZenonT(30) DEF InStash
  <2>3. /\ engine' = "refetch" => cur' = cur
        /\ engine' # "refetch" => cur' = None
        /\ ~InHand(g)'
    BY <1>18, ZenonT(30) DEF Apply, NextGroup, Between, InHand
  <2>4. CopiesCurrent(g) => CopiesCurrent(g)'
    BY <1>3, <2>1, <2>3, ZenonT(30) DEF CopiesCurrent
  <2>5. CASE g # cur.name
    <3>1. mirror'[g] = mirror[g]
      BY <1>0, <1>18, <2>5, SMTT(20) DEF Apply, ApplyGroupSync
    <3>2. Announced(g) <=> Announced(g)'
      BY <1>8, <2>1, <2>3, <2>5, Zenon
    <3>3. Applied(g) => Applied(g)'
      BY <1>3, <2>2, <2>5, <3>1, ZenonT(30) DEF Applied, InHand
    <3>4. Absent(g) => Absent(g)'
      BY <2>1, <2>2, <2>3, <2>5, <3>1, <3>2, Zenon DEF Absent
    <3> QED BY <1>2, <1>3, <1>4, <1>5, <2>2, <2>4, <3>2, <3>3, <3>4, FollowsFrame, ZenonT(30)
  <2>6. CASE g = cur.name
    <3>1. g \in session.cached
      BY <2>1, <2>2, <2>6, ZenonT(30) DEF Follows, Absent
    <3>2. Announced(g) => Announced(g)'
      BY <1>2, <2>1, ZenonT(30) DEF Announced
    <3>3. ASSUME Settled(g) PROVE Applied(g)'
      <4>1. InHand(g) /\ HandCurrent
        BY <2>1, <2>2, <2>6, <3>3, ZenonT(30) DEF InHand, Follows, CopiesCurrent
      <4>2. g \in Scope
        BY <2>2, <3>1, <3>3, ZenonT(30) DEF Follows, Settled
      <4>3. ReadAuthorized(cur.name)
        BY <2>6, <4>2 DEF Scope, ReadAuthorized
      <4>4. mirror'[g] = View[g]
        BY <1>18, <2>6, <4>1, <4>3, ApplyCurrent, ZenonT(30)
      <4>5. mirror'[g] = View[g]'
        BY <1>3, <4>4, ZenonT(30)
      <4> QED BY <4>5, ZenonT(30) DEF Applied
    <3> QED BY <1>2, <1>3, <1>4, <1>5, <2>2, <2>4, <3>1, <3>2, <3>3, FollowsFrame, ZenonT(30)
  <2> QED BY <2>5, <2>6, SMTT(20)
<1> QED BY <1>1, <1>10, <1>11, <1>12, <1>13, <1>14, <1>15, <1>16, <1>17, <1>18, ZenonT(30)
        DEF EngineStep

\* FollowInv is inductive.
LEMMA FollowInductive ==
  TypeInv /\ OneCopy /\ FollowInv /\ [Next]_vars => FollowInv'
<1> SUFFICES ASSUME TypeInv, OneCopy, FollowInv, [Next]_vars, ~Restarts', NEW g \in Group
             PROVE  Follows(g)'
  BY DEF FollowInv
<1>1. CASE UNCHANGED vars
  <2>1. UNCHANGED <<upstreamVars, session, queue, overrun, stream, engine, stash, manifest,
                    cur, need, fetched, mirror>>
    BY <1>1, Zenon DEF vars, sessionVars, engineVars
  <2>2. Follows(g)
    BY <2>1, Zenon DEF FollowInv, Restarts
  <2>3. Scope' = Scope /\ View' = View /\ Snapshot(g)' = Snapshot(g)
    BY <2>1, UpstreamFrame, ZenonT(30)
  <2>4. /\ Owed(g) <=> Owed(g)'
        /\ Announced(g) <=> Announced(g)'
        /\ InStream(g) <=> InStream(g)'
        /\ InStash(g) <=> InStash(g)'
        /\ InHand(g) <=> InHand(g)'
    BY <2>1, ZenonT(30) DEF Owed, Announced, IsChanged, InStream, IsGroup, InStash, InHand
  <2>5. HandCurrent => HandCurrent'
    BY <2>1, ZenonT(30) DEF HandCurrent, Snapshot, upstreamVars
  <2>6. CopiesCurrent(g) => CopiesCurrent(g)'
    BY <2>1, <2>3, <2>4, <2>5, ZenonT(30) DEF CopiesCurrent
  <2>7. /\ Applied(g) => Applied(g)'
        /\ Absent(g) => Absent(g)'
    BY <2>1, <2>3, <2>4, ZenonT(30) DEF Applied, Absent
  <2>8. Carried(g) => Carried(g)'
    BY <2>1, <2>4, Zenon DEF Carried, IsGroup
  <2> QED BY <2>1, <2>2, <2>3, <2>4, <2>6, <2>7, <2>8, FollowsFrame, ZenonT(30)
<1> QED BY <1>1, FollowMutate, FollowSession, FollowEngine, ZenonT(30) DEF Next

\* Missed events are recovered, never lost silently: whenever a replica has nothing
\* left to receive, its mirror is the node's state for it, whatever was mutated,
\* overrun or lost between the subscription and the last apply.
THEOREM NeverSilentlyStale == Spec => []NoSilentStaleness
<1>1. Init => OneCopy /\ FollowInv
  <2> SUFFICES ASSUME Init PROVE OneCopy /\ FollowInv
    OBVIOUS
  <2>1. session = Fresh("over") /\ engine = "idle" /\ stream = <<>> /\ stash = <<>>
    BY DEF Init
  <2>2. session.phase = "over" /\ DOMAIN stream = {} /\ DOMAIN stash = {}
    BY <2>1 DEF Fresh
  <2> QED BY <2>1, <2>2, Zenon DEF OneCopy, FollowInv, Restarts
<1>2. ASSUME TypeInv, FollowInv PROVE NoSilentStaleness
  <2> SUFFICES ASSUME Quiet PROVE mirror = View
    BY DEF NoSilentStaleness
  <2>1. /\ engine = "live" /\ stream = <<>> /\ session.phase = "live" /\ queue = <<>>
        /\ ~overrun
    BY DEF Quiet
  <2>2. /\ DOMAIN stream = {} /\ DOMAIN queue = {}
    BY <2>1, SMTT(20)
  <2>3. /\ session.batch = {} /\ ~session.lagged /\ manifest = None /\ stash = <<>>
    BY <1>2, <2>1, ZenonT(30) DEF TypeInv, Stages
  <2>4. DOMAIN stash = {}
    BY <2>3
  <2>5. ~Restarts
    BY <2>1, <2>2, <2>3, ZenonT(30) DEF Restarts
  <2>6. \A g \in Group : mirror[g] = View[g]
    <3> SUFFICES ASSUME NEW g \in Group PROVE mirror[g] = View[g]
      BY ZenonT(30)
    <3>1. ~Owed(g) /\ ~Announced(g)
      BY <2>1, <2>2, <2>3, ZenonT(30) DEF Owed, Announced
    <3>2. ~InStream(g) /\ ~InStash(g) /\ ~InHand(g)
      BY <2>1, <2>2, <2>4, ZenonT(30) DEF InStream, InStash, InHand
    <3>3. Follows(g)
      BY <1>2, <2>5, SMTT(20) DEF FollowInv
    <3>4. CASE g \in session.cached
      BY <3>1, <3>2, <3>3, <3>4, ZenonT(30) DEF Follows, Settled, Applied
    <3>5. CASE g \notin session.cached
      <4>1. mirror[g] = None
        BY <2>3, <3>3, <3>5, ZenonT(30) DEF Follows, Absent
      <4>2. g \notin Scope
        BY <3>1, <3>3, <3>5, ZenonT(30) DEF Follows
      <4>3. View[g] = None
        BY <4>2, Zenon DEF View, Scope, ReadAuthorized
      <4> QED BY <4>1, <4>3, SMTT(20)
    <3> QED BY <3>4, <3>5, ZenonT(30)
  <2>7. mirror \in [Group -> Mirrored \cup {None}]
    BY <1>2, ZenonT(30) DEF TypeInv, TypeOK
  <2>8. View = [g \in Group |-> View[g]] /\ mirror = [g \in Group |-> mirror[g]]
    BY <2>7, Zenon DEF View
  <2> QED BY <2>6, <2>8
<1> QED BY <1>1, <1>2, TypeInitial, TypeInductive, OneCopyInductive, FollowInductive, PTL
        DEF Spec

-----------------------------------------------------------------------------
(* Applied secrets and their wraps *)

\* every secret of a mirrored group is under one of the DEK versions K
Opens(row, K) ==
  row # None => \A s \in Secret : row.secrets[s] # None => row.secrets[s].dek \in K

\* c is a GroupSyncState on its way to the mirror
Copy(c) ==
  \/ \E i \in DOMAIN stream : stream[i].type = "Group" /\ c = stream[i].state
  \/ \E i \in DOMAIN stash : c = stash[i]
  \/ c = cur /\ cur # None

\* The mirror never runs ahead of the node's rotations, and no copy of a group the
\* replica could read since its Hello is behind the mirror's.
KeyInv ==
  /\ \A g \in Group : Opens(mirror[g], 1..dek[g])
  /\ cur # None => \A s \in Secret :
       fetched[s] # None => fetched[s].dek \in 1..dek[cur.name]
  /\ \A c : Copy(c) /\ c.name \notin lost => Opens(mirror[c.name], c.deks)

\* A group's DEK versions only become more.
LEMMA DeksGrow ==
  ASSUME UpstreamType, NEW G, Mutation(G), NEW g \in Group
  PROVE  1..dek[g] \subseteq 1..dek'[g]
<1>1. dek \in [Group -> DekVersion] /\ DekVersion \subseteq Nat
  BY ClockBound DEF UpstreamType, DekVersion
<1>2. dek' = dek \/ \E H : dek' = Rotated(H)
  BY Zenon DEF Mutation, Put, Delete, GrantRead, RevokeRead, RemoveReplica, AddReplica,
    ChangeOthers
<1>3. dek'[g] = dek[g] \/ dek'[g] = dek[g] + 1
  BY <1>1, <1>2 DEF Rotated
<1>4. dek[g] \in Nat
  BY <1>1, ZenonT(30)
<1> QED BY <1>3, <1>4

\* Apart from an apply, a step leaves a group's mirror or drops it.
LEMMA MirrorMoves ==
  ASSUME TypeInv, [Next]_vars, ~Apply, NEW g \in Group
  PROVE  mirror'[g] \in {mirror[g], None}
<1>0. /\ mirror \in [Group -> Mirrored \cup {None}] /\ Stages /\ cur \in State \cup {None}
      /\ stream \in Seq(Message) /\ UpstreamType
  BY Zenon DEF TypeInv, TypeOK
<1>1. ASSUME NEW h, mirror' = mirror \/ mirror' = [mirror EXCEPT ![h] = None]
      PROVE  mirror'[g] \in {mirror[g], None}
  BY <1>0, <1>1
<1>2. CASE \/ Mutate \/ SessionStep \/ Connect \/ RecvDenied \/ RecvGroup \/ RecvManifestDone
           \/ RecvScopeChanged \/ ResyncGroup \/ BeginSweep \/ EndResync \/ ReadSecretData
           \/ FetchDone \/ ConnectionLost \/ UNCHANGED vars
  <2>1. mirror' = mirror
    BY <1>2, ZenonT(30) DEF Mutate, SessionStep, Subscribe, ResolveScope, SendSnapshot,
         SendManifestDone, RecvEvent, WindowElapses, Emit, Connect, RecvDenied, RecvGroup,
         RecvManifestDone, RecvScopeChanged, ResyncGroup, BeginSweep, EndResync,
         ReadSecretData, FetchDone, ConnectionLost, vars
  <2> QED BY <1>1, <2>1, Zenon
<1>3. CASE DropStale
  BY <1>1, <1>3, ZenonT(30) DEF DropStale, DropGroup
<1>4. CASE RecvChanged
  BY <1>1, <1>4, Zenon DEF RecvChanged, FetchGroup, DropGroup
<1>5. CASE Refetch
  BY <1>1, <1>5, ZenonT(30) DEF Refetch, FetchGroup, DropGroup
<1>6. CASE FetchSecrets
  BY <1>1, <1>6, Zenon DEF FetchSecrets, DropGroup
<1> QED BY <1>2, <1>3, <1>4, <1>5, <1>6, ZenonT(30) DEF Next, EngineStep

\* An apply writes secrets it fetched and has the wrap for, and keeps others.
LEMMA ApplyRow ==
  ASSUME TypeInv, Apply
  PROVE  /\ cur \in State /\ cur.name \in Group
         /\ \A g \in Group : g # cur.name => mirror'[g] = mirror[g]
         /\ mirror'[cur.name].deks = cur.deks
         /\ \A s \in Secret : mirror'[cur.name].secrets[s] # None =>
              \/ /\ fetched[s] # None /\ fetched[s].dek \in cur.deks
                 /\ mirror'[cur.name].secrets[s] = fetched[s]
              \/ /\ mirror[cur.name] # None
                 /\ mirror'[cur.name].secrets[s] = mirror[cur.name].secrets[s]
<1>0. /\ mirror \in [Group -> Mirrored \cup {None}]
      /\ fetched \in [Secret -> Entry \cup {None}]
      /\ cur \in State /\ cur.name \in Group
  BY Zenon DEF Apply, TypeInv, TypeOK, Stages, State
<1> DEFINE new == [s \in Secret |-> IF s \in Withheld THEN None ELSE fetched[s]]
           local(s) == IF mirror[cur.name] = None THEN None
                       ELSE mirror[cur.name].secrets[s]
           kept == [s \in Secret |->
                      CASE cur.secrets[s] = None -> None
                        [] cur.secrets[s] # None /\ new[s] # None -> new[s]
                        [] OTHER -> local(s)]
           row == [deks |-> cur.deks, acl |-> cur.acl, secrets |-> kept]
<1>1. mirror' = [mirror EXCEPT ![cur.name] = row]
  BY DEF Apply, ApplyGroupSync
<1>2. mirror'[cur.name] = row /\ \A g \in Group : g # cur.name => mirror'[g] = mirror[g]
  <2> HIDE DEF row
  <2> QED BY <1>0, <1>1
<1>3. row.deks = cur.deks /\ row.secrets = kept
  <2> HIDE DEF kept
  <2> QED OBVIOUS
<1>4. ASSUME NEW s \in Secret, kept[s] # None
      PROVE  \/ fetched[s] # None /\ fetched[s].dek \in cur.deks /\ kept[s] = fetched[s]
             \/ mirror[cur.name] # None /\ kept[s] = mirror[cur.name].secrets[s]
  <2>1. (kept[s] = new[s] /\ new[s] # None) \/ kept[s] = local(s)
    <3> HIDE DEF new, local
    <3> QED BY <1>4
  <2>2. new[s] # None => fetched[s] # None /\ fetched[s].dek \in cur.deks /\ new[s] = fetched[s]
    BY Zenon DEF Withheld
  <2> QED BY <1>4, <2>1, <2>2, ZenonT(30)
<1> HIDE DEF row, kept
<1> QED BY <1>0, <1>2, <1>3, <1>4, ZenonT(30)

\* Where the copies of a step come from.
LEMMA CopiesStep ==
  ASSUME TypeInv, OneCopy, [Next]_vars, NEW c, Copy(c)'
  PROVE  /\ c.name \in Group
         /\ lost \subseteq lost'
         /\ \/ Copy(c)
            \/ /\ c = Snapshot(c.name) /\ engine # "idle"
               /\ UNCHANGED <<mirror, lost>>
<1>0. /\ Stages /\ cur \in State \cup {None} /\ lost \in SUBSET Group
      /\ stream \in Seq(Message) /\ stash \in Seq(State) /\ UpstreamType
      /\ None \notin State /\ mirror \in [Group -> Mirrored \cup {None}]
  BY NoneIsNoState, Zenon DEF TypeInv, TypeOK
<1>1. c \in State /\ c.name \in Group
  <2>1. TypeInv'
    BY TypeInductive
  <2>2. stream' \in Seq(Message) /\ stash' \in Seq(State) /\ cur' \in State \cup {None}
    BY <2>1, Zenon DEF TypeInv, TypeOK
  <2>3. \A i \in DOMAIN stream' : stream'[i] \in Message
    BY <2>2, SeqFacts
  <2>4. \A i \in DOMAIN stash' : stash'[i] \in State
    BY <2>2, SeqFacts
  <2>5. c \in State
    BY <2>2, <2>3, <2>4, MessageFacts, ZenonT(30) DEF Copy
  <2> QED BY <2>5 DEF State
<1>2. \/ \E i \in DOMAIN stream' : stream'[i].type = "Group" /\ c = stream'[i].state
      \/ \E i \in DOMAIN stash' : c = stash'[i]
      \/ c = cur' /\ cur' # None
  BY Zenon DEF Copy
<1>3. /\ \A i \in DOMAIN stream : stream[i].type = "Group" => Copy(stream[i].state)
      /\ \A i \in DOMAIN stash : Copy(stash[i])
      /\ cur # None => Copy(cur)
  BY Zenon DEF Copy
<1>4. CASE Hello \/ Disconnected
  <2>1. stream' = <<>> /\ stash' = <<>> /\ cur' = None
    BY <1>4, ZenonT(30) DEF Hello, Disconnected, Between
  <2>2. DOMAIN stream' = {} /\ DOMAIN stash' = {}
    BY <2>1
  <2> QED BY <1>2, <2>1, <2>2, ZenonT(30)
<1>5. ASSUME lost \subseteq lost',
             \A i \in DOMAIN stream' : stream'[i].type = "Group" =>
               \E j \in DOMAIN stream : stream'[i] = stream[j],
             \A i \in DOMAIN stash' : Copy(stash'[i]),
             cur' # None => Copy(cur')
      PROVE  Copy(c) /\ lost \subseteq lost'
  BY <1>5, <1>2, <1>3, ZenonT(30)
<1>6. /\ UNCHANGED stream => \A i \in DOMAIN stream' : stream'[i].type = "Group" =>
                               \E j \in DOMAIN stream : stream'[i] = stream[j]
      /\ UNCHANGED stash => \A i \in DOMAIN stash' : Copy(stash'[i])
      /\ UNCHANGED cur => (cur' # None => Copy(cur'))
  BY <1>3, Zenon
<1>7. ASSUME stream # <<>>, stream' = Tail(stream)
      PROVE  /\ \A i \in DOMAIN stream' : stream'[i].type = "Group" =>
                  \E j \in DOMAIN stream : stream'[i] = stream[j]
             /\ Head(stream).type = "Group" => Copy(Head(stream).state)
  <2>1. /\ \A i \in DOMAIN stream' : i + 1 \in DOMAIN stream /\ stream'[i] = stream[i + 1]
        /\ Head(stream) = stream[1] /\ 1 \in DOMAIN stream
    BY <1>0, <1>7, TailFacts, ZenonT(30)
  <2> QED BY <1>3, <2>1, ZenonT(30)
<1>8. CASE Mutate \/ UNCHANGED vars
  <2>1. UNCHANGED <<stream, stash, cur>> /\ lost \subseteq lost'
    BY <1>8, Zenon DEF Mutate, vars, engineVars
  <2> QED BY <1>1, <1>5, <1>6, <2>1, ZenonT(30)
<1>9. CASE SessionStep
  <2>1. UNCHANGED <<stash, cur, lost, mirror>>
    BY <1>9, ZenonT(30) DEF SessionStep, Subscribe, ResolveScope, SendSnapshot,
      SendManifestDone, RecvEvent, WindowElapses, Emit, engineVars
  <2>2. ASSUME NEW m, m \in Message, stream' = Append(stream, m)
        PROVE  \A i \in DOMAIN stream' :
                 stream'[i] = m \/ \E j \in DOMAIN stream : stream'[i] = stream[j]
    BY <1>0, <2>2, AppendFacts
  <2>3. CASE Subscribe \/ RecvEvent \/ WindowElapses
    BY <1>1, <1>5, <1>6, <2>1, <2>3 DEF Subscribe, RecvEvent, WindowElapses
  <2>4. CASE \/ \E t \in {"SyncDenied", "ManifestDone", "ScopeChanged"} :
                  stream' = Append(stream, [type |-> t])
             \/ UNCHANGED stream
    <3>1. \A t \in {"SyncDenied", "ManifestDone", "ScopeChanged"} :
            [type |-> t] \in Message /\ [type |-> t].type # "Group"
      BY Zenon DEF Message
    <3>2. \A i \in DOMAIN stream' : stream'[i].type = "Group" =>
            \E j \in DOMAIN stream : stream'[i] = stream[j]
      BY <1>6, <2>2, <2>4, <3>1, ZenonT(30)
    <3> QED BY <1>1, <1>5, <1>6, <2>1, <3>2, ZenonT(30)
  <2>5. CASE SendSnapshot
    <3> DEFINE g == First(session.todo)
               m == [type |-> "Group", state |-> Snapshot(g)]
    <3>1. g \in Group /\ stream' = Append(stream, m) /\ session.phase = "manifest"
      BY <2>5, FirstIn DEF SendSnapshot, Send, TypeInv, TypeOK, Session
    <3>2. Snapshot(g) \in State /\ Snapshot(g).name = g
      BY <1>0, <3>1, SnapshotType, ZenonT(30)
    <3>3. m \in Message /\ m.state = Snapshot(g)
      BY <3>2, Zenon DEF Message
    <3>4. engine # "idle"
      BY <3>1, Zenon DEF OneCopy
    <3> HIDE DEF m, g
    <3>5. c = Snapshot(g) \/ Copy(c)
      BY <1>2, <1>3, <2>1, <2>2, <3>1, <3>3, ZenonT(30)
    <3> QED BY <1>1, <2>1, <3>2, <3>4, <3>5
  <2>6. CASE Emit
    <3>1. CASE ScopeMoved
      BY <2>4, <2>6, <3>1 DEF Emit, Send
    <3>2. CASE ~ScopeMoved
      <4>1. \A i \in DOMAIN stream' : stream'[i].type = "Group" =>
              \E j \in DOMAIN stream : stream'[i] = stream[j]
        <5>1. /\ \A i \in DOMAIN stream : stream'[i] = stream[i]
              /\ \A i \in DOMAIN stream' : i \in DOMAIN stream \/ stream'[i].type = "Changed"
          BY <2>6, <3>2, EmitFacts, Zenon
        <5> QED BY <5>1, ZenonT(30)
      <4> QED BY <1>1, <1>5, <1>6, <2>1, <4>1
    <3> QED BY <3>1, <3>2, ZenonT(30)
  <2> QED BY <1>9, <2>3, <2>4, <2>5, <2>6, SMTT(20) DEF SessionStep, ResolveScope, SendManifestDone, Send
<1>10. CASE Connect \/ RecvDenied \/ RecvScopeChanged \/ ConnectionLost
  BY <1>4, <1>10, ZenonT(30) DEF Connect, RecvDenied, RecvScopeChanged, ConnectionLost
<1>11. CASE RecvGroup \/ RecvManifestDone
  <2>1. /\ UNCHANGED <<cur, lost>> /\ stream # <<>> /\ stream' = Tail(stream)
        /\ \/ UNCHANGED stash
           \/ Head(stream).type = "Group" /\ stash' = Append(stash, Head(stream).state)
    BY <1>11, ZenonT(30) DEF RecvGroup, RecvManifestDone
  <2>2. \A i \in DOMAIN stash' : Copy(stash'[i])
    <3>1. CASE Head(stream).type = "Group" /\ stash' = Append(stash, Head(stream).state)
      <4>1. Head(stream).state \in State
        BY <1>0, <2>1, <3>1, MessageFacts, HeadTail, ZenonT(30)
      <4>2. \A i \in DOMAIN stash' :
              stash'[i] = Head(stream).state \/ \E j \in DOMAIN stash : stash'[i] = stash[j]
        BY <1>0, <3>1, <4>1, AppendFacts
      <4> QED BY <1>7, <1>3, <2>1, <3>1, <4>2, Zenon
    <3> QED BY <1>6, <2>1, <3>1
  <2> QED BY <1>1, <1>5, <1>6, <1>7, <2>1, <2>2, ZenonT(30)
<1>12. CASE ResyncGroup
  <2>1. /\ UNCHANGED <<stream, lost>> /\ stash # <<>> /\ stash' = Tail(stash)
        /\ cur' = Head(stash)
    BY <1>12, Zenon DEF ResyncGroup, BeginApply
  <2>2. /\ \A i \in DOMAIN stash' : i + 1 \in DOMAIN stash /\ stash'[i] = stash[i + 1]
        /\ Head(stash) = stash[1] /\ 1 \in DOMAIN stash
    BY <1>0, <2>1, TailFacts, ZenonT(30)
  <2>3. Copy(cur') /\ \A i \in DOMAIN stash' : Copy(stash'[i])
    BY <1>3, <2>1, <2>2, Zenon
  <2> QED BY <1>1, <1>5, <1>6, <2>1, <2>3, ZenonT(30)
<1>13. CASE \/ BeginSweep \/ DropStale \/ EndResync \/ FetchSecrets \/ ReadSecretData
            \/ FetchDone \/ Apply
  <2>1. UNCHANGED <<stream, stash, lost>> /\ (UNCHANGED cur \/ cur' = None)
    BY <1>13, Zenon DEF BeginSweep, DropStale, EndResync, FetchSecrets, ReadSecretData,
      FetchDone, Apply, NextGroup, Between, engineVars
  <2> QED BY <1>1, <1>5, <1>6, <2>1, ZenonT(30)
<1>14. ASSUME NEW h \in Group, NEW again \in BOOLEAN, FetchGroup(h, again),
              engine # "idle", UNCHANGED <<stash, lost>>,
              \A i \in DOMAIN stream' : stream'[i].type = "Group" =>
                \E j \in DOMAIN stream : stream'[i] = stream[j]
       PROVE  \/ Copy(c)
              \/ c = Snapshot(c.name) /\ UNCHANGED mirror
  <2>1. \/ cur' = Snapshot(h) /\ mirror' = mirror
        \/ cur' = None
    BY <1>0, <1>14, FetchGroupFacts, ZenonT(30)
  <2>2. Snapshot(h).name = h
    BY <1>0, <1>14, SnapshotType, ZenonT(30)
  <2>3. Copy(c) \/ (c = cur' /\ cur' # None)
    <3>1. ASSUME NEW i \in DOMAIN stream', stream'[i].type = "Group", c = stream'[i].state
          PROVE  Copy(c)
      <4>1. PICK j \in DOMAIN stream : stream'[i] = stream[j]
        BY <1>14, <3>1, Zenon
      <4> QED BY <1>3, <3>1, <4>1, Zenon
    <3>2. ASSUME NEW i \in DOMAIN stash', c = stash'[i] PROVE Copy(c)
      <4>1. stash' = stash
        BY <1>14, Zenon
      <4> QED BY <1>3, <3>2, <4>1, Zenon
    <3> QED BY <1>2, <3>1, <3>2, Zenon
  <2> QED BY <2>1, <2>2, <2>3, ZenonT(30)
<1>15. CASE RecvChanged
  <2>1. Head(stream) \in Message /\ Head(stream).type = "Changed"
    BY <1>0, <1>15, HeadTail, ZenonT(30) DEF RecvChanged
  <2> QED BY <1>1, <1>7, <1>14, <1>15, <2>1, MessageFacts, ZenonT(30) DEF RecvChanged
<1>16. CASE Refetch
  <2>1. cur.name \in Group
    BY <1>0, <1>16, ZenonT(30) DEF Refetch, Stages, State
  <2> QED BY <1>1, <1>6, <1>14, <1>16, <2>1, ZenonT(30) DEF Refetch
<1> QED BY <1>8, <1>9, <1>10, <1>11, <1>12, <1>13, <1>15, <1>16, ZenonT(30) DEF Next, EngineStep

\* A snapshot of a group the replica can read has all of the group's versions.
LEMMA SnapshotOpens ==
  ASSUME TypeInv, DropInv, KeyInv, engine # "idle", NEW g \in Group, g \notin lost
  PROVE  Opens(mirror[g], Snapshot(g).deks)
<1>1. g \in reads
  BY DEF DropInv, Unreadable, Scope
<1>2. Snapshot(g).deks = 1..dek[g]
  BY <1>1, Zenon DEF Snapshot
<1> QED BY <1>2, Zenon DEF KeyInv

\* KeyInv is inductive.
LEMMA KeysInductive ==
  TypeInv /\ DropInv /\ OneCopy /\ KeyInv /\ [Next]_vars => KeyInv'
<1> SUFFICES ASSUME TypeInv, DropInv, OneCopy, KeyInv, [Next]_vars PROVE KeyInv'
  OBVIOUS
<1>0. /\ mirror \in [Group -> Mirrored \cup {None}] /\ UpstreamType /\ Bounds /\ Stages
      /\ cur \in State \cup {None} /\ fetched \in [Secret -> Entry \cup {None}]
      /\ need \in SUBSET Secret /\ stream \in Seq(Message) /\ stash \in Seq(State)
  BY Zenon DEF TypeInv, TypeOK
<1>1. \A g \in Group : 1..dek[g] \subseteq 1..dek'[g]
  <2>1. CASE UNCHANGED dek
    BY <2>1
  <2>2. CASE Mutate
    BY <1>0, <2>2, DeksGrow, Zenon DEF Mutate
  <2> QED BY <2>1, <2>2, ZenonT(30) DEF Next, SessionStep, Subscribe, ResolveScope,
        SendSnapshot, SendManifestDone, RecvEvent, WindowElapses, Emit, EngineStep, Connect,
        RecvDenied, RecvGroup, RecvManifestDone, RecvScopeChanged, ResyncGroup, BeginSweep,
        DropStale, EndResync, RecvChanged, FetchSecrets, ReadSecretData, FetchDone, Apply,
        Refetch, ConnectionLost, upstreamVars, vars
<1>2. \A g \in Group : Opens(mirror'[g], 1..dek'[g])
  <2> SUFFICES ASSUME NEW g \in Group PROVE Opens(mirror'[g], 1..dek'[g])
    BY Zenon
  <2>1. Opens(mirror[g], 1..dek[g])
    BY ZenonT(30) DEF KeyInv
  <2>2. CASE mirror'[g] \in {mirror[g], None}
    BY <1>1, <2>1, <2>2, ZenonT(30) DEF Opens
  <2>3. CASE Apply /\ g = cur.name
    <3>1. cur # None /\ \A s \in Secret : fetched[s] # None => fetched[s].dek \in 1..dek[g]
      BY <1>0, <2>3, ZenonT(30) DEF Apply, Stages, KeyInv
    <3>2. \A s \in Secret : mirror'[g].secrets[s] # None =>
              \/ fetched[s] # None /\ mirror'[g].secrets[s] = fetched[s]
              \/ mirror[g] # None /\ mirror'[g].secrets[s] = mirror[g].secrets[s]
      BY <2>3, ApplyRow, ZenonT(30)
    <3>3. \A s \in Secret : mirror'[g].secrets[s] # None =>
              mirror'[g].secrets[s].dek \in 1..dek[g]
      BY <2>1, <3>1, <3>2, Zenon DEF Opens
    <3> QED BY <1>1, <3>3, ZenonT(30) DEF Opens
  <2>4. CASE Apply /\ g # cur.name
    BY <2>2, <2>4, ApplyRow, ZenonT(30)
  <2> QED BY <2>2, <2>3, <2>4, MirrorMoves, ZenonT(30)
<1>3. ASSUME cur' # None, NEW s \in Secret, fetched'[s] # None
      PROVE  fetched'[s].dek \in 1..dek'[cur'.name]
  <2>1. CASE UNCHANGED <<cur, fetched>>
    <3>1. cur \in State /\ cur.name \in Group
      BY <1>0, <1>3, <2>1, ZenonT(30) DEF State
    <3>2. fetched[s].dek \in 1..dek[cur.name]
      BY <1>3, <2>1, ZenonT(30) DEF KeyInv
    <3> QED BY <1>1, <2>1, <3>1, <3>2, ZenonT(30)
  <2>2. CASE fetched' = NothingFetched
    BY <1>3, <2>2, ZenonT(30) DEF NothingFetched
  <2>3. CASE ReadSecretData
    <3> DEFINE n == First(need)
    <3>1. /\ need # {} /\ fetched' = [fetched EXCEPT ![n] = secret[cur.name][n]]
          /\ UNCHANGED <<cur, dek>>
      BY <2>3, Zenon DEF ReadSecretData, upstreamVars
    <3>2. n \in Secret /\ cur \in State /\ cur.name \in Group
      BY <1>0, <1>3, <3>1, FirstIn, ZenonT(30) DEF State
    <3> HIDE DEF n
    <3>3. CASE s = n
      <4>1. fetched'[s] = secret[cur.name][s]
        BY <1>0, <3>1, <3>2, <3>3, ZenonT(30)
      <4>2. secret[cur.name][s] \in Entry /\ dek[cur.name] \in DekVersion
        BY <1>0, <1>3, <3>2, <4>1 DEF UpstreamType
      <4>3. secret[cur.name][s].dek \in DekVersion /\ secret[cur.name][s].dek <= dek[cur.name]
        BY <1>0, <1>3, <3>2, <4>1, <4>2, ZenonT(30) DEF Bounds, Entry
      <4> QED BY <3>1, <4>1, <4>2, <4>3, ClockBound DEF DekVersion
    <3>4. CASE s # n
      <4>1. fetched'[s] = fetched[s]
        BY <1>0, <3>1, <3>4, ZenonT(30)
      <4> QED BY <1>3, <3>1, <4>1, ZenonT(30) DEF KeyInv
    <3> QED BY <3>3, <3>4
  <2>4. \/ UNCHANGED <<cur, fetched>> \/ fetched' = NothingFetched \/ ReadSecretData
    BY <1>3, ZenonT(30) DEF Next, Mutate, SessionStep, Subscribe, ResolveScope,
        SendSnapshot, SendManifestDone, RecvEvent, WindowElapses, Emit, EngineStep, Connect,
        RecvDenied, RecvGroup, RecvManifestDone, RecvScopeChanged, ResyncGroup, BeginSweep,
        DropStale, EndResync, RecvChanged, FetchSecrets, ReadSecretData, FetchDone, Apply,
        Refetch, ConnectionLost, Hello, Disconnected, Between, NextGroup, FetchGroup,
        BeginApply, engineVars, vars
  <2> QED BY <2>1, <2>2, <2>3, <2>4, ZenonT(30)
<1>4. ASSUME NEW c, Copy(c)', c.name \notin lost' PROVE Opens(mirror'[c.name], c.deks)
  <2>1. /\ c.name \in Group /\ c.name \notin lost
        /\ \/ Copy(c)
           \/ c = Snapshot(c.name) /\ engine # "idle" /\ UNCHANGED mirror
    BY <1>4, CopiesStep
  <2>2. CASE ~Copy(c)
    <3>1. c = Snapshot(c.name) /\ engine # "idle" /\ UNCHANGED mirror
      BY <2>1, <2>2
    <3>2. Opens(mirror[c.name], Snapshot(c.name).deks)
      BY <2>1, <3>1, SnapshotOpens, ZenonT(30)
    <3> QED BY <3>1, <3>2, ZenonT(30)
  <2>3. CASE Copy(c)
    <3>1. Opens(mirror[c.name], c.deks)
      BY <2>1, <2>3, ZenonT(30) DEF KeyInv
    <3>2. CASE mirror'[c.name] \in {mirror[c.name], None}
      BY <3>1, <3>2, ZenonT(30) DEF Opens
    <3>3. CASE Apply /\ c.name # cur.name
      BY <2>1, <3>2, <3>3, ApplyRow, ZenonT(30)
    <3>4. CASE Apply /\ c.name = cur.name
      <4>1. engine = "apply" /\ cur # None
        BY <1>0, <3>4, ZenonT(30) DEF Apply, Stages
      <4>2. c = cur
        BY <2>3, <3>4, <4>1, ZenonT(30) DEF Copy, OneCopy
      <4>3. \A s \in Secret : mirror'[c.name].secrets[s] # None =>
              \/ fetched[s].dek \in c.deks /\ mirror'[c.name].secrets[s] = fetched[s]
              \/ mirror[c.name] # None /\ mirror'[c.name].secrets[s] = mirror[c.name].secrets[s]
        BY <3>4, <4>2, ApplyRow, ZenonT(30)
      <4> QED BY <3>1, <4>3, ZenonT(30) DEF Opens
    <3> QED BY <2>1, <3>2, <3>3, <3>4, MirrorMoves, ZenonT(30)
  <2> QED BY <2>2, <2>3
<1> QED BY <1>2, <1>3, <1>4, Zenon DEF KeyInv

\* A step that writes a group which the replica can read since its Hello.
LEMMA StepDecrypts ==
  ASSUME TypeInv, KeyInv, [Next]_vars, NEW g \in Group,
         mirror'[g] # mirror[g], mirror'[g] # None, g \notin lost
  PROVE  \A s \in Secret : mirror'[g].secrets[s] # None =>
           mirror'[g].secrets[s].dek \in mirror'[g].deks
<1>1. Apply
  BY MirrorMoves, Zenon
<1>2. g = cur.name /\ mirror'[g].deks = cur.deks
  BY <1>1, ApplyRow, ZenonT(30)
<1>3. Copy(cur)
  <2>1. cur # None
    BY <1>1, ZenonT(30) DEF Apply, TypeInv, Stages
  <2> QED BY <2>1, Zenon DEF Copy
<1>4. Opens(mirror[g], cur.deks)
  BY <1>2, <1>3, Zenon DEF KeyInv
<1>5. \A s \in Secret : mirror'[g].secrets[s] # None =>
        \/ fetched[s].dek \in cur.deks /\ mirror'[g].secrets[s] = fetched[s]
        \/ mirror[g] # None /\ mirror'[g].secrets[s] = mirror[g].secrets[s]
  BY <1>1, <1>2, ApplyRow, ZenonT(30)
<1> QED BY <1>2, <1>4, <1>5, ZenonT(30) DEF Opens

\* Whatever raced the apply upstream, apply_group_state leaves no secret of a
\* group the replica may read without the wrap that opens it: what it fetched is
\* withheld when the state has no wrap for it, and what it keeps is older than
\* the state's versions.
THEOREM AppliedAlwaysDecrypt == Spec => AppliedSecretsDecrypt
<1>1. Init => DropInv /\ OneCopy /\ KeyInv
  <2> SUFFICES ASSUME Init PROVE DropInv /\ OneCopy /\ KeyInv
    OBVIOUS
  <2>1. /\ session = Fresh("over") /\ engine = "idle" /\ stream = <<>> /\ stash = <<>>
        /\ cur = None /\ mirror = [g \in Group |-> None]
    BY ZenonT(30) DEF Init
  <2>2. session.phase = "over" /\ DOMAIN stream = {} /\ DOMAIN stash = {}
        /\ \A g \in Group : mirror[g] = None
    BY <2>1 DEF Fresh
  <2>3. DropInv /\ OneCopy
    BY <2>1, <2>2, Zenon DEF DropInv, Carried, OneCopy
  <2>4. KeyInv
    BY <2>1, <2>2, Zenon DEF KeyInv, Copy, Opens
  <2> QED BY <2>3, <2>4
<1>2. TypeInv /\ KeyInv /\ [Next]_vars =>
        [\A g \in Group :
           /\ mirror'[g] # mirror[g] /\ mirror'[g] # None
           /\ g \notin lost
           => \A s \in Secret : mirror'[g].secrets[s] # None =>
                mirror'[g].secrets[s].dek \in mirror'[g].deks]_vars
  BY StepDecrypts, Zenon
<1> QED BY <1>1, <1>2, TypeInitial, TypeInductive, DropInductive, OneCopyInductive,
        KeysInductive, PTL DEF Spec, AppliedSecretsDecrypt

=============================================================================
