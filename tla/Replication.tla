---------------------------- MODULE Replication ----------------------------
(***************************************************************************)
(* One replica following an authoritative node over the sync protocol: the *)
(* session task of the server (sync_hello), the fetch streams              *)
(* (sync_fetch_group, sync_fetch_secrets), the broadcast channel between   *)
(* the request handlers and the session, and the replica's engine          *)
(* (replica.rs: run_sync, run_connection, run_session, full_resync,        *)
(* sync_one_group, apply_group_state) with the tables it writes            *)
(* (store.rs: secrets_needing_fetch, apply_group_sync, drop_group_local).  *)
(*                                                                         *)
(* A step is what happens under one lock of a store, or one message.  A    *)
(* request on a fetch stream and the server's first lock for it are one    *)
(* step: the replica waits for the answer and does nothing in between.     *)
(* The connection may be lost before every step, and with it both halves   *)
(* of the session; a crash of the replica or of the server loses the same. *)
(***************************************************************************)
EXTENDS Upstream, FiniteSets, Sequences, Functions

CONSTANTS ChannelCap, \* capacity of the broadcast channel (1024 in the code)
          MaxFaults   \* bound: connection losses in a behaviour

ASSUME ChannelAssumption == ChannelCap \in Nat \ {0} /\ MaxFaults \in Nat

VARIABLES session,  \* the server's task for the current Hello stream
          queue,    \* the session's receiver: events not yet received
          overrun,  \* the receiver was overtaken: its next recv is Lagged
          stream,   \* messages on the session stream, not yet read
          engine,   \* where the replica's engine is
          stash,    \* GroupSyncStates of the manifest still to be applied
          manifest, \* names in the manifest, None outside a resync
          cur,      \* the GroupSyncState being applied
          need,     \* names still to be fetched for it
          fetched,  \* current versions fetched for it
          retried,  \* it is already the one re-fetch after a skip
          mirror,   \* the replica's tables by group, None when not mirrored
          faults,   \* connection losses so far
          lost      \* history: groups it could not read since the last Hello

sessionVars == <<session, queue, overrun>>
engineVars == <<engine, stash, manifest, cur, need, fetched, retried>>
vars == <<upstreamVars, sessionVars, stream, engineVars, mirror, faults, lost>>

-----------------------------------------------------------------------------
(* Types *)

State == [name : Group, deks : SUBSET DekVersion, acl : Acl,
          secrets : [Secret -> Entry \cup {None}]]
Mirrored == [deks : SUBSET DekVersion, acl : Acl,
             secrets : [Secret -> Entry \cup {None}]]

ASSUME GroupsAssumption == IsFiniteSet(Group) /\ \A G \in SUBSET Group : G # None
ASSUME NoneIsNoState == None \notin State \cup Mirrored

\* Each stage of sync_hello: before and after the subscription, the manifest,
\* waiting for an event, draining the debounce window, and over
SessionPhase == {"hello", "scope", "manifest", "live", "debounce", "emit", "over"}
Session == [phase : SessionPhase, todo : SUBSET Group, cached : SUBSET Group,
            batch : SUBSET Group, lagged : BOOLEAN]

\* "idle" is the backoff sleep and the dial; "fetch" asks for the missing
\* secrets, "reading" reads them one by one
Engine == {"idle", "manifest", "resync", "sweep", "live",
           "fetch", "reading", "apply", "refetch"}

TypeOK ==
  /\ UpstreamType
  /\ session \in Session
  /\ queue \in Seq(Group) /\ Len(queue) <= ChannelCap
  /\ overrun \in BOOLEAN
  /\ engine \in Engine
  /\ \A i \in DOMAIN stash : stash[i] \in State
  /\ manifest \in (SUBSET Group) \cup {None}
  /\ cur \in State \cup {None}
  /\ need \in SUBSET Secret
  /\ fetched \in [Secret -> Entry \cup {None}]
  /\ retried \in BOOLEAN
  /\ mirror \in [Group -> Mirrored \cup {None}]
  /\ faults \in 0..MaxFaults
  /\ lost \in SUBSET Group

-----------------------------------------------------------------------------
(* The broadcast channel *)

\* a set of group names one after the other
Listed(S) == CHOOSE f \in [1..Cardinality(S) -> S] : IsInjective(f)

\* send on Inner::events for every group of G, for a session that subscribed:
\* past the capacity the oldest events go and the receiver is overrun
Overflows(G) == Len(queue) + Cardinality(G) > ChannelCap

Enqueue(G) ==
  IF session.phase \in {"hello", "over"} THEN UNCHANGED <<queue, overrun>>
  ELSE LET all == queue \o Listed(G)
       IN  /\ queue' = IF Overflows(G)
                       THEN SubSeq(all, Len(all) - ChannelCap + 1, Len(all))
                       ELSE all
           /\ overrun' = (overrun \/ Overflows(G))

\* the groups the replica cannot read now
Unreadable == Group \ Scope

Mutate ==
  /\ \E G \in SUBSET Group : Mutation(G) /\ Enqueue(G)
  /\ lost' = lost \cup Unreadable'
  /\ UNCHANGED <<session, stream, engineVars, mirror, faults>>

-----------------------------------------------------------------------------
(* The session task of the server: sync_hello *)

Fresh(phase) == [phase |-> phase, todo |-> {}, cached |-> {}, batch |-> {},
                 lagged |-> FALSE]

\* the least name of a set: groups and secrets are listed ORDER BY name
First(S) == CHOOSE x \in S : TRUE

Send(m) == stream' = Append(stream, m)

\* subscribe comes before the snapshot
Subscribe ==
  /\ session.phase = "hello"
  /\ session' = Fresh("scope")
  /\ queue' = <<>>
  /\ overrun' = FALSE
  /\ UNCHANGED <<upstreamVars, stream, engineVars, mirror, faults, lost>>

ResolveScope ==
  /\ session.phase = "scope"
  /\ \/ /\ registered
        /\ session' = [session EXCEPT !.phase = "manifest", !.todo = Scope,
                                      !.cached = Scope]
        /\ UNCHANGED stream
     \/ /\ ~registered
        /\ session' = Fresh("over")
        /\ Send([type |-> "SyncDenied"])
  /\ UNCHANGED <<upstreamVars, queue, overrun, engineVars, mirror, faults, lost>>

\* one lock per group; the group is not authorized again
SendSnapshot ==
  /\ session.phase = "manifest"
  /\ session.todo # {}
  /\ LET g == First(session.todo)
     IN  /\ Send([type |-> "Group", state |-> Snapshot(g)])
         /\ session' = [session EXCEPT !.todo = @ \ {g}]
  /\ UNCHANGED <<upstreamVars, queue, overrun, engineVars, mirror, faults, lost>>

SendManifestDone ==
  /\ session.phase = "manifest"
  /\ session.todo = {}
  /\ Send([type |-> "ManifestDone"])
  /\ session' = [session EXCEPT !.phase = "live"]
  /\ UNCHANGED <<upstreamVars, queue, overrun, engineVars, mirror, faults, lost>>

\* events.recv: Lagged first when the receiver was overrun
RecvEvent ==
  /\ session.phase \in {"live", "debounce"}
  /\ \/ /\ overrun
        /\ overrun' = FALSE
        /\ session' = [session EXCEPT !.phase = "debounce", !.lagged = TRUE]
        /\ UNCHANGED queue
     \/ /\ ~overrun
        /\ queue # <<>>
        /\ queue' = Tail(queue)
        /\ session' = [session EXCEPT !.phase = "debounce",
                                      !.batch = @ \cup {Head(queue)}]
        /\ UNCHANGED overrun
  /\ UNCHANGED <<upstreamVars, stream, engineVars, mirror, faults, lost>>

\* the debounce window elapsed without another event
WindowElapses ==
  /\ session.phase = "debounce"
  /\ queue = <<>> /\ ~overrun
  /\ session' = [session EXCEPT !.phase = "emit"]
  /\ UNCHANGED <<upstreamVars, queue, overrun, stream, engineVars, mirror,
                 faults, lost>>

ScopeMoved == session.lagged \/ Scope # session.cached

Emit ==
  /\ session.phase = "emit"
  /\ session' = [Fresh("live") EXCEPT !.cached = Scope]
  /\ IF ScopeMoved
     THEN Send([type |-> "ScopeChanged"])
     ELSE stream' = stream \o
            [i \in 1..Cardinality(session.batch \cap session.cached) |->
               [type  |-> "Changed",
                group |-> Listed(session.batch \cap session.cached)[i]]]
  /\ UNCHANGED <<upstreamVars, queue, overrun, engineVars, mirror, faults, lost>>

SessionStep ==
  \/ Subscribe \/ ResolveScope \/ SendSnapshot \/ SendManifestDone
  \/ RecvEvent \/ WindowElapses \/ Emit

-----------------------------------------------------------------------------
(* The replica's engine: connection and session *)

NothingFetched == [s \in Secret |-> None]

\* the engine has no group in hand and is at stage e
Between(e) ==
  /\ engine' = e
  /\ cur' = None
  /\ need' = {}
  /\ fetched' = NothingFetched
  /\ retried' = FALSE

\* a fresh session stream with its Hello on it
Hello ==
  /\ Between("manifest")
  /\ stash' = <<>>
  /\ manifest' = {}
  /\ stream' = <<>>
  /\ session' = Fresh("hello")
  /\ queue' = <<>>
  /\ overrun' = FALSE
  /\ lost' = Unreadable

\* the dial after the backoff succeeded
Connect ==
  /\ engine = "idle"
  /\ Hello
  /\ UNCHANGED <<upstreamVars, mirror, faults>>

\* everything of the connection goes; the mirror stays
Disconnected ==
  /\ Between("idle")
  /\ stash' = <<>>
  /\ manifest' = None
  /\ stream' = <<>>
  /\ session' = Fresh("over")
  /\ queue' = <<>>
  /\ overrun' = FALSE

ConnectionLost ==
  /\ engine # "idle"
  /\ faults < MaxFaults
  /\ faults' = faults + 1
  /\ Disconnected
  /\ UNCHANGED <<upstreamVars, mirror, lost>>

\* mutant: the engine gives up
RecvDeniedGivesUp ==
  /\ engine = "manifest"
  /\ stream # <<>> /\ Head(stream).type = "SyncDenied"
  /\ stream' = <<>>
  /\ UNCHANGED <<upstreamVars, sessionVars, engineVars, mirror, faults, lost>>

\* SyncDenied as the first reply: bail, reconnect with backoff
RecvDenied ==
  /\ engine = "manifest"
  /\ stream # <<>> /\ Head(stream).type = "SyncDenied"
  /\ Disconnected
  /\ UNCHANGED <<upstreamVars, mirror, faults, lost>>

\* mutant: the manifest is taken for complete after its first group
RecvOnlyGroup ==
  /\ engine = "manifest"
  /\ stream # <<>> /\ Head(stream).type = "Group"
  /\ stash' = Append(stash, Head(stream).state)
  /\ manifest' = manifest \cup {Head(stream).state.name}
  /\ engine' = "resync"
  /\ stream' = <<>>
  /\ UNCHANGED <<upstreamVars, sessionVars, cur, need, fetched, retried,
                 mirror, faults, lost>>

RecvGroup ==
  /\ engine = "manifest"
  /\ stream # <<>> /\ Head(stream).type = "Group"
  /\ stash' = Append(stash, Head(stream).state)
  /\ manifest' = manifest \cup {Head(stream).state.name}
  /\ stream' = Tail(stream)
  /\ UNCHANGED <<upstreamVars, sessionVars, engine, cur, need, fetched, retried,
                 mirror, faults, lost>>

RecvManifestDone ==
  /\ engine = "manifest"
  /\ stream # <<>> /\ Head(stream).type = "ManifestDone"
  /\ engine' = "resync"
  /\ stream' = Tail(stream)
  /\ UNCHANGED <<upstreamVars, sessionVars, stash, manifest, cur, need, fetched,
                 retried, mirror, faults, lost>>

\* ScopeChanged: end this session stream and open a new one
RecvScopeChanged ==
  /\ engine = "live"
  /\ stream # <<>> /\ Head(stream).type = "ScopeChanged"
  /\ Hello
  /\ UNCHANGED <<upstreamVars, mirror, faults>>

-----------------------------------------------------------------------------
(* The replica's engine: one group *)

\* mutant: the nonce is not compared
NeedingFetchByVersion(state) ==
  {s \in Secret :
     /\ state.secrets[s] # None
     /\ \/ mirror[state.name] = None
        \/ mirror[state.name].secrets[s] = None
        \/ mirror[state.name].secrets[s].version # state.secrets[s].version
        \/ mirror[state.name].secrets[s].dek # state.secrets[s].dek}

\* secrets_needing_fetch: listed and not stored in just this version
NeedingFetch(state) ==
  {s \in Secret :
     /\ state.secrets[s] # None
     /\ \/ mirror[state.name] = None
        \/ mirror[state.name].secrets[s] # state.secrets[s]}

\* the head of apply_group_state
BeginApply(state, again) ==
  /\ cur' = state
  /\ need' = NeedingFetch(state)
  /\ fetched' = NothingFetched
  /\ retried' = again
  /\ engine' = IF NeedingFetch(state) = {} THEN "apply" ELSE "fetch"

\* sync_one_group is over: the next group of the resync or the next message
NextGroup == Between(IF manifest = None THEN "live" ELSE "resync")

\* drop_group and drop_group_and_gc
DropGroup(g) == mirror' = [mirror EXCEPT ![g] = None]

\* the next group of full_resync
ResyncGroup ==
  /\ engine = "resync"
  /\ stash # <<>>
  /\ BeginApply(Head(stash), FALSE)
  /\ stash' = Tail(stash)
  /\ UNCHANGED <<upstreamVars, sessionVars, stream, manifest, mirror, faults, lost>>

\* every group of the manifest is applied: what it does not carry is stale
StaleGroups == {g \in Group : mirror[g] # None} \ manifest

BeginSweep ==
  /\ engine = "resync"
  /\ stash = <<>>
  /\ engine' = "sweep"
  /\ UNCHANGED <<upstreamVars, sessionVars, stream, stash, manifest, cur, need,
                 fetched, retried, mirror, faults, lost>>

DropStale ==
  /\ engine = "sweep"
  /\ StaleGroups # {}
  /\ DropGroup(First(StaleGroups))
  /\ UNCHANGED <<upstreamVars, sessionVars, stream, engineVars, faults, lost>>

EndResync ==
  /\ engine = "sweep"
  /\ StaleGroups = {}
  /\ engine' = "live"
  /\ manifest' = None
  /\ UNCHANGED <<upstreamVars, sessionVars, stream, stash, cur, need, fetched,
                 retried, mirror, faults, lost>>

\* the FetchGroup stream: one lock for the check and the snapshot
FetchGroup(g, again) ==
  \/ /\ ReadAuthorized(g)
     /\ BeginApply(Snapshot(g), again)
     /\ UNCHANGED mirror
  \/ /\ ~ReadAuthorized(g)
     /\ DropGroup(g)
     /\ NextGroup

\* Changed: sync_group_via_fetch
RecvChanged ==
  /\ engine = "live"
  /\ stream # <<>> /\ Head(stream).type = "Changed"
  /\ stream' = Tail(stream)
  /\ FetchGroup(Head(stream).group, FALSE)
  /\ UNCHANGED <<upstreamVars, sessionVars, stash, manifest, faults, lost>>

\* the FetchSecrets stream: authorized once ..
FetchSecrets ==
  /\ engine = "fetch"
  /\ \/ /\ ReadAuthorized(cur.name)
        /\ engine' = "reading"
        /\ UNCHANGED <<cur, need, fetched, retried, mirror>>
     \/ /\ ~ReadAuthorized(cur.name)
        /\ DropGroup(cur.name)
        /\ NextGroup
  /\ UNCHANGED <<upstreamVars, sessionVars, stream, stash, manifest, faults, lost>>

\* .. then one lock per name; a name that is gone is skipped
ReadSecretData ==
  /\ engine = "reading"
  /\ need # {}
  /\ LET s == First(need)
     IN  /\ fetched' = [fetched EXCEPT ![s] = secret[cur.name][s]]
         /\ need' = need \ {s}
  /\ UNCHANGED <<upstreamVars, sessionVars, stream, engine, stash, manifest, cur,
                 retried, mirror, faults, lost>>

FetchDone ==
  /\ engine = "reading"
  /\ need = {}
  /\ engine' = "apply"
  /\ UNCHANGED <<upstreamVars, sessionVars, stream, stash, manifest, cur, need,
                 fetched, retried, mirror, faults, lost>>

\* mutant: everything fetched is applied
NothingWithheld == {}

\* fetched secrets whose DEK the state has no wrap for are withheld
Withheld == {s \in Secret : fetched[s] # None /\ fetched[s].dek \notin cur.deks}

\* apply_group_sync: one transaction
ApplyGroupSync(state, new) ==
  LET local(s) == IF mirror[state.name] = None THEN None
                  ELSE mirror[state.name].secrets[s]
  IN  mirror' = [mirror EXCEPT ![state.name] =
        [deks    |-> state.deks,
         acl     |-> state.acl,
         secrets |-> [s \in Secret |->
                        CASE state.secrets[s] = None -> None
                          [] state.secrets[s] # None /\ new[s] # None -> new[s]
                          [] OTHER -> local(s)]]]

Apply ==
  /\ engine = "apply"
  /\ ApplyGroupSync(cur, [s \in Secret |-> IF s \in Withheld THEN None
                                           ELSE fetched[s]])
  /\ \/ /\ Withheld # {} /\ ~retried
        /\ engine' = "refetch"
        /\ UNCHANGED <<cur, need, fetched, retried>>
     \/ /\ Withheld = {} \/ retried
        /\ NextGroup
  /\ UNCHANGED <<upstreamVars, sessionVars, stream, stash, manifest, faults, lost>>

\* the one immediate re-fetch of a group that was left short
Refetch ==
  /\ engine = "refetch"
  /\ FetchGroup(cur.name, TRUE)
  /\ UNCHANGED <<upstreamVars, sessionVars, stream, stash, manifest, faults, lost>>

EngineStep ==
  \/ Connect \/ RecvDenied \/ RecvGroup \/ RecvManifestDone \/ RecvScopeChanged
  \/ ResyncGroup \/ BeginSweep \/ DropStale \/ EndResync \/ RecvChanged
  \/ FetchSecrets \/ ReadSecretData \/ FetchDone \/ Apply \/ Refetch

-----------------------------------------------------------------------------

Init ==
  /\ UpstreamInit
  /\ session = Fresh("over")
  /\ queue = <<>>
  /\ overrun = FALSE
  /\ stream = <<>>
  /\ engine = "idle"
  /\ stash = <<>>
  /\ manifest = None
  /\ cur = None
  /\ need = {}
  /\ fetched = NothingFetched
  /\ retried = FALSE
  /\ mirror = [g \in Group |-> None]
  /\ faults = 0
  /\ lost = {}

Next == Mutate \/ SessionStep \/ EngineStep \/ ConnectionLost

Spec == Init /\ [][Next]_vars

\* Session and engine are tasks that wait only for what their guards name; the
\* engine redials for ever.  Nothing is assumed of mutations and losses, which
\* the two bounds make finite: that is "once upstream and the network rest".
FairSpec == Spec /\ WF_vars(SessionStep) /\ WF_vars(EngineStep)

-----------------------------------------------------------------------------
(* Properties *)

\* what the mirror of every group ought to be
View == [g \in Group |->
  IF ReadAuthorized(g)
  THEN [deks |-> Snapshot(g).deks, acl |-> Snapshot(g).acl,
        secrets |-> Snapshot(g).secrets]
  ELSE None]

\* nothing is on its way from upstream to a replica that follows it
Quiet ==
  /\ engine = "live" /\ stream = <<>>
  /\ session.phase = "live" /\ queue = <<>> /\ ~overrun

\* sync-protocol.md: "Missed events are recovered by the resync; they are never
\* lost silently".  Whenever a replica that follows the node has nothing left to
\* receive, its mirror is exactly the node's state for it: no mutation slipped
\* between subscription, snapshot, debounce, scope check, fetch and apply, no
\* secret is wedged without its wrap.
NoSilentStaleness == Quiet => mirror = View

\* full_resync: "Only a COMPLETED manifest proves absence".  A group leaves the
\* mirror only if the replica could not read it at some moment since its Hello.
DropsAreJustified ==
  [][\A g \in Group :
       mirror[g] # None /\ mirror'[g] = None => g \in lost]_vars

\* Whatever raced the apply upstream, rotations and writes between the listing
\* and the data included: while the replica may read a group, each apply leaves
\* every secret of the mirrored group with the wrap that opens it, so that a read
\* on the replica never fails for want of a key.
AppliedSecretsDecrypt ==
  [][\A g \in Group :
       /\ mirror'[g] # mirror[g] /\ mirror'[g] # None
       /\ g \notin lost
       => \A s \in Secret : mirror'[g].secrets[s] # None =>
            mirror'[g].secrets[s].dek \in mirror'[g].deks]_vars

\* Once mutations and connection losses stop, a registered replica ends up with
\* exactly the node's state, and stays there.
Convergence == <>[](registered => mirror = View)

=============================================================================
