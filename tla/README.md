# secret-bunker in TLA+

A verification project for secret-bunker: a peer-to-peer secrets server (SQLite
store behind one mutex, per-group data keys wrapped to their readers), replicas
that follow it over a sync protocol, a Kubernetes operator that renders a
replica's secrets into `Secret` objects, and a terminal UI. Modules are
model-checked with TLC on small instances; the safety properties that matter most
are also proved with TLAPS for every value of the constants. `PROJECT.json` maps
each definition to the lines it models and lists the runs, mutants, hazards,
findings and theorems.

## 1. The system

| Part | Source | State | What changes it |
|---|---|---|---|
| Store | `src/store.rs` | identities, group ACLs, DEK versions, wraps, secret versions, meta | SQL transactions, one per request |
| Request handlers | `src/server.rs` 173-949 | none of their own; publish group names on a broadcast channel | Put, Delete, CreateGroup, Grant, RotateDek, AddIdentity, RemoveIdentity, SetServiceAdmin; Get and the listings read |
| Audit log | `src/store.rs` 1351-1421 | a table that is a hash chain | rows after each request, apply and `db grant` |
| Start-up and offline commands | `src/server.rs` 102, `src/main.rs` | the same file | open and migrate, backfill of reader wraps (row by row), `db grant`, `recover`, `init` |
| Sync sessions | `src/server.rs` 1135-1398 | one task per Hello: channel receiver, cached scope, debounce batch | manifest, live push, Lagged, scope recheck; FetchGroup and FetchSecrets streams |
| Replica engine | `src/replica.rs` | its own store (the mirror), status, event channel, connection slot, shutdown watch | dial, manifest, resync, sweep, live push, fetch, apply, backoff, `shutdown()` |
| Replica server | `src/replica.rs` 159-411 | none: reads the mirror | Get, List, GroupAcl over mirrored ACL rows |
| Serve loop, watchdogs | `src/serveloop.rs`, `src/relayhealth.rs`, `src/main.rs` | generation, trackers, wedge channel | build, wedge, router shutdown, teardown, ctrl-c |
| Operator: reconciler | `operator/src/reconcile.rs` | none: BunkerSecret (spec, status, finalizer), Secret, the watch's cached copy | apply and cleanup arms, a handful of API calls each |
| Operator: event bridge | `operator/src/events.rs`, `bunker.rs` | staleness clock, `was_stale`, trigger channel | replica events, Lagged, ticker |
| Operator: render | `operator/src/render.rs` | none | a pure function of spec and mirror, read secret by secret |
| Operator: identity | `operator/src/identity.rs` | one Kubernetes Secret | get or create, by every pod |
| Terminal UI | `src/tui.rs`, `client.rs` | lists fetched earlier, selections by index, open form or question | keys, each a handful of requests |

**Interactions.** Handlers publish names of touched groups; each sync session turns
them into pushes of snapshots taken under the store lock; the engine applies them to
the mirror and raises events; the bridge turns events into reconciles, which read the
mirror and talk to the API server. Only the store mutex serialises anything: a session
interleaves with requests at every lock, the engine with the session at every message,
a reconcile with users and controllers at every API call, a key handler of the UI with
other clients at every request. The serve loop builds and tears down all of it.

**What is hard.** Atomicity of revocation and rotation; a backfill that may stop in
the middle; a snapshot that races the subscription; a bounded channel that overflows;
data fetched one lock after the listing that named it; a connection lost at any step;
identity rows shared by groups that arrive one by one; a shutdown that meets a dial, a
fetch or a sleep; a reconcile over a stale cached object; a ticker that samples a clock
others read in between. The full list, with the properties that cover each item, is
`hazards` in `PROJECT.json`.

## 2. Modules

| Module | Models | Atomic step |
|---|---|---|
| `Bunker` | store, request handlers, start-up, offline commands | one request (the handler holds the mutex from start to end and commits once); one row of the backfill |
| `KeyHistory` | `Bunker` plus the history of who ever held which DEK | as `Bunker` |
| `Audit` | the audit chain and everything that appends to it | one statement under the mutex |
| `Upstream` | the node as one replica sees it: its read grants, and per group the wrapped DEK versions, ACL and current secrets | one mutation |
| `BunkerView` | `Bunker` refined to `Upstream` | as `Bunker` |
| `Replication` | `Upstream` composed with a sync session, the broadcast channel, the fetch streams and the engine | one store lock or one message |
| `Mirror` | identity and ACL rows of the mirror, and who is answered what from them | one apply, drop or snapshot |
| `ReplicaLifecycle` | spawn, role check, sync task and `shutdown()` of one engine | one await |
| `ManagedIdentity` | the operator pods' get-or-create of their key | one API call |
| `ServeLoop` | serve loop and watchdogs, composed with the two modules above | one await, one sample |
| `Reconcile` | the operator for one BunkerSecret over an abstract replica | one API call |
| `Render` | the render function and its reference definition | none: operators |
| `ListFolds` | the loops over lists that `Render` and `Mirror` use; the folds of `SequencesExt` without the `Bags` it brings, which slow the proofs down | none: operators |
| `EventBridge` | engine events, channel, bridge, ticker, controller; uses `Render` | one commit, send, receive, tick or locked read |
| `Tui` | the terminal UI and the node it talks to | one request, one key |
| `...Proofs` | theorems | |
| `MC...` | constants and symmetry for TLC | |

### Bunker, KeyHistory

`identity`, `serviceAdmin`, `acl`, `dek`, `wraps`, `secrets`, `opKey` are the tables of
the same names (`dek[g]` is `MAX(version)`: DEK rows are never deleted; `secrets[g][s]`
is the DEK version of each stored version, in order). `phase` is the serve process and
`published` the group names the last request put on the channel. A refused request
changes none of this and is a stutter. `ChangePerms` is the part of `grant` that
`db grant` repeats: a grant that adds the read bit wraps every retained version to the
new reader (`GainRead`), one that takes it away rotates (`LoseRead`), anything else
edits the row (`KeepRead`). `Init` is a fresh `init` or a migrated database whose
readers lack wraps. Cryptography is abstracted to who holds a wrap.

### Audit

A handler takes the mutex (`Begin`), runs its transaction (`Dispatch`), and appends its
rows, each in the two statements of `audit` (`ReadHead`, `Insert`). A rotation adds a
second row, before the request's on the wire and after it in `db grant`. Each statement
may fail, the handler panic, the process die. `excused` records whose row was lost to
such a fault. A hash is the sequence of what went into it. `EditLog` changes, relinks or
deletes a row while nobody serves; the `written` field of a row is history, against
which `ValidMeansIntact` compares a table that verifies.

### Upstream, BunkerView, Replication

`Upstream` keeps what a snapshot contains. Every write of a secret gets a fresh nonce
(a global clock), so that delete and re-create under the same version number is
distinguishable exactly as in the code. `BunkerView` adds that clock to `Bunker` and
shows that every step of the node is a step of `Upstream` that publishes at least the
groups whose snapshot changed: what `Replication` assumes of the node is what the
node does.

In `Replication`, `session` goes through the stages of `sync_hello`: subscribe, scope
(with the refusals), one snapshot per lock, ManifestDone, recv, debounce, emit.
`queue` and `overrun` are the broadcast receiver of capacity `ChannelCap`. The engine
collects the manifest, applies groups (`FetchSecrets` authorises, `ReadSecretData`
takes one lock per name, `Apply` withholds, writes and perhaps refetches), sweeps what
the manifest lacks, then follows pushes. `ConnectionLost` may strike before any step.
Message framing is left out: a group is one message.

### Mirror

`node` and `local` are the tables `identity`, `secret_group`, `group_acl` of the
authoritative node and of the replica, with their uniqueness and cascades. `EffectiveAcl`,
`Upsert` and `AclReplaced` are rules 1 and 2 of `apply_group_sync`; `ApplySucceeds` is the
lookup that fails the transaction when a later entry's delete took a row. The session is
reduced to what orders the states: manifest snapshots, pushes, the re-fetch that
`sync_one_group` makes in the middle of a resync. `Answer` is what the replica's `dispatch`
gives a peer. `Collide` sends a list that names an identity or endpoint twice, which the
doc of `effective_acl` provides for.

### ReplicaLifecycle, ManagedIdentity, ServeLoop

`task` is where the sync task waits. The waits in `Raced` are selects with the shutdown
watch, those in `OnConnection` end when the connection is closed; `fetch` and `open` are
in the second set only, which is why `shutdown()` closes the connection it finds in
`slot`, and why the task looks at the flag again after it has stashed one. `ServeLoop`
has three kinds of process: authoritative node, serving replica, operator. A generation
is bind, spawn, serve until a wedge or ctrl-c, router shutdown (which closes the
endpoint and may report an error), teardown (`shutdown()`, step by step). Time is counted
in samples of the watchdogs; `sampled` is history, kept apart from the trackers that
`RebindsAreJustified` checks. In `ManagedIdentity` a key is named after the pod that drew
it, and a create may be carried out although its answer is lost.

### Reconcile

`cr` is the object in the API server, `cache` the reflector's copy the reconcile works
on, `secret` the Secrets by name. `pc` walks the calls of `apply_bunker_secret` and
`cleanup_bunker_secret` in their order: get, apply, get the previous target, delete or
orphan it, patch the status; get the retained Secret, orphan it, drop the finalizer.
Between calls users edit the spec, delete the object, create or edit Secrets, the
replica syncs, the garbage collector runs. A Secret's `extra` is a key owned by
another field manager. `CallFails` and `Restart` strike at any call. The replica is
reduced to what the reconciler reads: the mirror, `last_synced`, and when a resync ends.
An error that only requeues (a transient replica error) changes nothing and is a
stuttering step. One BunkerSecret that renders one group is modelled;
`Bad` content stands for any render error other than a missing group. Nobody edits a
resource that is being deleted.

### Render, EventBridge

`render` goes through the entries of a spec as the loops of the code do. `Assignments` is
what one entry does, in its order: a key and the value it gets, or the error that ends the
render there; `Assign` is the body of the loops, with the early return and the list of
invalid keys. `LastEntryWins` says the same without an order of evaluation.
Values are opaque: `Object` says which are JSON objects and what their fields are.

In `EventBridge` the engine commits, then emits one event at a time (`outbox`) into a
channel of `Capacity` that overwrites the oldest. The bridge turns events into `due`,
keeps the staleness clock, and ticks. A reconcile takes the mirror as it is and `ReadOn`
lets any part of it be newer when it is read. What the reconcile writes is reduced to
`result`; a status that changed comes back through the watch and queues the resource
once more. The hourly resync is left out on purpose: it would hide a lost wake-up.

### Tui

`ui` has the fields of `App`, `todo` the requests the running key handler still makes.
Before each, other clients may change the bunker; each may fail, before or after the
bunker has acted. A secret carries, for the properties only, the life it is in, because
version numbers start at 1 again when a name is deleted and put again. `hist` remembers
which group a list was fetched for. Text typed into a form is chosen on submission.

## 3. Runs

| Run | Instance | Shows |
|---|---|---|
| `bunker` | 3 endpoints and names, 1 group, 1 secret, 2 operational keys, 3 DEK versions, 2 versions per secret | the node's safety properties, with the key history |
| `bunker_view` | 2 endpoints, 2 groups, 2 changes of the view | `Bunker` implements `Upstream` |
| `audit` | 2 handler threads and `db grant`, 3 requests, 2 edits | the chain verifies, rows follow commits, a valid chain is intact, the lock is released |
| `replication` | 1 group, 2 secrets, 2 ACL contents, 3 mutations, channel of 1, 1 connection loss | never silently stale, nothing undecryptable applied |
| `replication_live` | 2 groups, 2 mutations, channel of 1, 1 loss | with sweeps and batches: no drop without cause, and convergence |
| `mirror` | 2 endpoints, 2 names, 2 groups, 4 changes, 1 loss or collision | an up-to-date group answers every peer as the node does, no apply wedges |
| `process` | 2 pods, 2 relays, 2 samples, a streak of 3, backoff up to 2 | generations do not overlap, rebinds are justified and happen, shutdown completes, one stored key |
| `reconcile` | 2 target names, 2 contents, 2 events (changes by others, failed calls, restarts) | foreign Secrets untouched, the last Secret kept, convergence, end of deletion |
| `operator` | 2 groups, 3 contents, 3 specs, channel of 2, 3 changes | no missed wake-up, render as specified, staleness reported |
| `tui` | 2 groups, 2 names, 2 people, 2 changes or errors | selections in range, lists of the right group, only what was shown is replaced |
| `reconcile_retain`, `operator_stale` | as `reconcile`, `operator` | the findings of section 4 |

**Bounds.** Three endpoints allow an admin, a revoked reader and a remaining one. Three
DEK versions allow revoke, re-grant and revoke again. A channel of capacity 1 overflows
with two events, as one of 1024 does with 1025; the operator's holds two, so that an
event can also be received after others were lost. Three mutations cover revoke, re-grant
and rewrite inside one debounce window, and delete and re-create behind a mirrored
secret; a replica carries nothing but the mirror from one session to the next, and one
loss at any step yields every torn resync. Four changes let two identities swap names
between two groups' states. Two samples and a streak of three tell a reset from a
pause. Generations after the first are alike, so their count stops at two. Three
requests give a chain with a middle. For the operator, two events cover a rename
around a failed call; for the UI, a change by another client and a failed request.
Bounds are constants (`MaxDek`, `MaxVersion`, `MaxClock`, `MaxFaults`, `MaxEvents`,
`MaxChanges`, `MaxRequests`, `MaxEdits`) used in guards. Deadlock is checked in `bunker`,
`bunker_view`, `process` and `operator`; the others may stop when their budget of changes
is used up and everything is in step.

**Fairness.** `replication_live`: weak fairness of the session task and of the engine,
tokio tasks that are always polled; none for mutations or losses. `reconcile`: weak
fairness of the controller (kube requeues every object after a result or an error), of
the watch, of the garbage collector and of the replica's resync; none for users or
faults. `audit`: weak fairness of each handler that runs. `process`: weak fairness of the
process's own steps, which are code between two awaits, timers, and waits whose event has
come; strong fairness of the shutdown branch of a select that is entered again and again,
and of a DNS lookup that is tried again and again; nothing of the peer, so a session may
hang for ever in `fetch`. Start-up needs no fairness: `BackfillAdvances` says that each
step of the backfill leaves fewer wraps missing and that none is refused, which is why
it ends.

**Mutants.** Each property of each passing run is shown to be able to fail: a definition
marked `mutant` in the modules, a plausible slip in that code, violates it. Some
properties that are proved for every value of the constants are in no run; section 5
lists them.

## 4. Findings

Two runs end in a counterexample on purpose: a document or comment of the repository
promises something the code does not do. Quotations are under `findings`.

* `reconcile_retain`: deleting a `Retain` resource whose rename is outstanding lets the
  rendered Secret be garbage-collected.
* `operator_stale`: a reconcile between two ticks reports StaleReplica, the connection is
  back before the second tick, and the ticker, which compares with the last tick only,
  never wakes the resource up again.

Smaller observations made with the same modules, without a run of their own:

* A replica whose identity is removed while it is about to fetch a group drops that
  group's mirror, as after a revocation: a denied fetch cannot tell the two apart.
* Degraded reconciles store `observedGeneration` too, so the second reconcile of an
  edited resource says AccessRevoked for a group that never existed.
* Two renames with a failed call or a stale copy between them leave the middle Secret
  owned and unrecorded, and a key added by hand survives the forced apply.
* `last_synced` is set after the first applied group, not after the initial resync.
* In the UI, a change on the ACL screen fetches the groups and not the secrets, and a
  failed List or GroupAcl leaves the old rows under the new title; the exceptions in
  `PaneIsOfSelectedGroup`, `AclIsOfItsGroup` and `ReplacesOnlyWhatWasShown` are exactly
  these. A name that was deleted and put again has the version numbers of the old one,
  so the version check cannot tell them apart.

## 5. Proofs

All theorems hold for every value of the constants that satisfies the named
assumptions: bounds are natural numbers (positive where zero makes no sense), the kinds
of keys, `None` and the like are distinct from what they stand beside, the set of groups
a replica may see, the set of secrets a mirrored group may hold, the endpoints of the
mirror and the names the UI lists are finite, a spec's entries are lists of their kinds,
the names of secrets and fields have an order. TLC evaluates each assumption on its
instances.

**The node** (`BunkerProofs`). `IndInv` is `TypeOK`, `AdministrableOverTheWire`,
`AclRowsHaveOwners`, `WrapsJustified`, `WrapsMatchReaders` and `StoredUnderIssuedDeks`. It
is needed as a whole. `WrapsMatchReaders` (a serving node's wraps are exactly what the ACL
asks for) says nothing about a node that is down or in its backfill, where only
`WrapsJustified` holds: wraps are a subset of what the ACL asks for and contain the
operational and backup keys. The step from one to the other is the end of the backfill,
when no wrap is missing. Removal of an identity drops its wraps only in the groups it
could read, so it needs the wraps to be justified before; registering it again needs
`AclRowsHaveOwners`: no stale row waits for it. That an authorised Get never fails needs
`StoredUnderIssuedDeks` with the operational key on every version. `ChangePermsWraps` is
the central lemma, shared by `Grant` and `DbGrant`; one lemma per action follows. The
action properties (rotation, last admin, publication, backfill) follow from the same
invariant.

**The node as others see it** (also `BunkerProofs`). No endpoint outside the readers ever
held the current DEK, because every loss of the read bit rotates and a new DEK is wrapped
to readers only. `BunkerImplementsUpstream` is the refinement that carries the theorems
about replicas over to the node: under the mapping of `BunkerView`, an initial database is
an initial state of `Upstream`, and every action of `Bunker` is a mutation of it (Put,
Delete, a grant or revocation of the replica's read bit, its removal or registration, a
change of others), for the groups it publishes, or a stutter. One lemma per component of
the mapping says which operations change it; `IndInv` supplies that a registered reader
is a row of the ACL and that a stored secret is under an issued DEK.

**The audit chain** (`AuditProofs`). `AuditInv`: whoever is past `Begin` holds the mutex
and nobody edits the table while it is held, so the head a handler has read is still the
last hash when it inserts. `OrderInv`: requests are numbered under the mutex, so the one
in hand is the newest, and rows and commits come in the order of the numbers.
`ValidAlwaysMeansIntact` puts two facts together. `WrittenInv`: whatever was edited, each row
still carries the hash of all that had been written up to it. `ValidHashes`: in a chain
that verifies, the hash of a row lists the fields the table now has up to it; the first row
(`LeastRow`) for which it did not would follow one for which it does.

**Replication** (`ReplicationProofs`). `TypeInv` adds to `TypeOK` the
types of stream and stash, the bounds of counters and which fields each stage uses.
`DropInv`: a group readable since the Hello is still to be sent, in the stream, in the
stash, or in the completed manifest, so neither the sweep nor a denial drops it.
`FollowInv` is the heart of `NeverSilentlyStale`. For a group, either somebody still owes
the replica a fetch of it (an event in the channel or the batch, a Changed in the stream, a
session bound to start over), or every copy on its way (snapshot, stream, stash, in hand)
is the node's present state, and once there is no copy the mirror is. `OneCopy` says a
group is in one place at a time, so an old copy never follows a newer one. For
`AppliedAlwaysDecrypt`, `KeyInv` says that a copy of a group the replica could read since
its Hello has every wrap that the secrets already in the mirror need: the node's DEK
versions only become more, and copies arrive in the order in which they were taken. So
what an apply keeps of the old mirror opens with the new wraps, and what it adds is
withheld if it does not. Each was checked with TLC before it was proved.

**The mirrored rows** (`MirrorProofs`). `effective_acl` scans a list from its end, the
upserts of rule 1 go through it from the front: both are folds. A fold is a recursive
function chosen by its equation, so the proofs first show that one exists
(`SeeIterExists`, `UpsertIterExists`: the numbers up to which one exists are all of them)
and then follow its run. `Knows` is what the scan carries: the names seen, the endpoints
of the entries that are the last of their name, and as kept exactly the winners (`Wins`),
among which no name and no endpoint occurs twice. So no later upsert deletes the row of an
earlier one, the lookup of rule 2 finds every row (`NothingWedges`), and what is left are
the winners (`CollisionsResolved`), for lists of any length. `MirroredAnswers` needs
`Agreement`. `ScopeTracked`: a group that came into or left the replica's scope is dirty.
`Fresh`, unless a list collided: a state on its way is the node's present one unless its
group is dirty, and a mirrored group that is neither dirty nor on its way has the node's
rows. The difficulty is what an apply does to *other* groups over the shared identity
rows: even a state that is out of date must not take a name or an endpoint from a row of a
group that is not dirty (`Fits`, in `StateOK`). It cannot, because a change of an
endpoint's name dirties every group with that endpoint in its ACL, which is why
`RemoveIdentity` publishes all of them. Drops and the removal of unreferenced identities
keep what other groups refer to (`DropAlike`).

**The serving process** (`ServeLoopProofs`). One small invariant per property: where
endpoint and engine are in each phase (`GenerationInv`), the counters of a watchdog are
what it has seen (`EvidenceInv`), a pod past its reads has the stored key
(`IdentityInv`). Steps that leave the variables of an invariant alone are dealt with once.
The type invariant needs `EvidenceInv`: a watchdog that has reported stops counting, so no
counter passes its threshold by more than the last sample.

**The reconciler** (`ReconcileProofs`). `LookInv` ties each write to the look before it: at
the call that writes a name, the Secret under it is free, owned, or was written by
somebody else since (`touched`). `RetainInv` is what a deletion may rely on: nobody edits
a resource that is being deleted, so the spec of the copy at hand is the one that goes,
and when the finalizer is dropped the Secret under its target name has been orphaned; only
an apply could make it owned again, and no apply runs between the two calls.

**The event bridge** (`EventBridgeProofs`). `Awake`: what a reconcile rendered, or has read
so far, differs from the mirror only in groups whose event is still in the outbox or the
channel, or behind a loss the bridge has yet to be told of. `RenderReads` supplies the other
half: the result of `render` depends on the groups a spec refers to and on no others, which
are the groups whose events wake it. `Ticking`: a stale clock the ticker has seen was reported,
or the wake-up is still due. That a bounded channel only ever loses its oldest events, and
says so, is `EmitKeepsComing`.

`RenderKeepsThePromise` is about the loops. `Body` is one step of each of the three (over
assignments, over entries, over names in order), `Loop` the recursive function behind the
fold, and `LoopRuns` gives its run, from the least index at which none would exist. A step
`Sets` some keys: it keeps the accumulator clean exactly if it was good, and changes no
other key. `Chain` adds up the steps of a run: clean at the end exactly if all were good,
and each key has the value of the last step that set it. `EntryMeans` says what the
assignments of each kind of entry are against `EntryKeys`, `EntryValue` and
`EntryReadable`; a whole group needs that `Ascending` lists names in order, so that of two
names rewritten to one key the later is the last (`LastOfAscending`). The same argument is
then made once more one level up, over the entries. `ViewNames` is the invariant that
connects this with the bridge: what a reconcile has read so far, a mixture of two states of
the mirror, still holds secrets under their names.

**The terminal UI** (`TuiProofs`). `ScreenInv` is about the requests a key handler still
has to make. A list of groups, which may move the selection to another group, is followed
by the list of the secrets, unless the handler is one of those that leave the pane behind;
a Get is the only request of its handler, so its form opens for the group that is still
selected; a Put over a version and a Delete name the group their secret was shown for, or
the pane was behind (`QueueOK`). A form or a question about a secret is open only while no
request is in hand (`ModeOK`). With both, the pane and the rows of the ACL are of the group
on the screen, or the request that will make them so is in hand (`PaneOK`, `AclOK`).
`AnswerFacts` says what an answer may change, `AfterFacts` what a request does to the
tables: one that replaces a secret found the version it was made for. One lemma per key
follows. That a finite set of names has a list in order (`OrderExists`) is shown with a
smallest set that has none.

**Proved and in no run:** `TypeOK` of `Bunker`, `Replication`, `Reconcile` and `ServeLoop`;
`AclRowsHaveOwners`, `ReadersCanOpenEveryVersion`, `RevocationRotates`,
`ChangesArePublished` and `CurrentDekUnheldByOutsiders` of the node (the runs check
`WrapsMatchReaders`, `ImplementsUpstream` and `WritesUnderUnheldKeys` instead);
`EngineOnItsOwnMirror`, `ConnectedMeansSession` and `StoredKeyStays` of the process.

**Only model-checked:** the liveness properties (`Convergence`, `ReconcileConverges`,
`DeletionCompletes`, `ShutdownCompletes`, `WedgedIsRebound`, `LockIsReleased`), since
fairness and ENABLED are beyond the prover. Every safety property of the passing runs is
proved. What `Rewritten` picks from the rewrite rules is used as it is and not taken apart:
the prover has no theory of `SelectSeq`, and no proof needs one.

## 6. Not modelled

Cryptographic primitives, key files and the OS keystore; the wire format and its framing;
argument parsing, drawing and text editing in the UI, metrics, HTTP routes, Helm charts
(I/O without state the properties speak of). The accept loops of the two servers, which
spawn a handler per stream. Warning events and the reconcile backoff counter. `u64`
version numbers do not overflow within the bounds; the one place where the wire can bring
the maximum, `expected_version`, uses `checked_add`. About a third of the lines under `src/`
are unit tests, which are read as evidence and not modelled.

## 7. Plan

1. `Mirror` composed with `Replication`'s session in full, instead of its reduced one.
2. Several BunkerSecrets in `EventBridge` and `Reconcile` that share a target name.
