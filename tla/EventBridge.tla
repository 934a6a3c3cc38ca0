---------------------------- MODULE EventBridge ----------------------------
(***************************************************************************)
(* How a change in the embedded replica's mirror reaches one BunkerSecret: *)
(* the engine commits, then emits events into a bounded broadcast channel  *)
(* (src/replica.rs); the bridge turns them into reconcile triggers and     *)
(* keeps the staleness clock (operator/src/events.rs, bunker.rs); the      *)
(* controller runs one reconcile at a time, which reads the mirror secret  *)
(* by secret while the engine goes on.                                     *)
(*                                                                         *)
(* What the reconcile does with the rendered data is Reconcile's business: *)
(* here it records what it rendered and reported.  The hourly resync is    *)
(* left out, so that the wake-ups have to do the work.                     *)
(***************************************************************************)
EXTENDS Render, FiniteSets

CONSTANTS Content,      \* what a group can hold
          StartMirror,  \* what an earlier process may have left
          CrSpec,       \* specs of the resource
          Capacity,     \* EVENTS_CAPACITY
          Connected, Disconnected, Touch,
          MaxChanges    \* bound: changes of mirror, connection and spec

ASSUME BridgeBounds == Capacity \in Nat \ {0} /\ MaxChanges \in Nat

\* events are told apart; a group holds finitely many secrets
ASSUME BridgeValues ==
  /\ Connected # Disconnected /\ Touch \notin {Connected, Disconnected}
  /\ {Connected, Disconnected, Touch} \cap Group = {}
  /\ \A c \in Content : /\ c = [n \in DOMAIN c |-> c[n]]
                         /\ IsFiniteSet(DOMAIN c) /\ DOMAIN c \subseteq Key
                         /\ c # None
  /\ StartMirror \subseteq [Group -> Content \cup {None}]

\* dataFrom and data are lists of their kinds of entries, which name groups
ASSUME BridgeSpecs ==
  /\ None \notin CrSpec
  /\ \A s \in CrSpec :
       /\ s.dataFrom \in Seq(Range(s.dataFrom)) /\ s.data \in Seq(Range(s.data))
       /\ \A i \in DOMAIN s.dataFrom : s.dataFrom[i].type \in {"group", "extract"}
       /\ \A i \in DOMAIN s.data : s.data[i].type = "data"
       /\ ReferencedGroups(s) \subseteq Group

VARIABLES mirror, up, synced,  \* the engine: its store and its status
          outbox,      \* events of the last commit still to be emitted
          subscribed,
          ch, lagged,  \* the receiver's part of the channel
          clock,       \* Staleness: "up", or down and "fresh", "ticked" once,
                       \* or "stale" (down for the threshold)
          wasStale,
          spec, cached,      \* the resource, and the reflector's copy
          due, retry,        \* a reconcile is queued; a short requeue runs
          job, view,         \* the reconcile under way, and what it reads
          result,            \* what the last complete one did
          changes

engine == <<mirror, up, synced, outbox>>
channel == <<subscribed, ch, lagged>>
staleness == <<clock, wasStale>>
controller == <<due, retry, job, view, result>>
vars == <<engine, channel, staleness, spec, cached, controller, changes>>

Event == Group \cup {Connected, Disconnected}
Mirror == [Group -> Content \cup {None}]

TypeOK ==
  /\ mirror \in Mirror /\ up \in BOOLEAN /\ synced \in BOOLEAN
  /\ \A i \in DOMAIN outbox : outbox[i] \in Event \cup {Touch}
  /\ subscribed \in BOOLEAN /\ lagged \in BOOLEAN
  /\ Len(ch) <= Capacity /\ \A i \in DOMAIN ch : ch[i] \in Event
  /\ clock \in {"up", "fresh", "ticked", "stale"} /\ wasStale \in BOOLEAN
  /\ spec \in CrSpec /\ cached \in CrSpec \cup {None}
  /\ due \in BOOLEAN /\ retry \in BOOLEAN
  /\ job \in CrSpec \cup {None}
  /\ IF job = None THEN view = None ELSE DOMAIN view = Group
  /\ changes \in 0..MaxChanges

Init ==
  /\ mirror \in StartMirror /\ up = FALSE /\ synced = FALSE /\ outbox = <<>>
  /\ subscribed = FALSE /\ ch = <<>> /\ lagged = FALSE
  /\ clock = "fresh" /\ wasStale = FALSE
  /\ spec \in CrSpec /\ cached = None
  /\ due = FALSE /\ retry = FALSE /\ job = None /\ view = None
  /\ result = [data |-> Err("none"), stale |-> FALSE]
  /\ changes = 0

Change == changes < MaxChanges /\ changes' = changes + 1

-----------------------------------------------------------------------------
(* The engine: one task, so a commit waits for the last one's events, and  *)
(* syncs while it is connected                                             *)

\* the names whose secret differs, as apply_group_sync reports them
Changed(old, new) ==
  {n \in DOMAIN old \cup DOMAIN new :
     ~(n \in DOMAIN old /\ n \in DOMAIN new /\ old[n] = new[n])}

Times(g, S) == [i \in 1..Cardinality(S) |-> g]

\* apply_group_state: GroupAdded, then one event for every changed secret
EventsOf(g, old, new) ==
  IF old = None THEN <<g>> \o Times(g, DOMAIN new)
  ELSE Times(g, Changed(old, new))

ApplyGroup ==
  /\ Change /\ up /\ outbox = <<>>
  /\ \E g \in Group, c \in Content :
       /\ mirror' = [mirror EXCEPT ![g] = c]
       /\ outbox' = EventsOf(g, mirror[g], c) \o <<Touch>>
  /\ UNCHANGED <<up, synced, channel, staleness, spec, cached, controller>>

\* drop_group
DropGroup ==
  /\ Change /\ up /\ outbox = <<>>
  /\ \E g \in Group :
       /\ mirror[g] # None
       /\ mirror' = [mirror EXCEPT ![g] = None]
       /\ outbox' = <<g>>
  /\ UNCHANGED <<up, synced, channel, staleness, spec, cached, controller>>

\* set_connected and set_disconnected emit when the status flips
Flip ==
  /\ Change /\ outbox = <<>>
  /\ up' = ~up
  /\ outbox' = <<IF up THEN Disconnected ELSE Connected>>
  /\ UNCHANGED <<mirror, synced, channel, staleness, spec, cached, controller>>

\* an empty manifest and an initial resync that drops nothing still end in
\* touch_last_synced
ResyncDone ==
  /\ up /\ outbox = <<>> /\ ~synced
  /\ outbox' = <<Touch>>
  /\ UNCHANGED <<mirror, up, synced, channel, staleness, spec, cached,
                 controller, changes>>

\* mutant: the channel grows
SendUnbounded(ev) ==
  /\ ch' = IF subscribed THEN Append(ch, ev) ELSE ch
  /\ UNCHANGED lagged

\* tokio's broadcast: nobody gets an event sent before subscribe(), and a
\* full channel overwrites the oldest
Send(ev) ==
  LET full == Len(ch) = Capacity
  IN  /\ ch' = IF ~subscribed THEN ch
               ELSE Append(IF full THEN Tail(ch) ELSE ch, ev)
      /\ lagged' = (lagged \/ (subscribed /\ full))

\* ReplicaInner::emit, and touch_last_synced after the events
Emit ==
  /\ outbox # <<>>
  /\ outbox' = Tail(outbox)
  /\ IF Head(outbox) = Touch
     THEN synced' = TRUE /\ UNCHANGED <<ch, lagged>>
     ELSE Send(Head(outbox)) /\ UNCHANGED synced
  /\ UNCHANGED <<mirror, up, subscribed, staleness, spec, cached, controller,
                 changes>>

-----------------------------------------------------------------------------
(* The bridge.  The operator subscribes once the engine's task runs. *)

Subscribe ==
  /\ ~subscribed
  /\ subscribed' = TRUE
  /\ UNCHANGED <<engine, ch, lagged, staleness, spec, cached, controller,
                 changes>>

TriggerAll == due' = (due \/ cached # None)

Lagged ==
  /\ lagged
  /\ lagged' = FALSE
  /\ TriggerAll
  /\ UNCHANGED <<engine, subscribed, ch, staleness, spec, cached, retry,
                 job, view, result, changes>>

\* Staleness::set_connected
SetConnected(connected) ==
  clock' = IF connected THEN "up" ELSE IF clock = "up" THEN "fresh" ELSE clock

RecvEvent ==
  /\ ~lagged /\ ch # <<>>
  /\ ch' = Tail(ch)
  /\ IF Head(ch) \in {Connected, Disconnected}
     THEN SetConnected(Head(ch) = Connected) /\ UNCHANGED due
     ELSE /\ due' = (due \/ (cached # None /\ Head(ch) \in ReferencedGroups(cached)))
          /\ UNCHANGED clock
  /\ UNCHANGED <<engine, subscribed, lagged, wasStale, spec, cached, retry,
                 job, view, result, changes>>

\* mutant: only the recovery wakes the resources up
TickRecovered ==
  /\ wasStale' = (clock = "stale")
  /\ IF clock # "stale" /\ wasStale THEN TriggerAll ELSE UNCHANGED due
  /\ clock' = IF clock = "fresh" THEN "ticked" ELSE clock
  /\ UNCHANGED <<engine, channel, spec, cached, retry, job, view, result,
                 changes>>

\* the ticker; its period is at most the threshold, so one tick at least
\* falls between a disconnect and the moment it has lasted that long
Tick ==
  /\ wasStale' = (clock = "stale")
  /\ IF wasStale' # wasStale THEN TriggerAll ELSE UNCHANGED due
  /\ clock' = IF clock = "fresh" THEN "ticked" ELSE clock
  /\ UNCHANGED <<engine, channel, spec, cached, retry, job, view, result,
                 changes>>

ThresholdPasses ==
  /\ clock = "ticked"
  /\ clock' = "stale"
  /\ UNCHANGED <<engine, channel, wasStale, spec, cached, controller, changes>>

-----------------------------------------------------------------------------
(* The resource and its controller, started after the subscription *)

EditSpec ==
  /\ Change
  /\ spec' \in CrSpec \ {spec}
  /\ UNCHANGED <<engine, channel, staleness, cached, controller>>

\* the watch updates the reflector and queues the resource
Watch ==
  /\ subscribed /\ cached # spec
  /\ cached' = spec
  /\ due' = TRUE
  /\ UNCHANGED <<engine, channel, staleness, spec, retry, job, view, result,
                 changes>>

\* the status of the resource is written; a status that changed comes back
\* through the watch
Report(r) ==
  /\ result' = r
  /\ due' = (r # result \/ (due /\ job # None))

\* a reconcile starts with the gate; AwaitingSync is retried soon
StartReconcile ==
  /\ due /\ job = None
  /\ \/ /\ synced
        /\ job' = cached /\ view' = mirror
        /\ due' = FALSE /\ retry' = FALSE
        /\ UNCHANGED result
     \/ /\ ~synced
        /\ Report([data |-> Err("AwaitingSync"), stale |-> FALSE])
        /\ retry' = TRUE
        /\ UNCHANGED <<job, view>>
  /\ UNCHANGED <<engine, channel, staleness, spec, cached, changes>>

\* the secrets are read one lock at a time: what is read later may be newer
ReadOn ==
  /\ job # None
  /\ \E g \in Group :
       /\ view[g] # mirror[g]
       /\ IF view[g] = None \/ mirror[g] = None
          THEN view' = [view EXCEPT ![g] = mirror[g]]
          ELSE \E n \in Changed(view[g], mirror[g]) :
                 view' = [view EXCEPT ![g] =
                   [k \in (DOMAIN view[g] \ {n}) \cup (DOMAIN mirror[g] \cap {n})
                      |-> IF k = n THEN mirror[g][k] ELSE view[g][k]]]
  /\ UNCHANGED <<engine, channel, staleness, spec, cached, due, retry, job,
                 result, changes>>

\* a failed API call, or a secret that does not decrypt: the error policy
\* requeues soon
FailReconcile ==
  /\ job # None
  /\ retry' = TRUE
  /\ job' = None /\ view' = None
  /\ UNCHANGED <<engine, channel, staleness, spec, cached, due, result,
                 changes>>

NotYetDecryptable(r) == ~r.ok /\ r.reason = "NotYetSynced"

FinishReconcile ==
  /\ job # None
  /\ LET r == render(job, view)
     IN  /\ ~NotYetDecryptable(r)
         /\ Report([data |-> r, stale |-> r.ok /\ clock = "stale"])
  /\ job' = None /\ view' = None
  /\ UNCHANGED <<engine, channel, staleness, spec, cached, retry, changes>>

RetryTimer ==
  /\ retry
  /\ retry' = FALSE /\ due' = TRUE
  /\ UNCHANGED <<engine, channel, staleness, spec, cached, job, view, result,
                 changes>>

Next ==
  \/ ApplyGroup \/ DropGroup \/ Flip \/ ResyncDone \/ Emit
  \/ Subscribe \/ Lagged \/ RecvEvent \/ Tick \/ ThresholdPasses
  \/ EditSpec \/ Watch
  \/ StartReconcile \/ ReadOn \/ FailReconcile \/ FinishReconcile \/ RetryTimer

Spec == Init /\ [][Next]_vars

-----------------------------------------------------------------------------
(* Properties *)

\* Whatever a reconcile reads, some of it before and some after a commit, the
\* loops of render that overwrite as they go give every key the value of the
\* last entry that sets it, and fail exactly when an entry cannot be read or
\* a key is not valid.
RenderedAsSpecified == job # None => LastEntryWins(job, view)

Settled ==
  /\ outbox = <<>> /\ ch = <<>> /\ ~lagged
  /\ cached = spec
  /\ ~due /\ ~retry /\ job = None

\* When no wake-up is on its way any more, the last reconcile rendered what the
\* mirror holds for the present spec: no commit, overflow, edit, late list of
\* resources or read that raced a commit leaves the Secret behind (events.rs:
\* "a missed event costs latency, never correctness").
NoMissedWakeup == Settled => result.data = render(spec, mirror)

\* Once the ticker has seen the threshold pass, and no wake-up is on its way,
\* the resource's condition says StaleReplica (unless it reports an error of
\* the render), however the connection flapped before.
StaleIsReported ==
  Settled /\ clock = "stale" /\ wasStale => result.stale \/ ~result.data.ok

\* events.rs: "The ticker exists to flip CRs to/from StaleReplica when nothing
\* else is reconciling".  With the connection back, no wake-up on its way and
\* nothing for the ticker to notice, the condition is not StaleReplica.
TickerFlipsBack ==
  Settled /\ clock = "up" /\ ~wasStale => ~result.stale

-----------------------------------------------------------------------------
(* The inductive invariant behind NoMissedWakeup and StaleIsReported: what a   *)
(* reconcile rendered, or has read so far, differs from the mirror only in     *)
(* groups whose event is still on its way.                                     *)

\* an event of group g, or the loss of some event, has yet to reach the bridge
Coming(g) ==
  \/ lagged
  \/ \E i \in DOMAIN outbox : outbox[i] = g
  \/ \E i \in DOMAIN ch : ch[i] = g

Types ==
  /\ TypeOK
  /\ outbox \in Seq(Event \cup {Touch}) /\ ch \in Seq(Event)
  /\ job # None => view = [g \in Group |-> view[g]]

Awake ==
  /\ due \/ retry \/ job # None => cached # None
  /\ cached # None => subscribed
  /\ ~due /\ job # None =>
       /\ job = cached
       /\ \A g \in ReferencedGroups(cached) : view[g] = mirror[g] \/ Coming(g)
  /\ ~due /\ ~retry /\ job = None /\ cached # None =>
       \/ result.data = render(cached, mirror)
       \/ \E g \in ReferencedGroups(cached) : Coming(g)

\* a tick that sees the connection lost for the threshold wakes the resource up,
\* and one falls between a disconnect and the threshold
Ticking ==
  /\ wasStale => clock # "ticked"
  /\ clock = "stale" /\ wasStale /\ cached # None /\ ~due /\ ~retry /\ job = None =>
       result.stale \/ ~result.data.ok

BridgeInv == Types /\ Awake /\ Ticking

\* what a reconcile has read are secrets under their names
ViewNames ==
  job # None => \A g \in Group : view[g] # None => DOMAIN view[g] \subseteq Key

=============================================================================
