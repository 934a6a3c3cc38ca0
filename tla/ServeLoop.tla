----------------------------- MODULE ServeLoop -----------------------------
(***************************************************************************)
(* A serving process: serve_with_rebind (src/serveloop.rs), the two relay  *)
(* watchdogs that ask it to rebind (src/relayhealth.rs), and what each     *)
(* generation is made of in the three programs that serve or embed a       *)
(* replica (src/main.rs, operator/src/main.rs):                            *)
(*   "authoritative"  endpoint, router, watchdogs;                         *)
(*   "replica"        the same with a replica engine whose shutdown() is   *)
(*                    the generation's teardown;                           *)
(*   "embedded"       the operator: one engine with an endpoint of its own *)
(*                    and no router.                                       *)
(* Time is counted in samples.  Generations after the first are alike, so  *)
(* the generation counter stops at 2.                                      *)
(***************************************************************************)
EXTENDS ReplicaLifecycle, ManagedIdentity

CONSTANTS Me, Relay,  \* Me: the pod, when the process is an operator's
          DownSamples, \* RELAY_DOWN_REBIND_AFTER in samples of the watch
          Threshold    \* MISMATCH_REBIND_THRESHOLD

ASSUME MeIsAPod == Me \in Pod
ASSUME WatchBounds ==
  /\ DownSamples \in Nat \ {0}
  /\ Threshold \in Nat \ {0}

VARIABLES kind, watched,  \* which program; it runs watchdogs (no --no-relay)
          phase,          \* where the loop is
          generation,     \* 0, 1, or 2 for every later one
          stop,           \* ctrl-c or SIGTERM has come
          stopping,       \* why the generation ends
          failedRouter,   \* router.shutdown() returned an error
          live,           \* relays the endpoint is connected to
          advertised,     \* relays in its published record
          tracker,        \* RelayDownTracker: was_connected, down_since
          streak,         \* MismatchStreak
          watching,       \* watchdogs that have not ended
          wedge,          \* reasons in the generation's channel
          sampled         \* history: what this generation's watchdogs saw

loop == <<kind, watched, phase, generation, stop, stopping, failedRouter>>
net == <<live, advertised, identity>>
watch == <<tracker, streak, watching, wedge, sampled>>
vars == <<role, endpoint, engine, loop, net, watch>>

Watchdog == {"RelayDown", "RecordMismatch"}
Phase == {"identity", "build", "spawn", "sleep", "serving", "router", "unwrap",
          "teardown", "done", "failed"}

\* down: samples since down_since was set, 0 when it is None
Tracker == [was : BOOLEAN, down : 0..(DownSamples + 1)]

TypeOK ==
  /\ EngineTypeOK /\ IdentityTypeOK
  /\ kind \in {"authoritative", "replica", "embedded"} /\ watched \in BOOLEAN
  /\ phase \in Phase
  /\ generation \in 0..2
  /\ stop \in BOOLEAN /\ stopping \in BOOLEAN /\ failedRouter \in BOOLEAN
  /\ live \in SUBSET Relay /\ advertised \in SUBSET Relay
  /\ tracker \in Tracker
  /\ streak \in 0..Threshold
  /\ watching \in SUBSET Watchdog /\ wedge \in SUBSET Watchdog
  /\ sampled \in [up : BOOLEAN, down : 0..(DownSamples + 1),
                  bad : 0..Threshold]

-----------------------------------------------------------------------------
(* The watchdogs of a generation *)

NewTracker == [was |-> FALSE, down |-> 0]
\* history counts no further than its bound
UpTo(bound, n) == IF n = bound THEN bound ELSE n + 1
NothingSampled == [up |-> FALSE, down |-> 0, bad |-> 0]

\* mutant: a connected sample does not restart the clock
ObserveNoReset(t, anyConnected) ==
  [was |-> t.was \/ anyConnected,
   down |-> IF t.was /\ ~anyConnected THEN t.down + 1 ELSE t.down]

\* RelayDownTracker::observe
Observe(t, anyConnected) ==
  [was |-> t.was \/ anyConnected,
   down |-> IF t.was /\ ~anyConnected THEN t.down + 1 ELSE 0]

\* record_mismatch: no advertised relay is one we are connected to
Mismatched == advertised \cap live = {}

Escalate(w) ==
  /\ wedge' = wedge \cup {w}
  /\ watching' = watching \ {w}

\* spawn_relay_down_watch: one sample
SampleRelays ==
  /\ "RelayDown" \in watching
  /\ endpoint = "open"
  /\ tracker' = Observe(tracker, live # {})
  /\ sampled' = [sampled EXCEPT
       !.up = @ \/ live # {},
       !.down = IF live = {} /\ sampled.up THEN UpTo(DownSamples + 1, @)
                ELSE 0]
  /\ IF tracker'.down > DownSamples
     THEN Escalate("RelayDown")
     ELSE UNCHANGED <<wedge, watching>>
  /\ UNCHANGED <<role, endpoint, engine, loop, net, streak>>

Observation == {"Match", "Mismatch", "Inconclusive"}

\* mutant: a failed lookup ends the streak
StreakEndsOnFailure(n, obs) == IF obs = "Mismatch" THEN n + 1 ELSE 0

\* MismatchStreak::observe
StreakAfter(n, obs) ==
  CASE obs = "Match" -> 0
    [] obs = "Mismatch" -> n + 1
    [] obs = "Inconclusive" -> n

\* one round of spawn_record_self_check; the lookup may fail
SelfCheck(obs) ==
  /\ "RecordMismatch" \in watching
  /\ endpoint = "open"
  /\ obs \in {"Inconclusive", IF Mismatched THEN "Mismatch" ELSE "Match"}
  /\ streak' = StreakAfter(streak, obs)
  /\ sampled' = IF obs = "Inconclusive" THEN sampled
                ELSE [sampled EXCEPT !.bad =
                        IF Mismatched THEN UpTo(Threshold, @) ELSE 0]
  /\ IF streak' >= Threshold
     THEN Escalate("RecordMismatch")
     ELSE UNCHANGED <<wedge, watching>>
  /\ UNCHANGED <<role, endpoint, engine, loop, net, tracker>>

\* a watchdog finds its endpoint closed
WatchEnds ==
  /\ endpoint # "open" /\ watching # {}
  /\ \E w \in watching : watching' = watching \ {w}
  /\ UNCHANGED <<role, endpoint, engine, loop, net, tracker, streak, wedge,
                 sampled>>

\* relays come and go; the record is published some time after (nobody
\* looks unless there are watchdogs)
RelaysChange ==
  /\ watched /\ endpoint = "open"
  /\ live' \in SUBSET Relay
  /\ UNCHANGED <<role, endpoint, engine, loop, advertised, identity, watch>>

RecordChange ==
  /\ watched /\ phase \notin {"done", "failed"}
  /\ advertised' \in SUBSET Relay
  /\ UNCHANGED <<role, endpoint, engine, loop, live, identity, watch>>

-----------------------------------------------------------------------------
(* The loop *)

Init ==
  /\ EngineInit
  /\ kind \in {"authoritative", "replica", "embedded"}
  /\ watched \in IF kind = "embedded" THEN {FALSE} ELSE BOOLEAN
  /\ kind = "authoritative" => role = "foreign"
  /\ IdentityInit
  /\ kind # "embedded" => stored = NoKey
  /\ phase = IF kind = "embedded" THEN "identity" ELSE "build"
  /\ generation = 0
  /\ stop = FALSE /\ stopping = FALSE /\ failedRouter = FALSE
  /\ live = {} /\ advertised \in IF watched THEN SUBSET Relay ELSE {{}}
  /\ tracker = NewTracker /\ streak = 0
  /\ watching = {} /\ wedge = {}
  /\ sampled = NothingSampled

\* the operator resolves its key before it spawns the replica
ResolveIdentity ==
  /\ phase = "identity"
  /\ ResolveStep(Me)
  /\ phase' = CASE at'[Me] = "ready" -> "spawn"
               [] at'[Me] = "failed" -> "failed"
               [] OTHER -> "identity"
  /\ UNCHANGED <<role, endpoint, engine, kind, watched, generation, stop,
                 stopping, failedRouter, live, advertised, watch>>

\* other pods of the same deployment, and whoever edits the Secret
OtherPods ==
  /\ kind = "embedded" /\ phase \notin {"done", "failed"}
  /\ (\E p \in Pod \ {Me} : ResolveStep(p) \/ RestartPod(p)) \/ Tamper
  /\ UNCHANGED <<role, endpoint, engine, loop, live, advertised, watch>>

NextGeneration == IF generation = 2 THEN 2 ELSE generation + 1

\* a failed build: fatal the first time, retried after a sleep later on; the
\* endpoint bound for it is dropped
BuildFailed ==
  /\ phase' = IF generation' = 1 THEN "failed" ELSE "sleep"
  /\ endpoint' = IF endpoint = "open" THEN "closed" ELSE endpoint

\* bind_serve_endpoint, the first thing both build closures do
Bind ==
  /\ phase = "build"
  /\ generation' = NextGeneration
  /\ \/ endpoint' = "open" /\ live' = {} /\ phase' = "spawn"
     \/ BuildFailed /\ UNCHANGED live
  /\ UNCHANGED <<role, engine, kind, watched, stop, stopping, failedRouter,
                 advertised, identity, watch>>

\* The watchdogs of a fresh endpoint, on a channel of their own: those of the
\* generation before have a closed endpoint and a channel nobody reads, so
\* they are forgotten here.
SpawnWatchdogs ==
  /\ watching' = IF watched THEN Watchdog ELSE {}
  /\ wedge' = {}
  /\ tracker' = NewTracker /\ streak' = 0
  /\ sampled' = NothingSampled

\* the rest of a build: spawn the engine (which binds the endpoint itself
\* when it is embedded), the router and the watchdogs
Spawn ==
  /\ phase = "spawn"
  /\ IF kind = "authoritative" THEN UNCHANGED <<role, engine>> ELSE StartTask
  /\ endpoint' = "open"
  /\ phase' = "serving"
  /\ SpawnWatchdogs
  /\ UNCHANGED <<kind, watched, generation, stop, stopping, failedRouter, net>>

\* the database is not ours or cannot be opened, or the embedded bind fails;
\* nothing can fail once the task runs
SpawnFails ==
  /\ phase = "spawn"
  /\ kind # "authoritative"
  /\ IF kind = "embedded"
     THEN phase' = "failed" /\ UNCHANGED <<endpoint, generation>>
     ELSE UNCHANGED generation /\ BuildFailed
  /\ UNCHANGED <<role, engine, kind, watched, stop, stopping, failedRouter,
                 net, watch>>

SleepOver ==
  /\ phase = "sleep"
  /\ phase' = "build"
  /\ UNCHANGED <<role, endpoint, engine, kind, watched, generation, stop,
                 stopping, failedRouter, net, watch>>

CtrlC ==
  /\ ~stop
  /\ stop' = TRUE
  /\ UNCHANGED <<role, endpoint, engine, kind, watched, phase, generation,
                 stopping, failedRouter, net, watch>>

\* the shutdown future wins a select: of the retry sleep, or of the wait
\* for a wedge; before it is waited for the signal kills the operator
SeeStop ==
  /\ stop
  /\ \/ phase \in {"sleep", "identity"} /\ phase' = "done"
     \/ phase = "serving"
        /\ phase' = IF kind = "embedded" THEN "unwrap" ELSE "router"
  /\ stopping' = TRUE
  /\ UNCHANGED <<role, endpoint, engine, kind, watched, generation, stop,
                 failedRouter, net, watch>>

Wedged ==
  /\ phase = "serving" /\ wedge # {}
  /\ phase' = "router"
  /\ stopping' = FALSE
  /\ UNCHANGED <<role, endpoint, engine, kind, watched, generation, stop,
                 failedRouter, net, watch>>

\* mutant: an error of the router's shutdown skips the teardown
RouterShutdownOrReturn ==
  /\ phase = "router"
  /\ endpoint' = "closed"
  /\ conn' = IF conn = "open" THEN "closed" ELSE conn
  /\ \E err \in BOOLEAN :
       /\ failedRouter' = err
       /\ phase' = IF ~err THEN "teardown"
                   ELSE IF stopping THEN "failed" ELSE "build"
  /\ live' = {}
  /\ UNCHANGED <<role, task, slot, flag, connected, backoff, shut, kind,
                 watched, generation, stop, stopping, advertised, identity,
                 watch>>

\* router.shutdown() closes the endpoint, and with it every connection
RouterShutdown ==
  /\ phase = "router"
  /\ endpoint' = "closed"
  /\ conn' = IF conn = "open" THEN "closed" ELSE conn
  /\ failedRouter' \in BOOLEAN
  /\ phase' = "teardown"
  /\ live' = {}
  /\ UNCHANGED <<role, task, slot, flag, connected, backoff, shut, kind,
                 watched, generation, stop, stopping, advertised, identity,
                 watch>>

\* the operator shuts its replica down only when nobody else holds it: an
\* HTTP connection still being served does, and the process just exits
Unwrap ==
  /\ phase = "unwrap"
  /\ phase' \in {"teardown", "done"}
  /\ UNCHANGED <<role, endpoint, engine, kind, watched, generation, stop,
                 stopping, failedRouter, net, watch>>

\* replica.shutdown() as the generation's teardown
Teardown ==
  /\ phase = "teardown" /\ kind # "authoritative"
  /\ \/ Signal \/ CloseStashed \/ JoinTask \/ Release(kind = "embedded")
  /\ UNCHANGED <<loop, net, watch>>

\* after the teardown: return, or build the next generation
GenerationOver ==
  /\ phase = "teardown"
  /\ kind = "authoritative" \/ shut = "done"
  /\ phase' = IF ~stopping THEN "build"
              ELSE IF failedRouter THEN "failed" ELSE "done"
  /\ UNCHANGED <<role, endpoint, engine, kind, watched, generation, stop,
                 stopping, failedRouter, net, watch>>

\* the process is up while the engine runs
Engine ==
  /\ phase \notin {"done", "failed"}
  /\ TaskStep \/ ConnectionLost
  /\ UNCHANGED <<loop, net, watch>>

Exited ==
  /\ phase \in {"done", "failed"}
  /\ UNCHANGED vars

LoopStep == ResolveIdentity \/ Bind \/ Spawn \/ SpawnFails \/ SleepOver \/ SeeStop \/ Wedged
            \/ RouterShutdown \/ Unwrap \/ Teardown \/ GenerationOver
WatchStep == SampleRelays \/ (\E obs \in Observation : SelfCheck(obs))
             \/ WatchEnds
Environment == OtherPods \/ CtrlC \/ RelaysChange \/ RecordChange

Next == LoopStep \/ WatchStep \/ Engine \/ Environment \/ Exited

Spec == Init /\ [][Next]_vars

\* The steps of this process that nothing outside can hold up: its own code
\* between waits, timers, waits whose event has come, and the errors of a
\* closed connection or endpoint.  A select that is entered again and again
\* with the shutdown ready takes it some time (SeeStop), and DNS answers some
\* time (SelfCheck): strong fairness.  Nothing is assumed of the peer, so
\* SessionStep and DialOk are not here.
OwnStep == ResolveIdentity \/ Bind \/ Spawn \/ SpawnFails \/ SleepOver \/ Wedged
           \/ RouterShutdown \/ Unwrap \/ Teardown \/ GenerationOver
RunEngine(A) == phase \notin {"done", "failed"} /\ A
                /\ UNCHANGED <<loop, net, watch>>

Fairness ==
  /\ WF_vars(OwnStep)
  /\ SF_vars(SeeStop)
  /\ WF_vars(SampleRelays)
  /\ SF_vars(SelfCheck("Match") \/ SelfCheck("Mismatch"))
  /\ WF_vars(RunEngine(Stash \/ CheckAgain))
  /\ WF_vars(RunEngine(ConnectionError))
  /\ WF_vars(RunEngine(SeeShutdown))

FairSpec == Spec /\ Fairness

-----------------------------------------------------------------------------
(* Properties *)

\* Endpoint and engine share one key and one database with the next
\* generation: no generation is built, and serve does not return, before the
\* endpoint is closed and the sync task has ended (serveloop.rs: "teardown
\* runs strictly after, and runs even when the router's own shutdown reports
\* an error").  The operator may leave an engine that is still shared.
GenerationsDoNotOverlap ==
  /\ phase \in {"build", "sleep"} => endpoint # "open" /\ ~EngineRunning
  /\ phase = "spawn" => ~EngineRunning
  /\ phase \in {"done", "failed"} /\ kind # "embedded"
       => endpoint # "open" /\ ~EngineRunning

\* The sync task never runs over a database that is stamped authoritative,
\* or for another bunker or key (check_role), whatever failed before.
EngineOnItsOwnMirror == EngineRunning => role = "mine"

\* status().connected, which readiness, metrics and the operator's staleness
\* clock go by, is set only while the task has a session that was let in.
ConnectedMeansSession ==
  connected => task \in {"open", "hello", "manifest", "fetch", "live",
                         "ended"}

\* Nothing but a hand on the Secret ever replaces a key once it is stored: no
\* pod's start overwrites it, whatever the Secret holds ("never overwritten").
StoredKeyStays ==
  [][stored # NoKey /\ ~tampered' => stored' = stored]_vars

\* A wedge is reported only on evidence from this very endpoint: it had a
\* relay and then no sample with one for DownSamples in a row, or Threshold
\* answered lookups in a row found no advertised relay connected
\* (relayhealth.rs).  Flapping relays and failed lookups are no evidence.
RebindsAreJustified ==
  /\ "RelayDown" \in wedge => sampled.up /\ sampled.down > DownSamples
  /\ "RecordMismatch" \in wedge => sampled.bad >= Threshold

\* Once ctrl-c has come the process exits, wherever the loop, the engine and
\* the peer are: a build under way ends first, a peer that never answers a
\* fetch cannot hold up the shutdown.
ShutdownCompletes == stop ~> phase \in {"done", "failed"}

\* An endpoint that lost its relays for good, or whose published record
\* stays wrong, is not served for ever, however lookups fail in between.
WedgedIsRebound ==
  watched =>
    /\ ~<>[](phase = "serving" /\ live = {} /\ sampled.up)
    /\ ~<>[](phase = "serving" /\ Mismatched)

=============================================================================
