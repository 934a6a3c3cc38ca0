-------------------------- MODULE ServeLoopProofs --------------------------
(***************************************************************************)
(* The safety properties of a serving process, for any number of relays    *)
(* and pods and any thresholds.  Each property has an inductive invariant  *)
(* of its own, over the few variables it speaks of; a step that leaves     *)
(* those alone is dealt with once.                                         *)
(***************************************************************************)
EXTENDS ServeLoop, TLAPS

-----------------------------------------------------------------------------
(* The managed key *)

IdentityInv ==
  /\ IdentityTypeOK
  /\ ~tampered => \A p \in Pod : at[p] = "ready" => key[p] = stored /\ stored \in Pod

\* What a step may do to the Secret and the pods: one call of one pod, a restart
\* of another one, a hand on the Secret.
LEMMA IdentitySteps ==
  ASSUME [Next]_vars
  PROVE  \/ UNCHANGED identity
         \/ \E p \in Pod : ResolveStep(p) \/ RestartPod(p)
         \/ Tamper
<1>1. CASE LoopStep
  <2>1. CASE ResolveIdentity
    BY <2>1, MeIsAPod DEF ResolveIdentity
  <2>2. CASE Bind \/ Spawn \/ SpawnFails \/ SleepOver \/ SeeStop \/ Wedged
             \/ RouterShutdown \/ Unwrap \/ Teardown \/ GenerationOver
    BY <2>2 DEF Bind, Spawn, SpawnFails, SleepOver, SeeStop, Wedged,
       RouterShutdown, Unwrap, Teardown, GenerationOver, net, loop
  <2> QED
    BY <1>1, <2>1, <2>2 DEF LoopStep
<1>2. CASE WatchStep \/ Engine
  BY <1>2 DEF WatchStep, SampleRelays, SelfCheck, WatchEnds, Engine, net
<1>3. CASE Environment
  BY <1>3 DEF Environment, OtherPods, CtrlC, RelaysChange, RecordChange, net
<1>4. CASE Exited \/ UNCHANGED vars
  BY <1>4 DEF Exited, vars, net
<1> QED
  BY <1>1, <1>2, <1>3, <1>4 DEF Next

\* Get, create, conflict and get again, lost answers included, keep the running
\* pods on the stored key.
LEMMA ResolveKeeps ==
  ASSUME IdentityInv, NEW p \in Pod, ResolveStep(p) \/ RestartPod(p)
  PROVE  IdentityInv' /\ (stored # NoKey => stored' = stored)
<1>1. ASSUME NEW w \in {"get", "create", "reget", "ready", "failed"},
             NEW k \in Pod \cup {NoKey}, Move(p, w, k)
      PROVE  /\ at' \in [Pod -> {"get", "create", "reget", "ready", "failed"}]
             /\ key' \in [Pod -> Pod \cup {NoKey}] /\ tampered' = tampered
             /\ at'[p] = w /\ key'[p] = k
             /\ \A q \in Pod \ {p} : at'[q] = at[q] /\ key'[q] = key[q]
  BY <1>1 DEF IdentityInv, IdentityTypeOK, Move
<1>2. CASE stored' = stored /\ \E w \in {"get", "create", "reget", "failed"} : Move(p, w, NoKey)
  BY <1>1, <1>2 DEF IdentityInv, IdentityTypeOK
<1>3. CASE stored \notin {NoKey, "garbage"} /\ stored' = stored /\ Move(p, "ready", stored)
  BY <1>1, <1>3 DEF IdentityInv, IdentityTypeOK
<1>4. CASE stored = NoKey /\ stored' = p /\ (Move(p, "ready", p) \/ Move(p, "failed", NoKey))
  <2>1. \A q \in Pod : ~tampered => at[q] # "ready"
    BY <1>4, IdentityConstants DEF IdentityInv
  <2> QED
    BY <1>1, <1>4, <2>1 DEF IdentityInv, IdentityTypeOK
<1> QED
  BY <1>2, <1>3, <1>4 DEF ResolveStep, RestartPod, GetIdentity, CreateIdentity,
     GetAfterConflict, IdentityCallFails, Load

\* The inductive invariant of the managed key, for any number of pods.
LEMMA IdentityInductive ==
  /\ Init => IdentityInv
  /\ IdentityInv /\ [Next]_vars => IdentityInv'
<1>1. Init => IdentityInv
  BY Zenon DEF Init, IdentityInit, IdentityInv, IdentityTypeOK
<1>2. ASSUME IdentityInv, [Next]_vars PROVE IdentityInv'
  <2>1. CASE UNCHANGED identity
    BY <1>2, <2>1 DEF IdentityInv, IdentityTypeOK, identity
  <2>2. CASE Tamper
    BY <1>2, <2>2 DEF Tamper, IdentityInv, IdentityTypeOK
  <2> QED
    BY <1>2, <2>1, <2>2, IdentitySteps, ResolveKeeps
<1> QED
  BY <1>1, <1>2

\* A pod that runs uses the stored key as long as nobody touched the Secret.
THEOREM StoredKeyAlwaysWins == Spec => []StoredKeyWins
<1>1. IdentityInv => StoredKeyWins
  BY DEF IdentityInv, StoredKeyWins
<1> QED
  BY IdentityInductive, <1>1, PTL DEF Spec

\* No start of any pod ever overwrites a key that is stored.
THEOREM StoredKeyAlwaysStays == Spec => StoredKeyStays
<1>1. IdentityInv /\ [Next]_vars => [stored # NoKey /\ ~tampered' => stored' = stored]_vars
  <2> SUFFICES ASSUME IdentityInv, [Next]_vars, stored # NoKey, ~tampered'
               PROVE  stored' = stored
    OBVIOUS
  <2>1. CASE Tamper
    BY <2>1 DEF Tamper
  <2> QED
    BY <2>1, IdentitySteps, ResolveKeeps DEF identity
<1> QED
  BY IdentityInductive, <1>1, PTL DEF Spec, StoredKeyStays

-----------------------------------------------------------------------------
(* Generations *)

\* Between two generations there is no engine and no open endpoint; after the
\* router's shutdown there is no open endpoint, and after shutdown() no engine.
\* The operator has a single generation and no watchdogs.
GenerationInv ==
  /\ kind \in {"authoritative", "replica", "embedded"}
  /\ phase \in {"identity", "build", "sleep", "spawn"} => ~EngineRunning
  /\ phase \in {"build", "sleep"} => endpoint # "open"
  /\ phase \in {"done", "failed"} /\ kind # "embedded" =>
       endpoint # "open" /\ ~EngineRunning
  /\ phase = "teardown" /\ kind # "embedded" => endpoint # "open"
  /\ kind = "authoritative" => task = "none"
  /\ shut \in {"joined", "done"} => task = "ended"
  /\ kind = "embedded" =>
       /\ ~watched
       /\ phase \notin {"build", "sleep", "router"}
       /\ phase \in {"unwrap", "teardown"} => stopping
  /\ kind # "embedded" => phase \notin {"identity", "unwrap"}
  /\ ~watched => watching = {} /\ wedge = {}
  /\ EngineRunning => role = "mine"

\* The sync task touches neither the loop nor the endpoint, and an engine that
\* has ended takes no step.
LEMMA EngineKeepsGenerations ==
  ASSUME GenerationInv, Engine
  PROVE  GenerationInv'
<1>1. /\ role' = role /\ endpoint' = endpoint /\ shut' = shut
      /\ UNCHANGED <<kind, watched, phase, stopping, watching, wedge>>
      /\ task \in {"none", "ended"} => task' = task
  BY DEF Engine, TaskStep, DialOk, Stash, CheckAgain, SessionStep, DialFails,
     Refused, ConnectionError, BackoffOver, SeeShutdown, ConnectionLost, Failed, Go,
     PeerSteps, Raced, OnConnection, Task, loop, watch
<1> QED
  BY <1>1 DEF GenerationInv, EngineRunning

\* A build, failed or not, starts from an engine that has ended.
LEMMA BuildKeepsGenerations ==
  ASSUME GenerationInv, ResolveIdentity \/ Bind \/ Spawn \/ SpawnFails \/ SleepOver
  PROVE  GenerationInv'
<1>1. CASE ResolveIdentity
  BY <1>1 DEF ResolveIdentity, GenerationInv, EngineRunning, engine, watch
<1>2. CASE Bind
  BY <1>2 DEF Bind, BuildFailed, GenerationInv, EngineRunning, engine, watch
<1>3. CASE Spawn
  BY <1>3 DEF Spawn, SpawnWatchdogs, StartTask, CheckRole, GenerationInv,
     EngineRunning, engine
<1>4. CASE SpawnFails
  BY <1>4 DEF SpawnFails, BuildFailed, GenerationInv, EngineRunning, engine, watch
<1>5. CASE SleepOver
  BY <1>5 DEF SleepOver, GenerationInv, EngineRunning, engine, watch
<1> QED
  BY <1>1, <1>2, <1>3, <1>4, <1>5

\* The end of a generation: router first, then shutdown(), step by step.
LEMMA TeardownKeepsGenerations ==
  ASSUME GenerationInv,
         SeeStop \/ Wedged \/ RouterShutdown \/ Unwrap \/ Teardown \/ GenerationOver
  PROVE  GenerationInv'
<1>1. CASE SeeStop
  BY <1>1 DEF SeeStop, GenerationInv, EngineRunning, engine, watch
<1>2. CASE Wedged
  BY <1>2 DEF Wedged, GenerationInv, EngineRunning, engine, watch
<1>3. CASE RouterShutdown
  BY <1>3 DEF RouterShutdown, GenerationInv, EngineRunning, watch
<1>4. CASE Unwrap
  BY <1>4 DEF Unwrap, GenerationInv, EngineRunning, engine, watch
<1>5. CASE Teardown
  BY <1>5 DEF Teardown, Signal, CloseStashed, JoinTask, Release, GenerationInv,
     EngineRunning, loop, watch
<1>6. CASE GenerationOver
  BY <1>6 DEF GenerationOver, GenerationInv, EngineRunning, engine, watch
<1> QED
  BY <1>1, <1>2, <1>3, <1>4, <1>5, <1>6

\* The inductive invariant of the loop and the engine.
LEMMA GenerationInductive ==
  /\ Init => GenerationInv
  /\ GenerationInv /\ [Next]_vars => GenerationInv'
<1>1. Init => GenerationInv
  BY Zenon DEF Init, EngineInit, GenerationInv, EngineRunning
<1>2. ASSUME GenerationInv, [Next]_vars PROVE GenerationInv'
  <2>1. CASE WatchStep
    BY <1>2, <2>1 DEF WatchStep, SampleRelays, SelfCheck, WatchEnds, Escalate,
       GenerationInv, EngineRunning, engine, loop
  <2>2. CASE Environment \/ Exited \/ UNCHANGED vars
    BY <1>2, <2>2 DEF Environment, OtherPods, CtrlC, RelaysChange, RecordChange,
       Exited, vars, GenerationInv, EngineRunning, engine, loop, watch
  <2> QED
    BY <1>2, <2>1, <2>2, EngineKeepsGenerations, BuildKeepsGenerations,
       TeardownKeepsGenerations DEF Next, LoopStep
<1> QED
  BY <1>1, <1>2

\* No generation is built, and serve does not return, before the endpoint of the
\* one before is closed and its sync task has ended.
THEOREM GenerationsNeverOverlap == Spec => []GenerationsDoNotOverlap
<1>1. GenerationInv => GenerationsDoNotOverlap
  BY DEF GenerationInv, GenerationsDoNotOverlap
<1> QED
  BY GenerationInductive, <1>1, PTL DEF Spec

\* The sync task runs over a mirror that check_role has accepted.
THEOREM EngineAlwaysOnItsOwnMirror == Spec => []EngineOnItsOwnMirror
<1>1. GenerationInv => EngineOnItsOwnMirror
  BY DEF GenerationInv, EngineOnItsOwnMirror
<1> QED
  BY GenerationInductive, <1>1, PTL DEF Spec

-----------------------------------------------------------------------------
(* Watchdogs and status *)

\* While a watchdog runs its counters are what it has seen, and are below the
\* threshold; when it has reported they stay as they were.
EvidenceInv ==
  /\ "RelayDown" \in watching =>
       /\ tracker.was <=> sampled.up
       /\ tracker.down = sampled.down
       /\ sampled.down \in 0..DownSamples
       /\ sampled.down > 0 => sampled.up
  /\ "RecordMismatch" \in watching => streak = sampled.bad /\ streak \in 0..Threshold - 1
  /\ sampled \in [up : BOOLEAN, down : Nat, bad : Nat]
  /\ "RelayDown" \in wedge => sampled.up /\ sampled.down > DownSamples
  /\ "RecordMismatch" \in wedge => sampled.bad >= Threshold
  /\ watching \cap wedge = {}

\* One sample of spawn_relay_down_watch.
LEMMA SampleKeepsEvidence ==
  ASSUME EvidenceInv, SampleRelays
  PROVE  EvidenceInv'
<1> DEFINE d == IF live = {} /\ sampled.up THEN sampled.down + 1 ELSE 0
<1>1. /\ sampled.down \in 0..DownSamples /\ DownSamples \in Nat /\ d \in 0..DownSamples + 1
      /\ sampled \in [up : BOOLEAN, down : Nat, bad : Nat]
  BY WatchBounds DEF EvidenceInv, SampleRelays
<1>2. UpTo(DownSamples + 1, sampled.down) = sampled.down + 1
  BY <1>1 DEF UpTo
<1>3. /\ sampled'.down = d /\ sampled'.bad = sampled.bad
      /\ sampled' \in [up : BOOLEAN, down : Nat, bad : Nat]
  <2>1. PICK b \in BOOLEAN : b = (sampled.up \/ live # {})
    BY Zenon
  <2>2. sampled' = [sampled EXCEPT !.up = b, !.down = d]
    BY <1>2, <2>1, Zenon DEF SampleRelays
  <2>3. d \in Nat
    BY <1>1
  <2> QED
    BY <1>1, <2>2, <2>3, Zenon
<1>4. sampled'.up <=> sampled.up \/ live # {}
  BY <1>1, Zenon DEF SampleRelays
<1>5. tracker'.down = d /\ (tracker'.was <=> sampled.up \/ live # {})
  BY <1>1, Zenon DEF EvidenceInv, SampleRelays, Observe
<1>6. d > 0 => sampled'.up
  BY <1>4
<1>7. CASE d > DownSamples
  <2>1. wedge' = wedge \cup {"RelayDown"} /\ watching' = watching \ {"RelayDown"}
    BY <1>5, <1>7 DEF SampleRelays, Escalate
  <2> QED
    BY <1>1, <1>3, <1>6, <1>7, <2>1 DEF EvidenceInv, SampleRelays
<1>8. CASE ~(d > DownSamples)
  <2>1. wedge' = wedge /\ watching' = watching /\ d \in 0..DownSamples
    BY <1>1, <1>5, <1>8 DEF SampleRelays
  <2>2. "RelayDown" \notin wedge
    BY DEF EvidenceInv, SampleRelays
  <2> QED
    BY <1>3, <1>4, <1>5, <1>6, <2>1, <2>2 DEF EvidenceInv, SampleRelays
<1> QED
  BY <1>7, <1>8

\* One round of spawn_record_self_check.
LEMMA SelfCheckKeepsEvidence ==
  ASSUME EvidenceInv, NEW obs \in Observation, SelfCheck(obs)
  PROVE  EvidenceInv'
<1> DEFINE n == StreakAfter(streak, obs)
<1>1. /\ streak = sampled.bad /\ streak \in 0..Threshold - 1 /\ Threshold \in Nat
      /\ "RecordMismatch" \notin wedge /\ tracker' = tracker
      /\ sampled \in [up : BOOLEAN, down : Nat, bad : Nat]
  BY WatchBounds DEF EvidenceInv, SelfCheck
<1>2. streak' = n /\ n \in 0..Threshold
  BY <1>1 DEF SelfCheck, StreakAfter, Observation
<1>3. sampled' = [sampled EXCEPT !.bad = n]
  BY <1>1 DEF SelfCheck, StreakAfter, Observation, UpTo
<1>4. CASE n >= Threshold
  <2>1. wedge' = wedge \cup {"RecordMismatch"} /\ watching' = watching \ {"RecordMismatch"}
    BY <1>2, <1>4 DEF SelfCheck, Escalate
  <2> QED
    BY <1>1, <1>2, <1>3, <1>4, <2>1 DEF EvidenceInv
<1>5. CASE ~(n >= Threshold)
  <2>1. wedge' = wedge /\ watching' = watching /\ n \in 0..Threshold - 1
    BY <1>1, <1>2, <1>5, SMTT(20) DEF SelfCheck
  <2> QED
    BY <1>1, <1>2, <1>3, <2>1 DEF EvidenceInv
<1> QED
  BY <1>4, <1>5

\* The inductive invariant of the watchdogs.
LEMMA EvidenceInductive ==
  /\ Init => EvidenceInv
  /\ EvidenceInv /\ [Next]_vars => EvidenceInv'
<1>1. Init => EvidenceInv
  BY DEF Init, EvidenceInv, NothingSampled
<1>2. ASSUME EvidenceInv, [Next]_vars PROVE EvidenceInv'
  <2>1. CASE UNCHANGED watch
    BY <1>2, <2>1 DEF EvidenceInv, watch
  <2>2. CASE Spawn
    BY <2>2, WatchBounds, SMTT(20) DEF Spawn, SpawnWatchdogs, EvidenceInv, NothingSampled, NewTracker
  <2>3. CASE WatchEnds
    BY <1>2, <2>3 DEF WatchEnds, EvidenceInv
  <2>4. CASE LoopStep /\ ~Spawn
    BY <2>1, <2>4, SMTT(20) DEF LoopStep, ResolveIdentity, Bind, SpawnFails, SleepOver, SeeStop,
       Wedged, RouterShutdown, Unwrap, Teardown, GenerationOver
  <2>5. CASE Engine \/ Environment \/ Exited \/ UNCHANGED vars
    BY <2>1, <2>5 DEF Engine, Environment, OtherPods, CtrlC, RelaysChange, RecordChange,
       Exited, vars
  <2> QED
    BY <1>2, <2>2, <2>3, <2>4, <2>5, SampleKeepsEvidence, SelfCheckKeepsEvidence
       DEF Next, WatchStep
<1> QED
  BY <1>1, <1>2

\* A wedge is reported only on the evidence relayhealth.rs asks for.
THEOREM RebindsAlwaysJustified == Spec => []RebindsAreJustified
<1>1. EvidenceInv => RebindsAreJustified
  BY DEF EvidenceInv, RebindsAreJustified
<1> QED
  BY EvidenceInductive, <1>1, PTL DEF Spec

\* status().connected is set only while the task has a session that was let in.
THEOREM ConnectedAlwaysMeansSession == Spec => []ConnectedMeansSession
<1>1. Init => ConnectedMeansSession
  BY DEF Init, EngineInit, ConnectedMeansSession
<1>2. ASSUME ConnectedMeansSession, [Next]_vars PROVE ConnectedMeansSession'
  <2>1. CASE UNCHANGED <<task, connected>>
    BY <1>2, <2>1, SMTT(20) DEF ConnectedMeansSession
  <2>2. CASE Engine
    BY <1>2, <2>2, ZenonT(30) DEF Engine, TaskStep, DialOk, Stash, CheckAgain, SessionStep, DialFails,
       Refused, ConnectionError, BackoffOver, SeeShutdown, ConnectionLost, Failed, Go,
       PeerSteps, Raced, OnConnection, ConnectedMeansSession
  <2>3. CASE Spawn
    BY <1>2, <2>3, Zenon DEF Spawn, StartTask, engine, ConnectedMeansSession
  <2>4. CASE LoopStep /\ ~Spawn
    BY <2>1, <2>4 DEF LoopStep, ResolveIdentity, Bind, SpawnFails, SleepOver, SeeStop,
       Wedged, RouterShutdown, Unwrap, Teardown, GenerationOver, engine, Signal,
       CloseStashed, JoinTask, Release
  <2>5. CASE WatchStep \/ Environment \/ Exited \/ UNCHANGED vars
    BY <2>1, <2>5, SMTT(20) DEF WatchStep, SampleRelays, SelfCheck, WatchEnds, Environment,
       OtherPods, CtrlC, RelaysChange, RecordChange, Exited, vars, engine
  <2> QED
    BY <1>2, <2>2, <2>3, <2>4, <2>5 DEF Next
<1> QED
  BY <1>1, <1>2, PTL DEF Spec


-----------------------------------------------------------------------------
(* Types *)

\* The sync task and the teardown keep the engine's shape; the doubled delay
\* stays below its cap.
LEMMA EngineKeepsType ==
  ASSUME EngineTypeOK,
         TaskStep \/ ConnectionLost \/ Signal \/ CloseStashed \/ JoinTask
         \/ Release(TRUE) \/ Release(FALSE)
  PROVE  EngineTypeOK'
<1>1. CASE BackoffOver
  <2>1. backoff' \in 1..BackoffCap
    BY <1>1, BackoffCapPositive, SMTT(20) DEF BackoffOver, EngineTypeOK
  <2> QED
    BY <1>1, <2>1 DEF BackoffOver, Go, EngineTypeOK, Task, Raced
<1>2. CASE SessionStep
  <2>1. backoff' \in 1..BackoffCap /\ connected' \in BOOLEAN
    BY <1>2, BackoffCapPositive, SMTT(20) DEF SessionStep, EngineTypeOK
  <2> QED
    BY <1>2, <2>1, SMTT(20) DEF SessionStep, Go, EngineTypeOK
<1>3. CASE DialOk \/ Stash \/ CheckAgain \/ SeeShutdown
  BY <1>3, SMTT(20) DEF DialOk, Stash, CheckAgain, SeeShutdown, Go, EngineTypeOK, Task, OnConnection
<1>4. CASE DialFails \/ Refused \/ ConnectionError
  BY <1>4, Zenon DEF DialFails, Refused, ConnectionError, Failed, Go, EngineTypeOK, Task, Raced
<1>5. CASE ConnectionLost \/ Signal \/ CloseStashed \/ JoinTask
  BY <1>5, ZenonT(30) DEF ConnectionLost, Signal, CloseStashed, JoinTask, EngineTypeOK
<1>6. CASE Release(TRUE) \/ Release(FALSE)
  BY <1>6 DEF Release, EngineTypeOK
<1> QED
  BY <1>1, <1>2, <1>3, <1>4, <1>5, <1>6, Zenon DEF TaskStep

\* Every step of the loop and of the engine under it keeps the engine's shape.
LEMMA EngineTypeInductive ==
  ASSUME EngineTypeOK, [Next]_vars
  PROVE  EngineTypeOK'
<1>1. CASE UNCHANGED <<role, endpoint, engine>>
  BY <1>1, SMTT(20) DEF EngineTypeOK, engine
<1>2. CASE UNCHANGED <<role, engine>> /\ endpoint' \in {"none", "open", "closed"}
  BY <1>2 DEF EngineTypeOK, engine
<1>3. CASE Spawn
  <2>1. CASE kind = "authoritative"
    BY <1>2, <1>3, <2>1, SMTT(20) DEF Spawn
  <2>2. CASE kind # "authoritative"
    <3>1. backoff' \in 1..BackoffCap
      BY <1>3, <2>2, BackoffCapPositive, SMTT(20) DEF Spawn, StartTask
    <3>2. task' \in Task
      BY <1>3, <2>2 DEF Spawn, StartTask, Task, Raced
    <3>3. flag' \in BOOLEAN /\ connected' \in BOOLEAN
      BY <1>3, <2>2, ZenonT(30) DEF Spawn, StartTask
    <3> QED
      BY <1>3, <2>2, <3>1, <3>2, <3>3, SMTT(20)
         DEF Spawn, StartTask, CheckRole, EngineTypeOK, Role
  <2> QED
    BY <2>1, <2>2
<1>4. CASE Bind \/ SpawnFails
  BY <1>2, <1>4, SMTT(20) DEF Bind, SpawnFails, BuildFailed, EngineTypeOK
<1>5. CASE RouterShutdown
  BY <1>5 DEF RouterShutdown, EngineTypeOK
<1>6. CASE Teardown \/ Engine
  BY <1>6, EngineKeepsType, Zenon DEF Teardown, Engine
<1>7. CASE ResolveIdentity \/ SleepOver \/ SeeStop \/ Wedged \/ Unwrap \/ GenerationOver
  BY <1>1, <1>7 DEF ResolveIdentity, SleepOver, SeeStop, Wedged, Unwrap, GenerationOver
<1>8. CASE WatchStep \/ Environment \/ Exited \/ UNCHANGED vars
  BY <1>1, <1>8, SMTT(20) DEF WatchStep, SampleRelays, SelfCheck, WatchEnds, Environment,
     OtherPods, CtrlC, RelaysChange, RecordChange, Exited, vars
<1> QED
  BY <1>3, <1>4, <1>5, <1>6, <1>7, <1>8 DEF Next, LoopStep

\* the watchdogs' counters, and what the loop itself keeps
WatchTypeOK ==
  /\ tracker \in Tracker
  /\ streak \in 0..Threshold
  /\ watching \in SUBSET Watchdog /\ wedge \in SUBSET Watchdog
  /\ sampled \in [up : BOOLEAN, down : 0..(DownSamples + 1), bad : 0..Threshold]

LoopTypeOK ==
  /\ kind \in {"authoritative", "replica", "embedded"} /\ watched \in BOOLEAN
  /\ phase \in Phase
  /\ generation \in 0..2
  /\ stop \in BOOLEAN /\ stopping \in BOOLEAN /\ failedRouter \in BOOLEAN
  /\ live \in SUBSET Relay /\ advertised \in SUBSET Relay

\* A watchdog stops counting when it has reported, so that no counter passes
\* its threshold by more than the sample that reached it.
LEMMA WatchTypeInductive ==
  ASSUME WatchTypeOK, EvidenceInv, [Next]_vars
  PROVE  WatchTypeOK'
<1>1. CASE UNCHANGED watch
  BY <1>1 DEF WatchTypeOK, watch
<1>2. CASE SampleRelays
  <2>1. /\ tracker.down \in 0..DownSamples /\ DownSamples \in Nat
        /\ tracker \in Tracker
    BY <1>2, WatchBounds DEF SampleRelays, EvidenceInv, WatchTypeOK
  <2>2. tracker' \in Tracker
    <3>1. PICK b \in BOOLEAN : b = (tracker.was \/ live # {})
      BY Zenon
    <3>2. PICK d \in 0..(DownSamples + 1) :
            d = IF tracker.was /\ ~(live # {}) THEN tracker.down + 1 ELSE 0
      BY <2>1
    <3>3. tracker' = [was |-> b, down |-> d]
      BY <1>2, <3>1, <3>2 DEF SampleRelays, Observe
    <3> QED
      BY <3>3 DEF Tracker
  <2>3. sampled' \in [up : BOOLEAN, down : 0..(DownSamples + 1), bad : 0..Threshold]
    <3>1. PICK b \in BOOLEAN : b = (sampled.up \/ live # {})
      BY Zenon
    <3>2. PICK d \in 0..(DownSamples + 1) :
            d = IF live = {} /\ sampled.up THEN UpTo(DownSamples + 1, sampled.down) ELSE 0
      BY <2>1 DEF WatchTypeOK, UpTo
    <3>3. sampled' = [sampled EXCEPT !.up = b, !.down = d]
      BY <1>2, <3>1, <3>2 DEF SampleRelays
    <3> QED
      BY <3>3, Zenon DEF WatchTypeOK
  <2>4. watching' \in SUBSET Watchdog /\ wedge' \in SUBSET Watchdog
    BY <1>2 DEF SampleRelays, Escalate, WatchTypeOK, Watchdog
  <2> QED
    BY <1>2, <2>2, <2>3, <2>4 DEF WatchTypeOK, SampleRelays
<1>3. ASSUME NEW obs \in Observation, SelfCheck(obs)
      PROVE  WatchTypeOK'
  <2>1. streak \in 0..Threshold - 1 /\ Threshold \in Nat \ {0}
    BY <1>3, WatchBounds DEF SelfCheck, EvidenceInv
  <2>2. streak' \in 0..Threshold
    BY <1>3, <2>1 DEF SelfCheck, StreakAfter, Observation
  <2>3. sampled' \in [up : BOOLEAN, down : 0..(DownSamples + 1), bad : 0..Threshold]
    BY <1>3, <2>1 DEF SelfCheck, WatchTypeOK, UpTo
  <2>4. watching' \in SUBSET Watchdog /\ wedge' \in SUBSET Watchdog
    BY <1>3, SMTT(20) DEF SelfCheck, Escalate, WatchTypeOK, Watchdog
  <2> QED
    BY <1>3, <2>2, <2>3, <2>4 DEF WatchTypeOK, SelfCheck
<1>4. CASE WatchEnds
  BY <1>4, SMTT(40) DEF WatchEnds, WatchTypeOK
<1>5. CASE Spawn
  BY <1>5, WatchBounds, SMTT(20)
     DEF Spawn, SpawnWatchdogs, NewTracker, NothingSampled, WatchTypeOK, Tracker
<1>6. CASE LoopStep /\ ~Spawn
  BY <1>1, <1>6, SMTT(20) DEF LoopStep, ResolveIdentity, Bind, SpawnFails, SleepOver, SeeStop,
     Wedged, RouterShutdown, Unwrap, Teardown, GenerationOver
<1>7. CASE Engine \/ Environment \/ Exited \/ UNCHANGED vars
  BY <1>1, <1>7, SMTT(20) DEF Engine, Environment, OtherPods, CtrlC, RelaysChange, RecordChange,
     Exited, vars
<1> QED
  BY <1>2, <1>3, <1>4, <1>5, <1>6, <1>7, SMTT(20) DEF Next, WatchStep

\* The loop's own variables keep their shape.
LEMMA LoopTypeInductive ==
  ASSUME LoopTypeOK, [Next]_vars
  PROVE  LoopTypeOK'
<1>1. CASE UNCHANGED <<loop, live, advertised>>
  BY <1>1 DEF LoopTypeOK, loop
<1>2. CASE ResolveIdentity \/ Spawn \/ SleepOver \/ SeeStop \/ Wedged \/ Unwrap
           \/ GenerationOver
  BY <1>2, ZenonT(30) DEF ResolveIdentity, Spawn, SleepOver, SeeStop, Wedged, Unwrap,
     GenerationOver, LoopTypeOK, Phase, net
<1>3. CASE Bind \/ SpawnFails
  BY <1>3 DEF Bind, SpawnFails, BuildFailed, NextGeneration, LoopTypeOK, Phase, net
<1>4. CASE RouterShutdown
  BY <1>4 DEF RouterShutdown, LoopTypeOK, Phase
<1>5. CASE CtrlC \/ RelaysChange \/ RecordChange
  BY <1>5, Zenon DEF CtrlC, RelaysChange, RecordChange, LoopTypeOK, loop, net
<1>6. CASE Teardown \/ Engine \/ WatchStep \/ OtherPods \/ Exited \/ UNCHANGED vars
  BY <1>1, <1>6 DEF Teardown, Engine, WatchStep, SampleRelays, SelfCheck, WatchEnds,
     OtherPods, Exited, vars, net
<1> QED
  BY <1>2, <1>3, <1>4, <1>5, <1>6, SMTT(20) DEF Next, LoopStep, Environment

\* Every variable of a serving process keeps its shape: the backoff stays
\* under BACKOFF_CAP and the watchdogs' counters at their thresholds.
THEOREM ProcessTypeCorrect == Spec => []TypeOK
<1> DEFINE Typed == EngineTypeOK /\ LoopTypeOK /\ WatchTypeOK
<1>1. Init => Typed
  <2>1. Init => EngineTypeOK
    <3>1. Init => backoff \in 1..BackoffCap /\ task \in Task
      BY BackoffCapPositive DEF Init, EngineInit, Task
    <3>2. Init => flag \in BOOLEAN /\ connected \in BOOLEAN
      BY Zenon DEF Init, EngineInit
    <3> QED
      BY <3>1, <3>2, Zenon DEF Init, EngineInit, EngineTypeOK
  <2>2. Init => LoopTypeOK
    <3>1. Init => stop \in BOOLEAN /\ stopping \in BOOLEAN /\ failedRouter \in BOOLEAN
      BY Zenon DEF Init
    <3>2. Init => watched \in BOOLEAN /\ live \in SUBSET Relay /\ advertised \in SUBSET Relay
      BY ZenonT(30) DEF Init
    <3>3. Init => /\ kind \in {"authoritative", "replica", "embedded"}
                  /\ phase \in Phase /\ generation \in 0..2
      BY DEF Init, Phase
    <3> QED
      BY <3>1, <3>2, <3>3, Zenon DEF LoopTypeOK
  <2>3. Init => WatchTypeOK
    BY WatchBounds DEF Init, WatchTypeOK, NewTracker, NothingSampled, Tracker
  <2> QED
    BY <2>1, <2>2, <2>3
<1>2. Typed /\ EvidenceInv /\ [Next]_vars => Typed'
  BY EngineTypeInductive, LoopTypeInductive, WatchTypeInductive, SMTT(40)
<1>3. Typed /\ IdentityInv => TypeOK
  BY Zenon DEF LoopTypeOK, WatchTypeOK, IdentityInv, TypeOK
<1> QED
  BY IdentityInductive, EvidenceInductive, <1>1, <1>2, <1>3, PTL DEF Spec

=============================================================================
