-------------------------- MODULE ReplicaLifecycle --------------------------
(***************************************************************************)
(* The life of one replica engine (src/replica.rs): spawn with its role    *)
(* check, the sync task's dial, sessions and backoff, and shutdown().      *)
(* What a session transfers is Replication's business; here a session is   *)
(* the sequence of waits the task goes through, because shutdown() has to  *)
(* end every one of them.  Only some of the waits race the shutdown watch  *)
(* (tokio::select!); the others end when their connection is closed.       *)
(***************************************************************************)
EXTENDS Naturals

CONSTANT BackoffCap  \* BACKOFF_CAP in units of BACKOFF_INITIAL

ASSUME BackoffCapPositive == BackoffCap \in Nat \ {0}

VARIABLES role,      \* the database's role stamps
          endpoint,  \* "none", "open", "closed"
          task,      \* where the sync task is
          conn,      \* its connection
          slot,      \* inner.conn: what shutdown() finds to close
          flag,      \* the shutdown watch
          connected, \* status.connected
          backoff,
          shut       \* how far shutdown() is

engine == <<task, conn, slot, flag, connected, backoff, shut>>

\* "foreign": stamped authoritative, or for another bunker or another key
Role == {"none", "mine", "foreign"}

\* waits that race the shutdown watch, and waits on the connection alone
Raced == {"dial", "hello", "manifest", "live", "backoff"}
OnConnection == {"open", "hello", "manifest", "fetch", "live"}
Task == Raced \cup OnConnection \cup {"none", "stash", "check", "ended"}

EngineTypeOK ==
  /\ role \in Role
  /\ endpoint \in {"none", "open", "closed"}
  /\ task \in Task
  /\ conn \in {"none", "open", "closed"}
  /\ slot \in {"empty", "current", "stale"}
  /\ flag \in BOOLEAN /\ connected \in BOOLEAN
  /\ backoff \in 1..BackoffCap
  /\ shut \in {"no", "signalled", "joining", "joined", "done"}

EngineInit ==
  /\ role \in Role
  /\ endpoint = "none"
  /\ task = "none" /\ conn = "none" /\ slot = "empty"
  /\ flag = FALSE /\ connected = FALSE
  /\ backoff = 1
  /\ shut = "no"

EngineRunning == task \notin {"none", "ended"}

-----------------------------------------------------------------------------
(* spawn *)

\* check_role stamps a blank database and refuses any other but its own
CheckRole ==
  /\ role # "foreign"
  /\ role' = "mine"

\* the end of ReplicaBuilder::spawn, on an endpoint that is bound by now
StartTask ==
  /\ CheckRole
  /\ task' = "dial" /\ conn' = "none" /\ slot' = "empty"
  /\ flag' = FALSE /\ connected' = FALSE
  /\ backoff' = 1
  /\ shut' = "no"

-----------------------------------------------------------------------------
(* The sync task *)

Go(t) ==
  /\ task' = t
  /\ UNCHANGED <<role, endpoint, flag, shut>>

\* run_connection's connect; the connection stashed before is dead
DialOk ==
  /\ task = "dial" /\ endpoint = "open"
  /\ conn' = "open"
  /\ slot' = IF slot = "current" THEN "stale" ELSE slot
  /\ Go("stash")
  /\ UNCHANGED <<connected, backoff>>

Stash ==
  /\ task = "stash"
  /\ slot' = "current"
  /\ Go("check")
  /\ UNCHANGED <<conn, connected, backoff>>

\* mutant: the flag is not looked at again after the stash
NoCheckAgain ==
  /\ task = "check"
  /\ Go("open")
  /\ UNCHANGED <<conn, slot, connected, backoff>>

\* shutdown() may have looked for a connection before the stash landed
CheckAgain ==
  /\ task = "check"
  /\ \/ flag /\ conn' = "closed" /\ Go("ended")
     \/ ~flag /\ UNCHANGED conn /\ Go("open")
  /\ UNCHANGED <<slot, connected, backoff>>

\* what the peer makes happen in run_session: the session stream opens, the
\* first answer is not SyncDenied, ManifestDone, the fetches are answered,
\* Changed, ScopeChanged
PeerSteps == {<<"open", "hello">>, <<"hello", "manifest">>,
              <<"manifest", "fetch">>, <<"fetch", "live">>,
              <<"live", "fetch">>, <<"live", "open">>}

SessionStep ==
  /\ conn = "open"
  /\ \E t \in Task : <<task, t>> \in PeerSteps /\ Go(t)
  /\ connected' = (connected \/ task = "hello")
  /\ backoff' = IF task = "hello" THEN 1 ELSE backoff
  /\ UNCHANGED <<conn, slot>>

\* run_sync's error arm: set_disconnected, then the backoff sleep
Failed ==
  /\ Go("backoff")
  /\ connected' = FALSE
  /\ UNCHANGED <<conn, slot, backoff>>

DialFails ==
  /\ task = "dial"
  /\ Failed

\* SyncDenied, or an answer that is not expected
Refused ==
  /\ task \in OnConnection /\ conn = "open"
  /\ Failed

\* every stream operation on a closed connection ends in an error
ConnectionError ==
  /\ task \in OnConnection /\ conn = "closed"
  /\ Failed

ConnectionLost ==
  /\ conn = "open"
  /\ conn' = "closed"
  /\ UNCHANGED <<role, endpoint, task, slot, flag, connected, backoff, shut>>

BackoffOver ==
  /\ task = "backoff"
  /\ backoff' = IF 2 * backoff < BackoffCap THEN 2 * backoff ELSE BackoffCap
  /\ Go("dial")
  /\ UNCHANGED <<conn, slot, connected>>

\* shutdown.changed() wins one of the selects; a session's connection is
\* closed on the way out
SeeShutdown ==
  /\ flag /\ task \in Raced
  /\ conn' = IF conn = "open" THEN "closed" ELSE conn
  /\ Go("ended")
  /\ UNCHANGED <<slot, connected, backoff>>

TaskStep == DialOk \/ Stash \/ CheckAgain \/ SessionStep \/ DialFails
            \/ Refused \/ ConnectionError \/ BackoffOver \/ SeeShutdown

-----------------------------------------------------------------------------
(* Replica::shutdown *)

Signal ==
  /\ shut = "no"
  /\ flag' = TRUE
  /\ shut' = "signalled"
  /\ UNCHANGED <<role, endpoint, task, conn, slot, connected, backoff>>

CloseStashed ==
  /\ shut = "signalled"
  /\ conn' = IF slot = "current" THEN "closed" ELSE conn
  /\ slot' = "empty"
  /\ shut' = "joining"
  /\ UNCHANGED <<role, endpoint, task, flag, connected, backoff>>

JoinTask ==
  /\ shut = "joining" /\ task = "ended"
  /\ shut' = "joined"
  /\ UNCHANGED <<role, endpoint, task, conn, slot, flag, connected, backoff>>

\* owned: spawn bound the endpoint itself
Release(owned) ==
  /\ shut = "joined"
  /\ shut' = "done"
  /\ endpoint' = IF owned THEN "closed" ELSE endpoint
  /\ UNCHANGED <<role, task, conn, slot, flag, connected, backoff>>

=============================================================================
