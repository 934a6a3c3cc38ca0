------------------------------- MODULE Audit -------------------------------
(***************************************************************************)
(* The hash-chained audit log of a node (store.rs: audit,                  *)
(* verify_audit_chain) and everything that appends to it under the store's *)
(* mutex: request handlers (handle_raw, handle of server.rs and            *)
(* replica.rs), sync handlers, the replica's apply_group_state, and the    *)
(* offline db grant.                                                       *)
(*                                                                         *)
(* A handler commits its change first and appends its rows afterwards, and *)
(* audit reads the head of the chain and inserts the new row in two        *)
(* statements; between any two of these steps the process may die, the     *)
(* handler panic, a statement fail.  The columns are reduced to who asked  *)
(* (the number of the request), the op and the outcome.  A hash is the     *)
(* sequence of everything that went into it: SHA-256 without collisions.   *)
(***************************************************************************)
EXTENDS Naturals, Sequences, FiniteSets

CONSTANTS Thread,      \* handler threads of the serving process
          Cli,         \* the process of an offline db grant
          None,
          MaxRequests, \* bound: requests in a behaviour
          MaxEdits     \* bound: edits of the table from outside

ASSUME AuditBounds == MaxRequests \in Nat /\ MaxEdits \in Nat
ASSUME AuditActors == Cli \notin Thread /\ None \notin Thread \cup {Cli}
ASSUME NoneIsNoJob == None \notin [id : Nat, kind : {"read", "refuse", "change", "rotate"}]

VARIABLES up,       \* the serving process runs
          lock,     \* who holds the store's mutex
          pc, job,  \* by thread: its next step, the request it handles
          todo,     \* by thread: the ops of the rows still to append
          head,     \* by thread: the hash audit has read
          rows,     \* the table audit_log, in the order of seq
          requests, \* requests so far
          commits,  \* history: requests whose change committed, in order
          excused,  \* history: requests that lost a row to a fault
          edits     \* edits from outside so far

threadVars == <<pc, job, todo, head>>
vars == <<up, lock, threadVars, rows, requests, commits, excused, edits>>

Actor == Thread \cup {Cli}
Request == 1..MaxRequests
Op == {"request", "rotate-dek"}
\* what dispatch will do: answer from the tables, refuse, change them, or change
\* them and rotate a DEK (a revocation, the removal of a reader)
Kind == {"read", "refuse", "change", "rotate"}
Job == [id : Request, kind : Kind]
Fields == Request \X Op \X {"ok", "denied"}
ZeroHash == <<>>

TypeOK ==
  /\ up \in BOOLEAN
  /\ lock \in Actor \cup {None}
  /\ pc \in [Actor -> {"idle", "dispatch", "head", "insert", "unlock"}]
  /\ job \in [Actor -> Job \cup {None}]
  /\ \A t \in Actor : \A i \in DOMAIN todo[t] : todo[t][i] \in Op
  /\ \A i \in DOMAIN rows : rows[i].fields \in Fields
  /\ requests \in 0..MaxRequests
  /\ edits \in 0..MaxEdits

Set(f, t, v) == [f EXCEPT ![t] = v]

-----------------------------------------------------------------------------
(* The chain *)

\* mutant: a row's hash does not cover the chain before it
HashOfRow(prev, fields) == <<fields>>

\* SHA-256 over the previous hash and the length-prefixed fields
HashOf(prev, fields) == Append(prev, fields)

Last == IF rows = <<>> THEN ZeroHash ELSE rows[Len(rows)].hash

\* written: history, what the node wrote in this row and in those before it
Row(prev, fields) ==
  [fields |-> fields, prev |-> prev, hash |-> HashOf(prev, fields),
   written |-> Append(IF rows = <<>> THEN <<>> ELSE rows[Len(rows)].written,
                      fields)]

PrevOf(i) == IF i = 1 THEN ZeroHash ELSE rows[i - 1].hash

\* verify_audit_chain: Valid unless the loop stops at some row
Valid == \A i \in DOMAIN rows :
  /\ rows[i].prev = PrevOf(i)
  /\ rows[i].hash = HashOf(PrevOf(i), rows[i].fields)

-----------------------------------------------------------------------------
(* A handler *)

\* a server thread while the node serves, db grant while it does not
Begin(t) ==
  /\ up <=> t # Cli
  /\ pc[t] = "idle" /\ lock = None
  /\ requests < MaxRequests
  /\ requests' = requests + 1
  /\ lock' = t
  /\ \E k \in Kind :
       /\ t = Cli => k \in {"change", "rotate"}
       /\ job' = Set(job, t, [id |-> requests + 1, kind |-> k])
  /\ pc' = Set(pc, t, "dispatch")
  /\ UNCHANGED <<up, todo, head, rows, commits, excused, edits>>

\* the rotate-dek row comes before the row of the request that caused it, and
\* after it in db grant
RowsFor(t, kind) ==
  IF kind # "rotate" THEN <<"request">>
  ELSE IF t = Cli THEN <<"request", "rotate-dek">> ELSE <<"rotate-dek", "request">>

\* mutant: the guard is dropped before the audit
DispatchUnlocking(t) ==
  /\ pc[t] = "dispatch"
  /\ IF job[t].kind \in {"change", "rotate"}
     THEN commits' = Append(commits, job[t].id) ELSE UNCHANGED commits
  /\ todo' = Set(todo, t, RowsFor(t, job[t].kind))
  /\ pc' = Set(pc, t, "head")
  /\ lock' = None
  /\ UNCHANGED <<up, job, head, rows, requests, excused, edits>>

\* dispatch (or apply_group_sync): one transaction, which commits or fails; a
\* db grant that fails has appended nothing
Dispatch(t) ==
  /\ pc[t] = "dispatch"
  /\ \/ /\ job[t].kind \in {"change", "rotate"}
        /\ commits' = Append(commits, job[t].id)
        /\ todo' = Set(todo, t, RowsFor(t, job[t].kind))
        /\ UNCHANGED job
     \/ /\ job[t].kind \in {"change", "rotate"}
        /\ job' = [job EXCEPT ![t].kind = "refuse"]
        /\ todo' = Set(todo, t, IF t = Cli THEN <<>> ELSE <<"request">>)
        /\ UNCHANGED commits
     \/ /\ job[t].kind \in {"read", "refuse"}
        /\ todo' = Set(todo, t, <<"request">>)
        /\ UNCHANGED <<job, commits>>
  /\ pc' = Set(pc, t, IF todo'[t] = <<>> THEN "unlock" ELSE "head")
  /\ UNCHANGED <<up, lock, head, rows, requests, excused, edits>>

\* audit, first statement
ReadHead(t) ==
  /\ pc[t] = "head"
  /\ head' = Set(head, t, Last)
  /\ pc' = Set(pc, t, "insert")
  /\ UNCHANGED <<up, lock, job, todo, rows, requests, commits, excused, edits>>

Advance(t, rest) ==
  /\ todo' = Set(todo, t, rest)
  /\ head' = Set(head, t, ZeroHash)
  /\ pc' = Set(pc, t, IF rest = <<>> THEN "unlock" ELSE "head")

\* mutant: an answer that is not in the match is recorded under its own name
OutcomeUnmapped(t) == IF job[t].kind = "read" THEN "ok" ELSE job[t].kind

\* audit_outcome, for Denied as for the other refusals
Outcome(t) == IF job[t].kind = "refuse" THEN "denied" ELSE "ok"

\* audit, second statement
Insert(t) ==
  /\ pc[t] = "insert"
  /\ rows' = Append(rows, Row(head[t], <<job[t].id, Head(todo[t]), Outcome(t)>>))
  /\ Advance(t, Tail(todo[t]))
  /\ UNCHANGED <<up, lock, job, requests, commits, excused, edits>>

\* either statement fails: a handler logs the error and goes on, db grant ends
AuditFails(t) ==
  /\ pc[t] \in {"head", "insert"}
  /\ Advance(t, IF t = Cli THEN <<>> ELSE Tail(todo[t]))
  /\ excused' = excused \cup {job[t].id}
  /\ UNCHANGED <<up, lock, job, rows, requests, commits, edits>>

\* the guard goes out of scope, the answer is sent
Unlock(t) ==
  /\ pc[t] = "unlock"
  /\ pc' = Set(pc, t, "idle")
  /\ job' = Set(job, t, None)
  /\ lock' = None
  /\ UNCHANGED <<up, todo, head, rows, requests, commits, excused, edits>>

HandlerStep(t) == Dispatch(t) \/ ReadHead(t) \/ Insert(t) \/ AuditFails(t) \/ Unlock(t)

-----------------------------------------------------------------------------
(* Faults, restarts, and edits from outside *)

Reset(T) ==
  /\ pc' = [t \in Actor |-> IF t \in T THEN "idle" ELSE pc[t]]
  /\ job' = [t \in Actor |-> IF t \in T THEN None ELSE job[t]]
  /\ todo' = [t \in Actor |-> IF t \in T THEN <<>> ELSE todo[t]]
  /\ head' = [t \in Actor |-> IF t \in T THEN ZeroHash ELSE head[t]]
  /\ excused' = excused \cup {job[t].id : t \in {u \in T : job[u] # None}}
  /\ UNCHANGED <<rows, requests, commits, edits>>

\* mutant: a poisoned mutex stays out of reach
PanicPoisoning(t) ==
  /\ t \in Thread /\ pc[t] # "idle"
  /\ Reset({t})
  /\ UNCHANGED <<up, lock>>

\* a handler panics: an open transaction rolls back, and lock_store takes a
\* poisoned mutex as it is
Panic(t) ==
  /\ t \in Thread /\ pc[t] # "idle"
  /\ Reset({t})
  /\ lock' = None
  /\ UNCHANGED up

\* the node stops or dies; db grant is killed
Stop ==
  /\ up \/ pc[Cli] # "idle"
  /\ Reset(Actor)
  /\ up' = FALSE
  /\ lock' = None

Start ==
  /\ ~up /\ pc[Cli] = "idle"
  /\ up' = TRUE
  /\ UNCHANGED <<lock, threadVars, rows, requests, commits, excused, edits>>

\* somebody edits a field or the prev_hash of a row, or deletes a row
EditLog ==
  /\ ~up /\ pc[Cli] = "idle"
  /\ edits < MaxEdits
  /\ edits' = edits + 1
  /\ \E i \in DOMAIN rows :
       \/ rows' = [rows EXCEPT ![i].fields[3] = IF @ = "ok" THEN "denied" ELSE "ok"]
       \/ rows' = [rows EXCEPT ![i].prev = IF i <= 2 THEN ZeroHash ELSE rows[i - 2].hash]
       \/ rows' = SubSeq(rows, 1, i - 1) \o SubSeq(rows, i + 1, Len(rows))
  /\ UNCHANGED <<up, lock, threadVars, requests, commits, excused>>

-----------------------------------------------------------------------------

Init ==
  /\ up = FALSE
  /\ lock = None
  /\ pc = [t \in Actor |-> "idle"]
  /\ job = [t \in Actor |-> None]
  /\ todo = [t \in Actor |-> <<>>]
  /\ head = [t \in Actor |-> ZeroHash]
  /\ rows = <<>>
  /\ requests = 0
  /\ commits = <<>>
  /\ excused = {}
  /\ edits = 0

Next ==
  \/ \E t \in Actor : Begin(t) \/ HandlerStep(t) \/ Panic(t)
  \/ Stop \/ Start \/ EditLog

Spec == Init /\ [][Next]_vars

\* handlers are synchronous code: once begun they run to their end
FairSpec == Spec /\ \A t \in Actor : WF_vars(HandlerStep(t))

-----------------------------------------------------------------------------
(* Properties *)

\* Whatever handlers, failures, panics, restarts and db grants come together, the
\* chain the node itself wrote verifies: no two rows ever follow the same head.
ChainVerifies == edits = 0 => Valid

\* verify_audit_chain "Detects in-place edits, not truncation from the tail":
\* when it says Valid, every row in the table is as it was written, and all the
\* rows it was written after are there, as they were.
ValidMeansIntact ==
  Valid => \A i \in DOMAIN rows :
    rows[i].written = [j \in 1..i |-> rows[j].fields]

RowsOf(r) == {i \in DOMAIN rows : rows[i].fields[1] = r}
InHand == {job[t].id : t \in {u \in Actor : job[u] # None}}

\* handle audits under the lock it dispatched under.  Unless a fault took its row,
\* every committed change has one, and rows are in the order of the commits.
ChangesAreLoggedInOrder ==
  edits = 0 =>
    /\ \A i \in DOMAIN commits :
         RowsOf(commits[i]) # {} \/ commits[i] \in excused \cup InHand
    /\ \A i, j \in DOMAIN commits : i < j =>
         \A a \in RowsOf(commits[i]), b \in RowsOf(commits[j]) : a < b

\* A handler that panics or fails in the middle never leaves the store locked:
\* the node goes on serving.
LockIsReleased == \A t \in Actor : lock = t ~> lock # t

=============================================================================
