---------------------------- MODULE AuditProofs ----------------------------
(***************************************************************************)
(* The chain of the audit log verifies, for any number of handler threads, *)
(* requests and edits.  The argument: whoever is past Begin holds the      *)
(* mutex, nobody edits the table while it is held, so the head audit has   *)
(* read is still the last hash when it inserts.                            *)
(*                                                                         *)
(* And Valid can be trusted.  Whatever was edited or deleted, the hashes   *)
(* in the table are those the node wrote; in a chain that verifies they    *)
(* list the fields of the table, so these are what the node wrote.         *)
(***************************************************************************)
EXTENDS Audit, SequenceTheorems, WellFoundedInduction, TLAPS

Hash == Seq(Fields)
AuditRow == [fields : Fields, prev : Hash, hash : Hash, written : Hash]

\* the variables but for the table and the counters of the properties
ThreadsOK ==
  /\ up \in BOOLEAN
  /\ lock \in Actor \cup {None}
  /\ pc \in [Actor -> {"idle", "dispatch", "head", "insert", "unlock"}]
  /\ job \in [Actor -> Job \cup {None}]
  /\ todo \in [Actor -> Seq(Op)]
  /\ DOMAIN head = Actor
  /\ requests \in 0..MaxRequests
  /\ edits \in 0..MaxEdits
  /\ \A t \in Actor : pc[t] # "idle" => job[t] \in Job
  /\ \A t \in Actor : pc[t] \in {"head", "insert"} => todo[t] # <<>>

\* a handler past Begin holds the mutex, and the process it is in runs
MutexOK ==
  /\ \A t \in Actor : pc[t] # "idle" => lock = t
  /\ \A t \in Thread : pc[t] # "idle" => up
  /\ pc[Cli] # "idle" => ~up

\* as long as nobody edits the table from outside: its rows, the head of a
\* handler about to insert, and the chain
ChainOK ==
  edits = 0 =>
    /\ rows \in Seq(AuditRow)
    /\ \A t \in Actor : pc[t] = "insert" => head[t] = Last
    /\ Valid

AuditInv == ThreadsOK /\ MutexOK /\ ChainOK

-----------------------------------------------------------------------------
\* The last hash of the table, which audit reads, is a hash.
LEMMA LastIsHash ==
  ASSUME rows \in Seq(AuditRow)
  PROVE  Last \in Hash
<1>1. CASE rows = <<>>
  BY <1>1 DEF Last, ZeroHash, Hash
<1>2. CASE rows # <<>>
  <2>1. Len(rows) \in 1..Len(rows)
    BY <1>2
  <2>2. rows[Len(rows)] \in AuditRow
    BY <2>1
  <2> QED
    BY <1>2, <2>2 DEF Last, AuditRow
<1> QED
  BY <1>1, <1>2

\* audit's second statement: a row that follows the last hash extends a valid
\* chain to a valid chain.
LEMMA AppendKeepsChain ==
  ASSUME rows \in Seq(AuditRow), Valid, NEW f \in Fields,
         rows' = Append(rows, Row(Last, f))
  PROVE  rows' \in Seq(AuditRow) /\ Valid'
<1> DEFINE r == Row(Last, f)
           n == Len(rows)
<1>1. Last \in Hash
  BY LastIsHash
<1>2. n \in Nat /\ (rows # <<>> => rows[n] \in AuditRow)
  OBVIOUS
<1>3. (IF rows = <<>> THEN <<>> ELSE rows[n].written) \in Hash
  BY <1>2 DEF Hash, AuditRow
<1>4. r \in AuditRow /\ r.prev = Last /\ r.hash = HashOf(Last, f) /\ r.fields = f
  BY <1>1, <1>3 DEF Row, AuditRow, HashOf, Hash
<1>5. /\ rows' \in Seq(AuditRow) /\ Len(rows') = n + 1
      /\ rows'[n + 1] = r /\ \A i \in 1..n : rows'[i] = rows[i]
  BY <1>4
<1>6. SUFFICES ASSUME NEW i \in 1..n + 1
               PROVE  /\ rows'[i].prev = PrevOf(i)'
                      /\ rows'[i].hash = HashOf(PrevOf(i)', rows'[i].fields)
  BY <1>5, SMTT(20) DEF Valid, HashOf
<1>7. CASE i \in 1..n
  <2>1. PrevOf(i)' = PrevOf(i)
    BY <1>2, <1>5, <1>7 DEF PrevOf
  <2> QED
    BY <1>2, <1>5, <1>7, <2>1 DEF Valid
<1>8. CASE i = n + 1
  <2>1. PrevOf(i)' = Last
    BY <1>2, <1>5, <1>8 DEF PrevOf, Last
  <2> QED
    BY <1>4, <1>5, <1>8, <2>1
<1> QED
  BY <1>2, <1>7, <1>8

-----------------------------------------------------------------------------
\* Before the first request nothing is locked and the table is empty.
LEMMA AuditInitial == Init => AuditInv
<1> SUFFICES ASSUME Init PROVE AuditInv
  OBVIOUS
<1>0. <<>> \in Seq(Op) /\ 0 \in 0..MaxRequests /\ 0 \in 0..MaxEdits
  BY AuditBounds
<1>1. ThreadsOK
  BY <1>0, Zenon DEF Init, ThreadsOK
<1>2. MutexOK
  BY DEF Init, MutexOK, Actor
<1>3. rows \in Seq(AuditRow) /\ DOMAIN rows = {}
  BY DEF Init
<1>4. ChainOK
  BY <1>3 DEF Init, ChainOK, Valid
<1> QED
  BY <1>1, <1>2, <1>4 DEF AuditInv

\* Begin takes the mutex, which nobody past Begin holds.
LEMMA BeginKeeps ==
  ASSUME AuditInv, NEW t \in Actor, Begin(t)
  PROVE  AuditInv'
<1>1. requests + 1 \in Request /\ requests' \in 0..MaxRequests
  BY AuditBounds DEF AuditInv, ThreadsOK, Begin, Request
<1>2. job'[t] \in Job /\ job' \in [Actor -> Job \cup {None}]
  BY <1>1 DEF AuditInv, ThreadsOK, Begin, Job, Set
<1>3. ThreadsOK'
  BY <1>1, <1>2 DEF AuditInv, ThreadsOK, Begin, Set
<1>4. \A u \in Actor : pc[u] = "idle"
  BY AuditActors DEF AuditInv, MutexOK, Begin, Actor
<1>5. MutexOK'
  BY <1>4, AuditActors DEF AuditInv, ThreadsOK, MutexOK, Begin, Set, Actor
<1>6. ChainOK'
  BY <1>4 DEF AuditInv, ThreadsOK, ChainOK, Begin, Set, Last, Valid, PrevOf
<1> QED
  BY <1>3, <1>5, <1>6 DEF AuditInv

\* Dispatch appends nothing and decides which rows will follow.
LEMMA DispatchKeeps ==
  ASSUME AuditInv, NEW t \in Actor, Dispatch(t)
  PROVE  AuditInv'
<1>1. /\ <<"request">> \in Seq(Op) /\ <<"request">> # <<>> /\ <<>> \in Seq(Op)
      /\ <<"request", "rotate-dek">> \in Seq(Op)
      /\ <<"request", "rotate-dek">> # <<>>
      /\ <<"rotate-dek", "request">> \in Seq(Op)
      /\ <<"rotate-dek", "request">> # <<>>
  BY DEF Op
<1>2. /\ RowsFor(t, job[t].kind) \in Seq(Op)
      /\ RowsFor(t, job[t].kind) # <<>>
  BY <1>1 DEF RowsFor
<1>3. todo' \in [Actor -> Seq(Op)]
  BY <1>1, <1>2, ZenonT(30) DEF AuditInv, ThreadsOK, Dispatch, Set
<1>4. job' \in [Actor -> Job \cup {None}] /\ \A u \in Actor : job[u] \in Job => job'[u] \in Job
  <2>1. job[t] \in Job
    BY DEF AuditInv, ThreadsOK, Dispatch
  <2>2. [job[t] EXCEPT !.kind = "refuse"] \in Job
    BY <2>1 DEF Job, Kind
  <2>3. job' = job \/ job' = [job EXCEPT ![t] = [job[t] EXCEPT !.kind = "refuse"]]
    BY DEF Dispatch
  <2> QED
    BY <2>2, <2>3, Zenon DEF AuditInv, ThreadsOK
<1>5. ThreadsOK'
  BY <1>3, <1>4, SMTT(20) DEF AuditInv, ThreadsOK, Dispatch, Set
<1>6. MutexOK'
  BY DEF AuditInv, ThreadsOK, MutexOK, Dispatch, Set, Actor
<1>7. ChainOK'
  BY DEF AuditInv, ThreadsOK, ChainOK, Dispatch, Set, Last, Valid, PrevOf
<1> QED
  BY <1>5, <1>6, <1>7 DEF AuditInv

\* audit's first statement: what it reads is the last hash.
LEMMA ReadHeadKeeps ==
  ASSUME AuditInv, NEW t \in Actor, ReadHead(t)
  PROVE  AuditInv'
<1>1. ThreadsOK'
  BY DEF AuditInv, ThreadsOK, ReadHead, Set
<1>2. MutexOK'
  BY DEF AuditInv, ThreadsOK, MutexOK, ReadHead, Set, Actor
<1>3. Last' = Last /\ (Valid => Valid')
  BY DEF ReadHead, Last, Valid, PrevOf
<1>4. ChainOK'
  BY <1>3 DEF AuditInv, ThreadsOK, ChainOK, ReadHead, Set
<1> QED
  BY <1>1, <1>2, <1>4 DEF AuditInv

\* Advance drops a row from those still to append, or all of them.
LEMMA AdvanceKeepsThreads ==
  ASSUME AuditInv, NEW t \in Actor, NEW rest \in Seq(Op), Advance(t, rest),
         pc[t] # "idle", UNCHANGED <<up, lock, job, requests, edits>>
  PROVE  ThreadsOK' /\ MutexOK' /\ \A u \in Actor : pc'[u] # "insert"
<1>1. ThreadsOK'
  BY DEF AuditInv, ThreadsOK, Advance, Set
<1>2. MutexOK'
  BY DEF AuditInv, ThreadsOK, MutexOK, Advance, Set, Actor
<1>3. \A u \in Actor : pc'[u] # "insert"
  BY AuditActors DEF AuditInv, ThreadsOK, MutexOK, Advance, Set
<1> QED
  BY <1>1, <1>2, <1>3

\* audit's second statement: the head it was given is still the last hash.
LEMMA InsertKeeps ==
  ASSUME AuditInv, NEW t \in Actor, Insert(t)
  PROVE  AuditInv'
<1> DEFINE f == <<job[t].id, Head(todo[t]), Outcome(t)>>
<1>1. /\ todo[t] \in Seq(Op) /\ todo[t] # <<>> /\ job[t] \in Job
  BY DEF AuditInv, ThreadsOK, Insert
<1>2. Tail(todo[t]) \in Seq(Op) /\ Head(todo[t]) \in Op
  BY <1>1
<1>3. f \in Fields
  BY <1>1, <1>2 DEF Fields, Outcome, Job
<1>4. ThreadsOK' /\ MutexOK' /\ \A u \in Actor : pc'[u] # "insert"
  BY <1>2, AdvanceKeepsThreads, Zenon DEF Insert
<1>5. ASSUME edits = 0
      PROVE  rows' \in Seq(AuditRow) /\ Valid'
  <2>1. rows \in Seq(AuditRow) /\ Valid /\ rows' = Append(rows, Row(Last, f))
    BY <1>5 DEF AuditInv, ChainOK, Insert
  <2> QED
    BY <1>3, <2>1, AppendKeepsChain
<1>6. ChainOK'
  BY <1>4, <1>5 DEF ChainOK, Insert
<1> QED
  BY <1>4, <1>6 DEF AuditInv

\* A failed append leaves the table as it is.
LEMMA AuditFailsKeeps ==
  ASSUME AuditInv, NEW t \in Actor, AuditFails(t)
  PROVE  AuditInv'
<1>1. todo[t] \in Seq(Op) /\ todo[t] # <<>> /\ <<>> \in Seq(Op)
  BY DEF AuditInv, ThreadsOK, AuditFails
<1>2. (IF t = Cli THEN <<>> ELSE Tail(todo[t])) \in Seq(Op)
  BY <1>1
<1>3. ThreadsOK' /\ MutexOK' /\ \A u \in Actor : pc'[u] # "insert"
  BY <1>2, AdvanceKeepsThreads, Zenon DEF AuditFails
<1>4. ChainOK'
  BY <1>3 DEF AuditInv, ChainOK, AuditFails, Valid, PrevOf
<1> QED
  BY <1>3, <1>4 DEF AuditInv

\* The end of a handler: nobody else is past Begin.
LEMMA UnlockKeeps ==
  ASSUME AuditInv, NEW t \in Actor, Unlock(t)
  PROVE  AuditInv'
<1>1. ThreadsOK'
  BY DEF AuditInv, ThreadsOK, Unlock, Set
<1>2. MutexOK'
  BY DEF AuditInv, ThreadsOK, MutexOK, Unlock, Set, Actor
<1>3. ChainOK'
  BY DEF AuditInv, ThreadsOK, ChainOK, Unlock, Set, Last, Valid, PrevOf
<1> QED
  BY <1>1, <1>2, <1>3 DEF AuditInv

\* Handlers that are gone hold nothing and insert nothing.
LEMMA ResetKeeps ==
  ASSUME AuditInv, NEW T \in SUBSET Actor, Reset(T), lock' = None,
         up' \in BOOLEAN, \A u \in Actor \ T : pc[u] = "idle"
  PROVE  AuditInv'
<1>1. <<>> \in Seq(Op)
  OBVIOUS
<1>2. ThreadsOK'
  BY <1>1 DEF AuditInv, ThreadsOK, Reset
<1>3. \A u \in Actor : pc'[u] = "idle"
  BY DEF Reset
<1>4. MutexOK'
  BY <1>3 DEF MutexOK, Actor
<1>5. ChainOK'
  BY <1>3 DEF AuditInv, ChainOK, Reset, Valid, PrevOf
<1> QED
  BY <1>2, <1>4, <1>5 DEF AuditInv

\* A panic takes the one handler past Begin with it; lock_store ignores poison.
LEMMA PanicKeeps ==
  ASSUME AuditInv, NEW t \in Actor, Panic(t)
  PROVE  AuditInv'
<1>1. \A u \in Actor \ {t} : pc[u] = "idle"
  BY AuditActors DEF AuditInv, MutexOK, Panic
<1>2. up' \in BOOLEAN
  BY DEF AuditInv, ThreadsOK, Panic
<1> QED
  BY <1>1, <1>2, ResetKeeps DEF Panic

\* Nobody is past Begin when the table is edited, and the chain is then excused.
LEMMA EditLogKeeps ==
  ASSUME AuditInv, EditLog
  PROVE  AuditInv'
<1>1. edits' # 0 /\ edits' \in 0..MaxEdits
  <2>1. edits < MaxEdits /\ edits' = edits + 1 /\ edits \in 0..MaxEdits
    BY Zenon DEF AuditInv, ThreadsOK, EditLog
  <2> QED
    BY <2>1, AuditBounds
<1>2. ThreadsOK' /\ MutexOK'
  BY <1>1, SMTT(20) DEF AuditInv, ThreadsOK, MutexOK, EditLog, threadVars
<1> QED
  BY <1>1, <1>2 DEF AuditInv, ChainOK

\* Every step of the node, of db grant and of whoever edits the table keeps it.
LEMMA AuditInductive == AuditInv /\ [Next]_vars => AuditInv'
<1> SUFFICES ASSUME AuditInv, [Next]_vars PROVE AuditInv'
  OBVIOUS
<1>1. ASSUME NEW t \in Actor, Begin(t) \/ HandlerStep(t) \/ Panic(t)
      PROVE  AuditInv'
  BY <1>1, BeginKeeps, DispatchKeeps, ReadHeadKeeps, InsertKeeps, AuditFailsKeeps,
     UnlockKeeps, PanicKeeps DEF HandlerStep
<1>2. CASE Stop
  BY <1>2, ResetKeeps, Zenon DEF Stop
<1>3. CASE Start
  <2>1. ThreadsOK' /\ MutexOK'
    BY <1>3 DEF AuditInv, ThreadsOK, MutexOK, Start, threadVars
  <2>2. ChainOK'
    BY <1>3 DEF AuditInv, ChainOK, Start, threadVars, Last, Valid, PrevOf
  <2> QED
    BY <2>1, <2>2 DEF AuditInv
<1>4. CASE EditLog
  BY <1>4, EditLogKeeps
<1>5. CASE UNCHANGED vars
  <2>1. ThreadsOK' /\ MutexOK'
    BY <1>5 DEF AuditInv, ThreadsOK, MutexOK, vars, threadVars
  <2>2. ChainOK'
    BY <1>5 DEF AuditInv, ChainOK, vars, threadVars, Last, Valid, PrevOf
  <2> QED
    BY <2>1, <2>2 DEF AuditInv
<1> QED
  BY <1>1, <1>2, <1>3, <1>4, <1>5 DEF Next

\* The chain the node wrote verifies (verify_audit_chain) after any interleaving
\* of handlers, failed appends, panics, crashes, restarts and db grants.
THEOREM ChainAlwaysVerifies == Spec => []ChainVerifies
<1>1. AuditInv => ChainVerifies
  BY DEF AuditInv, ChainOK, ChainVerifies
<1> QED
  BY AuditInitial, AuditInductive, <1>1, PTL DEF Spec

-----------------------------------------------------------------------------
(* The order of the rows.  Requests are numbered under the mutex, so the one in *)
(* hand is the newest: rows and commits come in the order of the numbers.      *)

\* the newest request is the one in hand, and its change is not yet committed
\* while it is dispatched
NumberedOK ==
  /\ commits \in Seq(Request)
  /\ \A i, j \in DOMAIN commits : i < j => commits[i] < commits[j]
  /\ \A i \in DOMAIN commits : commits[i] <= requests
  /\ \A t \in Actor : pc[t] # "idle" => job[t].id = requests
  /\ \A t \in Actor : pc[t] = "dispatch" =>
       \A i \in DOMAIN commits : commits[i] < requests

RowsOrdered ==
  /\ \A i \in DOMAIN rows : rows[i].fields[1] <= requests
  /\ \A i, j \in DOMAIN rows : i < j => rows[i].fields[1] <= rows[j].fields[1]

Accounted(r) == RowsOf(r) # {} \/ r \in excused

\* a committed change has its row, is excused, or is in the hands of a handler
\* that has not come to its end
RowsComplete ==
  /\ \A i \in DOMAIN commits :
       Accounted(commits[i]) \/ \E t \in Actor : pc[t] # "idle" /\ job[t].id = commits[i]
  /\ \A t \in Actor : pc[t] = "unlock" =>
       Accounted(job[t].id) \/ \A i \in DOMAIN commits : commits[i] # job[t].id

OrderInv == NumberedOK /\ (edits = 0 => RowsOrdered /\ RowsComplete)

\* The first field of a row is the number of a request.
LEMMA RowIds ==
  ASSUME rows \in Seq(AuditRow), NEW i \in DOMAIN rows
  PROVE  rows[i].fields[1] \in Request /\ rows[i].fields[1] \in Nat
<1>1. rows[i] \in AuditRow
  OBVIOUS
<1>2. rows[i].fields \in Fields
  BY <1>1 DEF AuditRow
<1>3. rows[i].fields[1] \in Request
  BY <1>2 DEF Fields
<1> QED
  BY <1>3, AuditBounds DEF Request

\* Only Begin numbers a request, and nobody is past Begin then.
LEMMA BeginKeepsOrder ==
  ASSUME AuditInv, OrderInv, NEW t \in Actor, Begin(t)
  PROVE  OrderInv'
<1>1. requests \in Nat /\ requests' = requests + 1
  BY AuditBounds DEF AuditInv, ThreadsOK, Begin
<1>2. \A u \in Actor : pc[u] = "idle"
  BY AuditActors DEF AuditInv, MutexOK, Begin, Actor
<1>3. job'[t].id = requests'
  BY <1>1 DEF AuditInv, ThreadsOK, Begin, Set
<1>4. /\ commits' = commits /\ rows' = rows /\ excused' = excused /\ edits' = edits
      /\ \A u \in Actor : pc'[u] # "idle" => u = t /\ pc'[u] = "dispatch"
  BY <1>2 DEF AuditInv, ThreadsOK, Begin, Set
<1>5. \A i \in DOMAIN commits : commits[i] \in Nat
  BY AuditBounds DEF OrderInv, NumberedOK, Request
<1>6. NumberedOK'
  BY <1>1, <1>3, <1>4, <1>5 DEF OrderInv, NumberedOK
<1>7. ASSUME edits = 0
      PROVE  RowsOrdered' /\ RowsComplete'
  <2>1. \A i \in DOMAIN rows : rows[i].fields[1] \in Nat
    BY <1>7, RowIds DEF AuditInv, ChainOK
  <2>2. RowsOrdered'
    BY <1>1, <1>4, <1>7, <2>1 DEF OrderInv, RowsOrdered
  <2>3. RowsComplete'
    BY <1>2, <1>4, <1>7 DEF OrderInv, RowsComplete, Accounted, RowsOf
  <2> QED
    BY <2>2, <2>3
<1> QED
  BY <1>4, <1>6, <1>7 DEF OrderInv

\* Dispatch commits the newest request, or nothing.
LEMMA DispatchKeepsOrder ==
  ASSUME AuditInv, OrderInv, NEW t \in Actor, Dispatch(t)
  PROVE  OrderInv'
<1>1. /\ job[t].id = requests /\ requests \in Request /\ job[t] \in Job
      /\ requests' = requests /\ rows' = rows /\ excused' = excused /\ edits' = edits
  BY DEF AuditInv, ThreadsOK, OrderInv, NumberedOK, Dispatch, Job
<1>2. \A u \in Actor \ {t} : pc[u] = "idle"
  BY AuditActors DEF AuditInv, MutexOK, Dispatch
<1>3. /\ job'[t].id = requests
      /\ \A u \in Actor \ {t} : pc'[u] = "idle"
      /\ pc'[t] \in {"head", "unlock"}
  BY <1>1, <1>2 DEF AuditInv, ThreadsOK, Dispatch, Set, Job
<1>4. CASE commits' = Append(commits, requests) /\ pc'[t] = "head"
  <2>1. /\ commits' \in Seq(Request) /\ Len(commits') = Len(commits) + 1
        /\ commits'[Len(commits) + 1] = requests
        /\ \A i \in 1..Len(commits) : commits'[i] = commits[i]
    BY <1>1, <1>4 DEF OrderInv, NumberedOK
  <2>2. \A i \in 1..Len(commits) : commits[i] < requests
    BY DEF OrderInv, NumberedOK, Dispatch
  <2>3. NumberedOK'
    BY <1>1, <1>3, <1>4, <2>1, <2>2 DEF OrderInv, NumberedOK, Request
  <2>4. edits = 0 => RowsOrdered'
    BY <1>1 DEF OrderInv, RowsOrdered
  <2>5. ASSUME edits = 0 PROVE RowsComplete'
    <3>1. \A i \in 1..Len(commits) :
            Accounted(commits[i]) \/ \E u \in Actor : pc[u] # "idle" /\ job[u].id = commits[i]
      BY <2>5 DEF OrderInv, NumberedOK, RowsComplete
    <3>2. \A i \in 1..Len(commits) : Accounted(commits'[i]) \/ job'[t].id = commits'[i]
      BY <1>1, <1>2, <1>3, <2>1, <3>1
    <3>3. DOMAIN commits' = 1..Len(commits) \cup {Len(commits) + 1}
      BY <2>1 DEF OrderInv, NumberedOK
    <3>4. \A i \in DOMAIN commits' : Accounted(commits'[i]) \/ job'[t].id = commits'[i]
      BY <1>3, <2>1, <3>2, <3>3
    <3>5. \A u \in Actor : pc'[u] # "unlock"
      BY <1>3, <1>4
    <3> QED
      BY <1>1, <1>4, <3>4, <3>5 DEF RowsComplete, Accounted, RowsOf
  <2> QED
    BY <1>1, <2>3, <2>4, <2>5 DEF OrderInv
<1>5. CASE commits' = commits
  <2>1. \A i \in DOMAIN commits : commits[i] < requests
    BY DEF OrderInv, NumberedOK, Dispatch
  <2>2. NumberedOK'
    BY <1>1, <1>3, <1>5 DEF OrderInv, NumberedOK
  <2>3. edits = 0 => RowsOrdered'
    BY <1>1 DEF OrderInv, RowsOrdered
  <2>4. \A i \in DOMAIN commits : commits[i] # requests
    BY <2>1, <1>1 DEF OrderInv, NumberedOK, Request
  <2>5. edits = 0 => RowsComplete'
    BY <1>1, <1>2, <1>3, <1>5, <2>4 DEF OrderInv, RowsComplete, Accounted, RowsOf
  <2> QED
    BY <1>1, <2>2, <2>3, <2>5 DEF OrderInv
<1>6. RowsFor(t, job[t].kind) # <<>>
  BY DEF RowsFor
<1> QED
  BY <1>1, <1>4, <1>5, <1>6 DEF AuditInv, ThreadsOK, Dispatch, Set

\* Insert appends a row of the newest request.
LEMMA InsertKeepsOrder ==
  ASSUME AuditInv, OrderInv, NEW t \in Actor, Insert(t)
  PROVE  OrderInv'
<1> DEFINE f == <<job[t].id, Head(todo[t]), Outcome(t)>>
           n == Len(rows)
<1>1. /\ job[t].id = requests /\ job' = job /\ requests' = requests
      /\ commits' = commits /\ excused' = excused /\ edits' = edits
  BY DEF OrderInv, NumberedOK, Insert
<1>2. /\ \A u \in Actor \ {t} : pc[u] = "idle" /\ pc'[u] = "idle"
      /\ pc'[t] \in {"head", "unlock"} /\ pc[t] = "insert"
  BY AuditActors DEF AuditInv, ThreadsOK, MutexOK, Insert, Advance, Set
<1>3. NumberedOK'
  BY <1>1, <1>2 DEF OrderInv, NumberedOK
<1>4. ASSUME edits = 0
      PROVE  RowsOrdered' /\ RowsComplete'
  <2>1. rows \in Seq(AuditRow) /\ n \in Nat
    BY <1>4 DEF AuditInv, ChainOK
  <2>2. /\ Len(rows') = n + 1 /\ DOMAIN rows' = 1..n + 1
        /\ rows'[n + 1].fields = f /\ \A i \in 1..n : rows'[i] = rows[i]
    BY <2>1 DEF Insert, Row
  <2>3. f[1] = requests /\ requests \in Nat
    BY <1>1, AuditBounds DEF AuditInv, ThreadsOK
  <2>4. \A i \in 1..n : rows[i].fields[1] \in Nat /\ rows[i].fields[1] <= requests
    BY <1>4, <2>1, RowIds DEF OrderInv, RowsOrdered
  <2>5. \A i, j \in 1..n : i < j => rows[i].fields[1] <= rows[j].fields[1]
    BY <1>4, <2>1 DEF OrderInv, RowsOrdered
  <2>6. RowsOrdered'
    <3> HIDE DEF f
    <3>1. rows'[n + 1].fields[1] = requests
      BY <2>2, <2>3
    <3>2. \A i \in 1..n + 1 : i \in 1..n \/ i = n + 1
      BY <2>1
    <3>3. \A i \in 1..n + 1 : rows'[i].fields[1] <= requests
      BY <2>2, <2>3, <2>4, <3>1, <3>2
    <3>4. ASSUME NEW i \in 1..n + 1, NEW j \in 1..n + 1, i < j
          PROVE  rows'[i].fields[1] <= rows'[j].fields[1]
      <4>1. i \in 1..n
        BY <2>1, <3>4
      <4> QED
        BY <2>2, <2>4, <2>5, <3>1, <3>2, <3>4, <4>1
    <3> QED
      BY <1>1, <2>2, <3>3, <3>4 DEF RowsOrdered
  <2>7. \A r : RowsOf(r) # {} => RowsOf(r)' # {}
    <3>1. SUFFICES ASSUME NEW r, NEW i \in DOMAIN rows, rows[i].fields[1] = r
                   PROVE  i \in DOMAIN rows' /\ rows'[i].fields[1] = r
      BY DEF RowsOf
    <3> QED
      BY <2>1, <2>2, <3>1
  <2>8. RowsOf(job[t].id)' # {}
    BY <1>1, <2>1, <2>2, <2>3, SMTT(20) DEF RowsOf
  <2>9. RowsComplete'
    BY <1>1, <1>2, <1>4, <2>7, <2>8 DEF OrderInv, RowsComplete, Accounted
  <2> QED
    BY <2>6, <2>9
<1> QED
  BY <1>1, <1>3, <1>4 DEF OrderInv

\* A failed append excuses the newest request.
LEMMA AuditFailsKeepsOrder ==
  ASSUME AuditInv, OrderInv, NEW t \in Actor, AuditFails(t)
  PROVE  OrderInv'
<1>1. /\ job' = job /\ requests' = requests /\ rows' = rows
      /\ commits' = commits /\ excused' = excused \cup {job[t].id} /\ edits' = edits
  BY DEF AuditFails
<1>2. /\ \A u \in Actor \ {t} : pc[u] = "idle" /\ pc'[u] = "idle"
      /\ pc'[t] \in {"head", "unlock"} /\ pc[t] # "idle"
  BY AuditActors DEF AuditInv, ThreadsOK, MutexOK, AuditFails, Advance, Set
<1>3. NumberedOK'
  BY <1>1, <1>2, SMTT(20) DEF OrderInv, NumberedOK
<1>4. edits = 0 => RowsOrdered' /\ RowsComplete'
  BY <1>1, <1>2 DEF OrderInv, RowsOrdered, RowsComplete, Accounted, RowsOf
<1> QED
  BY <1>1, <1>3, <1>4 DEF OrderInv

\* Handlers that are gone are excused.
LEMMA ResetKeepsOrder ==
  ASSUME AuditInv, OrderInv, NEW T \in SUBSET Actor, Reset(T),
         \A u \in Actor \ T : pc[u] = "idle"
  PROVE  OrderInv'
<1>1. /\ \A u \in Actor : pc'[u] = "idle"
      /\ rows' = rows /\ requests' = requests /\ commits' = commits /\ edits' = edits
      /\ excused' = excused \cup {job[t].id : t \in {u \in T : job[u] # None}}
  BY DEF Reset
<1>2. \A u \in Actor : pc[u] # "idle" => job[u].id \in excused'
  <2>1. \A u \in Actor : pc[u] # "idle" => u \in T /\ job[u] # None
    BY NoneIsNoJob, AuditBounds DEF AuditInv, ThreadsOK, Job, Kind, Request
  <2> QED
    BY <1>1, <2>1
<1>3. NumberedOK'
  BY <1>1 DEF OrderInv, NumberedOK
<1>4. edits = 0 => RowsOrdered' /\ RowsComplete'
  BY <1>1, <1>2 DEF OrderInv, RowsOrdered, RowsComplete, Accounted, RowsOf
<1> QED
  BY <1>1, <1>3, <1>4 DEF OrderInv

\* The end of a handler: its change has its row or is excused by then.
LEMMA UnlockKeepsOrder ==
  ASSUME AuditInv, OrderInv, NEW t \in Actor, Unlock(t)
  PROVE  OrderInv'
<1>1. /\ rows' = rows /\ requests' = requests /\ commits' = commits
      /\ excused' = excused /\ edits' = edits /\ pc[t] = "unlock"
  BY DEF Unlock
<1>2. \A u \in Actor : pc'[u] = "idle" /\ (u # t => pc[u] = "idle")
  BY AuditActors DEF AuditInv, ThreadsOK, MutexOK, Unlock, Set
<1>3. NumberedOK'
  BY <1>1, <1>2 DEF OrderInv, NumberedOK
<1>4. edits = 0 => RowsOrdered' /\ RowsComplete'
  BY <1>1, <1>2 DEF OrderInv, RowsOrdered, RowsComplete, Accounted, RowsOf
<1> QED
  BY <1>1, <1>3, <1>4 DEF OrderInv

\* Steps that neither number, commit, append nor begin anything keep the order.
LEMMA QuietKeepsOrder ==
  ASSUME OrderInv, rows' = rows \/ edits' # 0, edits' = edits \/ edits' # 0,
         UNCHANGED <<requests, commits, excused, job>>,
         \A u \in Actor : pc'[u] = pc[u] \/ (pc[u] = "head" /\ pc'[u] = "insert")
  PROVE  OrderInv'
<1>1. NumberedOK'
  BY DEF OrderInv, NumberedOK
<1>2. ASSUME edits' = 0
      PROVE  RowsOrdered' /\ RowsComplete'
  <2>1. rows' = rows /\ edits = 0
    BY <1>2
  <2> QED
    BY <2>1 DEF OrderInv, RowsOrdered, RowsComplete, Accounted, RowsOf
<1> QED
  BY <1>1, <1>2 DEF OrderInv

\* Every step keeps the order of commits and rows.
LEMMA OrderInductive == AuditInv /\ OrderInv /\ [Next]_vars => OrderInv'
<1> SUFFICES ASSUME AuditInv, OrderInv, [Next]_vars PROVE OrderInv'
  OBVIOUS
<1>1. ASSUME NEW t \in Actor, ReadHead(t) PROVE OrderInv'
  <2>1. \A u \in Actor : pc'[u] = pc[u] \/ (pc[u] = "head" /\ pc'[u] = "insert")
    BY <1>1 DEF AuditInv, ThreadsOK, ReadHead, Set
  <2> QED
    BY <1>1, <2>1, QuietKeepsOrder DEF ReadHead
<1>2. ASSUME NEW t \in Actor, Panic(t) PROVE OrderInv'
  <2>1. \A u \in Actor \ {t} : pc[u] = "idle"
    BY <1>2, AuditActors DEF AuditInv, MutexOK, Panic
  <2> QED
    BY <1>2, <2>1, ResetKeepsOrder DEF Panic
<1>3. CASE Stop
  BY <1>3, ResetKeepsOrder DEF Stop
<1>4. CASE Start \/ UNCHANGED vars
  BY <1>4, QuietKeepsOrder DEF Start, vars, threadVars
<1>5. CASE EditLog
  <2>1. edits' # 0
    BY <1>5 DEF AuditInv, ThreadsOK, EditLog
  <2> QED
    BY <1>5, <2>1, QuietKeepsOrder DEF EditLog, threadVars
<1>6. ASSUME NEW t \in Actor, Begin(t) \/ HandlerStep(t) PROVE OrderInv'
  BY <1>1, <1>6, BeginKeepsOrder, DispatchKeepsOrder, InsertKeepsOrder,
     AuditFailsKeepsOrder, UnlockKeepsOrder DEF HandlerStep
<1> QED
  BY <1>2, <1>3, <1>4, <1>5, <1>6 DEF Next

\* Every committed change has its row unless a fault took it, and the rows are in
\* the order of the commits: handle audits under the lock it dispatched under.
THEOREM ChangesLogged == Spec => []ChangesAreLoggedInOrder
<1>1. Init => OrderInv
  <2> SUFFICES ASSUME Init PROVE OrderInv
    OBVIOUS
  <2>1. commits \in Seq(Request) /\ DOMAIN commits = {} /\ DOMAIN rows = {}
    BY DEF Init
  <2> QED
    BY <2>1 DEF Init, OrderInv, NumberedOK, RowsOrdered, RowsComplete
<1>2. AuditInv /\ OrderInv => ChangesAreLoggedInOrder
  <2> SUFFICES ASSUME AuditInv, OrderInv, edits = 0
               PROVE  ChangesAreLoggedInOrder
    BY DEF ChangesAreLoggedInOrder
  <2>1. \A t \in Actor : pc[t] # "idle" => job[t].id \in InHand
    BY NoneIsNoJob, AuditBounds DEF AuditInv, ThreadsOK, InHand, Job, Kind, Request
  <2>2. \A i \in DOMAIN commits :
          RowsOf(commits[i]) # {} \/ commits[i] \in excused \cup InHand
    BY <2>1 DEF OrderInv, RowsComplete, Accounted
  <2>3. ASSUME NEW i \in DOMAIN commits, NEW j \in DOMAIN commits, i < j,
               NEW a \in RowsOf(commits[i]), NEW b \in RowsOf(commits[j])
        PROVE  a < b
    <3>1. /\ a \in DOMAIN rows /\ rows[a].fields[1] = commits[i]
          /\ b \in DOMAIN rows /\ rows[b].fields[1] = commits[j]
      BY DEF RowsOf
    <3>2. /\ commits[i] < commits[j] /\ commits[i] \in Nat /\ commits[j] \in Nat
      BY <2>3, AuditBounds DEF OrderInv, NumberedOK, Request
    <3>3. a \in Nat /\ b \in Nat
      BY <3>1 DEF AuditInv, ChainOK
    <3>4. b < a \/ b = a => commits[j] <= commits[i]
      BY <3>1, <3>2 DEF OrderInv, RowsOrdered
    <3> QED
      BY <3>2, <3>3, <3>4
  <2> QED
    BY <2>2, <2>3 DEF ChangesAreLoggedInOrder
<1> QED
  BY AuditInitial, AuditInductive, OrderInductive, <1>1, <1>2, PTL DEF Spec

-----------------------------------------------------------------------------
(* What Valid says of a table that may have been edited.  An edit changes the   *)
(* columns a hash was taken of, or takes a row away, and never the hash: every  *)
(* row still carries the hash of what the node had written up to it.            *)

WrittenInv ==
  /\ rows \in Seq(AuditRow)
  /\ \A t \in Actor : pc[t] = "insert" => head[t] = Last
  /\ \A i \in DOMAIN rows : rows[i].hash = rows[i].written

\* A step that leaves the table alone, and lets nobody insert who has not just
\* read the head, keeps it.
LEMMA SameRowsKeep ==
  ASSUME WrittenInv, rows' = rows,
         \A u \in Actor : pc'[u] = "insert" =>
           head'[u] = Last \/ (pc[u] = "insert" /\ head'[u] = head[u])
  PROVE  WrittenInv'
<1>1. Last' = Last
  BY DEF Last
<1> QED
  BY <1>1 DEF WrittenInv

\* A row written after the last hash carries the hash of all that was written.
LEMMA InsertKeepsWritten ==
  ASSUME AuditInv, WrittenInv, NEW t \in Actor, Insert(t)
  PROVE  WrittenInv'
<1> DEFINE f == <<job[t].id, Head(todo[t]), Outcome(t)>>
           r == Row(Last, f)
           n == Len(rows)
<1>1. todo[t] \in Seq(Op) /\ todo[t] # <<>> /\ job[t] \in Job
  BY DEF AuditInv, ThreadsOK, Insert
<1>2. Tail(todo[t]) \in Seq(Op) /\ Head(todo[t]) \in Op
  BY <1>1
<1>3. f \in Fields
  BY <1>1, <1>2 DEF Fields, Outcome, Job
<1>4. \A u \in Actor : pc'[u] # "insert"
  BY <1>2, AdvanceKeepsThreads, Zenon DEF Insert
<1>5. rows' = Append(rows, r)
  BY DEF WrittenInv, Insert
<1>6. Last \in Hash /\ n \in Nat
  BY LastIsHash DEF WrittenInv
<1>7. (IF rows = <<>> THEN <<>> ELSE rows[n].written) = Last
  BY DEF WrittenInv, Last, ZeroHash
<1>8. r = [fields |-> f, prev |-> Last, hash |-> Append(Last, f), written |-> Append(Last, f)]
  BY <1>7, Zenon DEF Row, HashOf
<1>9. r \in AuditRow /\ r.hash = r.written
  <2> HIDE DEF f, r
  <2>1. Append(Last, f) \in Hash
    BY <1>3, <1>6 DEF Hash
  <2> QED
    BY <1>3, <1>6, <1>8, <2>1 DEF AuditRow
<1> HIDE DEF r
<1>10. /\ rows' \in Seq(AuditRow) /\ DOMAIN rows' = 1..n + 1
       /\ rows'[n + 1] = r /\ \A i \in 1..n : rows'[i] = rows[i]
  BY <1>5, <1>9 DEF WrittenInv
<1> QED
  BY <1>4, <1>6, <1>9, <1>10 DEF WrittenInv

\* Whoever edits the table leaves every hash that stays in it as it was.
LEMMA EditKeepsWritten ==
  ASSUME AuditInv, WrittenInv, EditLog
  PROVE  WrittenInv'
<1>1. \A t \in Actor : pc'[t] # "insert"
  BY AuditActors DEF AuditInv, MutexOK, EditLog, threadVars, Actor
<1>2. rows \in Seq(AuditRow) /\ Len(rows) \in Nat /\ DOMAIN rows = 1..Len(rows)
  BY DEF WrittenInv
<1>3. PICK i \in DOMAIN rows :
       \/ rows' = [rows EXCEPT ![i].fields[3] = IF @ = "ok" THEN "denied" ELSE "ok"]
       \/ rows' = [rows EXCEPT ![i].prev = IF i <= 2 THEN ZeroHash ELSE rows[i - 2].hash]
       \/ rows' = SubSeq(rows, 1, i - 1) \o SubSeq(rows, i + 1, Len(rows))
  BY Zenon DEF EditLog
<1>4. rows[i] \in AuditRow /\ \A j \in 1..Len(rows) : rows[j].hash = rows[j].written
  BY <1>2 DEF WrittenInv
<1>5. ASSUME NEW r \in AuditRow, r.hash = rows[i].hash, r.written = rows[i].written,
             rows' = [rows EXCEPT ![i] = r]
      PROVE  WrittenInv'
  <2>1. rows' \in Seq(AuditRow) /\ DOMAIN rows' = 1..Len(rows)
    BY <1>2, <1>5
  <2>2. \A j \in 1..Len(rows) : rows'[j].hash = rows'[j].written
    BY <1>2, <1>4, <1>5
  <2> QED
    BY <1>1, <2>1, <2>2 DEF WrittenInv
<1>6. CASE rows' = [rows EXCEPT ![i].fields[3] = IF @ = "ok" THEN "denied" ELSE "ok"]
  <2> DEFINE o == IF rows[i].fields[3] = "ok" THEN "denied" ELSE "ok"
             g == [rows[i].fields EXCEPT ![3] = o]
             r == [rows[i] EXCEPT !.fields = g]
  <2>1. rows[i].fields \in Fields
    BY <1>4 DEF AuditRow
  <2>2. o \in {"ok", "denied"}
    OBVIOUS
  <2>3. g \in Fields
    BY <2>1, <2>2 DEF Fields
  <2>4. rows' = [rows EXCEPT ![i] = r]
    BY <1>6, Zenon
  <2> HIDE DEF g
  <2>5. r \in AuditRow /\ r.hash = rows[i].hash /\ r.written = rows[i].written
    BY <1>4, <2>3 DEF AuditRow
  <2> QED
    BY <1>5, <2>4, <2>5, Zenon
<1>7. CASE rows' = [rows EXCEPT ![i].prev = IF i <= 2 THEN ZeroHash ELSE rows[i - 2].hash]
  <2> DEFINE p == IF i <= 2 THEN ZeroHash ELSE rows[i - 2].hash
             r == [rows[i] EXCEPT !.prev = p]
  <2>1. p \in Hash
    <3>1. ASSUME ~(i <= 2) PROVE rows[i - 2] \in AuditRow
      BY <1>2, <3>1
    <3> QED
      BY <3>1 DEF AuditRow, ZeroHash, Hash
  <2>2. rows' = [rows EXCEPT ![i] = r]
    BY <1>7, Zenon
  <2> HIDE DEF p
  <2>3. r \in AuditRow /\ r.hash = rows[i].hash /\ r.written = rows[i].written
    BY <1>4, <2>1 DEF AuditRow
  <2> QED
    BY <1>5, <2>2, <2>3, Zenon
<1>8. CASE rows' = SubSeq(rows, 1, i - 1) \o SubSeq(rows, i + 1, Len(rows))
  <2> DEFINE a == SubSeq(rows, 1, i - 1)
             b == SubSeq(rows, i + 1, Len(rows))
  <2>1. i \in 1..Len(rows)
    BY <1>2
  <2>2. /\ a \in Seq(AuditRow) /\ Len(a) = i - 1 /\ \A j \in 1..i - 1 : a[j] = rows[j]
    BY <1>2, <2>1, SubSeqProperties
  <2>3. /\ b \in Seq(AuditRow) /\ Len(b) = Len(rows) - i
        /\ \A j \in 1..Len(rows) - i : b[j] = rows[i + j]
    BY <1>2, <2>1, SubSeqProperties, SMTT(20)
  <2> HIDE DEF a, b
  <2>4. /\ rows' \in Seq(AuditRow) /\ Len(rows') = Len(rows) - 1
        /\ \A j \in 1..Len(rows) - 1 :
             rows'[j] = IF j <= i - 1 THEN a[j] ELSE b[j - (i - 1)]
    <3>1. rows' = a \o b
      BY <1>8, Zenon DEF a, b
    <3>2. /\ a \o b \in Seq(AuditRow) /\ Len(a \o b) = Len(a) + Len(b)
          /\ \A j \in 1..Len(a) + Len(b) :
               (a \o b)[j] = IF j <= Len(a) THEN a[j] ELSE b[j - Len(a)]
      BY <2>2, <2>3, ConcatProperties, Zenon
    <3>3. Len(a) + Len(b) = Len(rows) - 1
      BY <1>2, <2>1, <2>2, <2>3
    <3> QED
      BY <2>2, <3>1, <3>2, <3>3, Zenon
  <2>5. ASSUME NEW j \in 1..Len(rows) - 1 PROVE \E k \in 1..Len(rows) : rows'[j] = rows[k]
    <3>1. CASE j <= i - 1
      BY <1>2, <2>1, <2>2, <2>4, <3>1
    <3>2. CASE ~(j <= i - 1)
      <4>1. j - (i - 1) \in 1..Len(rows) - i /\ i + (j - (i - 1)) = j + 1
        BY <1>2, <2>1, <3>2
      <4>2. rows'[j] = b[j - (i - 1)]
        BY <2>4, <3>2, Zenon
      <4>3. b[j - (i - 1)] = rows[i + (j - (i - 1))]
        BY <2>3, <4>1, Zenon
      <4>4. j + 1 \in 1..Len(rows)
        BY <1>2
      <4> QED
        BY <4>1, <4>2, <4>3, <4>4, Zenon
    <3> QED
      BY <3>1, <3>2
  <2>6. \A j \in DOMAIN rows' : rows'[j].hash = rows'[j].written
    BY <1>2, <1>4, <2>4, <2>5
  <2> QED
    BY <1>1, <2>4, <2>6 DEF WrittenInv
<1> QED
  BY <1>3, <1>6, <1>7, <1>8, Zenon

\* Every step, edits from outside included, keeps hashes what they were.
LEMMA WrittenInductive == AuditInv /\ WrittenInv /\ [Next]_vars => WrittenInv'
<1> SUFFICES ASSUME AuditInv, WrittenInv, [Next]_vars PROVE WrittenInv'
  OBVIOUS
<1>1. ASSUME NEW t \in Actor, Begin(t) \/ Dispatch(t) \/ ReadHead(t) \/ Unlock(t)
      PROVE  WrittenInv'
  <2>1. rows' = rows
    BY <1>1 DEF Begin, Dispatch, ReadHead, Unlock
  <2>2. ASSUME NEW u \in Actor, pc'[u] = "insert"
        PROVE  head'[u] = Last \/ (pc[u] = "insert" /\ head'[u] = head[u])
    BY <1>1, <2>2 DEF AuditInv, ThreadsOK, Begin, Dispatch, ReadHead, Unlock, Set
  <2> QED
    BY <2>1, <2>2, SameRowsKeep
<1>2. ASSUME NEW t \in Actor, AuditFails(t) PROVE WrittenInv'
  <2>1. todo[t] \in Seq(Op) /\ todo[t] # <<>> /\ <<>> \in Seq(Op)
    BY <1>2 DEF AuditInv, ThreadsOK, AuditFails
  <2>2. (IF t = Cli THEN <<>> ELSE Tail(todo[t])) \in Seq(Op)
    BY <2>1
  <2>3. \A u \in Actor : pc'[u] # "insert"
    BY <1>2, <2>2, AdvanceKeepsThreads, Zenon DEF AuditFails
  <2> QED
    BY <1>2, <2>3, SameRowsKeep DEF AuditFails
<1>3. ASSUME NEW T \in SUBSET Actor, Reset(T) PROVE WrittenInv'
  <2>1. ASSUME NEW u \in Actor, pc'[u] = "insert"
        PROVE  pc[u] = "insert" /\ head'[u] = head[u]
    BY <1>3, <2>1 DEF Reset
  <2> QED
    BY <1>3, <2>1, SameRowsKeep DEF Reset
<1>4. ASSUME NEW t \in Actor, Begin(t) \/ HandlerStep(t) \/ Panic(t)
      PROVE  WrittenInv'
  BY <1>1, <1>2, <1>3, <1>4, InsertKeepsWritten DEF HandlerStep, Panic
<1>5. CASE Stop
  BY <1>3, <1>5 DEF Stop
<1>6. CASE Start \/ UNCHANGED vars
  BY <1>6, SameRowsKeep DEF Start, vars, threadVars
<1>7. CASE EditLog
  BY <1>7, EditKeepsWritten
<1> QED
  BY <1>4, <1>5, <1>6, <1>7 DEF Next

\* A set of natural numbers that is not empty has a least element.
LEMMA LeastRow ==
  ASSUME NEW T \in SUBSET Nat, T # {}
  PROVE  \E m \in T : \A n \in T : m <= n
<1> DEFINE R == OpToRel(<, Nat)
<1>1. IsWellFoundedOn(R, Nat)
  BY NatLessThanWellFounded, Zenon
<1>2. \A x, y \in Nat : <<x, y>> \in R <=> x < y
  BY DEF OpToRel
<1> HIDE DEF R
<1>3. PICK x \in T : \A y \in T : <<y, x>> \notin R
  BY <1>1, WFMin, Zenon
<1>4. \A y \in T : ~(y < x)
  BY <1>2, <1>3, Zenon
<1> QED
  BY <1>4

\* In a chain that verifies, the hash of a row lists the fields of the table up to
\* it: the first row for which it does not would follow one for which it does.
LEMMA ValidHashes ==
  ASSUME rows \in Seq(AuditRow), Valid
  PROVE  \A i \in DOMAIN rows : rows[i].hash = [j \in 1..i |-> rows[j].fields]
<1> DEFINE upTo(i) == [j \in 1..i |-> rows[j].fields]
           bad == {i \in 1..Len(rows) : rows[i].hash # upTo(i)}
<1>1. Len(rows) \in Nat /\ DOMAIN rows = 1..Len(rows)
  OBVIOUS
<1>2. \A i \in 1..Len(rows) : rows[i].fields \in Fields
  <2>1. \A i \in 1..Len(rows) : rows[i] \in AuditRow
    BY <1>1
  <2> QED
    BY <2>1 DEF AuditRow
<1>3. SUFFICES ASSUME bad # {} PROVE FALSE
  BY <1>1, Zenon
<1>4. bad \in SUBSET Nat
  BY <1>1
<1>5. PICK i \in bad : \A k \in bad : i <= k
  BY <1>3, <1>4, LeastRow, Zenon
<1>6. i \in 1..Len(rows) /\ rows[i].hash # upTo(i)
  OBVIOUS
<1>7. rows[i].hash = Append(PrevOf(i), rows[i].fields)
  BY <1>1, <1>6 DEF Valid, HashOf
<1>8. CASE i = 1
  <2>1. rows[i].hash = <<rows[1].fields>>
    BY <1>7, <1>8 DEF PrevOf, ZeroHash
  <2>2. upTo(1) = <<rows[1].fields>>
    OBVIOUS
  <2> QED
    BY <1>6, <1>8, <2>1, <2>2
<1>9. CASE i # 1
  <2>1. i - 1 \in 1..Len(rows) /\ i - 1 \in Nat /\ i \in Nat /\ ~(i <= i - 1)
    BY <1>1, <1>6, <1>9
  <2>2. rows[i - 1].hash = upTo(i - 1)
    BY <1>5, <2>1
  <2>3. PrevOf(i) = upTo(i - 1)
    BY <1>9, <2>2 DEF PrevOf
  <2>4. upTo(i - 1) \in Seq(Fields) /\ Len(upTo(i - 1)) = i - 1
    BY <1>1, <1>2, <1>6, <2>1
  <2>5. Append(upTo(i - 1), rows[i].fields) = upTo(i)
    BY <1>1, <1>2, <1>6, <2>1, <2>4
  <2> QED
    BY <1>6, <1>7, <2>3, <2>5
<1> QED
  BY <1>8, <1>9

\* verify_audit_chain finds every edit and every deletion but one at the tail: when
\* it says Valid, the rows are those the node wrote, as it wrote them, whatever was
\* done to the table and however the node went on appending to it.
THEOREM ValidAlwaysMeansIntact == Spec => []ValidMeansIntact
<1>1. Init => WrittenInv
  BY DEF Init, WrittenInv
<1>2. WrittenInv => ValidMeansIntact
  BY ValidHashes DEF WrittenInv, ValidMeansIntact
<1> QED
  BY AuditInitial, AuditInductive, WrittenInductive, <1>1, <1>2, PTL DEF Spec

\* Nothing ever has a value it should not have, in the edited table neither.
THEOREM AuditTypes == Spec => []TypeOK
<1>1. AuditInv /\ WrittenInv => TypeOK
  <2> SUFFICES ASSUME AuditInv, WrittenInv PROVE TypeOK
    OBVIOUS
  <2>1. \A i \in DOMAIN rows : rows[i].fields \in Fields
    <3>1. \A i \in DOMAIN rows : rows[i] \in AuditRow
      BY DEF WrittenInv
    <3> QED
      BY <3>1 DEF AuditRow
  <2>2. \A t \in Actor : \A i \in DOMAIN todo[t] : todo[t][i] \in Op
    BY DEF AuditInv, ThreadsOK
  <2> QED
    BY <2>1, <2>2, Zenon DEF AuditInv, ThreadsOK, TypeOK
<1>2. Init => WrittenInv
  BY DEF Init, WrittenInv
<1> QED
  BY AuditInitial, AuditInductive, WrittenInductive, <1>1, <1>2, PTL DEF Spec

=============================================================================
