-------------------------- MODULE EventStoreProofs --------------------------
(***************************************************************************)
(* Theorems about EventStore, for any number of sessions, dispatchers,      *)
(* objects, edges and events.                                               *)
(***************************************************************************)
EXTENDS EventStore, TLAPS

-----------------------------------------------------------------------------
(* The inductive invariant *)

\* What a session at statement p of transaction t has staged, in g, is what its
\* executed statements wrote.
StagedOf(p, t, g) ==
    /\ g.objects = IF p \in {"edges", "lock", "head", "append", "commit"} /\ t.writes = TRUE
                   THEN {RowOf(t)} ELSE {}
    /\ g.edges = IF p \in {"lock", "head", "append", "commit"} THEN t.edges ELSE {}
    /\ p # "commit" => g.events = {}
    /\ p \in {"read", "insert"} => t.writes = TRUE

StagedInv == \A s \in Sessions : StagedOf(pc[s], tx[s], staged[s])

\* The advisory lock is held from its acquisition to the end of the transaction.
LockInv == \A s \in Sessions : pc[s] \in {"head", "append", "commit"} <=> lock = s

\* h is the digest a new event must be chained onto.
IsHeadHash(h) == \/ domain_events = {} /\ h = Genesis
                 \/ \E row \in domain_events : IsHead(row) /\ h = row.content_hash

\* What the lock protects: the head a session has read is still the head, and
\* the row it has inserted is above every committed one and has a new event id.
HeadOf(p, t, g) ==
    /\ p \in {"append", "commit"} => IsHeadHash(g.prev_hash)
    /\ p = "commit" =>
        /\ ~EventIdTaken(t.event_id)
        /\ \E n \in 0 .. next_sequence - 1 :
            /\ \A row \in domain_events : row.sequence < n
            /\ g.events = {EventRowOf(t, n, g.prev_hash)}

LogInv ==
    /\ \A row \in domain_events : row.sequence < next_sequence
    /\ domain_events # {} => \E row \in domain_events : IsHead(row)
    /\ \A s \in Sessions : HeadOf(pc[s], tx[s], staged[s])

\* Revision n of object o is committed.
Committed(o, n) == \E row \in objects : row.id = o /\ row.revision = n

\* What a session relies on: the revision its transaction names or builds on is
\* committed, once it has looked.
BaseOf(p, t) ==
    /\ p # "idle" /\ t.writes = FALSE => Committed(t.object, t.expected)
    /\ p \notin {"idle", "read"} /\ t.writes = TRUE =>
           t.expected = 0 \/ Committed(t.object, t.expected)

\* What the primary key protects: a staged revision is nobody else's, committed or not.
KeyInv ==
    /\ \A s \in Sessions : BaseOf(pc[s], tx[s])
    /\ \A s \in Sessions : \A row \in staged[s].objects :
        /\ ~Committed(row.id, row.revision)
        /\ \A u \in Sessions \ {s} : \A other \in staged[u].objects :
               ~(other.id = row.id /\ other.revision = row.revision)

IInv == /\ TypeOK
        /\ StagedInv
        /\ LockInv
        /\ LogInv
        /\ KeyInv
        /\ ChainVerifies
        /\ OneWinnerPerRevision
        /\ ChangeHasItsEvent
-----------------------------------------------------------------------------
(* Type correctness *)

USE DEF InTransaction

LEMMA AbortType ==
    ASSUME TypeOK, NEW s \in Sessions, Abort(s)
    PROVE  /\ lock' \in Sessions \cup {None}
           /\ pc' \in [Sessions -> {"idle", "read", "insert", "edges", "lock", "head", "append", "commit"}]
           /\ tx' \in [Sessions -> Transaction \cup {NoTransaction}]
           /\ \A u \in InTransaction' : tx'[u] \in Transaction
           /\ staged' \in [Sessions -> Staged]
  <1>1. NothingStaged \in Staged
    BY DEF NothingStaged, Staged, Genesis, Hash
  <1>2. QED
    BY <1>1, EventStoreConstants DEF TypeOK, Abort

LEMMA EventOfType ==
    ASSUME NEW t \in Transaction
    PROVE  /\ EventOf(t) \in Event
           /\ _expected_new_revision(t) \in Nat \ {0}
  BY DEF EventOf, Transaction, Event, _expected_new_revision

LEMMA StagedUpdate ==
    ASSUME NEW f \in [Sessions -> Staged], NEW s \in Sessions
    PROVE  /\ \A X \in SUBSET ObjectRow : [f EXCEPT ![s].objects = X] \in [Sessions -> Staged]
           /\ \A X \in SUBSET Edges : [f EXCEPT ![s].edges = X] \in [Sessions -> Staged]
           /\ \A h \in Hash : [f EXCEPT ![s].prev_hash = h] \in [Sessions -> Staged]
           /\ \A X \in SUBSET EventRow : [f EXCEPT ![s].events = X] \in [Sessions -> Staged]
  BY DEF Staged

LEMMA StatementType ==
    ASSUME TypeOK, NEW s \in Sessions, Statement(s)
    PROVE  TypeOK'
  <1> USE DEF storeVars, dispatchVars
  <1>1. CASE ReadMax(s)
    BY <1>1, AbortType DEF TypeOK, ReadMax
  <1>2. CASE InsertObject(s)
    <2> DEFINE row == RowOf(tx[s])
    <2>1. tx[s] \in Transaction
      BY <1>2 DEF InsertObject, TypeOK
    <2>2. row \in ObjectRow
      BY <2>1, EventOfType DEF ObjectRow, Transaction, RowOf
    <2> HIDE DEF row
    <2>3. [staged EXCEPT ![s].objects = {row}] \in [Sessions -> Staged]
      <3>1. {row} \in SUBSET ObjectRow
        BY <2>2
      <3>2. staged \in [Sessions -> Staged]
        BY DEF TypeOK
      <3>3. QED
        BY <3>1, <3>2, StagedUpdate
    <2>4. AfterObject(tx[s]) \in {"edges", "lock"}
      BY DEF AfterObject
    <2>5. CASE Abort(s)
      BY <1>2, <2>5, AbortType DEF TypeOK, InsertObject
    <2>6. CASE /\ staged' = [staged EXCEPT ![s].objects = {row}]
               /\ pc' = [pc EXCEPT ![s] = AfterObject(tx[s])]
               /\ UNCHANGED <<lock, tx>>
      BY <1>2, <2>1, <2>3, <2>4, <2>6 DEF TypeOK, InsertObject
    <2>7. QED
      BY <1>2, <2>5, <2>6 DEF InsertObject, row
  <1>3. CASE InsertEdges(s)
    <2>1. tx[s] \in Transaction
      BY <1>3 DEF InsertEdges, TypeOK
    <2>2. [staged EXCEPT ![s].edges = tx[s].edges] \in [Sessions -> Staged]
      BY <2>1, StagedUpdate DEF TypeOK, Transaction
    <2>3. QED
      BY <1>3, <2>1, <2>2, AbortType DEF TypeOK, InsertEdges
  <1>4. CASE LockLog(s)
    BY <1>4 DEF TypeOK, LockLog
  <1>5. CASE ReadHead(s)
    <2>1. staged' \in [Sessions -> Staged]
      <3>1. Genesis \in Hash
        BY DEF Genesis, Hash
      <3>2. \A row \in domain_events : row.content_hash \in Hash
        BY DEF TypeOK, EventRow
      <3>3. QED
        BY <1>5, <3>1, <3>2, StagedUpdate DEF TypeOK, ReadHead
    <2>2. QED
      BY <1>5, <2>1 DEF TypeOK, ReadHead
  <1>6. CASE InsertEvent(s)
    <2> DEFINE row == EventRowOf(tx[s], next_sequence, staged[s].prev_hash)
    <2>1. tx[s] \in Transaction
      BY <1>6 DEF InsertEvent, TypeOK
    <2>2. staged[s].prev_hash \in Hash
      BY DEF TypeOK, Staged
    <2>3. compute_event_hash(EventOf(tx[s]), staged[s].prev_hash) \in Hash
      BY <2>1, <2>2, EventOfType DEF Hash, compute_event_hash
    <2>4. row \in EventRow
      BY <2>1, <2>2, <2>3, EventOfType DEF EventRow, EventRowOf, TypeOK
    <2> HIDE DEF row
    <2>5. [staged EXCEPT ![s].events = {row}] \in [Sessions -> Staged]
      <3>1. {row} \in SUBSET EventRow
        BY <2>4
      <3>2. staged \in [Sessions -> Staged]
        BY DEF TypeOK
      <3>3. QED
        BY <3>1, <3>2, StagedUpdate
    <2>6. next_sequence' \in Nat
      BY <1>6 DEF TypeOK, InsertEvent
    <2>7. CASE Abort(s)
      BY <1>6, <2>6, <2>7, AbortType DEF TypeOK, InsertEvent
    <2>8. CASE /\ staged' = [staged EXCEPT ![s].events = {row}]
               /\ pc' = [pc EXCEPT ![s] = "commit"]
               /\ UNCHANGED <<lock, tx>>
      BY <1>6, <2>1, <2>5, <2>6, <2>8 DEF TypeOK, InsertEvent
    <2>9. QED
      BY <1>6, <2>7, <2>8 DEF InsertEvent, row
  <1>7. CASE Commit(s)
    BY <1>7, AbortType DEF TypeOK, Commit, Staged, Transaction
  <1>8. QED
    BY <1>1, <1>2, <1>3, <1>4, <1>5, <1>6, <1>7 DEF Statement

LEMMA DispatchType ==
    ASSUME TypeOK, NEW d \in Dispatchers, Dispatch(d) \/ CrashDispatcher(d)
    PROVE  TypeOK'
  <1> USE DEF storeVars, sessionVars, TypeOK
  <1>1. CASE Poll(d)
    BY <1>1 DEF Poll, Pending
  <1>2. CASE CallHandler(d)
    BY <1>2 DEF CallHandler
  <1>3. CASE HandlerReturns(d)
    <2>1. current[d] \in EventIds
      BY <1>3 DEF HandlerReturns
    <2>2. QED
      BY <1>3, <2>1 DEF HandlerReturns
  <1>4. CASE HandlerRaises(d)
    BY <1>4 DEF HandlerRaises
  <1>5. CASE MarkDispatched(d)
    BY <1>5 DEF MarkDispatched, NextInBatch
  <1>6. CASE RecordFailedAttempt(d)
    BY <1>6 DEF RecordFailedAttempt, NextInBatch
  <1>7. CASE CrashDispatcher(d)
    BY <1>7 DEF CrashDispatcher
  <1>8. QED
    BY <1>1, <1>2, <1>3, <1>4, <1>5, <1>6, <1>7 DEF Dispatch
LEMMA TypeStep == TypeOK /\ [Next]_vars => TypeOK'
  <1> SUFFICES ASSUME TypeOK, [Next]_vars
               PROVE  TypeOK'
    OBVIOUS
  <1>1. ASSUME NEW s \in Sessions, NEW t \in Calls, Begin(s, t)
        PROVE  TypeOK'
    <2>1. t \in Transaction
      BY <1>1, EventStoreConstants DEF Transaction
    <2>2. AfterObject(t) \in {"edges", "lock"}
      BY DEF AfterObject
    <2>3. QED
      BY <1>1, <2>1, <2>2 DEF TypeOK, Begin, storeVars, dispatchVars
  <1>2. ASSUME NEW s \in Sessions, Statement(s)
        PROVE  TypeOK'
    BY <1>2, StatementType
  <1>3. ASSUME NEW s \in Sessions, Rollback(s)
        PROVE  TypeOK'
    BY <1>3, AbortType DEF TypeOK, Rollback, storeVars, dispatchVars
  <1>4. ASSUME NEW d \in Dispatchers, Dispatch(d) \/ CrashDispatcher(d)
        PROVE  TypeOK'
    BY <1>4, DispatchType
  <1>5. CASE UNCHANGED vars
    BY <1>5 DEF TypeOK, vars
  <1>6. QED
    BY <1>1, <1>2, <1>3, <1>4, <1>5 DEF Next

LEMMA TypeInit == Init => TypeOK
  <1>1. NothingStaged \in Staged
    BY DEF NothingStaged, Staged, Genesis, Hash
  <1>2. QED
    BY <1>1 DEF Init, TypeOK

\* Every variable keeps its type in every reachable state of the store, for any
\* number of sessions and dispatchers.
THEOREM TypeCorrect == Spec => []TypeOK
  BY TypeInit, TypeStep, PTL DEF Spec
-----------------------------------------------------------------------------
(* What a session has staged, and who holds the lock *)

\* An update of one field of one session's staged record changes nothing else.
LEMMA StagedFields ==
    ASSUME NEW f \in [Sessions -> Staged], NEW g, NEW s \in Sessions, NEW X
    PROVE  /\ g = [f EXCEPT ![s].objects = X] =>
                /\ g[s].objects = X /\ g[s].edges = f[s].edges
                /\ g[s].prev_hash = f[s].prev_hash /\ g[s].events = f[s].events
           /\ g = [f EXCEPT ![s].edges = X] =>
                /\ g[s].objects = f[s].objects /\ g[s].edges = X
                /\ g[s].prev_hash = f[s].prev_hash /\ g[s].events = f[s].events
           /\ g = [f EXCEPT ![s].prev_hash = X] =>
                /\ g[s].objects = f[s].objects /\ g[s].edges = f[s].edges
                /\ g[s].prev_hash = X /\ g[s].events = f[s].events
           /\ g = [f EXCEPT ![s].events = X] =>
                /\ g[s].objects = f[s].objects /\ g[s].edges = f[s].edges
                /\ g[s].prev_hash = f[s].prev_hash /\ g[s].events = X
  BY DEF Staged

\* A session that ends its transaction has nothing staged and not the lock.
LEMMA AbortLocal ==
    ASSUME TypeOK, StagedInv, LockInv, NEW s \in Sessions, Abort(s)
    PROVE  StagedInv' /\ LockInv'
  <1>1. /\ pc'[s] = "idle" /\ staged'[s] = NothingStaged /\ lock' # s
        /\ \A u \in Sessions \ {s} :
              /\ pc'[u] = pc[u] /\ staged'[u] = staged[u] /\ tx'[u] = tx[u]
              /\ lock' = u <=> lock = u
    BY EventStoreConstants DEF Abort, TypeOK
  <1>2. StagedInv'
    <2>1. StagedOf(pc'[s], tx'[s], staged'[s])
      BY <1>1 DEF StagedOf, NothingStaged
    <2>2. QED
      BY <1>1, <2>1 DEF StagedInv
  <1>3. LockInv'
    BY <1>1 DEF LockInv
  <1>4. QED
    BY <1>2, <1>3
\* A step of session s leaves every other session's state alone.
OthersUnchanged(s) ==
    \A u \in Sessions \ {s} : pc'[u] = pc[u] /\ tx'[u] = tx[u] /\ staged'[u] = staged[u]

SessionStep(s) == Statement(s) \/ Rollback(s) \/ \E t \in Calls : Begin(s, t)

LEMMA Frame ==
    ASSUME TypeOK, NEW s \in Sessions, SessionStep(s)
    PROVE  OthersUnchanged(s)
  <1> USE DEF OthersUnchanged, TypeOK
  <1>1. CASE Abort(s)
    BY <1>1 DEF Abort
  <1>2. CASE ReadMax(s)
    BY <1>1, <1>2 DEF ReadMax
  <1>3. CASE InsertObject(s)
    BY <1>1, <1>3 DEF InsertObject
  <1>4. CASE InsertEdges(s)
    BY <1>1, <1>4 DEF InsertEdges
  <1>5. CASE LockLog(s)
    BY <1>5 DEF LockLog
  <1>6. CASE ReadHead(s)
    BY <1>6 DEF ReadHead
  <1>7. CASE InsertEvent(s)
    BY <1>1, <1>7 DEF InsertEvent
  <1>8. CASE Commit(s)
    BY <1>1, <1>8 DEF Commit
  <1>9. CASE Rollback(s)
    BY <1>1, <1>9 DEF Rollback
  <1>10. CASE \E t \in Calls : Begin(s, t)
    BY <1>10 DEF Begin
  <1>11. QED
    BY <1>2, <1>3, <1>4, <1>5, <1>6, <1>7, <1>8, <1>9, <1>10 DEF SessionStep, Statement

\* What each statement does to its own session when it does not abort.
LEMMA LocalStep ==
    ASSUME TypeOK, StagedInv, LockInv, NEW s \in Sessions, SessionStep(s)
    PROVE  StagedInv' /\ LockInv'
  <1>1. OthersUnchanged(s)
    BY Frame
  <1>2. SUFFICES ASSUME ~Abort(s)
                 PROVE  /\ StagedOf(pc'[s], tx'[s], staged'[s])
                        /\ pc'[s] \in {"head", "append", "commit"} <=> lock' = s
                        /\ \A u \in Sessions \ {s} : lock' = u <=> lock = u
    BY <1>1, <1>2, AbortLocal DEF StagedInv, LockInv, OthersUnchanged
  <1>3. StagedOf(pc[s], tx[s], staged[s]) /\ (pc[s] \in {"head", "append", "commit"} <=> lock = s)
    BY DEF StagedInv, LockInv
  <1>4. staged[s] \in Staged
    BY DEF TypeOK
  <1>5. pc[s] # "idle" => tx[s] \in Transaction
    BY DEF TypeOK
  <1>6. CASE ReadMax(s)
    BY <1>2, <1>3, <1>6 DEF ReadMax, StagedOf, TypeOK
  <1>7. CASE InsertObject(s)
    <2>1. /\ pc[s] = "insert" /\ pc'[s] = AfterObject(tx[s])
          /\ tx'[s] = tx[s] /\ lock' = lock
          /\ staged'[s].objects = {RowOf(tx[s])} /\ staged'[s].edges = staged[s].edges
          /\ staged'[s].events = staged[s].events
      <3>1. staged' = [staged EXCEPT ![s].objects = {RowOf(tx[s])}]
        BY <1>2, <1>7 DEF InsertObject
      <3>2. QED
        BY <1>2, <1>7, <3>1, StagedFields DEF InsertObject, TypeOK
    <2>2. QED
      BY <1>3, <2>1 DEF StagedOf, AfterObject
  <1>8. CASE InsertEdges(s)
    <2>1. /\ pc[s] = "edges" /\ pc'[s] = "lock"
          /\ tx'[s] = tx[s] /\ lock' = lock
          /\ staged'[s].objects = staged[s].objects /\ staged'[s].edges = tx[s].edges
          /\ staged'[s].events = staged[s].events
      <3>1. staged' = [staged EXCEPT ![s].edges = tx[s].edges]
        BY <1>2, <1>8 DEF InsertEdges
      <3>2. QED
        BY <1>2, <1>8, <3>1, StagedFields DEF InsertEdges, TypeOK
    <2>2. QED
      BY <1>3, <2>1 DEF StagedOf
  <1>9. CASE LockLog(s)
    BY <1>3, <1>9, EventStoreConstants DEF LockLog, StagedOf, TypeOK
  <1>10. CASE ReadHead(s)
    <2>1. /\ pc[s] = "head" /\ pc'[s] = "append"
          /\ tx'[s] = tx[s] /\ lock' = lock
          /\ staged'[s].objects = staged[s].objects /\ staged'[s].edges = staged[s].edges
          /\ staged'[s].events = staged[s].events
      <3>1. PICK h : staged' = [staged EXCEPT ![s].prev_hash = h]
        BY <1>10 DEF ReadHead
      <3>2. QED
        BY <1>10, <3>1, StagedFields DEF ReadHead, TypeOK
    <2>2. QED
      BY <1>3, <2>1 DEF StagedOf
  <1>11. CASE InsertEvent(s)
    <2>1. /\ pc[s] = "append" /\ pc'[s] = "commit"
          /\ tx'[s] = tx[s] /\ lock' = lock
          /\ staged'[s].objects = staged[s].objects /\ staged'[s].edges = staged[s].edges
      <3>1. PICK X : staged' = [staged EXCEPT ![s].events = X]
        BY <1>2, <1>11 DEF InsertEvent
      <3>2. QED
        BY <1>2, <1>11, <3>1, StagedFields DEF InsertEvent, TypeOK
    <2>2. QED
      BY <1>3, <2>1 DEF StagedOf
  <1>12. CASE Commit(s) \/ Rollback(s)
    BY <1>2, <1>12 DEF Commit, Rollback
  <1>13. CASE \E t \in Calls : Begin(s, t)
    <2>1. PICK t \in Calls : Begin(s, t)
      BY <1>13
    <2>2. /\ pc[s] = "idle" /\ pc'[s] = IF t.writes THEN "read" ELSE AfterObject(t)
          /\ tx'[s] = t /\ lock' = lock /\ staged'[s] = staged[s]
      BY <2>1 DEF Begin, TypeOK
    <2>3. t.writes \in BOOLEAN
      BY <2>1, EventStoreConstants
    <2>4. QED
      BY <1>3, <2>2, <2>3 DEF StagedOf, AfterObject
  <1>14. QED
    BY <1>6, <1>7, <1>8, <1>9, <1>10, <1>11, <1>12, <1>13 DEF SessionStep, Statement
-----------------------------------------------------------------------------
(* The log: what the advisory lock buys *)

\* Only a session that commits changes `domain_events`.
LEMMA LogFrame ==
    ASSUME TypeOK, NEW s \in Sessions, SessionStep(s), ~Commit(s)
    PROVE  /\ domain_events' = domain_events /\ objects' = objects
           /\ edges' = edges /\ outbox' = outbox
           /\ next_sequence' = next_sequence \/ InsertEvent(s)
  <1> USE DEF storeVars
  <1>1. CASE InsertEvent(s)
    BY <1>1 DEF InsertEvent
  <1>2. CASE ~InsertEvent(s)
    BY <1>2 DEF SessionStep, Statement, Begin, ReadMax, InsertObject, InsertEdges,
                LockLog, ReadHead, Rollback
  <1>3. QED
    BY <1>1, <1>2

\* The row a committing session publishes is above every committed row, carries a
\* new event id, and is chained onto the head.
LEMMA CommitRow ==
    ASSUME IInv, NEW s \in Sessions, Commit(s)
    PROVE  \E n \in Nat, h \in Hash :
              /\ n < next_sequence
              /\ \A row \in domain_events : row.sequence < n
              /\ ~EventIdTaken(tx[s].event_id)
              /\ IsHeadHash(h)
              /\ EventRowOf(tx[s], n, h) \in EventRow
              /\ domain_events' = domain_events \cup {EventRowOf(tx[s], n, h)}
  <1>1. HeadOf(pc[s], tx[s], staged[s]) /\ pc[s] = "commit"
    BY DEF IInv, LogInv, Commit
  <1>2. PICK n \in 0 .. next_sequence - 1 :
            /\ \A row \in domain_events : row.sequence < n
            /\ staged[s].events = {EventRowOf(tx[s], n, staged[s].prev_hash)}
    BY <1>1 DEF HeadOf
  <1>3. staged[s].prev_hash \in Hash /\ staged[s].events \subseteq EventRow /\ next_sequence \in Nat
    BY DEF IInv, TypeOK, Staged
  <1>4. EventRowOf(tx[s], n, staged[s].prev_hash) \in EventRow
    BY <1>2, <1>3
  <1>5. QED
    BY <1>1, <1>2, <1>3, <1>4 DEF HeadOf, Commit

\* A new row above all others and chained onto the head keeps the chain.
LEMMA ChainExtends ==
    ASSUME ChainVerifies, TypeOK, NEW row \in EventRow,
           domain_events' = domain_events \cup {row},
           \A r \in domain_events : r.sequence < row.sequence,
           IsHeadHash(row.prev_hash),
           row.content_hash = compute_event_hash(row.event, row.prev_hash)
    PROVE  ChainVerifies' /\ IsHead(row)'
  <1>1. \A r \in domain_events : r.sequence \in Nat
    BY DEF TypeOK, EventRow
  <1>2. row.sequence \in Nat
    BY DEF EventRow
  <1>3. IsHead(row)'
    BY <1>1, <1>2 DEF IsHead
  <1>4. \A r, q \in domain_events' : r.sequence = q.sequence => r = q
    BY <1>1, <1>2 DEF ChainVerifies
  <1>5. ASSUME NEW r \in domain_events
        PROVE  /\ r.content_hash = compute_event_hash(r.event, r.prev_hash)
               /\ \/ \E before \in domain_events' :
                        Precedes(before, r)' /\ r.prev_hash = before.content_hash
                  \/ /\ \A other \in domain_events' : other.sequence >= r.sequence
                     /\ r.prev_hash = Genesis
    <2>1. CASE \E before \in domain_events :
                  Precedes(before, r) /\ r.prev_hash = before.content_hash
      BY <1>1, <1>2, <2>1 DEF Precedes, ChainVerifies, verify_chain
    <2>2. CASE /\ \A other \in domain_events : other.sequence >= r.sequence
               /\ r.prev_hash = Genesis
      BY <1>1, <1>2, <2>2 DEF ChainVerifies, verify_chain
    <2>3. QED
      BY <2>1, <2>2 DEF ChainVerifies, verify_chain
  <1>6. \/ \E before \in domain_events' :
              Precedes(before, row)' /\ row.prev_hash = before.content_hash
        \/ /\ \A other \in domain_events' : other.sequence >= row.sequence
           /\ row.prev_hash = Genesis
    <2>1. CASE domain_events = {} /\ row.prev_hash = Genesis
      BY <1>2, <2>1
    <2>2. CASE \E head \in domain_events : IsHead(head) /\ row.prev_hash = head.content_hash
      BY <1>1, <1>2, <2>2 DEF IsHead, Precedes
    <2>3. QED
      BY <2>1, <2>2 DEF IsHeadHash
  <1>7. verify_chain'
    BY <1>5, <1>6 DEF verify_chain
  <1>8. QED
    BY <1>3, <1>4, <1>7 DEF ChainVerifies
\* While one session is between taking the lock and ending its transaction, no
\* other session is.
LEMMA LockExcludes ==
    ASSUME LockInv, NEW s \in Sessions, pc[s] \in {"head", "append", "commit"},
           NEW u \in Sessions \ {s}
    PROVE  pc[u] \notin {"head", "append", "commit"}
  BY DEF LockInv

LEMMA LogStep ==
    ASSUME IInv, NEW s \in Sessions, SessionStep(s)
    PROVE  LogInv' /\ ChainVerifies'
  <1>1. OthersUnchanged(s)
    BY Frame DEF IInv
  <1>2. CASE Commit(s)
    <2>1. PICK n \in Nat, h \in Hash :
              /\ n < next_sequence
              /\ \A row \in domain_events : row.sequence < n
              /\ IsHeadHash(h)
              /\ EventRowOf(tx[s], n, h) \in EventRow
              /\ domain_events' = domain_events \cup {EventRowOf(tx[s], n, h)}
      BY <1>2, CommitRow
    <2>a. PICK row \in EventRow : row = EventRowOf(tx[s], n, h)
      BY <2>1
    <2>2. /\ row.sequence = n /\ row.prev_hash = h
          /\ row.content_hash = compute_event_hash(row.event, row.prev_hash)
      BY <2>a DEF EventRowOf
    <2>3. ChainVerifies' /\ IsHead(row)'
      BY <2>1, <2>a, <2>2, ChainExtends DEF IInv
    <2>4. \A r \in domain_events' : r.sequence < next_sequence'
      BY <1>2, <2>1, <2>a, <2>2 DEF IInv, LogInv, Commit
    <2>5. \E r \in domain_events' : IsHead(r)'
      BY <2>1, <2>a, <2>3
    <2>6. \A u \in Sessions : pc'[u] \notin {"head", "append", "commit"}
      <3>1. pc'[s] = "idle"
        BY <1>2 DEF Commit, Abort, IInv, TypeOK
      <3>2. QED
        BY <1>1, <1>2, <3>1, LockExcludes DEF OthersUnchanged, IInv, Commit
    <2>7. \A u \in Sessions : HeadOf(pc[u], tx[u], staged[u])'
      BY <2>6 DEF HeadOf
    <2>8. QED
      BY <2>3, <2>4, <2>5, <2>7 DEF LogInv
  <1>3. CASE ~Commit(s)
    <2>1. domain_events' = domain_events
      BY <1>3, LogFrame DEF IInv
    <2>2. ChainVerifies'
      BY <2>1 DEF IInv, ChainVerifies, verify_chain, Precedes
    <2>3. \A row : IsHead(row)' <=> IsHead(row)
      BY <2>1 DEF IsHead
    <2>4. \A h : IsHeadHash(h)' <=> IsHeadHash(h)
      BY <2>1, <2>3 DEF IsHeadHash
    <2>5. \A id : EventIdTaken(id)' <=> EventIdTaken(id)
      BY <2>1 DEF EventIdTaken
    <2>6. next_sequence \in Nat /\ \A row \in domain_events : row.sequence \in Nat
      BY DEF IInv, TypeOK, EventRow
    <2>7. next_sequence' \in {next_sequence, next_sequence + 1}
      BY <1>3, LogFrame DEF IInv, InsertEvent
    <2>8. \A row \in domain_events' : row.sequence < next_sequence'
      BY <2>1, <2>6, <2>7 DEF IInv, LogInv
    <2>9. \A u \in Sessions \ {s} : HeadOf(pc[u], tx[u], staged[u])'
      <3> SUFFICES ASSUME NEW u \in Sessions \ {s}
                   PROVE  HeadOf(pc[u], tx[u], staged[u])'
        OBVIOUS
      <3>1. pc'[u] = pc[u] /\ tx'[u] = tx[u] /\ staged'[u] = staged[u]
        BY <1>1 DEF OthersUnchanged
      <3>2. HeadOf(pc[u], tx[u], staged[u])
        BY DEF IInv, LogInv
      <3>3. \A k \in 0 .. next_sequence - 1 : k \in 0 .. next_sequence' - 1
        <4>1. next_sequence \in Nat
          BY <2>6
        <4>2. CASE next_sequence' = next_sequence
          BY <4>2
        <4>3. CASE next_sequence' = next_sequence + 1
          BY <4>1, <4>3
        <4>4. QED
          BY <2>7, <4>2, <4>3
      <3>4. QED
        BY <2>1, <2>4, <2>5, <3>1, <3>2, <3>3 DEF HeadOf
    <2>10. HeadOf(pc[s], tx[s], staged[s])'
      <3>1. CASE ReadHead(s)
        <4>1. pc'[s] = "append"
          BY <3>1 DEF ReadHead, IInv, TypeOK
        <4>2. PICK h : staged' = [staged EXCEPT ![s].prev_hash = h] /\ IsHeadHash(h)
          BY <3>1 DEF ReadHead, IsHeadHash
        <4>3. staged'[s].prev_hash = h
          BY <4>2, StagedFields DEF IInv, TypeOK
        <4>4. QED
          BY <2>4, <4>1, <4>2, <4>3 DEF HeadOf
      <3>2. CASE InsertEvent(s) /\ ~Abort(s)
        <4>1. /\ pc[s] = "append" /\ pc'[s] = "commit" /\ tx'[s] = tx[s]
              /\ next_sequence' = next_sequence + 1 /\ ~EventIdTaken(tx[s].event_id)
          BY <3>2 DEF InsertEvent, IInv, TypeOK
        <4>2. staged' = [staged EXCEPT ![s].events =
                            {EventRowOf(tx[s], next_sequence, staged[s].prev_hash)}]
          BY <3>2 DEF InsertEvent
        <4>3. /\ staged'[s].prev_hash = staged[s].prev_hash
              /\ staged'[s].events = {EventRowOf(tx[s], next_sequence, staged[s].prev_hash)}
          BY <4>2, StagedFields DEF IInv, TypeOK
        <4>4. IsHeadHash(staged[s].prev_hash)
          BY <4>1 DEF IInv, LogInv, HeadOf
        <4>5. next_sequence \in 0 .. next_sequence' - 1
          BY <2>6, <4>1
        <4>6. \A row \in domain_events' : row.sequence < next_sequence
          BY <2>1 DEF IInv, LogInv
        <4>7. QED
          BY <2>4, <2>5, <4>1, <4>3, <4>4, <4>5, <4>6 DEF HeadOf
      <3>3. CASE ~ReadHead(s) /\ ~(InsertEvent(s) /\ ~Abort(s))
        <4>1. pc'[s] \notin {"append", "commit"}
          <5>1. CASE Abort(s)
            BY <5>1 DEF Abort, IInv, TypeOK
          <5>2. CASE ~Abort(s)
            <6>1. AfterObject(tx[s]) \in {"edges", "lock"} /\ \A t : AfterObject(t) \in {"edges", "lock"}
              BY DEF AfterObject
            <6>2. QED
              BY <1>3, <3>3, <5>2, <6>1
                 DEF SessionStep, Statement, ReadMax, InsertObject, InsertEdges, LockLog,
                     Rollback, Begin, IInv, TypeOK
          <5>3. QED
            BY <5>1, <5>2
        <4>2. QED
          BY <4>1 DEF HeadOf
      <3>4. QED
        BY <3>1, <3>2, <3>3
    <2>11. domain_events' # {} => \E row \in domain_events' : IsHead(row)'
      BY <2>1, <2>3 DEF IInv, LogInv
    <2>12. QED
      BY <2>2, <2>8, <2>9, <2>10, <2>11 DEF LogInv
  <1>4. QED
    BY <1>2, <1>3
-----------------------------------------------------------------------------
(* Object revisions: what the belt check and the primary key buy *)

LEMMA BaseStep ==
    ASSUME IInv, NEW s \in Sessions, SessionStep(s)
    PROVE  \A u \in Sessions : BaseOf(pc[u], tx[u])'
  <1>1. OthersUnchanged(s)
    BY Frame DEF IInv
  <1>2. \A o, n : Committed(o, n) => Committed(o, n)'
    <2>1. objects \subseteq objects'
      BY LogFrame DEF Commit, IInv
    <2>2. QED
      BY <2>1 DEF Committed
  <1>3. \A u \in Sessions \ {s} : BaseOf(pc[u], tx[u])'
    BY <1>1, <1>2 DEF OthersUnchanged, IInv, KeyInv, BaseOf
  <1>4. BaseOf(pc[s], tx[s])
    BY DEF IInv, KeyInv
  <1>5. BaseOf(pc[s], tx[s])'
    <2>1. CASE Abort(s)
      BY <2>1 DEF Abort, BaseOf, IInv, TypeOK
    <2>2. CASE ReadMax(s) /\ ~Abort(s)
      <3>1. /\ pc[s] = "read" /\ tx'[s] = tx[s] /\ tx[s] \in Transaction
            /\ CurrentMaxIs(tx[s].object, tx[s].expected)
        BY <2>2 DEF ReadMax, IInv, TypeOK
      <3>2. tx[s].expected = 0 \/ Committed(tx[s].object, tx[s].expected)
        BY <3>1 DEF CurrentMaxIs, Committed, Transaction
      <3>3. tx[s].writes = TRUE
        BY <3>1 DEF IInv, StagedInv, StagedOf
      <3>4. QED
        BY <1>2, <3>1, <3>2, <3>3 DEF BaseOf
    <2>3. CASE \E t \in Calls : Begin(s, t)
      <3>1. PICK t \in Calls : Begin(s, t)
        BY <2>3
      <3>2. tx'[s] = t /\ pc'[s] = (IF t.writes THEN "read" ELSE AfterObject(t)) /\ t.writes \in BOOLEAN
        BY <3>1, EventStoreConstants DEF Begin, IInv, TypeOK
      <3>3. t.writes = TRUE \/ Committed(t.object, t.expected)
        BY <3>1, <3>2 DEF Begin, Committed
      <3>4. QED
        BY <1>2, <3>2, <3>3 DEF BaseOf
    <2>4. CASE ~ReadMax(s) /\ ~(\E t \in Calls : Begin(s, t)) /\ ~Abort(s)
      <3>1. tx'[s] = tx[s] /\ pc[s] \notin {"idle", "read"}
        BY <2>4 DEF SessionStep, Statement, InsertObject, InsertEdges, LockLog, ReadHead,
                    InsertEvent, Commit, Rollback, IInv, TypeOK
      <3>2. QED
        BY <1>2, <1>4, <3>1 DEF BaseOf
    <2>5. QED
      BY <2>1, <2>2, <2>3, <2>4
  <1>6. QED
    BY <1>3, <1>5

LEMMA KeyStep ==
    ASSUME IInv, NEW s \in Sessions, SessionStep(s)
    PROVE  KeyInv' /\ OneWinnerPerRevision'
  <1>1. OthersUnchanged(s)
    BY Frame DEF IInv
  <1>2. \A u \in Sessions : BaseOf(pc[u], tx[u])'
    BY BaseStep
  <1>3. CASE Commit(s)
    <2>1. /\ objects' = objects \cup staged[s].objects
          /\ staged'[s].objects = {}
      BY <1>3 DEF Commit, Abort, IInv, TypeOK, NothingStaged
    <2>2. \A u \in Sessions : \A row \in staged'[u].objects :
            /\ ~Committed(row.id, row.revision)'
            /\ \A v \in Sessions \ {u} : \A other \in staged'[v].objects :
                   ~(other.id = row.id /\ other.revision = row.revision)
      BY <1>1, <2>1 DEF IInv, KeyInv, Committed, OthersUnchanged
    <2>3. /\ tx[s] \in Transaction
          /\ pc[s] = "commit"
          /\ staged[s].objects = IF tx[s].writes = TRUE THEN {RowOf(tx[s])} ELSE {}
      BY <1>3 DEF Commit, IInv, TypeOK, StagedInv, StagedOf
    <2>4. \A row \in staged[s].objects :
            /\ row = RowOf(tx[s])
            /\ row.revision = tx[s].expected + 1 /\ row.id = tx[s].object
            /\ tx[s].expected = 0 \/ Committed(tx[s].object, tx[s].expected)
            /\ ~Committed(row.id, row.revision)
      BY <2>3 DEF RowOf, _expected_new_revision, IInv, KeyInv, BaseOf
    <2>5. tx[s].expected \in Nat
      BY <2>3 DEF Transaction
    <2>6. ASSUME NEW row \in objects'
          PROVE  /\ row.revision > 1 =>
                      \E base \in objects' : base.id = row.id /\ base.revision = row.revision - 1
                 /\ row.revision >= 1
      <3>1. CASE row \in objects
        BY <2>1, <3>1 DEF IInv, OneWinnerPerRevision
      <3>2. CASE row \in staged[s].objects
        <4>1. /\ row.revision = tx[s].expected + 1 /\ row.id = tx[s].object
              /\ tx[s].expected = 0 \/ Committed(tx[s].object, tx[s].expected)
          BY <2>4, <3>2
        <4>2. row.revision >= 1 /\ row.revision - 1 = tx[s].expected
          BY <2>5, <4>1
        <4>3. ASSUME row.revision > 1
              PROVE  \E base \in objects : base.id = row.id /\ base.revision = row.revision - 1
          BY <2>5, <4>1, <4>2, <4>3 DEF Committed
        <4>4. QED
          BY <2>1, <4>2, <4>3
      <3>3. QED
        BY <2>1, <3>1, <3>2
    <2>7. \A row, other \in objects' :
            other.id = row.id /\ other.revision = row.revision => other = row
      BY <2>1, <2>4 DEF IInv, OneWinnerPerRevision, Committed
    <2>8. QED
      BY <1>2, <2>2, <2>6, <2>7 DEF KeyInv, OneWinnerPerRevision
  <1>4. CASE ~Commit(s)
    <2>1. objects' = objects
      BY <1>4, LogFrame DEF IInv
    <2>2. OneWinnerPerRevision'
      BY <2>1 DEF IInv, OneWinnerPerRevision
    <2>3. \A o, n : Committed(o, n)' <=> Committed(o, n)
      BY <2>1 DEF Committed
    <2>4. CASE staged'[s].objects \subseteq staged[s].objects
      BY <1>1, <1>2, <2>2, <2>3, <2>4 DEF IInv, KeyInv, OthersUnchanged
    <2>5. CASE InsertObject(s) /\ ~Abort(s)
      <3>1. staged' = [staged EXCEPT ![s].objects = {RowOf(tx[s])}]
        BY <2>5 DEF InsertObject
      <3>2. staged'[s].objects = {RowOf(tx[s])}
        BY <3>1, StagedFields DEF IInv, TypeOK
      <3>3. /\ \A row \in objects : ~SameKey(row, tx[s])
            /\ \A u \in Sessions \ {s} : \A row \in staged[u].objects : ~SameKey(row, tx[s])
        BY <2>5 DEF InsertObject, ObjectKeyHeld
      <3>4. RowOf(tx[s]).id = tx[s].object /\ RowOf(tx[s]).revision = _expected_new_revision(tx[s])
        BY DEF RowOf
      <3>5. \A row \in staged'[s].objects :
              /\ ~Committed(row.id, row.revision)
              /\ \A u \in Sessions \ {s} : \A other \in staged'[u].objects :
                     ~(other.id = row.id /\ other.revision = row.revision)
        BY <1>1, <3>2, <3>3, <3>4 DEF SameKey, Committed, OthersUnchanged
      <3>6. \A u \in Sessions \ {s} : \A row \in staged'[u].objects :
              /\ ~Committed(row.id, row.revision)
              /\ \A v \in Sessions \ {u} : \A other \in staged'[v].objects :
                     ~(other.id = row.id /\ other.revision = row.revision)
        BY <1>1, <3>5 DEF IInv, KeyInv, OthersUnchanged
      <3>7. QED
        BY <1>2, <2>2, <2>3, <3>5, <3>6 DEF KeyInv
    <2>6. CASE ~(InsertObject(s) /\ ~Abort(s))
      <3>1. staged'[s].objects \subseteq staged[s].objects
        <4>1. CASE Abort(s)
          BY <4>1 DEF Abort, NothingStaged, IInv, TypeOK
        <4>2. CASE ReadMax(s) \/ LockLog(s) \/ Rollback(s) \/ \E t \in Calls : Begin(s, t)
          BY <4>1, <4>2 DEF ReadMax, LockLog, Rollback, Begin
        <4>3. CASE InsertEdges(s)
          <5>1. CASE staged' = [staged EXCEPT ![s].edges = tx[s].edges]
            BY <5>1, StagedFields DEF IInv, TypeOK
          <5>2. QED
            BY <4>1, <4>3, <5>1 DEF InsertEdges
        <4>4. CASE ReadHead(s)
          <5>1. PICK h : staged' = [staged EXCEPT ![s].prev_hash = h]
            BY <4>4 DEF ReadHead
          <5>2. QED
            BY <5>1, StagedFields DEF IInv, TypeOK
        <4>5. CASE InsertEvent(s)
          <5>1. CASE \E X : staged' = [staged EXCEPT ![s].events = X]
            BY <5>1, StagedFields DEF IInv, TypeOK
          <5>2. QED
            BY <4>1, <4>5, <5>1 DEF InsertEvent
        <4>6. QED
          BY <1>4, <2>6, <4>1, <4>2, <4>3, <4>4, <4>5 DEF SessionStep, Statement
      <3>2. QED
        BY <2>4, <3>1
    <2>7. QED
      BY <2>5, <2>6
  <1>5. QED
    BY <1>3, <1>4
-----------------------------------------------------------------------------
(* Object revisions, events and outbox rows stay together *)

LEMMA ChangeStep ==
    ASSUME IInv, NEW s \in Sessions, SessionStep(s)
    PROVE  ChangeHasItsEvent'
  <1>1. CASE ~Commit(s)
    BY <1>1, LogFrame DEF IInv, ChangeHasItsEvent
  <1>2. CASE Commit(s)
    <2>1. PICK n \in Nat, h \in Hash :
              /\ EventRowOf(tx[s], n, h) \in EventRow
              /\ domain_events' = domain_events \cup {EventRowOf(tx[s], n, h)}
      BY <1>2, CommitRow
    <2>2. PICK new \in EventRow : new = EventRowOf(tx[s], n, h)
      BY <2>1
    <2>3. tx[s] \in Transaction /\ pc[s] = "commit"
      BY <1>2 DEF Commit, IInv, TypeOK
    <2>4. /\ new.event.id = tx[s].event_id
          /\ new.event.object_id = tx[s].object
          /\ new.event.object_revision = IF tx[s].writes THEN tx[s].expected + 1 ELSE tx[s].expected
      BY <2>2 DEF EventRowOf, EventOf, _expected_new_revision
    <2>5. /\ objects' = objects \cup staged[s].objects
          /\ staged[s].objects = IF tx[s].writes = TRUE THEN {RowOf(tx[s])} ELSE {}
      BY <1>2, <2>3 DEF Commit, IInv, StagedInv, StagedOf
    <2>6. /\ RowOf(tx[s]).id = tx[s].object /\ RowOf(tx[s]).content = tx[s].event_id
          /\ RowOf(tx[s]).revision = tx[s].expected + 1
      BY DEF RowOf, _expected_new_revision
    <2>7. tx[s].writes \in BOOLEAN
      BY <2>3 DEF Transaction
    <2>8. \A row \in objects' : \E r \in domain_events' :
             /\ r.event.id = row.content
             /\ r.event.object_id = row.id
             /\ r.event.object_revision = row.revision
      <3>1. ASSUME NEW row \in objects
            PROVE  \E r \in domain_events' :
                     /\ r.event.id = row.content
                     /\ r.event.object_id = row.id
                     /\ r.event.object_revision = row.revision
        BY <2>1, <3>1 DEF IInv, ChangeHasItsEvent
      <3>2. ASSUME NEW row \in staged[s].objects
            PROVE  \E r \in domain_events' :
                     /\ r.event.id = row.content
                     /\ r.event.object_id = row.id
                     /\ r.event.object_revision = row.revision
        <4>1. row = RowOf(tx[s]) /\ tx[s].writes = TRUE
          BY <2>5, <3>2
        <4>2. new \in domain_events'
          BY <2>1, <2>2
        <4>3. QED
          BY <2>4, <2>6, <4>1, <4>2
      <3>3. QED
        BY <2>5, <3>1, <3>2
    <2>9. \A r \in domain_events' : \E row \in objects' :
             row.id = r.event.object_id /\ row.revision = r.event.object_revision
      <3>1. ASSUME NEW r \in domain_events
            PROVE  \E row \in objects' :
                     row.id = r.event.object_id /\ row.revision = r.event.object_revision
        BY <2>5, <3>1 DEF IInv, ChangeHasItsEvent
      <3>2. \E row \in objects' :
               row.id = new.event.object_id /\ row.revision = new.event.object_revision
        <4>1. CASE tx[s].writes = TRUE
          BY <2>4, <2>5, <2>6, <4>1
        <4>2. CASE tx[s].writes = FALSE
          <5>1. Committed(tx[s].object, tx[s].expected)
            BY <2>3, <4>2 DEF IInv, KeyInv, BaseOf
          <5>2. QED
            BY <2>4, <2>5, <4>2, <5>1 DEF Committed
        <4>3. QED
          BY <2>7, <4>1, <4>2
      <3>3. QED
        BY <2>1, <2>2, <3>1, <3>2
    <2>10. DOMAIN outbox' = {r.event.id : r \in domain_events'}
      <3>1. DOMAIN outbox' = DOMAIN outbox \cup {tx[s].event_id}
        BY <1>2 DEF Commit
      <3>2. domain_events' = domain_events \cup {new}
        BY <2>1, <2>2
      <3>3. DOMAIN outbox = {r.event.id : r \in domain_events}
        BY DEF IInv, ChangeHasItsEvent
      <3>4. QED
        BY <2>4, <3>1, <3>2, <3>3
    <2>11. QED
      BY <2>8, <2>9, <2>10 DEF ChangeHasItsEvent
  <1>3. QED
    BY <1>1, <1>2

LEMMA IInvInit == Init => IInv
  <1> SUFFICES ASSUME Init PROVE IInv
    OBVIOUS
  <1>1. TypeOK
    BY TypeInit
  <1>2. \A s \in Sessions : pc[s] = "idle" /\ staged[s] = NothingStaged
    BY DEF Init
  <1>3. StagedInv
    BY <1>2 DEF StagedInv, StagedOf, NothingStaged
  <1>4. LockInv
    BY <1>2, EventStoreConstants DEF LockInv, Init
  <1>5. LogInv
    BY <1>2 DEF LogInv, HeadOf, Init
  <1>6. KeyInv
    BY <1>2 DEF KeyInv, BaseOf, NothingStaged
  <1>7. ChainVerifies /\ OneWinnerPerRevision /\ ChangeHasItsEvent
    BY DEF Init, ChainVerifies, verify_chain, OneWinnerPerRevision, ChangeHasItsEvent
  <1>8. QED
    BY <1>1, <1>3, <1>4, <1>5, <1>6, <1>7 DEF IInv

LEMMA IInvStep == IInv /\ [Next]_vars => IInv'
  <1> SUFFICES ASSUME IInv, [Next]_vars
               PROVE  IInv'
    OBVIOUS
  <1>1. TypeOK'
    BY TypeStep DEF IInv
  <1>2. ASSUME NEW s \in Sessions, SessionStep(s)
        PROVE  IInv'
    BY <1>1, <1>2, LocalStep, LogStep, KeyStep, ChangeStep DEF IInv
  <1>3. ASSUME UNCHANGED <<objects, edges, domain_events, next_sequence, lock, pc, tx, staged>>,
               DOMAIN outbox' = DOMAIN outbox
        PROVE  IInv'
    <2>1. StagedInv' /\ LockInv'
      BY <1>3 DEF IInv, StagedInv, StagedOf, LockInv
    <2>2. LogInv'
      BY <1>3 DEF IInv, LogInv, HeadOf, IsHeadHash, IsHead, EventIdTaken
    <2>3. KeyInv'
      BY <1>3 DEF IInv, KeyInv, BaseOf, Committed
    <2>4. ChainVerifies' /\ OneWinnerPerRevision' /\ ChangeHasItsEvent'
      BY <1>3 DEF IInv, ChainVerifies, verify_chain, Precedes, OneWinnerPerRevision,
                  ChangeHasItsEvent
    <2>5. QED
      BY <1>1, <2>1, <2>2, <2>3, <2>4 DEF IInv
  <1>4. ASSUME NEW d \in Dispatchers, Dispatch(d) \/ CrashDispatcher(d)
        PROVE  IInv'
    <2>1. UNCHANGED <<objects, edges, domain_events, next_sequence, lock, pc, tx, staged>>
      BY <1>4 DEF Dispatch, Poll, CallHandler, HandlerReturns, HandlerRaises, MarkDispatched,
                  RecordFailedAttempt, CrashDispatcher, storeVars, sessionVars
    <2>2. DOMAIN outbox' = DOMAIN outbox
      BY <1>4 DEF Dispatch, Poll, CallHandler, HandlerReturns, HandlerRaises, MarkDispatched,
                  RecordFailedAttempt, CrashDispatcher, storeVars, sessionVars, IInv, TypeOK
    <2>3. QED
      BY <1>3, <2>1, <2>2
  <1>5. CASE UNCHANGED vars
    BY <1>3, <1>5 DEF vars
  <1>6. QED
    BY <1>2, <1>4, <1>5 DEF Next, SessionStep

LEMMA IInvHolds == Spec => []IInv
  BY IInvInit, IInvStep, PTL DEF Spec

\* The hash chain of the committed log verifies in every reachable state, however
\* many sessions append concurrently (PostgresEventLog.append).
THEOREM ChainAlwaysVerifies == Spec => []ChainVerifies
  <1>1. IInv => ChainVerifies
    BY DEF IInv
  <1>2. QED
    BY <1>1, IInvHolds, PTL

\* Of the writers that expect the same revision one wins, and revisions have no
\* gaps (PostgresObjectRepository._insert_revision_core).
THEOREM OneWinner == Spec => []OneWinnerPerRevision
  <1>1. IInv => OneWinnerPerRevision
    BY DEF IInv
  <1>2. QED
    BY <1>1, IInvHolds, PTL

\* A committed change and its event are never apart (the unit of work).
THEOREM ChangesKeepTheirEvents == Spec => []ChangeHasItsEvent
  <1>1. IInv => ChangeHasItsEvent
    BY DEF IInv
  <1>2. QED
    BY <1>1, IInvHolds, PTL

\* Nothing committed is changed, and events appear in sequence order
\* (MRR-NFR-002).
THEOREM StoreIsAppendOnly == Spec => AppendOnly
  <1>1. IInv /\ [Next]_vars =>
          [ /\ objects \subseteq objects'
            /\ edges \subseteq edges'
            /\ domain_events \subseteq domain_events'
            /\ \A new \in domain_events' \ domain_events :
                  \A old \in domain_events : old.sequence < new.sequence ]_vars
    <2> SUFFICES ASSUME IInv, [Next]_vars, ~UNCHANGED vars
                 PROVE  /\ objects \subseteq objects'
                        /\ edges \subseteq edges'
                        /\ domain_events \subseteq domain_events'
                        /\ \A new \in domain_events' \ domain_events :
                              \A old \in domain_events : old.sequence < new.sequence
      OBVIOUS
    <2>1. ASSUME NEW s \in Sessions, Commit(s)
          PROVE  /\ objects \subseteq objects' /\ edges \subseteq edges'
                 /\ domain_events \subseteq domain_events'
                 /\ \A new \in domain_events' \ domain_events :
                       \A old \in domain_events : old.sequence < new.sequence
      <3>1. PICK n \in Nat, h \in Hash :
                /\ \A row \in domain_events : row.sequence < n
                /\ domain_events' = domain_events \cup {EventRowOf(tx[s], n, h)}
        BY <2>1, CommitRow
      <3>2. EventRowOf(tx[s], n, h).sequence = n
        BY DEF EventRowOf
      <3>3. QED
        BY <2>1, <3>1, <3>2 DEF Commit
    <2>2. ASSUME NEW s \in Sessions, SessionStep(s), ~Commit(s)
          PROVE  UNCHANGED <<objects, edges, domain_events>>
      BY <2>2, LogFrame DEF IInv
    <2>3. ASSUME NEW d \in Dispatchers, Dispatch(d) \/ CrashDispatcher(d)
          PROVE  UNCHANGED <<objects, edges, domain_events>>
      BY <2>3 DEF Dispatch, Poll, CallHandler, HandlerReturns, HandlerRaises, MarkDispatched,
                  RecordFailedAttempt, CrashDispatcher, storeVars, sessionVars
    <2>4. QED
      BY <2>1, <2>2, <2>3 DEF Next, SessionStep
  <1>2. QED
    BY <1>1, IInvHolds, PTL DEF Spec, AppendOnly

-----------------------------------------------------------------------------
(* What the refinement rests on *)

\* What the primary key of `edges` protects.
EdgeKeyInv ==
    \A s \in Sessions :
        /\ staged[s].edges \cap edges = {}
        /\ \A u \in Sessions \ {s} : staged[s].edges \cap staged[u].edges = {}

\* A transaction is one of the calls.
CallInv == \A s \in Sessions : pc[s] # "idle" => tx[s] \in Calls

\* The revisions of an object are 1 .. n.
GapFree ==
    \A o \in Objects : \E n \in 0 .. MaxRevision + 1 :
        CurrentMaxIs(o, n) /\ \A k \in 1 .. n : Committed(o, k)

\* The digests hold events that are in the log.
HashesHoldEvents ==
    \A row \in domain_events : \A i \in 1 .. Len(row.content_hash) :
        \E r \in domain_events : r.event.id = row.content_hash[i].id

RInv == IInv /\ EdgeKeyInv /\ CallInv /\ GapFree /\ HashesHoldEvents

LEMMA EdgeKeyStep ==
    ASSUME RInv, NEW s \in Sessions, SessionStep(s)
    PROVE  EdgeKeyInv'
  <1>1. OthersUnchanged(s)
    BY Frame DEF RInv, IInv
  <1>2. /\ staged \in [Sessions -> Staged] /\ tx \in [Sessions -> Transaction \cup {NoTransaction}]
        /\ EdgeKeyInv /\ TypeOK
    BY DEF RInv, IInv, TypeOK
  <1>3. /\ \A u \in Sessions \ {s} : staged'[u].edges = staged[u].edges
        /\ \A u \in Sessions \ {s} : \A v \in Sessions \ {s, u} : staged[u].edges \cap staged[v].edges = {}
    BY <1>1, <1>2 DEF OthersUnchanged, EdgeKeyInv
  <1>4. CASE Commit(s)
    <2>1. edges' = edges \cup staged[s].edges /\ staged'[s].edges = {}
      BY <1>2, <1>4 DEF Commit, Abort, NothingStaged
    <2> QED
      BY <1>2, <1>3, <2>1 DEF EdgeKeyInv
  <1>5. CASE ~Commit(s)
    <2>1. edges' = edges
      BY <1>2, <1>5, LogFrame
    <2>2. \/ staged'[s].edges = {} \/ staged'[s].edges = staged[s].edges
          \/ /\ staged'[s].edges \cap edges = {}
             /\ \A u \in Sessions \ {s} : staged'[s].edges \cap staged[u].edges = {}
      <3>1. CASE Abort(s)
        BY <1>2, <3>1 DEF Abort, NothingStaged
      <3>2. CASE InsertEdges(s) /\ ~Abort(s)
        <4>1. staged' = [staged EXCEPT ![s].edges = tx[s].edges] /\ tx[s].edges \cap edges = {}
          BY <3>2 DEF InsertEdges
        <4>2. staged'[s].edges = tx[s].edges
          BY <1>2, <4>1, StagedFields
        <4> QED
          BY <3>2, <4>1, <4>2 DEF InsertEdges, EdgeKeyHeld
      <3>3. CASE InsertObject(s) /\ ~Abort(s)
        <4>1. PICK X : staged' = [staged EXCEPT ![s].objects = X]
          BY <3>3 DEF InsertObject
        <4> QED
          BY <1>2, <4>1, StagedFields
      <3>4. CASE ReadHead(s)
        <4>1. PICK h : staged' = [staged EXCEPT ![s].prev_hash = h]
          BY <3>4 DEF ReadHead
        <4> QED
          BY <1>2, <4>1, StagedFields
      <3>5. CASE InsertEvent(s) /\ ~Abort(s)
        <4>1. PICK X : staged' = [staged EXCEPT ![s].events = X]
          BY <3>5 DEF InsertEvent
        <4> QED
          BY <1>2, <4>1, StagedFields
      <3>6. CASE ReadMax(s) /\ ~Abort(s)
        BY <3>6 DEF ReadMax
      <3>7. CASE LockLog(s) \/ \E t \in Calls : Begin(s, t)
        BY <3>7 DEF LockLog, Begin
      <3> QED
        BY <1>5, <3>1, <3>2, <3>3, <3>4, <3>5, <3>6, <3>7 DEF SessionStep, Statement, Rollback
    <2> QED
      BY <1>2, <1>3, <2>1, <2>2 DEF EdgeKeyInv
  <1> QED
    BY <1>4, <1>5

LEMMA CallStep ==
    ASSUME RInv, NEW s \in Sessions, SessionStep(s)
    PROVE  CallInv'
  <1>1. OthersUnchanged(s)
    BY Frame DEF RInv, IInv
  <1>2. tx \in [Sessions -> Transaction \cup {NoTransaction}] /\ CallInv /\ TypeOK
    BY DEF RInv, IInv, TypeOK
  <1>3. CASE Abort(s)
    BY <1>1, <1>2, <1>3 DEF Abort, TypeOK, CallInv, OthersUnchanged
  <1>4. CASE \E t \in Calls : Begin(s, t)
    BY <1>1, <1>2, <1>4 DEF Begin, TypeOK, CallInv, OthersUnchanged
  <1>5. CASE Statement(s) /\ ~Abort(s)
    <2>1. tx' = tx /\ pc[s] # "idle"
      BY <1>5 DEF Statement, ReadMax, InsertObject, InsertEdges, LockLog, ReadHead, InsertEvent, Commit
    <2> QED
      BY <1>1, <1>2, <2>1 DEF CallInv, OthersUnchanged
  <1> QED
    BY <1>3, <1>4, <1>5 DEF SessionStep, Rollback

\* A committed write is the successor of the latest revision of its object.
LEMMA CommitIsNext ==
    ASSUME RInv, NEW s \in Sessions, Commit(s), tx[s].writes = TRUE
    PROVE  /\ tx[s] \in Transaction /\ tx[s].expected \in 0 .. MaxRevision
           /\ CurrentMaxIs(tx[s].object, tx[s].expected)
           /\ \A k \in 1 .. tx[s].expected : Committed(tx[s].object, k)
           /\ objects' = objects \cup {RowOf(tx[s])}
  <1> DEFINE t == tx[s]
  <1>1. /\ pc[s] = "commit" /\ t \in Transaction /\ t.expected \in 0 .. MaxRevision /\ t.object \in Objects
        /\ objects' = objects \cup staged[s].objects
    BY EventStoreConstants DEF Commit, RInv, IInv, TypeOK, InTransaction, CallInv, Transaction
  <1>2. staged[s].objects = {RowOf(t)}
    BY <1>1 DEF RInv, IInv, StagedInv, StagedOf
  <1>3. RowOf(t).id = t.object /\ RowOf(t).revision = t.expected + 1
    BY DEF RowOf, _expected_new_revision
  <1>4. ~Committed(t.object, t.expected + 1) /\ (t.expected = 0 \/ Committed(t.object, t.expected))
    BY <1>1, <1>2, <1>3 DEF RInv, IInv, KeyInv, BaseOf
  <1>5. PICK n \in 0 .. MaxRevision + 1 :
            CurrentMaxIs(t.object, n) /\ \A k \in 1 .. n : Committed(t.object, k)
    BY <1>1 DEF RInv, GapFree
  <1>6. n = t.expected
    <2>1. MaxRevision \in Nat
      BY EventStoreConstants
    <2>2. t.expected <= n
      BY <1>1, <1>4, <1>5, <2>1 DEF CurrentMaxIs, Committed
    <2>3. ~(t.expected + 1 <= n)
      BY <1>1, <1>4, <1>5, <2>1
    <2> QED
      BY <1>1, <2>1, <2>2, <2>3
  <1> QED
    BY <1>1, <1>2, <1>5, <1>6

LEMMA GapFreeStep ==
    ASSUME RInv, NEW s \in Sessions, SessionStep(s)
    PROVE  GapFree'
  <1>1. CASE objects' = objects
    BY <1>1 DEF RInv, GapFree, CurrentMaxIs, Committed
  <1>2. CASE Commit(s) /\ tx[s].writes = TRUE
    <2>1. PICK t \in Transaction, n \in 0 .. MaxRevision :
            /\ t = tx[s] /\ n = t.expected /\ CurrentMaxIs(t.object, n)
            /\ \A k \in 1 .. n : Committed(t.object, k)
            /\ objects' = objects \cup {RowOf(t)}
      BY <1>2, CommitIsNext
    <2>2. PICK r : r = RowOf(t)
      OBVIOUS
    <2>3. r.id = t.object /\ r.revision = n + 1
      BY <2>1, <2>2 DEF RowOf, _expected_new_revision
    <2>4. /\ MaxRevision \in Nat /\ objects' = objects \cup {r}
          /\ \A row \in objects : row.revision \in Nat
      BY <2>1, <2>2, EventStoreConstants DEF RInv, IInv, TypeOK, ObjectRow
    <2> SUFFICES ASSUME NEW o \in Objects
                 PROVE  \E m \in 0 .. MaxRevision + 1 :
                            CurrentMaxIs(o, m)' /\ \A k \in 1 .. m : Committed(o, k)'
      BY DEF GapFree
    <2>5. CASE o = t.object
      <3>1. PICK m \in 0 .. MaxRevision + 1 : m = n + 1
        BY <2>4
      <3>2. CurrentMaxIs(o, m)'
        BY <2>1, <2>2, <2>3, <2>4, <2>5, <3>1 DEF CurrentMaxIs
      <3>3. \A k \in 1 .. m : Committed(o, k)'
        BY <2>1, <2>2, <2>3, <2>4, <2>5, <3>1 DEF Committed
      <3> QED
        BY <3>2, <3>3
    <2>6. CASE o # t.object
      <3>1. PICK m \in 0 .. MaxRevision + 1 : CurrentMaxIs(o, m) /\ \A k \in 1 .. m : Committed(o, k)
        BY DEF RInv, GapFree
      <3>2. CurrentMaxIs(o, m)' /\ \A k \in 1 .. m : Committed(o, k)'
        BY <2>2, <2>3, <2>4, <2>6, <3>1 DEF CurrentMaxIs, Committed
      <3> QED
        BY <3>2
    <2> QED
      BY <2>5, <2>6
  <1>3. CASE Commit(s) /\ tx[s].writes # TRUE
    <2>1. staged[s].objects = {}
      BY <1>3 DEF RInv, IInv, StagedInv, StagedOf
    <2> QED
      BY <1>1, <1>3, <2>1 DEF Commit
  <1>4. CASE ~Commit(s)
    BY <1>1, <1>4, LogFrame DEF RInv, IInv
  <1> QED
    BY <1>2, <1>3, <1>4

\* The head of the log and the digest that stands for the log.
LEMMA HeadIs ==
    ASSUME IInv, NEW h, IsHeadHash(h)
    PROVE  HeadHash = h
  <1>1. CASE domain_events = {}
    BY <1>1 DEF IsHeadHash, HeadHash
  <1>2. CASE domain_events # {}
    <2>1. PICK row \in domain_events : IsHead(row) /\ h = row.content_hash
      BY <1>2 DEF IsHeadHash
    <2>2. \A r \in domain_events : IsHead(r) => r.sequence <= row.sequence /\ row.sequence <= r.sequence
      BY <2>1 DEF IsHead
    <2>3. \A r \in domain_events : r.sequence \in Nat
      BY DEF IInv, TypeOK, EventRow
    <2>4. \A r \in domain_events : IsHead(r) => r = row
      BY <2>1, <2>2, <2>3 DEF IInv, ChainVerifies
    <2>5. (CHOOSE r \in domain_events : IsHead(r)) = row
      BY <2>1, <2>4
    <2> QED
      BY <1>2, <2>1, <2>5 DEF HeadHash
  <1> QED
    BY <1>1, <1>2

\* Commit appends its event to the digest that stands for the log.
LEMMA CommitAppends ==
    ASSUME RInv, NEW s \in Sessions, Commit(s)
    PROVE  /\ HeadHash' = Append(HeadHash, EventOf(tx[s]))
           /\ HeadHash \in Hash
           /\ ~EventIdTaken(tx[s].event_id)
           /\ \E new \in EventRow :
                 /\ domain_events' = domain_events \cup {new}
                 /\ new.event = EventOf(tx[s]) /\ new.content_hash = Append(HeadHash, EventOf(tx[s]))
  <1>1. PICK n \in Nat, h \in Hash :
            /\ \A row \in domain_events : row.sequence < n
            /\ ~EventIdTaken(tx[s].event_id) /\ IsHeadHash(h)
            /\ EventRowOf(tx[s], n, h) \in EventRow
            /\ domain_events' = domain_events \cup {EventRowOf(tx[s], n, h)}
    BY CommitRow DEF RInv
  <1>2. HeadHash = h
    BY <1>1, HeadIs DEF RInv
  <1>3. PICK new \in EventRow : new = EventRowOf(tx[s], n, h)
    BY <1>1
  <1>4. /\ new.sequence = n /\ new.event = EventOf(tx[s])
        /\ new.content_hash = Append(h, EventOf(tx[s]))
    BY <1>3 DEF EventRowOf, compute_event_hash
  <1>5. domain_events' = domain_events \cup {new}
    BY <1>1, <1>3
  <1>6. \A r \in domain_events : r.sequence \in Nat /\ r.sequence < n
    BY <1>1 DEF RInv, IInv, TypeOK, EventRow
  <1>7. \A r \in domain_events' : IsHead(r)' <=> r = new
    BY <1>4, <1>5, <1>6 DEF IsHead
  <1>8. (CHOOSE r \in domain_events' : IsHead(r)') = new
    BY <1>5, <1>7
  <1>9. HeadHash' = new.content_hash
    BY <1>5, <1>8 DEF HeadHash
  <1> QED
    BY <1>1, <1>2, <1>4, <1>5, <1>9

\* Every event of the digest that stands for the log is in the log.
LEMMA HashHolds ==
    ASSUME IInv, HashesHoldEvents
    PROVE  \A i \in 1 .. Len(HeadHash) : \E r \in domain_events : r.event.id = HeadHash[i].id
  <1>1. CASE domain_events = {}
    BY <1>1 DEF HeadHash, Genesis
  <1>2. CASE domain_events # {}
    <2>1. PICK row \in domain_events : IsHead(row)
      BY <1>2 DEF IInv, LogInv
    <2>2. HeadHash = row.content_hash
      BY <2>1, HeadIs DEF IsHeadHash
    <2> QED
      BY <2>2 DEF HashesHoldEvents
  <1> QED
    BY <1>1, <1>2

LEMMA HashesStep ==
    ASSUME RInv, NEW s \in Sessions, SessionStep(s)
    PROVE  HashesHoldEvents'
  <1>1. CASE ~Commit(s)
    BY <1>1, LogFrame DEF RInv, IInv, HashesHoldEvents
  <1>2. CASE Commit(s)
    <2>1. PICK new \in EventRow :
            /\ domain_events' = domain_events \cup {new}
            /\ new.event = EventOf(tx[s]) /\ new.content_hash = Append(HeadHash, EventOf(tx[s]))
      BY <1>2, CommitAppends
    <2>2. HeadHash \in Hash
      BY <1>2, CommitAppends
    <2>3. \A i \in 1 .. Len(HeadHash) : \E r \in domain_events : r.event.id = HeadHash[i].id
      BY HashHolds DEF RInv
    <2>4. \A i \in 1 .. Len(new.content_hash) :
              new.content_hash[i] = new.event \/ (i \in 1 .. Len(HeadHash) /\ new.content_hash[i] = HeadHash[i])
      BY <2>1, <2>2 DEF Hash
    <2>5. \A i \in 1 .. Len(new.content_hash) :
              \E r \in domain_events' : r.event.id = new.content_hash[i].id
      BY <2>1, <2>3, <2>4
    <2> QED
      BY <2>1, <2>5 DEF RInv, HashesHoldEvents
  <1> QED
    BY <1>1, <1>2

LEMMA RInvInit == Init => RInv
  <1> SUFFICES ASSUME Init PROVE RInv
    OBVIOUS
  <1>1. EdgeKeyInv /\ CallInv
    BY DEF Init, EdgeKeyInv, CallInv, NothingStaged
  <1>2. GapFree
    BY EventStoreConstants DEF Init, GapFree, CurrentMaxIs, Committed
  <1>3. HashesHoldEvents
    BY DEF Init, HashesHoldEvents
  <1> QED
    BY <1>1, <1>2, <1>3, IInvInit DEF RInv

\* The steps of a dispatcher, and stuttering, leave the store alone.
LEMMA DispatchFrame ==
    ASSUME NEW d \in Dispatchers, Dispatch(d) \/ CrashDispatcher(d)
    PROVE  UNCHANGED <<objects, edges, domain_events, pc, tx, staged>>
  BY DEF Dispatch, Poll, CallHandler, HandlerReturns, HandlerRaises, MarkDispatched,
         RecordFailedAttempt, CrashDispatcher, storeVars, sessionVars

LEMMA RInvStep == RInv /\ [Next]_vars => RInv'
  <1> SUFFICES ASSUME RInv, [Next]_vars
               PROVE  RInv'
    OBVIOUS
  <1>1. IInv'
    BY IInvStep DEF RInv
  <1>2. ASSUME NEW s \in Sessions, SessionStep(s)
        PROVE  EdgeKeyInv' /\ CallInv' /\ GapFree' /\ HashesHoldEvents'
    BY <1>2, EdgeKeyStep, CallStep, GapFreeStep, HashesStep
  <1>3. CASE UNCHANGED <<objects, edges, domain_events, pc, tx, staged>>
    BY <1>1, <1>3 DEF RInv, EdgeKeyInv, CallInv, GapFree, HashesHoldEvents, CurrentMaxIs, Committed
  <1> QED
    BY <1>1, <1>2, <1>3, DispatchFrame DEF Next, SessionStep, vars, RInv

LEMMA RInvHolds == Spec => []RInv
  BY RInvInit, RInvStep, PTL DEF Spec

-----------------------------------------------------------------------------
(* The refinement *)

\* CurrentMaxIs determines its number.
LEMMA LatestIs ==
    ASSUME TypeOK, NEW o, NEW n \in 0 .. MaxRevision + 1, CurrentMaxIs(o, n)
    PROVE  LatestRevision(o) = n
  <1>1. MaxRevision \in Nat
    BY EventStoreConstants
  <1>2. ASSUME NEW m \in 0 .. MaxRevision + 1, CurrentMaxIs(o, m)
        PROVE  m = n
    <2>1. m <= n /\ n <= m
      BY <1>1, <1>2 DEF CurrentMaxIs
    <2> QED
      BY <1>1, <2>1
  <1> QED
    BY <1>2 DEF LatestRevision

LEMMA LatestIsNow ==
    ASSUME TypeOK', NEW o, NEW n \in 0 .. MaxRevision + 1, CurrentMaxIs(o, n)'
    PROVE  LatestRevision(o)' = n
  <1>1. MaxRevision \in Nat
    BY EventStoreConstants
  <1>2. ASSUME NEW m \in 0 .. MaxRevision + 1, CurrentMaxIs(o, m)'
        PROVE  m = n
    <2>1. m <= n /\ n <= m
      BY <1>1, <1>2 DEF CurrentMaxIs
    <2> QED
      BY <1>1, <2>1
  <1> QED
    BY <1>2 DEF LatestRevision

\* What Commit does to the edges and to the log of the abstract store.
LEMMA CommitMaps ==
    ASSUME RInv, NEW s \in Sessions, Commit(s)
    PROVE  /\ tx[s] \in Calls /\ tx[s] \in Transaction /\ tx[s].expected \in 0 .. MaxRevision
           /\ Store!Fresh(tx[s].event_id)
           /\ Store!AddEdges(tx[s].edges)
           /\ HeadHash' = Append(HeadHash, EventOf(tx[s]))
  <1>1. /\ pc[s] = "commit" /\ tx[s] \in Calls /\ tx[s] \in Transaction
        /\ tx[s].expected \in 0 .. MaxRevision /\ edges' = edges \cup staged[s].edges
    BY EventStoreConstants DEF Commit, RInv, IInv, TypeOK, InTransaction, CallInv
  <1>2. staged[s].edges = tx[s].edges /\ tx[s].edges \subseteq Edges
    BY <1>1 DEF RInv, IInv, StagedInv, StagedOf, Transaction
  <1>3. Store!AddEdges(tx[s].edges)
    BY <1>1, <1>2 DEF RInv, EdgeKeyInv, Store!AddEdges
  <1>4. ~EventIdTaken(tx[s].event_id) /\ HeadHash' = Append(HeadHash, EventOf(tx[s]))
    BY CommitAppends
  <1>5. Store!Fresh(tx[s].event_id)
    BY <1>4, HashHolds DEF Store!Fresh, EventIdTaken, RInv
  <1> QED
    BY <1>1, <1>3, <1>4, <1>5

\* The latest revisions before and after a committed write.
LEMMA CommitAdvances ==
    ASSUME RInv, RInv', NEW s \in Sessions, NEW t, t = tx[s], Commit(s), t.writes = TRUE
    PROVE  /\ LatestRevision(t.object) = t.expected
           /\ LatestRevision(t.object)' = t.expected + 1
           /\ \A o \in Objects \ {t.object} : LatestRevision(o)' = LatestRevision(o)
  <1>1. PICK n \in 0 .. MaxRevision :
          /\ t \in Transaction /\ n = t.expected /\ CurrentMaxIs(t.object, n)
          /\ objects' = objects \cup {RowOf(t)}
    BY CommitIsNext
  <1>2. PICK r : r = RowOf(t)
    OBVIOUS
  <1>3. r.id = t.object /\ r.revision = n + 1
    BY <1>1, <1>2 DEF RowOf, _expected_new_revision
  <1>4. /\ MaxRevision \in Nat /\ objects' = objects \cup {r} /\ TypeOK /\ TypeOK'
        /\ \A row \in objects : row.revision \in Nat
    BY <1>1, <1>2, EventStoreConstants DEF RInv, IInv, TypeOK, ObjectRow
  <1>5. PICK o \in Objects : o = t.object
    BY <1>1 DEF Transaction
  <1>6. PICK m \in 0 .. MaxRevision + 1 : m = n + 1
    BY <1>4
  <1>7. CurrentMaxIs(o, m)'
    BY <1>1, <1>3, <1>4, <1>5, <1>6 DEF CurrentMaxIs
  <1>8. LatestRevision(o)' = m
    BY <1>4, <1>7, LatestIsNow
  <1>9. n \in 0 .. MaxRevision + 1
    BY <1>4
  <1>10. LatestRevision(o) = n
    BY <1>1, <1>4, <1>5, <1>9, LatestIs
  <1>11. ASSUME NEW p \in Objects \ {o}
         PROVE  LatestRevision(p)' = LatestRevision(p)
    <2>1. PICK k \in 0 .. MaxRevision + 1 : CurrentMaxIs(p, k)
      BY DEF RInv, GapFree
    <2>2. CurrentMaxIs(p, k)'
      BY <1>3, <1>4, <1>5, <1>11, <2>1 DEF CurrentMaxIs
    <2> QED
      BY <1>4, <2>1, <2>2, LatestIs, LatestIsNow
  <1> QED
    BY <1>1, <1>5, <1>6, <1>8, <1>10, <1>11

\* COMMIT of a transaction that writes is RecordRevision of the abstract store.
LEMMA WriteMaps ==
    ASSUME RInv, RInv', NEW s \in Sessions, Commit(s), tx[s].writes = TRUE
    PROVE  Store!RecordRevision(tx[s].object, tx[s].edges, tx[s].event_id)
  <1>1. PICK t : t = tx[s]
    OBVIOUS
  <1>2. /\ t \in Transaction /\ t.expected \in 0 .. MaxRevision /\ t.writes = TRUE /\ t.object \in Objects
        /\ Store!Fresh(t.event_id) /\ Store!AddEdges(t.edges)
        /\ HeadHash' = Append(HeadHash, EventOf(t))
    BY <1>1, CommitMaps DEF Transaction
  <1>3. /\ LatestRevision(t.object) = t.expected /\ LatestRevision(t.object)' = t.expected + 1
        /\ \A o \in Objects \ {t.object} : LatestRevision(o)' = LatestRevision(o)
    BY <1>1, CommitAdvances
  <1>4. PICK now : now = [o \in Objects |-> LatestRevision(o)]
    OBVIOUS
  <1>5. [o \in Objects |-> LatestRevision(o)]' = [now EXCEPT ![t.object] = now[t.object] + 1]
    BY <1>2, <1>3, <1>4
  <1>6. EventOf(t) = [id |-> t.event_id, object_id |-> t.object, object_revision |-> now[t.object] + 1]
    BY <1>2, <1>3, <1>4 DEF EventOf, _expected_new_revision
  <1> QED
    BY <1>1, <1>2, <1>4, <1>5, <1>6 DEF Store!RecordRevision

\* COMMIT of an event-only transaction is RecordEvent of the abstract store.
LEMMA EventMaps ==
    ASSUME RInv, RInv', NEW s \in Sessions, Commit(s), tx[s].writes # TRUE
    PROVE  Store!RecordEvent(tx[s].object, tx[s].edges, tx[s].event_id)
  <1>1. PICK t : t = tx[s]
    OBVIOUS
  <1>2. /\ t \in Transaction /\ t.expected \in 0 .. MaxRevision /\ t.writes = FALSE /\ t.object \in Objects
        /\ Store!Fresh(t.event_id) /\ Store!AddEdges(t.edges)
        /\ HeadHash' = Append(HeadHash, EventOf(t))
    BY <1>1, CommitMaps DEF Transaction
  <1>3. objects' = objects
    BY <1>1, <1>2 DEF Commit, RInv, IInv, StagedInv, StagedOf
  <1>4. [o \in Objects |-> LatestRevision(o)]' = [o \in Objects |-> LatestRevision(o)]
    BY <1>3 DEF LatestRevision, CurrentMaxIs
  <1>5. t.expected \in 1 .. LatestRevision(t.object)
    <2>1. pc[s] = "commit"
      BY DEF Commit
    <2>2. PICK row \in objects : row.id = t.object /\ row.revision = t.expected
      BY <1>1, <1>2, <2>1 DEF RInv, IInv, KeyInv, BaseOf, Committed
    <2>3. t.expected >= 1
      BY <2>2 DEF RInv, IInv, OneWinnerPerRevision
    <2>4. PICK m \in 0 .. MaxRevision + 1 : CurrentMaxIs(t.object, m)
      BY <1>2 DEF RInv, GapFree
    <2>5. LatestRevision(t.object) = m
      BY <2>4, LatestIs DEF RInv, IInv
    <2>6. t.expected <= m
      BY <2>2, <2>4 DEF CurrentMaxIs
    <2> QED
      BY <1>2, <2>3, <2>5, <2>6, EventStoreConstants
  <1>6. EventOf(t) = [id |-> t.event_id, object_id |-> t.object, object_revision |-> t.expected]
    BY <1>2 DEF EventOf
  <1>7. t.expected \in 1 .. [o \in Objects |-> LatestRevision(o)][t.object]
    BY <1>2, <1>5
  <1> QED
    BY <1>1, <1>2, <1>4, <1>6, <1>7 DEF Store!RecordEvent

\* The transactions of any number of sessions, statement by statement, with their
\* conflicts, roll backs and dispatchers, amount to atomic steps of the append-only
\* store: COMMIT is the step, every other statement a stutter
\* (record_object_revision_with_event, record_event).
THEOREM StoreIsImplemented == Spec => ImplementsStore
  <1>1. Init => Store!Init
    <2> SUFFICES ASSUME Init PROVE Store!Init
      OBVIOUS
    <2>1. RInv /\ TypeOK
      BY RInvInit DEF RInv, IInv
    <2>2. ASSUME NEW o \in Objects
          PROVE  LatestRevision(o) = 0
      <3>1. CurrentMaxIs(o, 0) /\ 0 \in 0 .. MaxRevision + 1
        BY EventStoreConstants DEF Init, CurrentMaxIs
      <3> QED
        BY <2>1, <3>1, LatestIs
    <2> QED
      BY <2>2 DEF Init, Store!Init, HeadHash, Genesis
  <1>2. RInv /\ RInv' /\ [Next]_vars => [Store!Next]_(Store!storeVars)
    <2> SUFFICES ASSUME RInv, RInv', [Next]_vars
                 PROVE  [Store!Next]_(Store!storeVars)
      OBVIOUS
    <2>1. ASSUME NEW s \in Sessions, Commit(s)
          PROVE  Store!Next
      <3>1. tx[s].object \in Objects /\ tx[s].event_id \in EventIds /\ tx[s].edges \in SUBSET Edges
        BY <2>1, CommitMaps DEF Transaction
      <3> QED
        BY <2>1, <3>1, WriteMaps, EventMaps DEF Store!Next
    <2>2. CASE UNCHANGED <<objects, edges, domain_events>>
      <3>1. /\ [o \in Objects |-> LatestRevision(o)]' = [o \in Objects |-> LatestRevision(o)]
            /\ HeadHash' = HeadHash
        BY <2>2 DEF LatestRevision, CurrentMaxIs, HeadHash, IsHead
      <3> QED
        BY <2>2, <3>1 DEF Store!storeVars
    <2>3. ASSUME NEW s \in Sessions, SessionStep(s), ~Commit(s)
          PROVE  UNCHANGED <<objects, edges, domain_events>>
      BY <2>3, LogFrame DEF RInv, IInv
    <2> QED
      BY <2>1, <2>2, <2>3, DispatchFrame DEF Next, SessionStep, vars
  <1> QED
    BY <1>1, <1>2, RInvHolds, PTL DEF Spec, ImplementsStore, Store!Spec

-----------------------------------------------------------------------------
(* The dispatchers *)

\* What a dispatcher holds are committed events, and the one it is about to mark
\* has been handled.
Holds(p, b, e) ==
    /\ b \subseteq DOMAIN outbox
    /\ p \in {"handler", "mark", "failed"} => e \in DOMAIN outbox
    /\ p = "mark" => e \in handled

DInv ==
    /\ IInv
    /\ \A e \in DOMAIN outbox : outbox[e] = "dispatched" => e \in handled
    /\ handled \subseteq DOMAIN outbox
    /\ \A d \in Dispatchers : Holds(dpc[d], batch[d], current[d])

LEMMA DInvInit == Init => DInv
  <1> SUFFICES ASSUME Init PROVE DInv
    OBVIOUS
  <1>1. IInv
    BY IInvInit
  <1> QED
    BY <1>1 DEF Init, DInv, Holds

\* What any step may do to the outbox.
OutboxGrows ==
    /\ DOMAIN outbox \subseteq DOMAIN outbox'
    /\ \A e \in DOMAIN outbox : outbox[e] = "dispatched" => outbox'[e] = "dispatched"

\* COMMIT adds a pending row under a new event id and leaves the dispatchers alone.
LEMMA CommitOutbox ==
    ASSUME DInv, NEW s \in Sessions, Commit(s)
    PROVE  /\ OutboxGrows
           /\ \A e \in DOMAIN outbox' : outbox'[e] = "dispatched" => e \in DOMAIN outbox /\ outbox[e] = "dispatched"
           /\ UNCHANGED dispatchVars
  <1>1. PICK id : id = tx[s].event_id
    OBVIOUS
  <1>2. ~EventIdTaken(id)
    BY <1>1, CommitRow DEF DInv
  <1>3. id \notin DOMAIN outbox
    BY <1>2 DEF DInv, IInv, ChangeHasItsEvent, EventIdTaken
  <1>4. /\ outbox' = [e \in DOMAIN outbox \cup {id} |-> IF e = id THEN "pending" ELSE outbox[e]]
        /\ UNCHANGED dispatchVars
    BY <1>1 DEF Commit
  <1> QED
    BY <1>3, <1>4 DEF OutboxGrows

\* A dispatcher marks only what it has handled, and changes no row otherwise.
LEMMA DispatcherOutbox ==
    ASSUME DInv, NEW d \in Dispatchers, Dispatch(d) \/ CrashDispatcher(d)
    PROVE  /\ OutboxGrows
           /\ DOMAIN outbox' = DOMAIN outbox
           /\ \A e \in DOMAIN outbox : outbox'[e] = "dispatched" => outbox[e] = "dispatched" \/ e \in handled
  <1>1. CASE MarkDispatched(d)
    <2>1. PICK e \in DOMAIN outbox : e = current[d] /\ e \in handled
      BY <1>1 DEF MarkDispatched, DInv, Holds
    <2>2. outbox' = [outbox EXCEPT ![e] = "dispatched"]
      BY <1>1, <2>1 DEF MarkDispatched
    <2>3. outbox \in [DOMAIN outbox -> {"pending", "dispatched"}]
      BY DEF DInv, IInv, TypeOK
    <2> QED
      BY <2>1, <2>2, <2>3 DEF OutboxGrows
  <1>2. CASE ~MarkDispatched(d)
    <2>1. outbox' = outbox
      BY <1>2 DEF Dispatch, Poll, CallHandler, HandlerReturns, HandlerRaises, RecordFailedAttempt,
                  CrashDispatcher, storeVars
    <2> QED
      BY <2>1 DEF OutboxGrows
  <1> QED
    BY <1>1, <1>2

\* A step of a dispatcher keeps what it holds committed and, before a mark, handled.
LEMMA DispatcherHolds ==
    ASSUME DInv, NEW d \in Dispatchers, Dispatch(d) \/ CrashDispatcher(d)
    PROVE  /\ handled \subseteq handled' /\ handled' \subseteq DOMAIN outbox
           /\ \A c \in Dispatchers \ {d} :
                 dpc'[c] = dpc[c] /\ batch'[c] = batch[c] /\ current'[c] = current[c]
           /\ batch'[d] \subseteq DOMAIN outbox
           /\ dpc'[d] \in {"handler", "mark", "failed"} => current'[d] \in DOMAIN outbox
           /\ dpc'[d] = "mark" => current'[d] \in handled'
  <1>1. /\ dpc \in [Dispatchers -> {"idle", "next", "handler", "mark", "failed"}]
        /\ batch \in [Dispatchers -> SUBSET EventIds]
        /\ current \in [Dispatchers -> EventIds \cup {None}]
        /\ handled \subseteq DOMAIN outbox /\ Holds(dpc[d], batch[d], current[d])
    BY DEF DInv, IInv, TypeOK
  <1>2. CASE Poll(d)
    BY <1>1, <1>2 DEF Poll, Pending, Holds
  <1>3. CASE CallHandler(d)
    BY <1>1, <1>3 DEF CallHandler, Holds
  <1>4. CASE HandlerReturns(d)
    BY <1>1, <1>4 DEF HandlerReturns, Holds
  <1>5. CASE HandlerRaises(d)
    BY <1>1, <1>5 DEF HandlerRaises, Holds
  <1>6. CASE MarkDispatched(d) \/ RecordFailedAttempt(d)
    BY <1>1, <1>6 DEF MarkDispatched, RecordFailedAttempt, NextInBatch, Holds
  <1>7. CASE CrashDispatcher(d)
    BY <1>1, <1>7 DEF CrashDispatcher, Holds
  <1> QED
    BY <1>2, <1>3, <1>4, <1>5, <1>6, <1>7 DEF Dispatch

LEMMA SessionOutbox ==
    ASSUME DInv, NEW s \in Sessions, SessionStep(s)
    PROVE  /\ OutboxGrows /\ UNCHANGED dispatchVars
           /\ \A e \in DOMAIN outbox' : outbox'[e] = "dispatched" => e \in DOMAIN outbox /\ outbox[e] = "dispatched"
  <1>1. CASE ~Commit(s)
    <2>1. outbox' = outbox
      BY <1>1, LogFrame DEF DInv, IInv
    <2>2. UNCHANGED dispatchVars
      BY <1>1 DEF SessionStep, Statement, Begin, ReadMax, InsertObject, InsertEdges, LockLog,
                  ReadHead, InsertEvent, Rollback
    <2> QED
      BY <2>1, <2>2 DEF OutboxGrows
  <1> QED
    BY <1>1, CommitOutbox

LEMMA DInvStep == DInv /\ [Next]_vars => DInv' /\ OutboxGrows
  <1> SUFFICES ASSUME DInv, [Next]_vars
               PROVE  DInv' /\ OutboxGrows
    OBVIOUS
  <1>1. IInv'
    BY IInvStep DEF DInv
  <1>2. ASSUME NEW s \in Sessions, SessionStep(s)
        PROVE  DInv' /\ OutboxGrows
    <2>1. /\ OutboxGrows /\ UNCHANGED dispatchVars
          /\ \A e \in DOMAIN outbox' :
                outbox'[e] = "dispatched" => e \in DOMAIN outbox /\ outbox[e] = "dispatched"
      BY <1>2, SessionOutbox
    <2> QED
      BY <1>1, <2>1 DEF DInv, Holds, OutboxGrows, dispatchVars
  <1>3. ASSUME NEW d \in Dispatchers, Dispatch(d) \/ CrashDispatcher(d)
        PROVE  DInv' /\ OutboxGrows
    <2>1. /\ OutboxGrows
          /\ DOMAIN outbox' = DOMAIN outbox
          /\ \A e \in DOMAIN outbox : outbox'[e] = "dispatched" => outbox[e] = "dispatched" \/ e \in handled
      BY <1>3, DispatcherOutbox
    <2>2. /\ handled \subseteq handled' /\ handled' \subseteq DOMAIN outbox
          /\ \A c \in Dispatchers \ {d} :
                dpc'[c] = dpc[c] /\ batch'[c] = batch[c] /\ current'[c] = current[c]
          /\ batch'[d] \subseteq DOMAIN outbox
          /\ dpc'[d] \in {"handler", "mark", "failed"} => current'[d] \in DOMAIN outbox
          /\ dpc'[d] = "mark" => current'[d] \in handled'
      BY <1>3, DispatcherHolds
    <2>3. ASSUME NEW c \in Dispatchers
          PROVE  Holds(dpc[c], batch[c], current[c])'
      BY <2>1, <2>2 DEF DInv, Holds
    <2>4. \A e \in DOMAIN outbox' : outbox'[e] = "dispatched" => e \in handled'
      BY <2>1, <2>2 DEF DInv
    <2> QED
      BY <1>1, <2>1, <2>2, <2>3, <2>4 DEF DInv
  <1>4. CASE UNCHANGED vars
    BY <1>1, <1>4 DEF vars, DInv, Holds, OutboxGrows
  <1> QED
    BY <1>2, <1>3, <1>4 DEF Next, SessionStep

LEMMA DInvHolds == Spec => []DInv
  BY DInvInit, DInvStep, PTL DEF Spec

\* A row says dispatched only after a handler returned normally for its event, and
\* a dispatcher handles committed events only (InProcessOutboxDispatcher).
THEOREM DispatchedIsHandled == Spec => []DispatchedWasHandled
  <1>1. DInv => DispatchedWasHandled
    BY DEF DInv, IInv, ChangeHasItsEvent, DispatchedWasHandled
  <1> QED
    BY <1>1, DInvHolds, PTL

\* A dispatched row stays dispatched, whatever the other dispatchers still hold
\* (_mark_dispatched, _record_failed_attempt).
THEOREM DispatchedForGood == Spec => DispatchedIsFinal
  <1>1. DInv /\ [Next]_vars =>
          [\A e \in DOMAIN outbox :
              outbox[e] = "dispatched" => e \in DOMAIN outbox' /\ outbox'[e] = "dispatched"]_vars
    BY DInvStep DEF OutboxGrows
  <1> QED
    BY <1>1, DInvHolds, PTL DEF Spec, DispatchedIsFinal

=============================================================================
