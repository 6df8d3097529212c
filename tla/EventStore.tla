----------------------------- MODULE EventStore -----------------------------
(***************************************************************************)
(* The persistence core of the runtime: the `objects`, `edges`,            *)
(* `domain_events` and `outbox` tables, and the only ways the services      *)
(* write them.  Every state change is ONE PostgreSQL transaction that       *)
(* optionally inserts an object revision, optionally inserts typed edges,   *)
(* and always appends one domain event with its outbox row                  *)
(* (record_object_revision_with_event, record_event and the edge-carrying   *)
(* variants of the claim, obligation, transfer and correction services).    *)
(*                                                                         *)
(* A session runs the statements of such a transaction one at a time, so    *)
(* that two sessions interleave between any two statements, under READ      *)
(* COMMITTED (the driver's default; no engine of the repository sets        *)
(* another level).  What a session has written but not committed is in its  *)
(* `staged` record and no other session reads it; a unique key held by an   *)
(* uncommitted row makes a second insert of that key wait.                  *)
(***************************************************************************)
EXTENDS Naturals, Sequences, FiniteSets

CONSTANTS
    Sessions,       \* connections that run a write transaction
    Dispatchers,    \* instances of InProcessOutboxDispatcher
    Objects,        \* object ids
    Edges,          \* edge ids
    Calls,          \* the calls services make
    EventIds,       \* domain event ids
    MaxRevision,    \* largest expected revision a caller passes
    MaxTransactions,\* bound: transactions begun over a behaviour
    None            \* "no such thing" (SQL NULL, Python None)

ASSUME EventStoreConstants ==
    /\ MaxRevision \in Nat
    /\ MaxTransactions \in Nat
    /\ Calls \subseteq [writes : BOOLEAN, object : Objects, expected : 0 .. MaxRevision,
                       edges : SUBSET Edges, event_id : EventIds]
    /\ None \notin Sessions
    /\ None \notin EventIds

VARIABLES
    objects,        \* committed rows of `objects`
    edges,          \* committed edge ids of `edges`
    domain_events,  \* committed rows of `domain_events`
    outbox,         \* committed rows of `outbox`: event id -> status
    next_sequence,  \* identity column of `domain_events`; never rolled back
    lock,           \* holder of the advisory lock, or None
    pc,             \* per session: the next statement
    tx,             \* per session: the arguments of the call
    staged,         \* per session: its uncommitted writes
    begun,          \* bound only: transactions begun so far
    dpc,            \* per dispatcher: where dispatch_pending is
    batch,          \* per dispatcher: event ids it still has to deliver
    current,        \* per dispatcher: event id in the handler, or None
    handled         \* history: events a handler has returned normally for

storeVars == <<objects, edges, domain_events, outbox, next_sequence>>
sessionVars == <<lock, pc, tx, staged, begun>>
dispatchVars == <<dpc, batch, current, handled>>
vars == <<objects, edges, domain_events, outbox, next_sequence,
          lock, pc, tx, staged, begun, dpc, batch, current, handled>>

-----------------------------------------------------------------------------
(* Rows *)

\* The part of a DomainEvent the store relates to other rows.
Event == [id : EventIds, object_id : Objects, object_revision : Nat]

\* compute_event_hash digests the event together with the previous hash.  A
\* collision-free digest is a value that determines both: the chain of
\* events up to and including this one.  NULL, the genesis, is the empty one.
Hash == Seq(Event)
Genesis == <<>>
compute_event_hash(event, prev_hash) == Append(prev_hash, event)

\* `content` stands for the body and content hash: it is the id of the event
\* of the call that wrote the row, so two calls never write equal content.
ObjectRow == [id : Objects, revision : Nat, content : EventIds]
EventRow == [sequence : Nat, event : Event, content_hash : Hash, prev_hash : Hash]
Transaction == [writes : BOOLEAN, object : Objects, expected : Nat,
                edges : SUBSET Edges, event_id : EventIds]
NoTransaction == <<>>
Staged == [objects : SUBSET ObjectRow, edges : SUBSET Edges,
           prev_hash : Hash, events : SUBSET EventRow]
NothingStaged == [objects |-> {}, edges |-> {}, prev_hash |-> Genesis, events |-> {}]

\* The revision insert_revision writes: expected + 1, the first being 1.
_expected_new_revision(t) == t.expected + 1

\* The row of `objects` a call inserts.
RowOf(t) == [id |-> t.object, revision |-> _expected_new_revision(t), content |-> t.event_id]

\* Callers name in their event the revision they write; an event-only call
\* names the revision it read.
EventOf(t) ==
    [id |-> t.event_id, object_id |-> t.object,
     object_revision |-> IF t.writes THEN _expected_new_revision(t) ELSE t.expected]

\* The row of `domain_events` a call inserts, at sequence n and chained onto hash h.
EventRowOf(t, n, h) ==
    [sequence |-> n, event |-> EventOf(t),
     content_hash |-> compute_event_hash(EventOf(t), h), prev_hash |-> h]

\* SELECT max(revision) WHERE id = o, None being 0.
CurrentMaxIs(o, n) ==
    /\ \A row \in objects : row.id = o => row.revision <= n
    /\ n > 0 => \E row \in objects : row.id = o /\ row.revision = n

\* The row ORDER BY sequence DESC LIMIT 1 returns.
IsHead(row) == /\ row \in domain_events
               /\ \A other \in domain_events : other.sequence <= row.sequence

-----------------------------------------------------------------------------
(* Write transactions *)

AfterObject(t) == IF t.edges # {} THEN "edges" ELSE "lock"

\* A service calls the unit of work.  `expected` is whatever the caller holds,
\* stale or wrong included; an event-only call is about a revision it has read.
Begin(s, t) ==
    /\ pc[s] = "idle"
    /\ begun < MaxTransactions
    /\ t.writes \/ \E row \in objects : row.id = t.object /\ row.revision = t.expected
    /\ begun' = begun + 1
    /\ tx' = [tx EXCEPT ![s] = t]
    /\ pc' = [pc EXCEPT ![s] = IF t.writes THEN "read" ELSE AfterObject(t)]
    /\ UNCHANGED <<storeVars, lock, staged, dispatchVars>>

\* Mutant of Abort: the lock outlives the transaction (a session-scoped lock).
AbortKeepsLock(s) ==
    /\ pc' = [pc EXCEPT ![s] = "idle"]
    /\ tx' = [tx EXCEPT ![s] = NoTransaction]
    /\ staged' = [staged EXCEPT ![s] = NothingStaged]
    /\ UNCHANGED lock

\* Every way out of a transaction that is not COMMIT: the writes vanish, the
\* transaction-scoped lock is released, the identity value is not returned.
Abort(s) ==
    /\ pc' = [pc EXCEPT ![s] = "idle"]
    /\ tx' = [tx EXCEPT ![s] = NoTransaction]
    /\ staged' = [staged EXCEPT ![s] = NothingStaged]
    /\ lock' = IF lock = s THEN None ELSE lock

\* Mutant of ReadMax: the expectation is not compared.
ReadMaxUnchecked(s) ==
    /\ pc[s] = "read"
    /\ pc' = [pc EXCEPT ![s] = "insert"]
    /\ UNCHANGED <<storeVars, lock, tx, staged, begun, dispatchVars>>

\* _insert_revision_core: the check before the insert, which raises
\* RevisionConflictError when the caller's expectation is not the current maximum.
ReadMax(s) ==
    /\ pc[s] = "read"
    /\ \/ /\ CurrentMaxIs(tx[s].object, tx[s].expected)
          /\ pc' = [pc EXCEPT ![s] = "insert"]
          /\ UNCHANGED <<lock, tx, staged>>
       \/ /\ ~CurrentMaxIs(tx[s].object, tx[s].expected)
          /\ Abort(s)
    /\ UNCHANGED <<storeVars, begun, dispatchVars>>

SameKey(row, t) == row.id = t.object /\ row.revision = _expected_new_revision(t)

\* Another open transaction has inserted the primary key this one is about to insert.
ObjectKeyHeld(s) ==
    \E other \in Sessions \ {s} :
        \E row \in staged[other].objects : SameKey(row, tx[s])

\* _insert_revision_core: INSERT INTO objects, whose primary key is (id, revision).
InsertObject(s) ==
    /\ pc[s] = "insert"
    /\ ~ObjectKeyHeld(s)
    /\ \/ /\ \A row \in objects : ~SameKey(row, tx[s])
          /\ staged' = [staged EXCEPT ![s].objects = {RowOf(tx[s])}]
          /\ pc' = [pc EXCEPT ![s] = AfterObject(tx[s])]
          /\ UNCHANGED <<lock, tx>>
       \/ /\ \E row \in objects : SameKey(row, tx[s])
          /\ Abort(s)
    /\ UNCHANGED <<storeVars, begun, dispatchVars>>

EdgeKeyHeld(s) ==
    \E other \in Sessions \ {s} : staged[other].edges \cap tx[s].edges # {}

\* INSERT INTO edges, whose primary key is id.  The ids of a call's edges are
\* minted together, so its inserts succeed, wait or fail as one.
InsertEdges(s) ==
    /\ pc[s] = "edges"
    /\ ~EdgeKeyHeld(s)
    /\ \/ /\ tx[s].edges \cap edges = {}
          /\ staged' = [staged EXCEPT ![s].edges = tx[s].edges]
          /\ pc' = [pc EXCEPT ![s] = "lock"]
          /\ UNCHANGED <<lock, tx>>
       \/ /\ tx[s].edges \cap edges # {}
          /\ Abort(s)
    /\ UNCHANGED <<storeVars, begun, dispatchVars>>

\* Mutant of LockLog: the append does not serialise.
LockLogShared(s) ==
    /\ pc[s] = "lock"
    /\ lock' = s
    /\ pc' = [pc EXCEPT ![s] = "head"]
    /\ UNCHANGED <<storeVars, tx, staged, begun, dispatchVars>>

\* PostgresEventLog.append: SELECT pg_advisory_xact_lock(...).
LockLog(s) ==
    /\ pc[s] = "lock"
    /\ lock = None
    /\ lock' = s
    /\ pc' = [pc EXCEPT ![s] = "head"]
    /\ UNCHANGED <<storeVars, tx, staged, begun, dispatchVars>>

\* Mutant of ReadHead: every event starts a chain of its own.
ReadHeadGenesis(s) ==
    /\ pc[s] = "head"
    /\ staged' = [staged EXCEPT ![s].prev_hash = Genesis]
    /\ pc' = [pc EXCEPT ![s] = "append"]
    /\ UNCHANGED <<storeVars, lock, tx, begun, dispatchVars>>

\* PostgresEventLog.append: the hash the new event will be chained onto.
ReadHead(s) ==
    /\ pc[s] = "head"
    /\ \/ /\ domain_events = {}
          /\ staged' = [staged EXCEPT ![s].prev_hash = Genesis]
       \/ \E row \in domain_events :
              /\ IsHead(row)
              /\ staged' = [staged EXCEPT ![s].prev_hash = row.content_hash]
    /\ pc' = [pc EXCEPT ![s] = "append"]
    /\ UNCHANGED <<storeVars, lock, tx, begun, dispatchVars>>

EventIdTaken(id) == \E row \in domain_events : row.event.id = id

\* PostgresEventLog.append: INSERT INTO domain_events, then INSERT INTO outbox;
\* a taken event id is EventAppendError.  The identity value is consumed either way.
InsertEvent(s) ==
    /\ pc[s] = "append"
    /\ next_sequence' = next_sequence + 1
    /\ \/ /\ ~EventIdTaken(tx[s].event_id)
          /\ staged' = [staged EXCEPT ![s].events =
                {EventRowOf(tx[s], next_sequence, staged[s].prev_hash)}]
          /\ pc' = [pc EXCEPT ![s] = "commit"]
          /\ UNCHANGED <<lock, tx>>
       \/ /\ EventIdTaken(tx[s].event_id)
          /\ Abort(s)
    /\ UNCHANGED <<objects, edges, domain_events, outbox, begun, dispatchVars>>

\* Mutant of Commit: the outbox row is missing.
CommitWithoutOutbox(s) ==
    /\ pc[s] = "commit"
    /\ objects' = objects \cup staged[s].objects
    /\ edges' = edges \cup staged[s].edges
    /\ domain_events' = domain_events \cup staged[s].events
    /\ Abort(s)
    /\ UNCHANGED <<outbox, next_sequence, begun, dispatchVars>>

\* The end of `with engine.begin()`: every staged row becomes visible at once.
Commit(s) ==
    /\ pc[s] = "commit"
    /\ objects' = objects \cup staged[s].objects
    /\ edges' = edges \cup staged[s].edges
    /\ domain_events' = domain_events \cup staged[s].events
    /\ outbox' = [e \in DOMAIN outbox \cup {tx[s].event_id} |->
                    IF e = tx[s].event_id THEN "pending" ELSE outbox[e]]
    /\ Abort(s)
    /\ UNCHANGED <<next_sequence, begun, dispatchVars>>

\* The process dies, the connection drops, or the caller's hook raises.
Rollback(s) ==
    /\ pc[s] # "idle"
    /\ Abort(s)
    /\ UNCHANGED <<storeVars, begun, dispatchVars>>

-----------------------------------------------------------------------------
(* The outbox dispatcher *)

Pending == {e \in DOMAIN outbox : outbox[e] = "pending"}

\* dispatch_pending begins: _pending_event_ids reads the pending rows once.
\* The order of the batch is wall-clock order; here it is any order.
Poll(d) ==
    /\ dpc[d] = "idle"
    /\ Pending # {}
    /\ batch' = [batch EXCEPT ![d] = Pending]
    /\ dpc' = [dpc EXCEPT ![d] = "next"]
    /\ UNCHANGED <<storeVars, sessionVars, current, handled>>

\* Mutant of CallHandler: the row is marked before the handler has run.
CallHandlerMarkFirst(d) ==
    /\ dpc[d] = "next"
    /\ \E e \in batch[d] :
        /\ current' = [current EXCEPT ![d] = e]
        /\ batch' = [batch EXCEPT ![d] = batch[d] \ {e}]
        /\ outbox' = [outbox EXCEPT ![e] = "dispatched"]
    /\ dpc' = [dpc EXCEPT ![d] = "handler"]
    /\ UNCHANGED <<objects, edges, domain_events, next_sequence, sessionVars, handled>>

\* The handler is called for the next event of the batch.  Its status is not read again.
CallHandler(d) ==
    /\ dpc[d] = "next"
    /\ \E e \in batch[d] :
        /\ current' = [current EXCEPT ![d] = e]
        /\ batch' = [batch EXCEPT ![d] = batch[d] \ {e}]
    /\ dpc' = [dpc EXCEPT ![d] = "handler"]
    /\ UNCHANGED <<storeVars, sessionVars, handled>>

HandlerReturns(d) ==
    /\ dpc[d] = "handler"
    /\ handled' = handled \cup {current[d]}
    /\ dpc' = [dpc EXCEPT ![d] = "mark"]
    /\ UNCHANGED <<storeVars, sessionVars, batch, current>>

HandlerRaises(d) ==
    /\ dpc[d] = "handler"
    /\ dpc' = [dpc EXCEPT ![d] = "failed"]
    /\ UNCHANGED <<storeVars, sessionVars, batch, current, handled>>

\* The loop goes on to the next event of the batch, or the call returns.
NextInBatch(d) ==
    /\ current' = [current EXCEPT ![d] = None]
    /\ dpc' = [dpc EXCEPT ![d] = IF batch[d] = {} THEN "idle" ELSE "next"]
    /\ UNCHANGED <<batch, handled>>

\* _mark_dispatched
MarkDispatched(d) ==
    /\ dpc[d] = "mark"
    /\ outbox' = [outbox EXCEPT ![current[d]] = "dispatched"]
    /\ NextInBatch(d)
    /\ UNCHANGED <<objects, edges, domain_events, next_sequence, sessionVars>>

\* _record_failed_attempt: only the attempts counter, which nothing reads, changes.
RecordFailedAttempt(d) ==
    /\ dpc[d] = "failed"
    /\ NextInBatch(d)
    /\ UNCHANGED <<storeVars, sessionVars>>

\* The dispatching process dies and a new one starts with nothing.
CrashDispatcher(d) ==
    /\ dpc[d] # "idle"
    /\ dpc' = [dpc EXCEPT ![d] = "idle"]
    /\ batch' = [batch EXCEPT ![d] = {}]
    /\ current' = [current EXCEPT ![d] = None]
    /\ UNCHANGED <<storeVars, sessionVars, handled>>

-----------------------------------------------------------------------------
Init ==
    /\ objects = {} /\ edges = {} /\ domain_events = {}
    /\ outbox = [e \in {} |-> "pending"]
    /\ next_sequence = 1
    /\ lock = None
    /\ pc = [s \in Sessions |-> "idle"]
    /\ tx = [s \in Sessions |-> NoTransaction]
    /\ staged = [s \in Sessions |-> NothingStaged]
    /\ begun = 0
    /\ dpc = [d \in Dispatchers |-> "idle"]
    /\ batch = [d \in Dispatchers |-> {}]
    /\ current = [d \in Dispatchers |-> None]
    /\ handled = {}

Statement(s) == \/ ReadMax(s) \/ InsertObject(s) \/ InsertEdges(s) \/ LockLog(s)
                \/ ReadHead(s) \/ InsertEvent(s) \/ Commit(s)

Dispatch(d) == \/ Poll(d) \/ CallHandler(d) \/ HandlerReturns(d) \/ HandlerRaises(d)
               \/ MarkDispatched(d) \/ RecordFailedAttempt(d)

Next == \/ \E s \in Sessions : \/ \E t \in Calls : Begin(s, t)
                               \/ Statement(s)
                               \/ Rollback(s)
        \/ \E d \in Dispatchers : Dispatch(d) \/ CrashDispatcher(d)

Spec == Init /\ [][Next]_vars

\* A statement that has been issued completes, and a process inside
\* dispatch_pending goes on running.  That dispatch_pending is called again
\* while rows are pending, that a handler does not raise for ever, and that
\* the dispatcher does not crash for ever in the same call, are assumptions
\* on the deployment: the repository leaves the polling loop to it.
FairSpec ==
    /\ Spec
    /\ \A s \in Sessions : WF_vars(Statement(s))
    /\ \A d \in Dispatchers :
        /\ WF_vars(Dispatch(d))
        /\ SF_vars(CallHandler(d))
        /\ SF_vars(HandlerReturns(d))
        /\ SF_vars(MarkDispatched(d))

-----------------------------------------------------------------------------
(* Properties *)

InTransaction == {s \in Sessions : pc[s] # "idle"}

\* Every variable has its type, and a session's staged rows are those of the
\* statements it has executed.
TypeOK ==
    /\ objects \subseteq ObjectRow
    /\ edges \subseteq Edges
    /\ domain_events \subseteq EventRow
    /\ DOMAIN outbox \subseteq EventIds
    /\ outbox \in [DOMAIN outbox -> {"pending", "dispatched"}]
    /\ next_sequence \in Nat
    /\ lock \in Sessions \cup {None}
    /\ pc \in [Sessions -> {"idle", "read", "insert", "edges", "lock", "head", "append", "commit"}]
    /\ tx \in [Sessions -> Transaction \cup {NoTransaction}]
    /\ \A s \in InTransaction : tx[s] \in Transaction
    /\ staged \in [Sessions -> Staged]
    /\ begun \in Nat
    /\ dpc \in [Dispatchers -> {"idle", "next", "handler", "mark", "failed"}]
    /\ batch \in [Dispatchers -> SUBSET EventIds]
    /\ current \in [Dispatchers -> EventIds \cup {None}]
    /\ \A d \in Dispatchers : dpc[d] \in {"handler", "mark", "failed"} => current[d] \in EventIds
    /\ handled \subseteq EventIds

\* The row before `row` in sequence order.
Precedes(before, row) ==
    /\ before.sequence < row.sequence
    /\ \A other \in domain_events :
           other.sequence < row.sequence => other.sequence <= before.sequence

\* verify_appended_events over read_all() raises nothing: each row's prev_hash
\* is the content_hash of the row before it in sequence order, the first row's
\* is the genesis, and each content_hash is recomputed.
verify_chain ==
    \A row \in domain_events :
        /\ row.content_hash = compute_event_hash(row.event, row.prev_hash)
        /\ \/ \E before \in domain_events :
                 Precedes(before, row) /\ row.prev_hash = before.content_hash
           \/ /\ \A other \in domain_events : other.sequence >= row.sequence
              /\ row.prev_hash = Genesis

\* However the appends of several sessions interleave, roll back and leave gaps
\* in the identity column, the committed log verifies at every moment and no two
\* committed events share a sequence (PostgresEventLog.append's single writer).
ChainVerifies ==
    /\ verify_chain
    /\ \A r, q \in domain_events : r.sequence = q.sequence => r = q

\* Exactly one of the concurrent writers with the same expectation wins, and a
\* winner builds on the revision it names: each object's committed revisions are
\* 1, 2, ... n, each written once (_insert_revision_core).
OneWinnerPerRevision ==
    \A row \in objects :
        /\ row.revision > 1 =>
               \E base \in objects : base.id = row.id /\ base.revision = row.revision - 1
        /\ row.revision >= 1
        /\ \A other \in objects :
               other.id = row.id /\ other.revision = row.revision => other = row

\* The transactional outbox (docs/spec/03_API_AND_EVENTS.md, 5.3): a committed
\* object revision never loses its event, an event never describes a revision that
\* is not committed, and an event is pending or dispatched exactly when it exists.
ChangeHasItsEvent ==
    /\ \A row \in objects : \E r \in domain_events :
           /\ r.event.id = row.content
           /\ r.event.object_id = row.id
           /\ r.event.object_revision = row.revision
    /\ \A r \in domain_events : \E row \in objects :
           row.id = r.event.object_id /\ row.revision = r.event.object_revision
    /\ DOMAIN outbox = {r.event.id : r \in domain_events}

\* Nothing committed is ever changed or removed, and an event becomes visible
\* only above every sequence already visible, so a reader that has read the log up
\* to a sequence has missed nothing below it (MRR-NFR-002).
AppendOnly ==
    [][ /\ objects \subseteq objects'
        /\ edges \subseteq edges'
        /\ domain_events \subseteq domain_events'
        /\ \A new \in domain_events' \ domain_events :
              \A old \in domain_events : old.sequence < new.sequence ]_vars

\* A row says "dispatched" only if some handler call returned normally for it,
\* and every event a dispatcher holds is a committed one (_load_appended_event
\* finds its row), whatever crashes and whoever else dispatches the same batch.
DispatchedWasHandled ==
    /\ \A e \in DOMAIN outbox : outbox[e] = "dispatched" => e \in handled
    /\ handled \subseteq {r.event.id : r \in domain_events}

\* A dispatched row never becomes pending again, even when a second dispatcher
\* holding the same row in an older batch sees its handler raise.
DispatchedIsFinal ==
    [][\A e \in DOMAIN outbox :
          outbox[e] = "dispatched" => e \in DOMAIN outbox' /\ outbox'[e] = "dispatched"]_vars

\* Every transaction ends: no session waits for ever for a key or for the lock.
TransactionsEnd == \A s \in Sessions : pc[s] # "idle" ~> pc[s] = "idle"

\* At-least-once delivery: a committed event is eventually dispatched although
\* handlers raise and dispatchers crash in between (InProcessOutboxDispatcher).
EventuallyDispatched ==
    \A e \in EventIds : e \in DOMAIN outbox ~> e \in DOMAIN outbox /\ outbox[e] = "dispatched"
-----------------------------------------------------------------------------
(* Refinement *)

LatestRevision(o) == CHOOSE n \in 0 .. MaxRevision + 1 : CurrentMaxIs(o, n)

\* The digest of the newest event stands for the whole history.
HeadHash == IF domain_events = {} THEN Genesis
            ELSE (CHOOSE row \in domain_events : IsHead(row)).content_hash

Store == INSTANCE AppendOnlyStore WITH
            latest <- [o \in Objects |-> LatestRevision(o)],
            links <- edges,
            log <- HeadHash

\* The statements of the concurrent transactions, their conflicts, roll backs and
\* the dispatchers amount to atomic steps of the append-only store
\* (record_object_revision_with_event and record_event are one transaction each).
ImplementsStore == Store!Spec

\* At-least-once delivery, whatever handlers raise and whoever crashes: every
\* committed event is dispatched in the end, after a call that handled it, and once
\* dispatched it stays so although another dispatcher holds it in an older batch
\* (InProcessOutboxDispatcher.dispatch_pending).
DeliveredAtLeastOnce == [][DispatchedWasHandled']_vars /\ DispatchedIsFinal /\ EventuallyDispatched
=============================================================================
