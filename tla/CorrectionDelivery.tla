------------------------- MODULE CorrectionDelivery -------------------------
(***************************************************************************)
(* How one CorrectionEvent reaches the practices it affects                 *)
(* (mrr.services.correction.service), and what is kept about the deliveries *)
(* that failed (mrr.domain.delivery_retry, PostgresDeliveryPendingStore).   *)
(*                                                                         *)
(* Notifiers run notify_affected_practices and propagate_impact; retriers   *)
(* run the operations on pending-delivery rows.  Each is a process that     *)
(* reads, sends through the transport and writes in separate transactions,  *)
(* and may die between any two of them.  A transaction of the event store   *)
(* is atomic (EventStore implements AppendOnlyStore).                       *)
(***************************************************************************)
EXTENDS Naturals, Sequences

CONSTANTS
    Recipients,         \* affected practices
    Notifiers,          \* processes that notify or recompute the impact
    Retriers,           \* processes that look after pending deliveries
    MaxAttempts,        \* max_attempts of the PostgresDeliveryPendingStore
    Backoff,            \* its backoff curve: attempt number -> delay
    Lifetime,           \* expires_at - sent_at of a notification
    MaxNotifications,   \* bound: notifications minted
    MaxRevision,        \* bound: revisions of the correction
    MaxTime,            \* bound: the clock
    None                \* no such thing (SQL NULL)

ASSUME CorrectionDeliveryConstants ==
    /\ MaxAttempts \in Nat \ {0}
    /\ Backoff \in [1 .. MaxAttempts -> Nat]
    /\ Lifetime \in Nat \ {0}
    /\ MaxNotifications \in Nat /\ MaxRevision \in Nat \ {0} /\ MaxTime \in Nat

VARIABLES
    now,                \* the clock
    correction,         \* status and revision of the stored CorrectionEvent
    minted,             \* the notifications signed so far, a fresh id each
    inbox,              \* notifications that arrived at their recipient's endpoint
    carried,            \* notifications travelling in an offline bundle
    log,                \* the correction.notification_sent events
    pending_deliveries, \* the rows of the table, by notification
    notifier,           \* per notifier: the call it is running
    retrier,            \* per retrier: the call it is running
    overlapped          \* history: a notifier began while another was at work

vars == <<now, correction, minted, inbox, carried, log, pending_deliveries, notifier, retrier,
          overlapped>>
worldVars == <<now, minted, inbox, carried>>

-----------------------------------------------------------------------------
(* Data *)

Notifications == 1 .. MaxNotifications
Statuses == {"OPEN", "AWAITING_RESPONSES", "DELIVERY_PENDING"}
Correction == [status : Statuses, revision : 1 .. MaxRevision]
Minted == [to : Recipients, expires_at : 0 .. MaxTime]

\* One event type with two writers: notify_affected_practices names the practice
\* and says "sent" or "pending"; _append_delivery_event gives the attempt and the
\* row's status.
Event == [writer : {"notify", "delivery"}, notification : Notifications,
          attempt : Nat, delivery_status : {"sent", "pending", "delivered", "exhausted"}]

\* next_retry_at of a resolved row is NULL.
Row == [status : {"pending", "delivered", "exhausted"}, attempt_count : Nat,
        next_retry_at : Nat \cup {None}, expires_at : Nat]

NotifierCall == [step : {"sent", "send", "record", "events", "impact"},
                 latest : Correction, todo : SUBSET Recipients,
                 results : Seq([notification : Notifications, delivered : BOOLEAN])]
RetrierCall == [op : {"open", "online", "offline", "delivered", "exhaust"},
                step : {"call", "insert", "send", "bundle", "record", "event"},
                notification : Notifications, at : Nat \cup {None},
                outcome : {"delivered", "failed"}, event : Event \cup {None}]
Idle == [step |-> "idle"]

-----------------------------------------------------------------------------
(* mrr.domain.delivery_retry *)

\* The earlier of the backoff's instant and the notification's expiry.
next_retry_at(last_attempted_at, attempt_count, expires_at) ==
    LET candidate == last_attempted_at + Backoff[attempt_count]
    IN  IF candidate < expires_at THEN candidate ELSE expires_at

\* Whichever comes first.
is_retry_exhausted(attempt_count, expires_at, at) ==
    attempt_count >= MaxAttempts \/ at >= expires_at

\* The row open_pending_delivery inserts for a notification whose first attempt failed.
NewRow(n, at) ==
    [status |-> "pending", attempt_count |-> 1,
     next_retry_at |-> next_retry_at(at, 1, minted[n].expires_at),
     expires_at |-> minted[n].expires_at]

\* What record_retry_attempt makes of a pending row.
AfterAttempt(row, outcome, at) ==
    LET attempts == row.attempt_count + 1
        status == IF outcome = "delivered" THEN "delivered"
                  ELSE IF is_retry_exhausted(attempts, row.expires_at, at) THEN "exhausted"
                  ELSE "pending"
    IN  [row EXCEPT !.attempt_count = attempts, !.status = status,
                    !.next_retry_at = IF status # "pending" THEN None
                                      ELSE next_retry_at(at, attempts, row.expires_at)]

\* What mark_exhausted makes of it: no attempt was made.
AfterGivingUp(row) == [row EXCEPT !.status = "exhausted", !.next_retry_at = None]

-----------------------------------------------------------------------------
(* notify_affected_practices *)

\* Mutant of AlreadySent: looks for the word the delivery events use.
AlreadyDelivered ==
    {minted[e.notification].to : e \in {f \in log : f.delivery_status = "delivered"}}

\* _already_sent_recipient_ids
AlreadySent == {minted[e.notification].to : e \in {f \in log : f.delivery_status = "sent"}}

\* _target_status_after_notification; the hops in between are never stored.
_target_status_after_notification(status, any_failed) ==
    CASE status = "OPEN" -> IF any_failed THEN "DELIVERY_PENDING" ELSE "AWAITING_RESPONSES"
      [] status = "AWAITING_RESPONSES" /\ any_failed -> "DELIVERY_PENDING"
      [] OTHER -> status

\* The event of one recipient's attempt.
EventOf(result) ==
    [writer |-> "notify", notification |-> result.notification, attempt |-> 1,
     delivery_status |-> IF result.delivered THEN "sent" ELSE "pending"]

NotifierGoes(p, call) == notifier' = [notifier EXCEPT ![p] = call]

\* The call begins by reading the latest revision.
notify_affected_practices(p, recipients) ==
    /\ notifier[p] = Idle
    /\ NotifierGoes(p, [step |-> "sent", latest |-> correction, todo |-> recipients,
                        results |-> <<>>])
    /\ UNCHANGED <<worldVars, correction, log, pending_deliveries, retrier>>

\* Recipients already recorded as "sent" are skipped; if none is left the call returns.
SkipAlreadySent(p) ==
    /\ notifier[p].step = "sent"
    /\ LET todo == notifier[p].todo \ AlreadySent
       IN  NotifierGoes(p, IF todo = {} THEN Idle
                           ELSE [notifier[p] EXCEPT !.step = "send", !.todo = todo])
    /\ UNCHANGED <<worldVars, correction, log, pending_deliveries, retrier>>

\* Sign a fresh notification for the next recipient and hand it to the transport.
\* A fresh message id collides with no file, so "failed" means it did not arrive.
SendNext(p) ==
    /\ notifier[p].step = "send"
    /\ Len(minted) < MaxNotifications /\ now + Lifetime <= MaxTime
    /\ \E r \in notifier[p].todo, delivered \in BOOLEAN :
        LET n == Len(minted) + 1
            left == notifier[p].todo \ {r}
        IN  /\ minted' = Append(minted, [to |-> r, expires_at |-> now + Lifetime])
            /\ inbox' = IF delivered THEN inbox \cup {n} ELSE inbox
            /\ NotifierGoes(p, [notifier[p] EXCEPT
                  !.todo = left,
                  !.results = Append(@, [notification |-> n, delivered |-> delivered]),
                  !.step = IF left = {} THEN "record" ELSE "send"])
    /\ UNCHANGED <<now, carried, correction, log, pending_deliveries, retrier>>

\* The status the call computes from the revision it read.
FinalStatus(call) ==
    _target_status_after_notification(call.latest.status,
        \E i \in DOMAIN call.results : ~call.results[i].delivered)

\* Mutant of RecordStatus: the revision read is not compared with the current one.
RecordStatusUnchecked(p) ==
    /\ notifier[p].step = "record"
    /\ \/ /\ FinalStatus(notifier[p]) # notifier[p].latest.status
          /\ correction.revision < MaxRevision
          /\ correction' = [status |-> FinalStatus(notifier[p]),
                            revision |-> correction.revision + 1]
          /\ log' = log \cup {EventOf(notifier[p].results[1])}
          /\ NotifierGoes(p, IF Len(notifier[p].results) = 1 THEN Idle
                             ELSE [notifier[p] EXCEPT !.step = "events",
                                                      !.results = Tail(@)])
       \/ /\ FinalStatus(notifier[p]) = notifier[p].latest.status
          /\ NotifierGoes(p, [notifier[p] EXCEPT !.step = "events"])
          /\ UNCHANGED <<correction, log>>
    /\ UNCHANGED <<worldVars, pending_deliveries, retrier>>

\* A changed status is a new revision, with the first recipient's event; a
\* revision written since the call read makes it fail with nothing recorded.
RecordStatus(p) ==
    /\ notifier[p].step = "record"
    /\ \/ /\ FinalStatus(notifier[p]) # notifier[p].latest.status
          /\ correction.revision = notifier[p].latest.revision
          /\ correction.revision < MaxRevision
          /\ correction' = [status |-> FinalStatus(notifier[p]),
                            revision |-> correction.revision + 1]
          /\ log' = log \cup {EventOf(notifier[p].results[1])}
          /\ NotifierGoes(p, IF Len(notifier[p].results) = 1 THEN Idle
                             ELSE [notifier[p] EXCEPT !.step = "events",
                                                      !.results = Tail(@)])
       \/ /\ FinalStatus(notifier[p]) # notifier[p].latest.status
          /\ correction.revision # notifier[p].latest.revision
          /\ NotifierGoes(p, Idle)
          /\ UNCHANGED <<correction, log>>
       \/ /\ FinalStatus(notifier[p]) = notifier[p].latest.status
          /\ NotifierGoes(p, [notifier[p] EXCEPT !.step = "events"])
          /\ UNCHANGED <<correction, log>>
    /\ UNCHANGED <<worldVars, pending_deliveries, retrier>>

\* The other recipients' events, a transaction each.
AppendNextEvent(p) ==
    /\ notifier[p].step = "events"
    /\ log' = log \cup {EventOf(notifier[p].results[1])}
    /\ NotifierGoes(p, IF Len(notifier[p].results) = 1 THEN Idle
                       ELSE [notifier[p] EXCEPT !.results = Tail(@)])
    /\ UNCHANGED <<worldVars, correction, pending_deliveries, retrier>>

\* propagate_impact reads the latest revision and finds the impact changed.  (The
\* reviews it requires afterwards are transitions of claims, kept elsewhere.)
propagate_impact(p) ==
    /\ notifier[p] = Idle
    /\ NotifierGoes(p, [step |-> "impact", latest |-> correction, todo |-> {},
                        results |-> <<>>])
    /\ UNCHANGED <<worldVars, correction, log, pending_deliveries, retrier>>

\* _write_impact_objects stores a revision that keeps the status it read.
WriteImpact(p) ==
    /\ notifier[p].step = "impact"
    /\ \/ /\ correction.revision = notifier[p].latest.revision
          /\ correction.revision < MaxRevision
          /\ correction' = [status |-> notifier[p].latest.status,
                            revision |-> correction.revision + 1]
       \/ /\ correction.revision # notifier[p].latest.revision
          /\ UNCHANGED correction
    /\ NotifierGoes(p, Idle)
    /\ UNCHANGED <<worldVars, log, pending_deliveries, retrier>>

CrashNotifier(p) ==
    /\ notifier[p] # Idle
    /\ NotifierGoes(p, Idle)
    /\ UNCHANGED <<worldVars, correction, log, pending_deliveries, retrier>>

-----------------------------------------------------------------------------
(* Pending deliveries *)

RetrierGoes(q, call) == retrier' = [retrier EXCEPT ![q] = call]

BeginCall(q, op, step, n, at) ==
    /\ retrier[q] = Idle
    /\ RetrierGoes(q, [op |-> op, step |-> step, notification |-> n, at |-> at,
                       outcome |-> IF op = "delivered" THEN "delivered" ELSE "failed",
                       event |-> None])
    /\ UNCHANGED <<worldVars, correction, log, pending_deliveries, notifier>>

\* open_pending_delivery is for a delivery the log says failed.
open_pending_delivery(q, n) ==
    /\ \E e \in log : e.writer = "notify" /\ e.notification = n /\ e.delivery_status = "pending"
    /\ BeginCall(q, "open", "insert", n, now)

\* Mutant of list_due_for_retry: passes over what has expired.
list_due_unexpired(q, op, n) ==
    /\ n \in DOMAIN pending_deliveries
    /\ pending_deliveries[n].status = "pending"
    /\ pending_deliveries[n].next_retry_at <= now
    /\ now < pending_deliveries[n].expires_at
    /\ BeginCall(q, op, "call", n, None)

\* list_due_for_retry: a due row is picked; the retry of it begins later.
list_due_for_retry(q, op, n) ==
    /\ n \in DOMAIN pending_deliveries
    /\ pending_deliveries[n].status = "pending"
    /\ pending_deliveries[n].next_retry_at <= now
    /\ BeginCall(q, op, "call", n, None)

\* The sender learns of an arrival and settles the row ...
mark_pending_delivery_delivered(q, n) ==
    /\ n \in inbox
    /\ BeginCall(q, "delivered", "record", n, now)

\* ... or gives up on it.
mark_pending_delivery_exhausted(q, n) ==
    /\ n \in DOMAIN pending_deliveries
    /\ BeginCall(q, "exhaust", "record", n, now)

\* The retry begins: its evaluation instant is fixed before the attempt.
BeginRetry(q) ==
    /\ retrier[q].step = "call"
    /\ RetrierGoes(q, [retrier[q] EXCEPT !.at = now,
                          !.step = IF retrier[q].op = "online" THEN "send" ELSE "bundle"])
    /\ UNCHANGED <<worldVars, correction, log, pending_deliveries, notifier>>

\* retry_pending_delivery_online sends the envelope it was first sent in.  The
\* filesystem transport answers "failed" when that message id is already there.
Resend(q) ==
    /\ retrier[q].step = "send"
    /\ \E arrives \in BOOLEAN :
        /\ arrives => retrier[q].notification \notin inbox
        /\ inbox' = IF arrives THEN inbox \cup {retrier[q].notification} ELSE inbox
        /\ RetrierGoes(q, [retrier[q] EXCEPT !.step = "record",
                              !.outcome = IF arrives THEN "delivered" ELSE "failed"])
    /\ UNCHANGED <<now, minted, carried, correction, log, pending_deliveries, notifier>>

\* Mutant of BuildBundle: a bundle written counts as a delivery.
BuildBundleDelivers(q) ==
    /\ retrier[q].step = "bundle"
    /\ carried' = carried \cup {retrier[q].notification}
    /\ RetrierGoes(q, [retrier[q] EXCEPT !.step = "record", !.outcome = "delivered"])
    /\ UNCHANGED <<now, minted, inbox, correction, log, pending_deliveries, notifier>>

\* retry_pending_delivery_offline wraps the envelope in a bundle; that the bundle
\* was written says nothing of its arrival, so the attempt counts as failed.
BuildBundle(q) ==
    /\ retrier[q].step = "bundle"
    /\ carried' = carried \cup {retrier[q].notification}
    /\ RetrierGoes(q, [retrier[q] EXCEPT !.step = "record"])
    /\ UNCHANGED <<now, minted, inbox, correction, log, pending_deliveries, notifier>>

DeliveryEvent(n, row) ==
    [writer |-> "delivery", notification |-> n, attempt |-> row.attempt_count,
     delivery_status |-> row.status]

\* One transaction stores the row; the event follows in another.
StoreRow(q, row) ==
    LET n == retrier[q].notification
    IN  /\ pending_deliveries' = [m \in DOMAIN pending_deliveries \cup {n} |->
                                    IF m = n THEN row ELSE pending_deliveries[m]]
        /\ RetrierGoes(q, [retrier[q] EXCEPT !.step = "event", !.event = DeliveryEvent(n, row)])

\* INSERT ... ON CONFLICT DO NOTHING: an existing row ends the call.
InsertRow(q) ==
    /\ retrier[q].step = "insert"
    /\ \/ /\ retrier[q].notification \notin DOMAIN pending_deliveries
          /\ StoreRow(q, NewRow(retrier[q].notification, retrier[q].at))
       \/ /\ retrier[q].notification \in DOMAIN pending_deliveries
          /\ RetrierGoes(q, Idle)
          /\ UNCHANGED pending_deliveries
    /\ UNCHANGED <<worldVars, correction, log, notifier>>

\* Mutant of RecordOutcome: a resolved row may be written again.
RecordOutcomeAgain(q) ==
    LET call == retrier[q]
    IN  /\ call.step = "record"
        /\ call.notification \in DOMAIN pending_deliveries
        /\ StoreRow(q, IF call.op = "exhaust"
                       THEN AfterGivingUp(pending_deliveries[call.notification])
                       ELSE AfterAttempt(pending_deliveries[call.notification],
                                         call.outcome, call.at))
        /\ UNCHANGED <<worldVars, correction, log, notifier>>

\* record_retry_attempt and mark_exhausted under the row lock: no row, or a row
\* that is already resolved, raises and leaves no event.
RecordOutcome(q) ==
    LET call == retrier[q]
        open == /\ call.notification \in DOMAIN pending_deliveries
                /\ pending_deliveries[call.notification].status = "pending"
    IN  /\ call.step = "record"
        /\ \/ /\ open
              /\ StoreRow(q, IF call.op = "exhaust"
                             THEN AfterGivingUp(pending_deliveries[call.notification])
                             ELSE AfterAttempt(pending_deliveries[call.notification],
                                               call.outcome, call.at))
           \/ /\ ~open
              /\ RetrierGoes(q, Idle)
              /\ UNCHANGED pending_deliveries
        /\ UNCHANGED <<worldVars, correction, log, notifier>>

\* _append_delivery_event
AppendDeliveryEvent(q) ==
    /\ retrier[q].step = "event"
    /\ log' = log \cup {retrier[q].event}
    /\ RetrierGoes(q, Idle)
    /\ UNCHANGED <<worldVars, correction, pending_deliveries, notifier>>

CrashRetrier(q) ==
    /\ retrier[q] # Idle
    /\ RetrierGoes(q, Idle)
    /\ UNCHANGED <<worldVars, correction, log, pending_deliveries, notifier>>

-----------------------------------------------------------------------------
(* The world *)

Tick == /\ now < MaxTime
        /\ now' = now + 1
        /\ UNCHANGED <<correction, minted, inbox, carried, log, pending_deliveries, notifier, retrier>>

\* The recipient imports a bundle that has not expired.
ImportBundle(n) ==
    /\ n \in carried \ inbox
    /\ now < minted[n].expires_at
    /\ inbox' = inbox \cup {n}
    /\ UNCHANGED <<now, minted, carried, correction, log, pending_deliveries, notifier, retrier>>

-----------------------------------------------------------------------------
Init ==
    /\ now = 0
    /\ correction = [status |-> "OPEN", revision |-> 1]
    /\ minted = <<>> /\ inbox = {} /\ carried = {} /\ log = {}
    /\ pending_deliveries = [n \in {} |-> None]
    /\ notifier = [p \in Notifiers |-> Idle]
    /\ retrier = [q \in Retriers |-> Idle]
    /\ overlapped = FALSE

BeginNotify(p) ==
    \/ \E recipients \in SUBSET Recipients \ {{}} : notify_affected_practices(p, recipients)
    \/ propagate_impact(p)

Notify(p) == SkipAlreadySent(p) \/ SendNext(p) \/ RecordStatus(p) \/ AppendNextEvent(p)
             \/ WriteImpact(p)

Retry(q) == BeginRetry(q) \/ Resend(q) \/ BuildBundle(q) \/ InsertRow(q)
            \/ RecordOutcome(q) \/ AppendDeliveryEvent(q)

BeginRetrier(q) == \E n \in 1 .. Len(minted) :
    \/ open_pending_delivery(q, n)
    \/ list_due_for_retry(q, "online", n)
    \/ list_due_for_retry(q, "offline", n)
    \/ mark_pending_delivery_delivered(q, n)
    \/ mark_pending_delivery_exhausted(q, n)

Next ==
    \/ \E p \in Notifiers :
        /\ BeginNotify(p)
        /\ overlapped' = (overlapped \/ \E u \in Notifiers : notifier[u] # Idle)
    \/ /\ UNCHANGED overlapped
       /\ \/ \E p \in Notifiers : Notify(p) \/ CrashNotifier(p)
          \/ \E q \in Retriers : BeginRetrier(q) \/ Retry(q) \/ CrashRetrier(q)
          \/ Tick
          \/ \E n \in 1 .. Len(minted) : ImportBundle(n)

Spec == Init /\ [][Next]_vars

\* A step of a retrier or of the clock overlaps with no notifier.
Beside(A) == A /\ UNCHANGED overlapped

\* Time passes; a deployment keeps retrying what is due (the repository leaves
\* the schedule to it), a call that has begun goes on, and the retriers do not
\* die in every call at the same place.
FairSpec ==
    /\ Spec
    /\ WF_vars(Beside(Tick))
    /\ \A n \in Notifications :
          SF_vars(Beside(\E q \in Retriers :
                            n \in 1 .. Len(minted) /\ list_due_for_retry(q, "online", n)))
    /\ WF_vars(Beside(\E q \in Retriers : Retry(q)))
    /\ SF_vars(Beside(\E q \in Retriers : BeginRetry(q) /\ retrier[q].op = "online"))
    /\ SF_vars(Beside(\E q \in Retriers : Resend(q)))
    /\ SF_vars(Beside(\E q \in Retriers : RecordOutcome(q) /\ retrier[q].op = "online"))

-----------------------------------------------------------------------------
(* Properties *)

\* Every variable has its type, and a notification in use has been minted.
TypeOK ==
    /\ now \in 0 .. MaxTime
    /\ correction \in Correction
    /\ minted \in Seq(Minted) /\ Len(minted) <= MaxNotifications
    /\ inbox \subseteq DOMAIN minted /\ carried \subseteq DOMAIN minted
    /\ log \subseteq Event /\ \A e \in log : e.notification \in DOMAIN minted
    /\ DOMAIN pending_deliveries \subseteq DOMAIN minted
    /\ \A n \in DOMAIN pending_deliveries : pending_deliveries[n] \in Row
    /\ notifier \in [Notifiers -> NotifierCall \cup {Idle}]
    /\ retrier \in [Retriers -> RetrierCall \cup {Idle}]
    /\ overlapped \in BOOLEAN

\* What the records call delivered has arrived: no crash, conflict or race makes a
\* recipient that got nothing look notified, so SkipAlreadySent passes over nobody
\* who was not reached and no such row is closed as delivered (MRR-FR-094).
DeliveredMeansArrived ==
    /\ \A e \in log : e.delivery_status \in {"sent", "delivered"} => e.notification \in inbox
    /\ \A n \in DOMAIN pending_deliveries :
          pending_deliveries[n].status = "delivered" => n \in inbox

\* A failed notification shows in the correction's status: once its event is in the
\* log the status is DELIVERY_PENDING, and no concurrent call that read an older
\* revision writes an earlier status over it.
FailureStaysVisible ==
    (\E e \in log : e.writer = "notify" /\ e.delivery_status = "pending")
        => correction.status = "DELIVERY_PENDING"

\* While notifying calls follow one another, a recipient whose notification is
\* recorded as sent is not sent another one, however the calls before crashed
\* (notify_affected_practices is idempotent per recipient).
SentOncePerRecipient ==
    ~overlapped => \A e, f \in log :
        /\ e.delivery_status = "sent" /\ f.delivery_status = "sent"
        /\ minted[e.notification].to = minted[f.notification].to
        => e = f

\* A pending row can always come up for retry before its notification expires, and
\* has an attempt left unless its first retry is yet to come.
PendingRowsStayDue ==
    \A n \in DOMAIN pending_deliveries :
        LET row == pending_deliveries[n]
        IN  /\ row.status = "pending" =>
                  /\ row.next_retry_at <= row.expires_at
                  /\ row.attempt_count < MaxAttempts \/ row.attempt_count = 1
            /\ row.status # "pending" => row.next_retry_at = None

\* The log never contradicts the rows: a delivery's event reports an attempt the
\* row has counted, and a final outcome in the log is the row's own, although row
\* and event are written in separate transactions by racing retriers.
LogAgreesWithRows ==
    \A e \in log : e.writer = "delivery" =>
        /\ e.notification \in DOMAIN pending_deliveries
        /\ e.attempt <= pending_deliveries[e.notification].attempt_count
        /\ e.delivery_status # "pending" =>
              e.delivery_status = pending_deliveries[e.notification].status

\* A row is never deleted, its attempts only grow, and once delivered or exhausted
\* it never changes again (DELIVERY_RETRY_LIFECYCLE has two terminal states).
OutcomeIsFinal ==
    [][\A n \in DOMAIN pending_deliveries :
          /\ n \in DOMAIN pending_deliveries'
          /\ pending_deliveries'[n].attempt_count >= pending_deliveries[n].attempt_count
          /\ pending_deliveries[n].status # "pending" =>
                pending_deliveries'[n] = pending_deliveries[n]]_vars

\* Every pending delivery is settled in the end, whatever crashes on the way.
EveryPendingDeliveryResolves ==
    \A n \in Notifications :
        n \in DOMAIN pending_deliveries ~>
            n \in DOMAIN pending_deliveries /\ pending_deliveries[n].status # "pending"

\* Rows and events of a delivery are two transactions of racing retriers, yet they
\* agree, and a pending row always comes due in time (record_delivery_attempt,
\* next_retry_at).
RecordsOfDeliveriesAgree == TypeOK /\ LogAgreesWithRows /\ PendingRowsStayDue

\* A pending delivery is settled in the end and stays as it was settled, whatever
\* crashes, expires or is retried too late (DELIVERY_RETRY_LIFECYCLE).
DeliveriesAreSettledForGood == OutcomeIsFinal /\ EveryPendingDeliveryResolves
=============================================================================
