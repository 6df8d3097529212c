---------------------- MODULE CorrectionDeliveryProofs ----------------------
(***************************************************************************)
(* Theorems about CorrectionDelivery, for any number of recipients,         *)
(* notifiers and retriers, any backoff curve and any bounds.                *)
(***************************************************************************)
EXTENDS CorrectionDelivery, TLAPS

-----------------------------------------------------------------------------
(* The inductive invariant *)

\* What a notifier holds while it runs call c: the revision it read is an older one
\* or the one in force, its results tell of notifications that were minted and have
\* arrived where they say so, and a failure it has yet to log shows in the status.
NotifierHolds(c) ==
    /\ c.latest.revision <= correction.revision
    /\ c.latest.revision = correction.revision => c.latest = correction
    /\ c.latest.status = "DELIVERY_PENDING" => correction.status = "DELIVERY_PENDING"
    /\ \A i \in DOMAIN c.results :
          /\ c.results[i].notification \in DOMAIN minted
          /\ c.results[i].delivered => c.results[i].notification \in inbox
          /\ c.step = "events" /\ ~c.results[i].delivered => correction.status = "DELIVERY_PENDING"
    /\ c.step \in {"sent", "impact"} => c.results = <<>>
    /\ c.step \in {"record", "events"} => c.results # <<>>

\* An event of a delivery reports an attempt its row has counted, and the row's
\* outcome if it reports a final one.
Reports(e) ==
    /\ e.notification \in DOMAIN pending_deliveries
    /\ e.attempt <= pending_deliveries[e.notification].attempt_count
    /\ e.delivery_status # "pending" =>
          e.delivery_status = pending_deliveries[e.notification].status

\* What a retrier holds: the instant of its evaluation once it has one, and an
\* outcome "delivered" only for what has arrived.
RetrierHolds(c) ==
    /\ c.notification \in DOMAIN minted
    /\ c.step \in {"insert", "send", "bundle", "record"} => c.at \in Nat
    /\ c.step \in {"call", "send", "bundle"} => c.outcome = "failed"
    /\ c.step = "record" /\ c.outcome = "delivered" => c.notification \in inbox
    /\ c.step = "event" =>
          /\ c.event \in Event /\ c.event.writer = "delivery"
          /\ c.event.notification = c.notification
          /\ c.event.delivery_status # "sent"
          /\ Reports(c.event)

NotifiersHold == \A p \in Notifiers : notifier[p] # Idle => NotifierHolds(notifier[p])
RetriersHold == \A q \in Retriers : retrier[q] # Idle => RetrierHolds(retrier[q])

\* The recipients of a call's results are distinct, and neither recorded as sent nor
\* still to do; while it sends, nobody it has to do is recorded as sent.
Recipient(result) == minted[result.notification].to

Apart(c) ==
    /\ c.step = "send" => c.todo \cap AlreadySent = {}
    /\ \A i \in DOMAIN c.results : Recipient(c.results[i]) \notin c.todo \cup AlreadySent
    /\ \A i, j \in DOMAIN c.results :
          i # j => Recipient(c.results[i]) # Recipient(c.results[j])

\* One notifier is at work at a time, and keeps its recipients apart.
OneNotifier ==
    /\ \A p, u \in Notifiers : notifier[p] # Idle /\ notifier[u] # Idle => p = u
    /\ \A p \in Notifiers : notifier[p] # Idle => Apart(notifier[p])

SerialNotifiers == ~overlapped => OneNotifier

IInv == /\ TypeOK /\ NotifiersHold /\ RetriersHold
        /\ DeliveredMeansArrived /\ FailureStaysVisible
        /\ LogAgreesWithRows /\ PendingRowsStayDue
        /\ SerialNotifiers /\ SentOncePerRecipient

-----------------------------------------------------------------------------
(* Data *)

LEMMA CallsAreNotIdle ==
    /\ \A c \in NotifierCall : c # Idle
    /\ \A c \in RetrierCall : c # Idle
  BY DEF NotifierCall, RetrierCall, Idle

\* A process whose step is one of a call's is running that call.
LEMMA AtWork ==
    ASSUME TypeOK
    PROVE  /\ \A p \in Notifiers : notifier[p].step # "idle" =>
                 notifier[p] # Idle /\ notifier[p] \in NotifierCall
           /\ \A p \in Notifiers : notifier[p] # Idle => notifier[p] \in NotifierCall
           /\ \A q \in Retriers : retrier[q].step # "idle" =>
                 retrier[q] # Idle /\ retrier[q] \in RetrierCall
           /\ \A q \in Retriers : retrier[q] # Idle => retrier[q] \in RetrierCall
  BY DEF TypeOK, Idle

LEMMA MintedOnes ==
    ASSUME TypeOK
    PROVE  /\ DOMAIN minted = 1 .. Len(minted) /\ Len(minted) \in Nat
           /\ \A n \in DOMAIN minted :
                 n \in Notifications /\ minted[n] \in Minted /\ minted[n].expires_at \in Nat
  <1>1. minted \in Seq(Minted) /\ Len(minted) <= MaxNotifications
    BY DEF TypeOK
  <1>2. DOMAIN minted = 1 .. Len(minted) /\ Len(minted) \in Nat
    BY <1>1
  <1>3. \A n \in DOMAIN minted : n \in Notifications /\ minted[n] \in Minted
    BY <1>1, <1>2, CorrectionDeliveryConstants DEF Notifications
  <1> QED
    BY <1>2, <1>3, CorrectionDeliveryConstants DEF Minted

LEMMA StatusAfterNotification ==
    ASSUME NEW status \in Statuses, NEW any_failed \in BOOLEAN
    PROVE  /\ _target_status_after_notification(status, any_failed) \in Statuses
           /\ any_failed => _target_status_after_notification(status, any_failed) = "DELIVERY_PENDING"
           /\ status = "DELIVERY_PENDING" =>
                 _target_status_after_notification(status, any_failed) = "DELIVERY_PENDING"
  BY DEF _target_status_after_notification, Statuses

LEMMA FinalStatusOf ==
    ASSUME NEW c \in NotifierCall
    PROVE  /\ FinalStatus(c) \in Statuses
           /\ (\E i \in DOMAIN c.results : ~c.results[i].delivered) => FinalStatus(c) = "DELIVERY_PENDING"
           /\ c.latest.status = "DELIVERY_PENDING" => FinalStatus(c) = "DELIVERY_PENDING"
  <1>1. c.latest.status \in Statuses
    BY DEF NotifierCall, Correction
  <1> QED
    BY <1>1, StatusAfterNotification DEF FinalStatus

LEMMA TailOf ==
    ASSUME NEW S, NEW s \in Seq(S), s # <<>>
    PROVE  /\ 1 \in DOMAIN s
           /\ \A i \in DOMAIN Tail(s) : i + 1 \in DOMAIN s /\ Tail(s)[i] = s[i + 1]
           /\ Len(s) # 1 => Tail(s) # <<>>
  <1>1. Len(s) \in Nat /\ Len(s) >= 1 /\ DOMAIN s = 1 .. Len(s)
    OBVIOUS
  <1>2. Len(Tail(s)) = Len(s) - 1 /\ DOMAIN Tail(s) = 1 .. Len(s) - 1
    OBVIOUS
  <1>3. Len(s) # 1 => Tail(s) # <<>>
    BY <1>1, <1>2
  <1> QED
    BY <1>1, <1>2, <1>3

LEMMA AppendOf ==
    ASSUME NEW S, NEW s \in Seq(S), NEW x
    PROVE  /\ \A i \in DOMAIN Append(s, x) :
                  \/ i \in DOMAIN s /\ Append(s, x)[i] = s[i]
                  \/ i = Len(s) + 1 /\ Append(s, x)[i] = x
           /\ Append(s, x) # <<>>
  <1>1. Len(Append(s, x)) = Len(s) + 1 /\ Len(s) \in Nat
    OBVIOUS
  <1> QED
    BY <1>1

LEMMA ResultsOf ==
    ASSUME NEW c \in NotifierCall
    PROVE  /\ c.results \in Seq([notification : Notifications, delivered : BOOLEAN])
           /\ \A i \in DOMAIN c.results :
                 c.results[i] \in [notification : Notifications, delivered : BOOLEAN]
  <1>1. c.results \in Seq([notification : Notifications, delivered : BOOLEAN])
    BY DEF NotifierCall
  <1>2. \A S : \A s \in Seq(S) : \A i \in DOMAIN s : s[i] \in S
    OBVIOUS
  <1> QED
    BY <1>1, <1>2, Zenon

LEMMA EventOfResult ==
    ASSUME NEW r \in [notification : Notifications, delivered : BOOLEAN]
    PROVE  /\ EventOf(r) \in Event
           /\ EventOf(r).writer = "notify" /\ EventOf(r).attempt = 1
           /\ EventOf(r).notification = r.notification
           /\ EventOf(r).delivery_status = IF r.delivered THEN "sent" ELSE "pending"
  BY DEF EventOf, Event

\* next_retry_at never lies after the expiry.
LEMMA NextRetry ==
    ASSUME NEW at \in Nat, NEW k \in 1 .. MaxAttempts, NEW expires_at \in Nat
    PROVE  /\ next_retry_at(at, k, expires_at) \in Nat
           /\ next_retry_at(at, k, expires_at) <= expires_at
  <1>1. Backoff[k] \in Nat
    BY CorrectionDeliveryConstants
  <1> QED
    BY <1>1 DEF next_retry_at

\* What a row is when it is inserted, and what an attempt or giving up makes of it.
RowIsDue(row) ==
    /\ row.status = "pending" =>
          /\ row.next_retry_at <= row.expires_at
          /\ row.attempt_count < MaxAttempts \/ row.attempt_count = 1
    /\ row.status # "pending" => row.next_retry_at = None

LEMMA NewRowIsDue ==
    ASSUME TypeOK, NEW n \in DOMAIN minted, NEW at \in Nat
    PROVE  /\ NewRow(n, at) \in Row /\ RowIsDue(NewRow(n, at))
           /\ NewRow(n, at).status = "pending" /\ NewRow(n, at).attempt_count = 1
  <1>1. minted[n].expires_at \in Nat
    BY MintedOnes
  <1>2. 1 \in 1 .. MaxAttempts
    BY CorrectionDeliveryConstants
  <1> QED
    BY <1>1, <1>2, NextRetry DEF NewRow, Row, RowIsDue

LEMMA AttemptKeepsRowDue ==
    ASSUME NEW row \in Row, row.status = "pending", NEW at \in Nat,
           NEW outcome \in {"delivered", "failed"}
    PROVE  LET after == AfterAttempt(row, outcome, at)
           IN  /\ after \in Row /\ RowIsDue(after)
               /\ after.attempt_count = row.attempt_count + 1
               /\ after.status = "delivered" => outcome = "delivered"
  <1> DEFINE attempts == row.attempt_count + 1
             expires_at == row.expires_at
             after == AfterAttempt(row, outcome, at)
  <1>1. attempts \in Nat \ {0} /\ expires_at \in Nat /\ row.attempt_count \in Nat
    BY DEF Row
  <1>2. CASE outcome = "delivered"
    <2>1. after = [row EXCEPT !.attempt_count = attempts, !.status = "delivered",
                              !.next_retry_at = None]
      BY <1>2 DEF AfterAttempt
    <2> QED
      BY <1>1, <1>2, <2>1 DEF Row, RowIsDue
  <1>3. CASE outcome = "failed" /\ is_retry_exhausted(attempts, expires_at, at)
    <2>1. after = [row EXCEPT !.attempt_count = attempts, !.status = "exhausted",
                              !.next_retry_at = None]
      BY <1>3 DEF AfterAttempt
    <2> QED
      BY <1>1, <1>3, <2>1 DEF Row, RowIsDue
  <1>4. CASE outcome = "failed" /\ ~is_retry_exhausted(attempts, expires_at, at)
    <2>1. attempts < MaxAttempts /\ attempts \in 1 .. MaxAttempts
      BY <1>1, <1>4, CorrectionDeliveryConstants DEF is_retry_exhausted
    <2>2. after = [row EXCEPT !.attempt_count = attempts, !.status = "pending",
                              !.next_retry_at = next_retry_at(at, attempts, expires_at)]
      BY <1>4 DEF AfterAttempt
    <2>3. /\ next_retry_at(at, attempts, expires_at) \in Nat
          /\ next_retry_at(at, attempts, expires_at) <= expires_at
      BY <1>1, <2>1, NextRetry
    <2> QED
      BY <1>1, <1>4, <2>1, <2>2, <2>3 DEF Row, RowIsDue
  <1> QED
    BY <1>2, <1>3, <1>4

LEMMA GivingUpKeepsRowDue ==
    ASSUME NEW row \in Row
    PROVE  /\ AfterGivingUp(row) \in Row /\ RowIsDue(AfterGivingUp(row))
           /\ AfterGivingUp(row).status = "exhausted"
           /\ AfterGivingUp(row).attempt_count = row.attempt_count
  BY DEF AfterGivingUp, Row, RowIsDue

-----------------------------------------------------------------------------
(* Types *)

\* A notifier's step, by what it does to the variables other processes see.
LEMMA NotifierStepTypes ==
    ASSUME TypeOK, NotifiersHold, NEW p \in Notifiers,
           BeginNotify(p) \/ Notify(p) \/ CrashNotifier(p)
    PROVE  /\ notifier' \in [Notifiers -> NotifierCall \cup {Idle}]
           /\ correction' \in Correction
           /\ minted' \in Seq(Minted) /\ Len(minted') <= MaxNotifications
           /\ inbox' \subseteq DOMAIN minted' /\ DOMAIN minted \subseteq DOMAIN minted'
           /\ log' \subseteq Event /\ \A e \in log' : e.notification \in DOMAIN minted'
           /\ UNCHANGED <<now, carried, pending_deliveries, retrier>>
  <1> DEFINE c == notifier[p]
             Calls == NotifierCall \cup {Idle}
             Rest == /\ correction' \in Correction
                     /\ minted' \in Seq(Minted) /\ Len(minted') <= MaxNotifications
                     /\ inbox' \subseteq DOMAIN minted' /\ DOMAIN minted \subseteq DOMAIN minted'
                     /\ log' \subseteq Event /\ \A e \in log' : e.notification \in DOMAIN minted'
                     /\ UNCHANGED <<now, carried, pending_deliveries, retrier>>
  <1>1. /\ correction \in Correction /\ minted \in Seq(Minted) /\ Len(minted) <= MaxNotifications
        /\ inbox \subseteq DOMAIN minted
        /\ log \subseteq Event /\ \A e \in log : e.notification \in DOMAIN minted
        /\ notifier \in [Notifiers -> Calls]
    BY DEF TypeOK
  <1>2. ASSUME NEW d \in Calls, NotifierGoes(p, d)
        PROVE  notifier' \in [Notifiers -> Calls]
    BY <1>1, <1>2 DEF NotifierGoes
  <1>3. CASE c # Idle
    <2>1. c \in NotifierCall /\ NotifierHolds(c)
      BY <1>3, AtWork DEF NotifiersHold
    <2>2. \A i \in DOMAIN c.results :
              /\ EventOf(c.results[i]) \in Event
              /\ EventOf(c.results[i]).notification \in DOMAIN minted
      <3>1. \A i \in DOMAIN c.results :
                c.results[i] \in [notification : Notifications, delivered : BOOLEAN]
        BY <2>1, ResultsOf
      <3> QED
        BY <2>1, <3>1, EventOfResult DEF NotifierHolds
    <2>3. c.results # <<>> =>
              /\ 1 \in DOMAIN c.results
              /\ [c EXCEPT !.results = Tail(@)] \in NotifierCall
              /\ [c EXCEPT !.step = "events", !.results = Tail(@)] \in NotifierCall
      <3>1. c.results \in Seq([notification : Notifications, delivered : BOOLEAN])
        BY <2>1, ResultsOf
      <3>2. c.results # <<>> =>
                /\ 1 \in DOMAIN c.results
                /\ Tail(c.results) \in Seq([notification : Notifications, delivered : BOOLEAN])
        BY <3>1
      <3> QED
        BY <2>1, <3>2 DEF NotifierCall
    <2>4. CASE SkipAlreadySent(p)
      <3> DEFINE todo == c.todo \ AlreadySent
                 d == IF todo = {} THEN Idle ELSE [c EXCEPT !.step = "send", !.todo = todo]
      <3>1. NotifierGoes(p, d)
        BY <2>4, Zenon DEF SkipAlreadySent
      <3>2. d \in Calls
        BY <2>1 DEF NotifierCall
      <3>3. Rest
        BY <1>1, <2>4 DEF SkipAlreadySent, worldVars
      <3> QED
        BY <1>2, <3>1, <3>2, <3>3
    <2>5. CASE SendNext(p)
      <3>1. PICK r \in c.todo, delivered \in BOOLEAN :
               LET n == Len(minted) + 1
                   left == c.todo \ {r}
               IN  /\ Len(minted) < MaxNotifications /\ now + Lifetime <= MaxTime
                   /\ minted' = Append(minted, [to |-> r, expires_at |-> now + Lifetime])
                   /\ inbox' = IF delivered THEN inbox \cup {n} ELSE inbox
                   /\ NotifierGoes(p, [c EXCEPT
                         !.todo = left,
                         !.results = Append(@, [notification |-> n, delivered |-> delivered]),
                         !.step = IF left = {} THEN "record" ELSE "send"])
                   /\ UNCHANGED <<now, carried, correction, log, pending_deliveries, retrier>>
        BY <2>5 DEF SendNext
      <3> DEFINE n == Len(minted) + 1
                 left == c.todo \ {r}
                 result == [notification |-> n, delivered |-> delivered]
      <3>2. n \in Notifications
        BY <1>1, <3>1, CorrectionDeliveryConstants DEF Notifications
      <3>3. [to |-> r, expires_at |-> now + Lifetime] \in Minted
        <4>1. r \in Recipients
          BY <2>1 DEF NotifierCall
        <4>2. now + Lifetime \in 0 .. MaxTime
          BY <3>1, CorrectionDeliveryConstants DEF TypeOK
        <4> QED
          BY <4>1, <4>2 DEF Minted
      <3>4. /\ minted' \in Seq(Minted) /\ Len(minted') <= MaxNotifications
            /\ DOMAIN minted' = DOMAIN minted \cup {n}
        BY <1>1, <3>1, <3>3, CorrectionDeliveryConstants
      <3>5. [c EXCEPT !.todo = left, !.results = Append(@, result),
                      !.step = IF left = {} THEN "record" ELSE "send"] \in NotifierCall
        <4>1. Append(c.results, result) \in Seq([notification : Notifications, delivered : BOOLEAN])
          BY <2>1, <3>2 DEF NotifierCall
        <4>2. left \in SUBSET Recipients
          BY <2>1 DEF NotifierCall
        <4> HIDE DEF left, result
        <4> QED
          BY <2>1, <4>1, <4>2 DEF NotifierCall
      <3>6. Rest
        BY <1>1, <3>1, <3>4
      <3> QED
        BY <1>2, <3>1, <3>5, <3>6
    <2>6. CASE RecordStatus(p)
      <3>1. c.step = "record" /\ c.results # <<>>
        BY <2>1, <2>6 DEF RecordStatus, NotifierHolds
      <3>2. /\ EventOf(c.results[1]) \in Event
            /\ EventOf(c.results[1]).notification \in DOMAIN minted
        BY <2>2, <2>3, <3>1
      <3>3. UNCHANGED <<now, minted, inbox, carried, pending_deliveries, retrier>>
        BY <2>6 DEF RecordStatus, worldVars
      <3>4. log' = log \/ log' = log \cup {EventOf(c.results[1])}
        BY <2>6 DEF RecordStatus
      <3>5. correction' \in Correction
        <4>1. CASE UNCHANGED correction
          BY <1>1, <4>1
        <4>2. CASE /\ correction.revision < MaxRevision
                   /\ correction' = [status |-> FinalStatus(c), revision |-> correction.revision + 1]
          <5>1. correction.revision + 1 \in 1 .. MaxRevision
            BY <1>1, <4>2, CorrectionDeliveryConstants DEF Correction
          <5> QED
            BY <2>1, <4>2, <5>1, FinalStatusOf DEF Correction
        <4> QED
          BY <2>6, <4>1, <4>2 DEF RecordStatus
      <3>6. Rest
        BY <1>1, <3>2, <3>3, <3>4, <3>5
      <3>7. notifier' \in [Notifiers -> Calls]
        <4>1. [c EXCEPT !.step = "events"] \in Calls
          BY <2>1 DEF NotifierCall
        <4> QED
          BY <1>2, <2>3, <2>6, <3>1, <4>1 DEF RecordStatus
      <3> QED
        BY <3>6, <3>7
    <2>7. CASE AppendNextEvent(p)
      <3>1. c.step = "events" /\ c.results # <<>>
        BY <2>1, <2>7 DEF AppendNextEvent, NotifierHolds
      <3>2. notifier' \in [Notifiers -> Calls]
        BY <1>2, <2>3, <2>7, <3>1 DEF AppendNextEvent
      <3>3. log' = log \cup {EventOf(c.results[1])}
        BY <2>7 DEF AppendNextEvent
      <3>4. Rest
        BY <1>1, <2>2, <2>3, <2>7, <3>1, <3>3 DEF AppendNextEvent, worldVars
      <3> QED
        BY <3>2, <3>4
    <2>8. CASE WriteImpact(p)
      <3>1. notifier' \in [Notifiers -> Calls]
        BY <1>2, <2>8 DEF WriteImpact
      <3>2. correction' \in Correction
        <4>1. CASE UNCHANGED correction
          BY <1>1, <4>1
        <4>2. CASE /\ correction.revision < MaxRevision
                   /\ correction' = [status |-> c.latest.status, revision |-> correction.revision + 1]
          <5>1. correction.revision + 1 \in 1 .. MaxRevision /\ c.latest \in Correction
            BY <1>1, <2>1, <4>2, CorrectionDeliveryConstants DEF Correction, NotifierCall
          <5> QED
            BY <4>2, <5>1 DEF Correction
        <4> QED
          BY <2>8, <4>1, <4>2 DEF WriteImpact
      <3>3. Rest
        BY <1>1, <2>8, <3>2 DEF WriteImpact, worldVars
      <3> QED
        BY <3>1, <3>3
    <2>9. CASE CrashNotifier(p)
      <3>1. Rest
        BY <1>1, <2>9 DEF CrashNotifier, worldVars
      <3> QED
        BY <1>2, <2>9, <3>1 DEF CrashNotifier
    <2> QED
      BY <1>3, <2>4, <2>5, <2>6, <2>7, <2>8, <2>9
      DEF BeginNotify, notify_affected_practices, propagate_impact, Notify
  <1>4. CASE c = Idle
    <2>1. PICK step \in {"sent", "impact"}, todo \in SUBSET Recipients :
             NotifierGoes(p, [step |-> step, latest |-> correction, todo |-> todo, results |-> <<>>])
      <3>1. BeginNotify(p)
        BY <1>4 DEF Notify, SkipAlreadySent, SendNext, RecordStatus, AppendNextEvent,
                    WriteImpact, CrashNotifier, Idle
      <3> QED
        BY <3>1 DEF BeginNotify, notify_affected_practices, propagate_impact
    <2>2. [step |-> step, latest |-> correction, todo |-> todo, results |-> <<>>] \in NotifierCall
      BY <1>1 DEF NotifierCall
    <2>3. BeginNotify(p)
      BY <1>4 DEF Notify, SkipAlreadySent, SendNext, RecordStatus, AppendNextEvent,
                  WriteImpact, CrashNotifier, Idle
    <2>4. Rest
      BY <1>1, <2>3 DEF BeginNotify, notify_affected_practices, propagate_impact, worldVars
    <2> QED
      BY <1>2, <2>1, <2>2, <2>4
  <1> QED
    BY <1>3, <1>4

\* A retrier's step, by what it does to the variables other processes see.
LEMMA RetrierStepTypes ==
    ASSUME TypeOK, RetriersHold, NEW q \in Retriers,
           BeginRetrier(q) \/ Retry(q) \/ CrashRetrier(q)
    PROVE  /\ retrier' \in [Retriers -> RetrierCall \cup {Idle}]
           /\ inbox' \subseteq DOMAIN minted /\ carried' \subseteq DOMAIN minted
           /\ log' \subseteq Event /\ \A e \in log' : e.notification \in DOMAIN minted
           /\ DOMAIN pending_deliveries' \subseteq DOMAIN minted
           /\ \A n \in DOMAIN pending_deliveries' : pending_deliveries'[n] \in Row
           /\ UNCHANGED <<now, minted, correction, notifier>>
  <1> DEFINE c == retrier[q]
             Calls == RetrierCall \cup {Idle}
             Rest == /\ inbox' \subseteq DOMAIN minted /\ carried' \subseteq DOMAIN minted
                     /\ log' \subseteq Event /\ \A e \in log' : e.notification \in DOMAIN minted
                     /\ DOMAIN pending_deliveries' \subseteq DOMAIN minted
                     /\ \A n \in DOMAIN pending_deliveries' : pending_deliveries'[n] \in Row
                     /\ UNCHANGED <<now, minted, correction, notifier>>
  <1>1. /\ inbox \subseteq DOMAIN minted /\ carried \subseteq DOMAIN minted
        /\ log \subseteq Event /\ \A e \in log : e.notification \in DOMAIN minted
        /\ DOMAIN pending_deliveries \subseteq DOMAIN minted
        /\ \A n \in DOMAIN pending_deliveries : pending_deliveries[n] \in Row
        /\ retrier \in [Retriers -> Calls]
    BY DEF TypeOK
  <1>2. ASSUME NEW d \in Calls, RetrierGoes(q, d)
        PROVE  retrier' \in [Retriers -> Calls]
    BY <1>1, <1>2 DEF RetrierGoes
  <1>3. CASE BeginRetrier(q)
    <2>1. PICK n \in 1 .. Len(minted), op \in {"open", "online", "offline", "delivered", "exhaust"},
               step \in {"call", "insert", "record"}, at \in {now, None} :
             BeginCall(q, op, step, n, at)
      BY <1>3, SMTT(30) DEF BeginRetrier, open_pending_delivery, list_due_for_retry,
            mark_pending_delivery_delivered, mark_pending_delivery_exhausted
    <2> DEFINE d == [op |-> op, step |-> step, notification |-> n, at |-> at,
                     outcome |-> IF op = "delivered" THEN "delivered" ELSE "failed",
                     event |-> None]
    <2>2. d \in RetrierCall
      <3>1. n \in Notifications /\ now \in Nat
        BY MintedOnes, CorrectionDeliveryConstants DEF TypeOK
      <3> QED
        BY <3>1 DEF RetrierCall
    <2>3. Rest /\ RetrierGoes(q, d)
      BY <1>1, <2>1 DEF BeginCall, worldVars
    <2> QED
      BY <1>2, <2>2, <2>3
  <1>4. CASE c # Idle /\ (Retry(q) \/ CrashRetrier(q))
    <2>1. c \in RetrierCall /\ RetrierHolds(c)
      BY <1>4, AtWork DEF RetriersHold
    <2>2. \A step \in {"send", "bundle", "record"}, at \in Nat \cup {None},
             outcome \in {"delivered", "failed"} :
             [c EXCEPT !.step = step, !.at = at, !.outcome = outcome] \in RetrierCall
      BY <2>1 DEF RetrierCall
    <2>3. CASE BeginRetry(q)
      <3>1. now \in Nat
        BY CorrectionDeliveryConstants DEF TypeOK
      <3>2. [c EXCEPT !.at = now, !.step = IF c.op = "online" THEN "send" ELSE "bundle"] \in RetrierCall
        BY <2>1, <3>1 DEF RetrierCall
      <3> QED
        BY <1>1, <1>2, <2>3, <3>2 DEF BeginRetry, worldVars
    <2>4. CASE Resend(q)
      <3>1. PICK arrives \in BOOLEAN :
               /\ inbox' = IF arrives THEN inbox \cup {c.notification} ELSE inbox
               /\ RetrierGoes(q, [c EXCEPT !.step = "record",
                                    !.outcome = IF arrives THEN "delivered" ELSE "failed"])
        BY <2>4 DEF Resend
      <3>2. [c EXCEPT !.step = "record",
                !.outcome = IF arrives THEN "delivered" ELSE "failed"] \in RetrierCall
        BY <2>1 DEF RetrierCall
      <3>3. Rest
        BY <1>1, <2>1, <2>4, <3>1 DEF Resend, RetrierHolds
      <3> QED
        BY <1>2, <3>1, <3>2, <3>3
    <2>5. CASE BuildBundle(q)
      <3>1. [c EXCEPT !.step = "record"] \in RetrierCall
        BY <2>1 DEF RetrierCall
      <3>2. Rest
        BY <1>1, <2>1, <2>5 DEF BuildBundle, RetrierHolds
      <3> QED
        BY <1>2, <2>5, <3>1, <3>2 DEF BuildBundle
    <2>6. ASSUME NEW row \in Row, StoreRow(q, row),
                 UNCHANGED <<worldVars, correction, log, notifier>>
          PROVE  Rest /\ retrier' \in [Retriers -> Calls]
      <3>1. DeliveryEvent(c.notification, row) \in Event
        BY <2>1 DEF DeliveryEvent, Event, Row, RetrierCall
      <3>2. [c EXCEPT !.step = "event", !.event = DeliveryEvent(c.notification, row)] \in RetrierCall
        BY <2>1, <3>1 DEF RetrierCall
      <3>3. Rest
        BY <1>1, <2>1, <2>6 DEF StoreRow, worldVars, RetrierHolds
      <3> QED
        BY <1>2, <2>6, <3>2, <3>3 DEF StoreRow
    <2>7. ASSUME RetrierGoes(q, Idle),
                 UNCHANGED <<worldVars, correction, log, notifier, pending_deliveries>>
          PROVE  Rest /\ retrier' \in [Retriers -> Calls]
      BY <1>1, <1>2, <2>7 DEF worldVars
    <2>8. CASE InsertRow(q)
      <3>1. c.step = "insert" => NewRow(c.notification, c.at) \in Row
        BY <2>1, NewRowIsDue DEF RetrierHolds
      <3> QED
        BY <2>6, <2>7, <2>8, <3>1 DEF InsertRow
    <2>9. CASE RecordOutcome(q)
      <3>1. CASE RetrierGoes(q, Idle) /\ UNCHANGED pending_deliveries
        BY <2>7, <2>9, <3>1 DEF RecordOutcome
      <3>2. CASE ~(RetrierGoes(q, Idle) /\ UNCHANGED pending_deliveries)
        <4> DEFINE row == pending_deliveries[c.notification]
        <4>1. /\ c.step = "record" /\ c.notification \in DOMAIN pending_deliveries
              /\ row.status = "pending"
              /\ StoreRow(q, IF c.op = "exhaust" THEN AfterGivingUp(row)
                             ELSE AfterAttempt(row, c.outcome, c.at))
              /\ UNCHANGED <<worldVars, correction, log, notifier>>
          BY <2>9, <3>2 DEF RecordOutcome
        <4>2. row \in Row /\ c.at \in Nat /\ c.outcome \in {"delivered", "failed"}
          BY <1>1, <2>1, <4>1 DEF RetrierHolds, RetrierCall
        <4>3. AfterGivingUp(row) \in Row /\ AfterAttempt(row, c.outcome, c.at) \in Row
          BY <4>1, <4>2, AttemptKeepsRowDue, GivingUpKeepsRowDue
        <4> QED
          BY <2>6, <4>1, <4>3
      <3> QED
        BY <3>1, <3>2
    <2>10. CASE AppendDeliveryEvent(q)
      <3>1. c.event \in Event /\ c.event.notification \in DOMAIN minted
        BY <2>1, <2>10 DEF AppendDeliveryEvent, RetrierHolds
      <3> QED
        BY <1>1, <1>2, <2>10, <3>1 DEF AppendDeliveryEvent, worldVars
    <2>11. CASE CrashRetrier(q)
      BY <2>7, <2>11 DEF CrashRetrier
    <2> QED
      BY <1>4, <2>3, <2>4, <2>5, <2>8, <2>9, <2>10, <2>11 DEF Retry
  <1>5. c = Idle => ~Retry(q) /\ ~CrashRetrier(q)
    BY DEF Retry, BeginRetry, Resend, BuildBundle, InsertRow, RecordOutcome,
           AppendDeliveryEvent, CrashRetrier, Idle
  <1> QED
    BY <1>3, <1>4, <1>5

\* No step undoes what another process relies on: ids keep their notification, what
\* has arrived or was logged stays, the correction moves to later revisions and does
\* not leave DELIVERY_PENDING, and rows change only while they are pending.
RowsEvolve ==
    \A n \in DOMAIN pending_deliveries :
        /\ n \in DOMAIN pending_deliveries'
        /\ pending_deliveries'[n].attempt_count >= pending_deliveries[n].attempt_count
        /\ pending_deliveries[n].status # "pending" =>
              pending_deliveries'[n] = pending_deliveries[n]

Grows ==
    /\ \A n \in DOMAIN minted : n \in DOMAIN minted' /\ minted'[n] = minted[n]
    /\ inbox \subseteq inbox'
    /\ log \subseteq log'
    /\ correction' # correction => correction'.revision > correction.revision
    /\ correction.status = "DELIVERY_PENDING" => correction'.status = "DELIVERY_PENDING"
    /\ RowsEvolve

LEMMA RowsStay ==
    ASSUME TypeOK, UNCHANGED pending_deliveries
    PROVE  RowsEvolve
  <1>1. \A n \in DOMAIN pending_deliveries : pending_deliveries[n].attempt_count \in Nat
    BY DEF TypeOK, Row
  <1> QED
    BY <1>1 DEF RowsEvolve

LEMMA MintingKeeps ==
    ASSUME TypeOK, NEW m, minted' = Append(minted, m)
    PROVE  /\ \A n \in DOMAIN minted : n \in DOMAIN minted' /\ minted'[n] = minted[n]
           /\ Len(minted) + 1 \in DOMAIN minted' /\ minted'[Len(minted) + 1] = m
  <1>1. minted \in Seq(Minted)
    BY DEF TypeOK
  <1> QED
    BY <1>1

\* A write of the correction is of a later revision; it keeps DELIVERY_PENDING, and
\* a notifier that has seen a failure ends with it.
LEMMA CorrectionMoves ==
    ASSUME TypeOK, NotifiersHold, NEW p \in Notifiers, RecordStatus(p) \/ WriteImpact(p)
    PROVE  /\ correction' # correction => correction'.revision = correction.revision + 1
           /\ correction.status = "DELIVERY_PENDING" => correction'.status = "DELIVERY_PENDING"
           /\ RecordStatus(p) /\ notifier'[p] # Idle
                 /\ (\E i \in DOMAIN notifier[p].results : ~notifier[p].results[i].delivered)
              => correction'.status = "DELIVERY_PENDING"
           /\ log' # log => \A i \in DOMAIN notifier[p].results :
                 ~notifier[p].results[i].delivered => correction'.status = "DELIVERY_PENDING"
  <1> DEFINE c == notifier[p]
  <1>1. c \in NotifierCall /\ NotifierHolds(c) /\ notifier \in [Notifiers -> NotifierCall \cup {Idle}]
    BY AtWork DEF RecordStatus, WriteImpact, NotifiersHold, TypeOK
  <1>2. CASE RecordStatus(p)
    <2>1. CASE /\ FinalStatus(c) # c.latest.status /\ correction.revision = c.latest.revision
               /\ correction' = [status |-> FinalStatus(c), revision |-> correction.revision + 1]
      BY <1>1, <2>1, FinalStatusOf DEF NotifierHolds
    <2>2. CASE NotifierGoes(p, Idle) /\ UNCHANGED <<correction, log>>
      BY <1>1, <2>2 DEF NotifierGoes
    <2>3. CASE FinalStatus(c) = c.latest.status /\ UNCHANGED <<correction, log>>
      BY <1>1, <2>3, FinalStatusOf DEF NotifierHolds
    <2> QED
      BY <1>2, <2>1, <2>2, <2>3 DEF RecordStatus
  <1>3. CASE WriteImpact(p)
    <2>1. ~RecordStatus(p) /\ log' = log
      BY <1>3 DEF WriteImpact, RecordStatus
    <2>2. CASE /\ correction.revision = c.latest.revision
               /\ correction' = [status |-> c.latest.status, revision |-> correction.revision + 1]
      BY <1>1, <2>1, <2>2 DEF NotifierHolds
    <2>3. CASE UNCHANGED correction
      BY <2>1, <2>3
    <2> QED
      BY <1>3, <2>2, <2>3 DEF WriteImpact
  <1> QED
    BY <1>2, <1>3

LEMMA NotifierStepGrows ==
    ASSUME TypeOK, NotifiersHold, NEW p \in Notifiers,
           BeginNotify(p) \/ Notify(p) \/ CrashNotifier(p)
    PROVE  Grows
  <1>1. RowsEvolve
    BY NotifierStepTypes, RowsStay
  <1>2. CASE RecordStatus(p) \/ WriteImpact(p)
    <2>1. UNCHANGED <<minted, inbox>> /\ log \subseteq log'
      BY <1>2 DEF RecordStatus, WriteImpact, worldVars
    <2>2. correction.revision \in Nat
      BY DEF TypeOK, Correction
    <2> QED
      BY <1>1, <1>2, <2>1, <2>2, CorrectionMoves DEF Grows
  <1>3. CASE SendNext(p)
    <2>1. PICK m : minted' = Append(minted, m)
      BY <1>3 DEF SendNext
    <2>2. inbox \subseteq inbox' /\ UNCHANGED <<correction, log>>
      BY <1>3 DEF SendNext
    <2> QED
      BY <1>1, <2>1, <2>2, MintingKeeps DEF Grows
  <1>4. CASE AppendNextEvent(p)
    BY <1>1, <1>4 DEF AppendNextEvent, Grows, worldVars
  <1>5. CASE BeginNotify(p) \/ SkipAlreadySent(p) \/ CrashNotifier(p)
    BY <1>1, <1>5 DEF BeginNotify, notify_affected_practices, propagate_impact,
                      SkipAlreadySent, CrashNotifier, Grows, worldVars
  <1> QED
    BY <1>2, <1>3, <1>4, <1>5 DEF Notify

\* The rows a retrier touches: a new one, or a pending one.
LEMMA StoringKeepsRows ==
    ASSUME TypeOK, NEW q \in Retriers, NEW row, StoreRow(q, row),
           row.attempt_count \in Nat,
           LET n == retrier[q].notification
           IN  n \in DOMAIN pending_deliveries =>
                   /\ pending_deliveries[n].status = "pending"
                   /\ row.attempt_count >= pending_deliveries[n].attempt_count
    PROVE  RowsEvolve
  <1>1. \A n \in DOMAIN pending_deliveries : pending_deliveries[n].attempt_count \in Nat
    BY DEF TypeOK, Row
  <1> QED
    BY <1>1 DEF StoreRow, RowsEvolve

LEMMA RetrierStepGrows ==
    ASSUME TypeOK, RetriersHold, NEW q \in Retriers,
           BeginRetrier(q) \/ Retry(q) \/ CrashRetrier(q)
    PROVE  Grows
  <1> DEFINE c == retrier[q]
  <1>1. UNCHANGED <<minted, correction>>
    BY RetrierStepTypes
  <1>2. inbox \subseteq inbox' /\ log \subseteq log'
    BY DEF BeginRetrier, open_pending_delivery, list_due_for_retry,
           mark_pending_delivery_delivered, mark_pending_delivery_exhausted, BeginCall,
           Retry, BeginRetry, Resend, BuildBundle, InsertRow, RecordOutcome,
           AppendDeliveryEvent, CrashRetrier, worldVars
  <1>3. SUFFICES RowsEvolve
    BY <1>1, <1>2 DEF Grows
  <1>4. CASE UNCHANGED pending_deliveries
    BY <1>4, RowsStay
  <1>5. CASE InsertRow(q)
    <2>1. SUFFICES ASSUME /\ c.step = "insert" /\ c.notification \notin DOMAIN pending_deliveries
                          /\ StoreRow(q, NewRow(c.notification, c.at))
                   PROVE  RowsEvolve
      BY <1>4, <1>5 DEF InsertRow
    <2>2. c.notification \in DOMAIN minted /\ c.at \in Nat
      BY <2>1, AtWork DEF RetriersHold, RetrierHolds
    <2>3. NewRow(c.notification, c.at).attempt_count \in Nat
      BY <2>2, NewRowIsDue
    <2> QED
      BY <2>1, <2>3, StoringKeepsRows
  <1>6. CASE RecordOutcome(q)
    <2> DEFINE row == pending_deliveries[c.notification]
    <2>1. SUFFICES ASSUME /\ c.step = "record" /\ c.notification \in DOMAIN pending_deliveries
                          /\ row.status = "pending"
                          /\ StoreRow(q, IF c.op = "exhaust" THEN AfterGivingUp(row)
                                         ELSE AfterAttempt(row, c.outcome, c.at))
                   PROVE  RowsEvolve
      BY <1>4, <1>6 DEF RecordOutcome
    <2>2. row \in Row /\ row.attempt_count \in Nat /\ c.at \in Nat /\ c.outcome \in {"delivered", "failed"}
      BY <2>1, AtWork DEF RetriersHold, RetrierHolds, RetrierCall, TypeOK, Row
    <2>3. CASE c.op = "exhaust"
      BY <2>1, <2>2, <2>3, GivingUpKeepsRowDue, StoringKeepsRows
    <2>4. CASE c.op # "exhaust"
      BY <2>1, <2>2, <2>4, AttemptKeepsRowDue, StoringKeepsRows
    <2> QED
      BY <2>3, <2>4
  <1> QED
    BY <1>4, <1>5, <1>6
    DEF BeginRetrier, open_pending_delivery, list_due_for_retry,
        mark_pending_delivery_delivered, mark_pending_delivery_exhausted, BeginCall,
        Retry, BeginRetry, Resend, BuildBundle, AppendDeliveryEvent, CrashRetrier

\* A step of Next is one of a notifier, of a retrier or of the world.
NotifierStep(p) == BeginNotify(p) \/ Notify(p) \/ CrashNotifier(p)
RetrierStep(q) == BeginRetrier(q) \/ Retry(q) \/ CrashRetrier(q)
WorldStep == Tick \/ (\E n \in 1 .. Len(minted) : ImportBundle(n)) \/ UNCHANGED vars

LEMMA StepsAre ==
    ASSUME [Next]_vars
    PROVE  \/ \E p \in Notifiers : NotifierStep(p)
           \/ \E q \in Retriers : RetrierStep(q)
           \/ WorldStep
  BY DEF Next, NotifierStep, RetrierStep, WorldStep

LEMMA WorldStepOnly ==
    ASSUME TypeOK, WorldStep
    PROVE  /\ now' \in 0 .. MaxTime
           /\ inbox \subseteq inbox' /\ inbox' \subseteq DOMAIN minted
           /\ UNCHANGED <<correction, minted, carried, log, pending_deliveries, notifier, retrier>>
  <1>1. now \in 0 .. MaxTime /\ inbox \subseteq DOMAIN minted /\ carried \subseteq DOMAIN minted
    BY DEF TypeOK
  <1>2. CASE Tick
    BY <1>1, <1>2, CorrectionDeliveryConstants DEF Tick
  <1>3. CASE \E n \in 1 .. Len(minted) : ImportBundle(n)
    BY <1>1, <1>3 DEF ImportBundle
  <1>4. CASE UNCHANGED vars
    BY <1>1, <1>4 DEF vars
  <1> QED
    BY <1>2, <1>3, <1>4 DEF WorldStep

LEMMA StepGrows ==
    ASSUME TypeOK, NotifiersHold, RetriersHold, [Next]_vars
    PROVE  Grows
  <1>1. CASE WorldStep
    BY <1>1, WorldStepOnly, RowsStay DEF Grows
  <1> QED
    BY <1>1, StepsAre, NotifierStepGrows, RetrierStepGrows DEF NotifierStep, RetrierStep

LEMMA TypeStep ==
    ASSUME TypeOK, NotifiersHold, RetriersHold, [Next]_vars
    PROVE  TypeOK'
  <1>1. overlapped' \in BOOLEAN
    BY DEF TypeOK, Next, vars
  <1>2. ASSUME NEW p \in Notifiers, NotifierStep(p)
        PROVE  TypeOK'
    BY <1>1, <1>2, NotifierStepTypes DEF TypeOK, NotifierStep
  <1>3. ASSUME NEW q \in Retriers, RetrierStep(q)
        PROVE  TypeOK'
    BY <1>1, <1>3, RetrierStepTypes DEF TypeOK, RetrierStep
  <1>4. CASE WorldStep
    BY <1>1, <1>4, WorldStepOnly DEF TypeOK
  <1> QED
    BY <1>2, <1>3, <1>4, StepsAre

-----------------------------------------------------------------------------
(* What the processes hold *)

LEMMA NotifiersHoldStep ==
    ASSUME TypeOK, NotifiersHold, RetriersHold, FailureStaysVisible, [Next]_vars
    PROVE  NotifiersHold'
  <1>1. Grows /\ notifier \in [Notifiers -> NotifierCall \cup {Idle}]
    BY StepGrows DEF TypeOK
  <1>2. SUFFICES ASSUME NEW u \in Notifiers, notifier'[u] # Idle
                 PROVE  NotifierHolds(notifier[u])'
    BY DEF NotifiersHold
  <1> DEFINE c == notifier[u]
  <1>3. CASE notifier'[u] = notifier[u]
    <2>1. c \in NotifierCall /\ NotifierHolds(c) /\ correction \in Correction
      BY <1>2, <1>3, AtWork DEF NotifiersHold, TypeOK
    <2>2. c.latest.revision \in Nat /\ correction.revision \in Nat
      BY <2>1 DEF NotifierCall, Correction
    <2>3. correction' = correction \/ correction'.revision > correction.revision
      BY <1>1 DEF Grows
    <2>4. correction' \in Correction
      BY TypeStep DEF TypeOK
    <2>5. /\ c.latest.revision <= correction'.revision
          /\ c.latest.revision = correction'.revision => c.latest = correction'
      BY <2>1, <2>2, <2>3, <2>4 DEF NotifierHolds, Correction
    <2> QED
      BY <1>1, <1>3, <2>1, <2>5 DEF Grows, NotifierHolds
  <1>4. CASE notifier'[u] # notifier[u]
    <2>1. NotifierStep(u)
      <3>1. \A p \in Notifiers : NotifierStep(p) => \E d : NotifierGoes(p, d)
        BY DEF NotifierStep, BeginNotify, notify_affected_practices, propagate_impact, Notify,
               SkipAlreadySent, SendNext, RecordStatus, AppendNextEvent, WriteImpact, CrashNotifier
      <3>2. \A q \in Retriers : RetrierStep(q) => UNCHANGED notifier
        BY RetrierStepTypes DEF RetrierStep
      <3>3. WorldStep => UNCHANGED notifier
        BY WorldStepOnly
      <3> QED
        BY <1>1, <1>4, <3>1, <3>2, <3>3, StepsAre DEF NotifierGoes
    <2>2. CASE BeginNotify(u)
      <3>1. /\ notifier'[u].latest = correction /\ notifier'[u].results = <<>>
            /\ notifier'[u].step \in {"sent", "impact"} /\ correction' = correction
        BY <1>1, <2>2 DEF BeginNotify, notify_affected_practices, propagate_impact, NotifierGoes
      <3>2. correction.revision \in Nat
        BY DEF TypeOK, Correction
      <3> QED
        BY <3>1, <3>2 DEF NotifierHolds
    <2>3. SUFFICES ASSUME Notify(u) PROVE NotifierHolds(notifier[u])'
      BY <1>1, <1>2, <2>1, <2>2 DEF NotifierStep, CrashNotifier, NotifierGoes
    <2>4. c \in NotifierCall /\ NotifierHolds(c) /\ c # Idle
      BY <2>3, AtWork DEF Notify, SkipAlreadySent, SendNext, RecordStatus, AppendNextEvent,
                          WriteImpact, NotifiersHold
    <2>6. c.results # <<>> =>
              /\ \A i \in DOMAIN Tail(c.results) :
                    i + 1 \in DOMAIN c.results /\ Tail(c.results)[i] = c.results[i + 1]
              /\ Len(c.results) # 1 => Tail(c.results) # <<>>
      BY <2>4, ResultsOf, TailOf, Zenon
    <2>7. CASE SkipAlreadySent(u)
      <3>1. notifier'[u] = [c EXCEPT !.step = "send", !.todo = c.todo \ AlreadySent]
        BY <1>1, <1>2, <2>7 DEF SkipAlreadySent, NotifierGoes
      <3>2. c.step = "sent" /\ UNCHANGED <<correction, minted, inbox>>
        BY <2>7 DEF SkipAlreadySent, worldVars
      <3>3. /\ notifier'[u].latest = c.latest /\ notifier'[u].results = c.results
            /\ notifier'[u].step = "send"
        BY <2>4, <3>1 DEF NotifierCall
      <3> QED
        BY <2>4, <3>2, <3>3 DEF NotifierHolds
    <2>8. CASE SendNext(u)
      <3>1. PICK r \in c.todo, delivered \in BOOLEAN :
               LET n == Len(minted) + 1
                   left == c.todo \ {r}
               IN  /\ minted' = Append(minted, [to |-> r, expires_at |-> now + Lifetime])
                   /\ inbox' = IF delivered THEN inbox \cup {n} ELSE inbox
                   /\ NotifierGoes(u, [c EXCEPT
                         !.todo = left,
                         !.results = Append(@, [notification |-> n, delivered |-> delivered]),
                         !.step = IF left = {} THEN "record" ELSE "send"])
                   /\ UNCHANGED correction
        BY <2>8 DEF SendNext
      <3> DEFINE n == Len(minted) + 1
                 result == [notification |-> n, delivered |-> delivered]
      <3>2. /\ notifier'[u].latest = c.latest /\ notifier'[u].results = Append(c.results, result)
            /\ notifier'[u].step \in {"record", "send"}
        BY <1>1, <2>4, <3>1 DEF NotifierCall, NotifierGoes
      <3>3. n \in DOMAIN minted'
        BY <3>1, MintingKeeps
      <3>4. \A i \in DOMAIN Append(c.results, result) :
                \/ i \in DOMAIN c.results /\ Append(c.results, result)[i] = c.results[i]
                \/ Append(c.results, result)[i] = result
        BY <2>4, ResultsOf, AppendOf, Zenon
      <3>5. Append(c.results, result) # <<>>
        BY <2>4, ResultsOf, AppendOf, Zenon
      <3> QED
        BY <1>1, <2>4, <3>1, <3>2, <3>3, <3>4, <3>5 DEF NotifierHolds, Grows
    <2>9. CASE RecordStatus(u)
      <3>1. c.step = "record" /\ c.results # <<>> /\ UNCHANGED <<minted, inbox>>
        BY <2>4, <2>9 DEF RecordStatus, NotifierHolds, worldVars
      <3>2. /\ notifier'[u].latest = c.latest /\ notifier'[u].step = "events"
            /\ \/ notifier'[u].results = c.results
               \/ notifier'[u].results = Tail(c.results) /\ Tail(c.results) # <<>>
        <4>1. \/ notifier'[u] = [c EXCEPT !.step = "events"]
              \/ /\ notifier'[u] = [c EXCEPT !.step = "events", !.results = Tail(@)]
                 /\ Len(c.results) # 1
          BY <1>1, <1>2, <2>9 DEF RecordStatus, NotifierGoes
        <4> QED
          BY <2>4, <2>6, <3>1, <4>1 DEF NotifierCall
      <3>3. (\E i \in DOMAIN c.results : ~c.results[i].delivered) =>
                correction'.status = "DELIVERY_PENDING"
        BY <1>2, <2>9, CorrectionMoves
      <3>4. /\ c.latest.revision <= correction'.revision
            /\ c.latest.revision = correction'.revision => c.latest = correction'
        <4>1. c.latest.revision \in Nat /\ correction.revision \in Nat
          BY <2>4 DEF NotifierCall, Correction, TypeOK
        <4>2. correction' = correction \/ correction'.revision = correction.revision + 1
          BY <2>9, CorrectionMoves
        <4> QED
          BY <2>4, <4>1, <4>2 DEF NotifierHolds
      <3>5. \A i \in DOMAIN c.results :
                /\ c.results[i].notification \in DOMAIN minted'
                /\ c.results[i].delivered => c.results[i].notification \in inbox'
                /\ ~c.results[i].delivered => correction'.status = "DELIVERY_PENDING"
        BY <2>4, <3>1, <3>3 DEF NotifierHolds
      <3>6. \A i \in DOMAIN notifier'[u].results :
                \E j \in DOMAIN c.results : notifier'[u].results[i] = c.results[j]
        BY <2>6, <3>1, <3>2
      <3>7. notifier'[u].results # <<>>
        BY <3>1, <3>2
      <3>8. c.latest.status = "DELIVERY_PENDING" => correction'.status = "DELIVERY_PENDING"
        BY <1>1, <2>4 DEF NotifierHolds, Grows
      <3> QED
        BY <3>2, <3>4, <3>5, <3>6, <3>7, <3>8 DEF NotifierHolds
    <2>10. CASE AppendNextEvent(u)
      <3>1. c.step = "events" /\ c.results # <<>> /\ UNCHANGED <<minted, inbox, correction>>
        BY <2>4, <2>10 DEF AppendNextEvent, NotifierHolds, worldVars
      <3>2. /\ notifier'[u].latest = c.latest /\ notifier'[u].step = "events"
            /\ notifier'[u].results = Tail(c.results) /\ Tail(c.results) # <<>>
        <4>1. notifier'[u] = [c EXCEPT !.results = Tail(@)] /\ Len(c.results) # 1
          BY <1>1, <1>2, <2>10 DEF AppendNextEvent, NotifierGoes
        <4> QED
          BY <2>4, <2>6, <3>1, <4>1 DEF NotifierCall
      <3> QED
        BY <2>4, <2>6, <3>1, <3>2 DEF NotifierHolds
    <2>11. CASE WriteImpact(u)
      BY <1>1, <1>2, <2>11 DEF WriteImpact, NotifierGoes
    <2> QED
      BY <2>3, <2>7, <2>8, <2>9, <2>10, <2>11 DEF Notify
  <1> QED
    BY <1>3, <1>4

\* What a step adds to the log: a notifier the event of one of its results, with a
\* failure showing in the status by then, and a retrier the event of its row.
LEMMA LogStep ==
    ASSUME TypeOK, NotifiersHold, RetriersHold, [Next]_vars, NEW e \in log', e \notin log
    PROVE  \/ \E p \in Notifiers :
                 /\ NotifierStep(p) /\ notifier[p] # Idle
                 /\ notifier[p].step \in {"record", "events"}
                 /\ 1 \in DOMAIN notifier[p].results
                 /\ e = EventOf(notifier[p].results[1])
                 /\ notifier' = [notifier EXCEPT ![p] =
                       IF Len(notifier[p].results) = 1 THEN Idle
                       ELSE [notifier[p] EXCEPT !.step = "events", !.results = Tail(@)]]
                 /\ UNCHANGED minted /\ log' = log \cup {e}
                 /\ ~notifier[p].results[1].delivered => correction'.status = "DELIVERY_PENDING"
           \/ \E q \in Retriers :
                 /\ retrier[q] # Idle /\ retrier[q].step = "event" /\ e = retrier[q].event
                 /\ UNCHANGED pending_deliveries
  <1>1. CASE \E p \in Notifiers : NotifierStep(p)
    <2>1. PICK p \in Notifiers : NotifierStep(p)
      BY <1>1
    <2> DEFINE c == notifier[p]
    <2>2. RecordStatus(p) \/ AppendNextEvent(p)
      BY <2>1 DEF NotifierStep, BeginNotify, notify_affected_practices, propagate_impact, Notify,
                  SkipAlreadySent, SendNext, WriteImpact, CrashNotifier
    <2>3. /\ c # Idle /\ c \in NotifierCall /\ NotifierHolds(c)
          /\ c.step \in {"record", "events"} /\ c.results # <<>>
      BY <2>2, AtWork DEF RecordStatus, AppendNextEvent, NotifiersHold, NotifierHolds
    <2>4. 1 \in DOMAIN c.results
      BY <2>3, ResultsOf, TailOf, Zenon
    <2>5. /\ log' = log \cup {EventOf(c.results[1])} /\ UNCHANGED minted
          /\ notifier' = [notifier EXCEPT ![p] =
                IF Len(c.results) = 1 THEN Idle
                ELSE [c EXCEPT !.step = "events", !.results = Tail(@)]]
      <3>1. CASE RecordStatus(p)
        BY <3>1 DEF RecordStatus, NotifierGoes, worldVars
      <3>2. CASE AppendNextEvent(p)
        <4>1. c.step = "events"
          BY <3>2 DEF AppendNextEvent
        <4>2. [c EXCEPT !.results = Tail(@)] = [c EXCEPT !.step = "events", !.results = Tail(@)]
          BY <2>3, <4>1 DEF NotifierCall
        <4>3. notifier' = [notifier EXCEPT ![p] =
                IF Len(c.results) = 1 THEN Idle ELSE [c EXCEPT !.results = Tail(@)]]
          BY <3>2 DEF AppendNextEvent, NotifierGoes
        <4> QED
          BY <3>2, <4>2, <4>3 DEF AppendNextEvent, worldVars
      <3> QED
        BY <2>2, <3>1, <3>2
    <2>6. e = EventOf(c.results[1])
      BY <2>5
    <2>7. ~c.results[1].delivered => correction'.status = "DELIVERY_PENDING"
      <3>1. CASE RecordStatus(p)
        BY <2>4, <2>5, <3>1, CorrectionMoves
      <3>2. CASE AppendNextEvent(p)
        BY <2>3, <2>4, <3>2 DEF AppendNextEvent, NotifierHolds
      <3> QED
        BY <2>2, <3>1, <3>2
    <2> QED
      BY <2>1, <2>3, <2>4, <2>5, <2>6, <2>7
  <1>2. CASE \E q \in Retriers : RetrierStep(q)
    <2>1. PICK q \in Retriers : RetrierStep(q)
      BY <1>2
    <2>2. AppendDeliveryEvent(q)
      BY <2>1 DEF RetrierStep, BeginRetrier, open_pending_delivery, list_due_for_retry,
           mark_pending_delivery_delivered, mark_pending_delivery_exhausted, BeginCall,
           Retry, BeginRetry, Resend, BuildBundle, InsertRow, RecordOutcome, CrashRetrier
    <2> QED
      BY <2>2, AtWork DEF AppendDeliveryEvent
  <1>3. ~WorldStep
    BY WorldStepOnly
  <1> QED
    BY <1>1, <1>2, <1>3, StepsAre

\* What a step makes of the rows: a row that is not as before has just been stored by
\* a retrier, is due in time, and is delivered only if its notification has arrived.
LEMMA RowStep ==
    ASSUME TypeOK, RetriersHold, [Next]_vars, NEW n \in DOMAIN pending_deliveries',
           ~(n \in DOMAIN pending_deliveries /\ pending_deliveries'[n] = pending_deliveries[n])
    PROVE  /\ pending_deliveries'[n] \in Row /\ RowIsDue(pending_deliveries'[n])
           /\ pending_deliveries'[n].status = "delivered" => n \in inbox
           /\ \E q \in Retriers :
                 /\ retrier[q] # Idle /\ retrier[q].notification = n
                 /\ StoreRow(q, pending_deliveries'[n])
  <1>1. PICK q \in Retriers : InsertRow(q) \/ RecordOutcome(q)
    <2>1. \A p \in Notifiers : NotifierStep(p) => UNCHANGED pending_deliveries
      BY DEF NotifierStep, BeginNotify, notify_affected_practices, propagate_impact, Notify,
             SkipAlreadySent, SendNext, RecordStatus, AppendNextEvent, WriteImpact, CrashNotifier
    <2>2. \A q \in Retriers : RetrierStep(q) =>
              InsertRow(q) \/ RecordOutcome(q) \/ UNCHANGED pending_deliveries
      BY DEF RetrierStep, BeginRetrier, open_pending_delivery, list_due_for_retry,
           mark_pending_delivery_delivered, mark_pending_delivery_exhausted, BeginCall,
           Retry, BeginRetry, Resend, BuildBundle, AppendDeliveryEvent, CrashRetrier
    <2>3. WorldStep => UNCHANGED pending_deliveries
      BY WorldStepOnly
    <2> QED
      BY <2>1, <2>2, <2>3, StepsAre
  <1> DEFINE c == retrier[q]
  <1>2. c # Idle /\ c \in RetrierCall /\ RetrierHolds(c)
    BY <1>1, AtWork DEF InsertRow, RecordOutcome, RetriersHold
  <1>3. SUFFICES ASSUME NEW row \in Row, StoreRow(q, row), RowIsDue(row),
                        row.status = "delivered" => c.notification \in inbox
                 PROVE  /\ pending_deliveries'[n] = row /\ c.notification = n
    <2>1. CASE InsertRow(q)
      <3>1. c.step = "insert" /\ StoreRow(q, NewRow(c.notification, c.at))
        BY <1>1, <2>1 DEF InsertRow
      <3>2. /\ NewRow(c.notification, c.at) \in Row /\ RowIsDue(NewRow(c.notification, c.at))
            /\ NewRow(c.notification, c.at).status = "pending"
        BY <1>2, <3>1, NewRowIsDue DEF RetrierHolds
      <3> QED
        BY <1>2, <1>3, <3>1, <3>2
    <2>2. CASE RecordOutcome(q)
      <3> DEFINE row == pending_deliveries[c.notification]
      <3>1. /\ c.step = "record" /\ c.notification \in DOMAIN pending_deliveries
            /\ row.status = "pending"
            /\ StoreRow(q, IF c.op = "exhaust" THEN AfterGivingUp(row)
                           ELSE AfterAttempt(row, c.outcome, c.at))
        BY <1>1, <2>2 DEF RecordOutcome
      <3>2. row \in Row /\ c.at \in Nat /\ c.outcome \in {"delivered", "failed"}
        BY <1>2, <3>1 DEF RetrierHolds, RetrierCall, TypeOK
      <3>3. CASE c.op = "exhaust"
        <4>1. /\ AfterGivingUp(row) \in Row /\ RowIsDue(AfterGivingUp(row))
              /\ AfterGivingUp(row).status = "exhausted"
          BY <3>2, GivingUpKeepsRowDue
        <4> QED
          BY <1>2, <1>3, <3>1, <3>3, <4>1
      <3>4. CASE c.op # "exhaust"
        <4>1. /\ AfterAttempt(row, c.outcome, c.at) \in Row /\ RowIsDue(AfterAttempt(row, c.outcome, c.at))
              /\ AfterAttempt(row, c.outcome, c.at).status = "delivered" => c.outcome = "delivered"
          BY <3>1, <3>2, AttemptKeepsRowDue
        <4> QED
          BY <1>2, <1>3, <3>1, <3>4, <4>1 DEF RetrierHolds
      <3> QED
        BY <3>3, <3>4
    <2> QED
      BY <1>1, <2>1, <2>2
  <1> QED
    BY <1>3 DEF StoreRow

LEMMA ReportsStay ==
    ASSUME TypeOK, TypeOK', Grows, NEW e \in Event, Reports(e)
    PROVE  Reports(e)'
  <1> DEFINE n == e.notification
  <1>1. n \in DOMAIN pending_deliveries /\ pending_deliveries[n].attempt_count \in Nat
    BY DEF TypeOK, Row, Reports
  <1>2. n \in DOMAIN pending_deliveries' /\ pending_deliveries'[n].attempt_count \in Nat
    BY <1>1 DEF TypeOK, Row, Grows, RowsEvolve
  <1>3. e.attempt \in Nat
    BY DEF Event
  <1>4. /\ pending_deliveries'[n].attempt_count >= pending_deliveries[n].attempt_count
        /\ pending_deliveries[n].status # "pending" => pending_deliveries'[n] = pending_deliveries[n]
    BY <1>1 DEF Grows, RowsEvolve
  <1> QED
    BY <1>1, <1>2, <1>3, <1>4 DEF Reports

LEMMA RetriersHoldStep ==
    ASSUME TypeOK, NotifiersHold, RetriersHold, [Next]_vars
    PROVE  RetriersHold'
  <1>1. /\ Grows /\ TypeOK' /\ retrier \in [Retriers -> RetrierCall \cup {Idle}]
        /\ now \in Nat
    BY StepGrows, TypeStep, CorrectionDeliveryConstants DEF TypeOK
  <1>2. SUFFICES ASSUME NEW u \in Retriers, retrier'[u] # Idle
                 PROVE  RetrierHolds(retrier[u])'
    BY DEF RetriersHold
  <1> DEFINE c == retrier[u]
             d == retrier'[u]
  <1>3. CASE d = c
    <2>1. c \in RetrierCall /\ RetrierHolds(c)
      BY <1>2, <1>3, AtWork DEF RetriersHold
    <2>2. ASSUME NEW e \in Event, e = c.event, c.step = "event"
          PROVE  Reports(retrier[u].event)'
      <3>1. Reports(e)
        BY <2>1, <2>2 DEF RetrierHolds
      <3>2. Reports(e)' /\ e = d.event
        BY <1>1, <1>3, <2>2, <3>1, ReportsStay
      <3> QED
        BY <3>2 DEF Reports
    <2>3. c.step = "event" => Reports(retrier[u].event)'
      BY <2>1, <2>2 DEF RetrierHolds
    <2>4. c.notification \in DOMAIN minted' /\ (c.notification \in inbox => c.notification \in inbox')
      BY <1>1, <2>1 DEF Grows, RetrierHolds
    <2> QED
      BY <1>3, <2>1, <2>3, <2>4 DEF RetrierHolds
  <1>4. CASE d # c
    <2>1. RetrierStep(u)
      <3>1. \A q \in Retriers : RetrierStep(q) => \E e : RetrierGoes(q, e)
        BY DEF RetrierStep, BeginRetrier, open_pending_delivery, list_due_for_retry,
               mark_pending_delivery_delivered, mark_pending_delivery_exhausted, BeginCall,
               Retry, BeginRetry, Resend, BuildBundle, InsertRow, RecordOutcome, StoreRow,
               AppendDeliveryEvent, CrashRetrier
      <3>2. \A p \in Notifiers : NotifierStep(p) => UNCHANGED retrier
        BY NotifierStepTypes DEF NotifierStep
      <3>3. WorldStep => UNCHANGED retrier
        BY WorldStepOnly
      <3> QED
        BY <1>1, <1>4, <3>1, <3>2, <3>3, StepsAre DEF RetrierGoes
    <2>2. CASE BeginRetrier(u)
      <3>1. PICK n \in 1 .. Len(minted), op \in {"open", "online", "offline", "delivered", "exhaust"},
                 step \in {"call", "insert", "record"}, at \in {now, None} :
               /\ BeginCall(u, op, step, n, at)
               /\ step # "call" => at = now
               /\ op = "delivered" => n \in inbox /\ step = "record"
        BY <2>2, SMTT(30) DEF BeginRetrier, open_pending_delivery, list_due_for_retry,
              mark_pending_delivery_delivered, mark_pending_delivery_exhausted
      <3>2. /\ d = [op |-> op, step |-> step, notification |-> n, at |-> at,
                    outcome |-> IF op = "delivered" THEN "delivered" ELSE "failed",
                    event |-> None]
            /\ UNCHANGED <<minted, inbox>>
        BY <1>1, <3>1 DEF BeginCall, RetrierGoes, worldVars
      <3>3. n \in DOMAIN minted
        BY MintedOnes
      <3> QED
        BY <1>1, <3>1, <3>2, <3>3 DEF RetrierHolds
    <2>3. SUFFICES ASSUME Retry(u) PROVE RetrierHolds(retrier[u])'
      BY <1>1, <1>2, <2>1, <2>2 DEF RetrierStep, CrashRetrier, RetrierGoes
    <2>4. c \in RetrierCall /\ RetrierHolds(c) /\ c # Idle
      BY <2>3, AtWork DEF Retry, BeginRetry, Resend, BuildBundle, InsertRow, RecordOutcome,
                          AppendDeliveryEvent, RetriersHold
    <2>5. c.notification \in DOMAIN minted' /\ inbox \subseteq inbox'
      BY <1>1, <2>4 DEF Grows, RetrierHolds
    <2>6. CASE BeginRetry(u)
      <3>1. /\ c.step = "call"
            /\ d = [c EXCEPT !.at = now, !.step = IF c.op = "online" THEN "send" ELSE "bundle"]
        BY <1>1, <2>6 DEF BeginRetry, RetrierGoes
      <3>2. /\ d.notification = c.notification /\ d.at = now /\ d.outcome = c.outcome
            /\ d.step \in {"send", "bundle"}
        BY <2>4, <3>1 DEF RetrierCall
      <3> QED
        BY <1>1, <2>4, <2>5, <3>1, <3>2 DEF RetrierHolds
    <2>7. CASE Resend(u)
      <3>1. PICK arrives \in BOOLEAN :
               /\ c.step = "send"
               /\ inbox' = IF arrives THEN inbox \cup {c.notification} ELSE inbox
               /\ d = [c EXCEPT !.step = "record",
                          !.outcome = IF arrives THEN "delivered" ELSE "failed"]
        BY <1>1, <2>7 DEF Resend, RetrierGoes
      <3>2. /\ d.notification = c.notification /\ d.at = c.at /\ d.step = "record"
            /\ d.outcome = IF arrives THEN "delivered" ELSE "failed"
        BY <2>4, <3>1 DEF RetrierCall
      <3> QED
        BY <2>4, <2>5, <3>1, <3>2 DEF RetrierHolds
    <2>8. CASE BuildBundle(u)
      <3>1. c.step = "bundle" /\ d = [c EXCEPT !.step = "record"]
        BY <1>1, <2>8 DEF BuildBundle, RetrierGoes
      <3>2. /\ d.notification = c.notification /\ d.at = c.at /\ d.step = "record"
            /\ d.outcome = c.outcome
        BY <2>4, <3>1 DEF RetrierCall
      <3> QED
        BY <2>4, <2>5, <3>1, <3>2 DEF RetrierHolds
    <2>9. ASSUME NEW row \in Row, StoreRow(u, row)
          PROVE  RetrierHolds(retrier[u])'
      <3> DEFINE e == DeliveryEvent(c.notification, row)
      <3>1. /\ d = [c EXCEPT !.step = "event", !.event = e]
            /\ c.notification \in DOMAIN pending_deliveries'
            /\ pending_deliveries'[c.notification] = row
        BY <1>1, <2>9 DEF StoreRow, RetrierGoes
      <3>2. d.notification = c.notification /\ d.step = "event" /\ d.event = e
        BY <2>4, <3>1 DEF RetrierCall
      <3>3. /\ e \in Event /\ e.writer = "delivery" /\ e.notification = c.notification
            /\ e.attempt = row.attempt_count /\ e.delivery_status = row.status
            /\ row.status # "sent" /\ row.attempt_count \in Nat
        BY <2>4 DEF DeliveryEvent, Event, Row, RetrierCall
      <3> QED
        BY <2>5, <3>1, <3>2, <3>3 DEF RetrierHolds, Reports
    <2>10. CASE InsertRow(u)
      <3>1. c.step = "insert" /\ StoreRow(u, NewRow(c.notification, c.at))
        BY <1>1, <1>2, <2>10 DEF InsertRow, RetrierGoes
      <3>2. NewRow(c.notification, c.at) \in Row
        BY <2>4, <3>1, NewRowIsDue DEF RetrierHolds
      <3> QED
        BY <2>9, <3>1, <3>2
    <2>11. CASE RecordOutcome(u)
      <3> DEFINE row == pending_deliveries[c.notification]
      <3>1. /\ c.step = "record" /\ c.notification \in DOMAIN pending_deliveries
            /\ row.status = "pending"
            /\ StoreRow(u, IF c.op = "exhaust" THEN AfterGivingUp(row)
                           ELSE AfterAttempt(row, c.outcome, c.at))
        BY <1>1, <1>2, <2>11 DEF RecordOutcome, RetrierGoes
      <3>2. row \in Row /\ c.at \in Nat /\ c.outcome \in {"delivered", "failed"}
        BY <2>4, <3>1 DEF RetrierHolds, RetrierCall, TypeOK
      <3>3. AfterGivingUp(row) \in Row /\ AfterAttempt(row, c.outcome, c.at) \in Row
        BY <3>1, <3>2, AttemptKeepsRowDue, GivingUpKeepsRowDue
      <3> QED
        BY <2>9, <3>1, <3>3
    <2>12. CASE AppendDeliveryEvent(u)
      BY <1>1, <1>2, <2>12 DEF AppendDeliveryEvent, RetrierGoes
    <2> QED
      BY <2>3, <2>6, <2>7, <2>8, <2>10, <2>11, <2>12 DEF Retry
  <1> QED
    BY <1>3, <1>4

-----------------------------------------------------------------------------
(* What the records say *)

LEMMA DeliveredStep ==
    ASSUME TypeOK, NotifiersHold, RetriersHold, DeliveredMeansArrived, [Next]_vars
    PROVE  DeliveredMeansArrived'
  <1>1. inbox \subseteq inbox'
    BY StepGrows DEF Grows
  <1>2. ASSUME NEW e \in log', e \notin log, e.delivery_status \in {"sent", "delivered"}
        PROVE  e.notification \in inbox'
    <2>1. CASE \E p \in Notifiers :
                  /\ notifier[p] # Idle /\ 1 \in DOMAIN notifier[p].results
                  /\ e = EventOf(notifier[p].results[1])
      <3>1. PICK p \in Notifiers :
                  /\ notifier[p] # Idle /\ 1 \in DOMAIN notifier[p].results
                  /\ e = EventOf(notifier[p].results[1])
        BY <2>1
      <3>2. notifier[p] \in NotifierCall /\ NotifierHolds(notifier[p])
        BY <3>1, AtWork DEF NotifiersHold
      <3>3. notifier[p].results[1] \in [notification : Notifications, delivered : BOOLEAN]
        BY <3>1, <3>2, ResultsOf
      <3> QED
        BY <1>1, <1>2, <3>1, <3>2, <3>3, EventOfResult DEF NotifierHolds
    <2>2. CASE \E q \in Retriers : retrier[q] # Idle /\ retrier[q].step = "event" /\ e = retrier[q].event
      BY <1>1, <1>2, <2>2 DEF RetriersHold, RetrierHolds, Reports, DeliveredMeansArrived
    <2> QED
      BY <1>2, <2>1, <2>2, LogStep
  <1>3. ASSUME NEW n \in DOMAIN pending_deliveries', pending_deliveries'[n].status = "delivered"
        PROVE  n \in inbox'
    BY <1>1, <1>3, RowStep DEF DeliveredMeansArrived
  <1> QED
    BY <1>1, <1>2, <1>3 DEF DeliveredMeansArrived

LEMMA FailureStep ==
    ASSUME TypeOK, NotifiersHold, RetriersHold, FailureStaysVisible, [Next]_vars
    PROVE  FailureStaysVisible'
  <1>1. correction.status = "DELIVERY_PENDING" => correction'.status = "DELIVERY_PENDING"
    BY StepGrows DEF Grows
  <1>2. ASSUME NEW e \in log', e \notin log, e.writer = "notify", e.delivery_status = "pending"
        PROVE  correction'.status = "DELIVERY_PENDING"
    <2>1. CASE \E p \in Notifiers :
                  /\ notifier[p] # Idle /\ 1 \in DOMAIN notifier[p].results
                  /\ e = EventOf(notifier[p].results[1])
                  /\ ~notifier[p].results[1].delivered => correction'.status = "DELIVERY_PENDING"
      <3>1. PICK p \in Notifiers :
                  /\ notifier[p] # Idle /\ 1 \in DOMAIN notifier[p].results
                  /\ e = EventOf(notifier[p].results[1])
                  /\ ~notifier[p].results[1].delivered => correction'.status = "DELIVERY_PENDING"
        BY <2>1
      <3>2. notifier[p].results[1] \in [notification : Notifications, delivered : BOOLEAN]
        BY <3>1, AtWork, ResultsOf
      <3> QED
        BY <1>2, <3>1, <3>2, EventOfResult
    <2>2. CASE \E q \in Retriers : retrier[q] # Idle /\ retrier[q].step = "event" /\ e = retrier[q].event
      BY <1>2, <2>2 DEF RetriersHold, RetrierHolds
    <2> QED
      BY <1>2, <2>1, <2>2, LogStep
  <1> QED
    BY <1>1, <1>2 DEF FailureStaysVisible

LEMMA RecordsStep ==
    ASSUME TypeOK, NotifiersHold, RetriersHold, LogAgreesWithRows, PendingRowsStayDue, [Next]_vars
    PROVE  LogAgreesWithRows' /\ PendingRowsStayDue'
  <1>1. Grows /\ TypeOK'
    BY StepGrows, TypeStep
  <1>2. ASSUME NEW e \in log', e.writer = "delivery"
        PROVE  Reports(e)'
    <2>1. CASE e \in log
      <3>1. e \in Event /\ Reports(e)
        BY <1>2, <2>1 DEF LogAgreesWithRows, Reports, TypeOK
      <3> QED
        BY <1>1, <3>1, ReportsStay
    <2>2. CASE e \notin log
      <3>1. ~\E p \in Notifiers :
                  /\ notifier[p] # Idle /\ 1 \in DOMAIN notifier[p].results
                  /\ e = EventOf(notifier[p].results[1])
        <4>1. \A p \in Notifiers : notifier[p] # Idle /\ 1 \in DOMAIN notifier[p].results =>
                  EventOf(notifier[p].results[1]).writer = "notify"
          BY AtWork, ResultsOf, EventOfResult
        <4> QED
          BY <1>2, <4>1
      <3>2. e \in Event /\ Reports(e)
        BY <2>2, <3>1, LogStep DEF RetriersHold, RetrierHolds
      <3> QED
        BY <1>1, <3>2, ReportsStay
    <2> QED
      BY <2>1, <2>2
  <1>3. LogAgreesWithRows'
    BY <1>2 DEF LogAgreesWithRows, Reports
  <1>4. ASSUME NEW n \in DOMAIN pending_deliveries'
        PROVE  RowIsDue(pending_deliveries'[n])
    <2>1. CASE n \in DOMAIN pending_deliveries /\ pending_deliveries'[n] = pending_deliveries[n]
      BY <2>1 DEF PendingRowsStayDue, RowIsDue
    <2> QED
      BY <2>1, RowStep
  <1>5. PendingRowsStayDue'
    BY <1>4 DEF PendingRowsStayDue, RowIsDue
  <1> QED
    BY <1>3, <1>5

-----------------------------------------------------------------------------
(* Notifiers that follow one another *)

\* Who is recorded as sent stays so; whoever is new is the recipient of the first
\* result of the notifier that has just logged it.
LEMMA SentStep ==
    ASSUME TypeOK, NotifiersHold, RetriersHold, [Next]_vars
    PROVE  /\ AlreadySent \subseteq AlreadySent'
           /\ \A r \in AlreadySent' \ AlreadySent : \E p \in Notifiers :
                 /\ notifier[p] # Idle /\ notifier[p].step \in {"record", "events"}
                 /\ 1 \in DOMAIN notifier[p].results
                 /\ r = Recipient(notifier[p].results[1])
                 /\ notifier' = [notifier EXCEPT ![p] =
                       IF Len(notifier[p].results) = 1 THEN Idle
                       ELSE [notifier[p] EXCEPT !.step = "events", !.results = Tail(@)]]
  <1>1. \A e \in log : e \in log' /\ minted'[e.notification] = minted[e.notification]
    BY StepGrows DEF Grows, TypeOK
  <1>2. AlreadySent \subseteq AlreadySent'
    BY <1>1 DEF AlreadySent
  <1>3. ASSUME NEW r \in AlreadySent', r \notin AlreadySent
        PROVE  \E p \in Notifiers :
                 /\ notifier[p] # Idle /\ notifier[p].step \in {"record", "events"}
                 /\ 1 \in DOMAIN notifier[p].results
                 /\ r = Recipient(notifier[p].results[1])
                 /\ notifier' = [notifier EXCEPT ![p] =
                       IF Len(notifier[p].results) = 1 THEN Idle
                       ELSE [notifier[p] EXCEPT !.step = "events", !.results = Tail(@)]]
    <2>1. PICK e \in log' : e.delivery_status = "sent" /\ r = minted'[e.notification].to
      BY <1>3 DEF AlreadySent
    <2>2. e \notin log
      BY <1>1, <1>3, <2>1 DEF AlreadySent
    <2>3. ~\E q \in Retriers : retrier[q] # Idle /\ retrier[q].step = "event" /\ e = retrier[q].event
      BY <2>1 DEF RetriersHold, RetrierHolds
    <2>4. PICK p \in Notifiers :
                 /\ notifier[p] # Idle /\ notifier[p].step \in {"record", "events"}
                 /\ 1 \in DOMAIN notifier[p].results
                 /\ e = EventOf(notifier[p].results[1])
                 /\ notifier' = [notifier EXCEPT ![p] =
                       IF Len(notifier[p].results) = 1 THEN Idle
                       ELSE [notifier[p] EXCEPT !.step = "events", !.results = Tail(@)]]
                 /\ UNCHANGED minted
      BY <2>2, <2>3, LogStep
    <2>5. EventOf(notifier[p].results[1]).notification = notifier[p].results[1].notification
      BY <2>4, AtWork, ResultsOf, EventOfResult
    <2> QED
      BY <2>1, <2>4, <2>5 DEF Recipient
  <1> QED
    BY <1>2, <1>3

LEMMA SerialStep ==
    ASSUME TypeOK, NotifiersHold, RetriersHold, SerialNotifiers, [Next]_vars
    PROVE  SerialNotifiers'
  <1>1. SUFFICES ASSUME ~overlapped' PROVE OneNotifier'
    BY DEF SerialNotifiers
  <1>2. ~overlapped /\ OneNotifier
    BY <1>1 DEF Next, vars, SerialNotifiers, TypeOK
  <1>3. /\ notifier \in [Notifiers -> NotifierCall \cup {Idle}]
        /\ \A n \in DOMAIN minted : n \in DOMAIN minted' /\ minted'[n] = minted[n]
    BY StepGrows DEF TypeOK, Grows
  <1>4. CASE UNCHANGED notifier
    <2>1. AlreadySent' = AlreadySent
      <3>1. \A p \in Notifiers : notifier[p] # Idle /\ 1 \in DOMAIN notifier[p].results =>
                notifier' # [notifier EXCEPT ![p] =
                       IF Len(notifier[p].results) = 1 THEN Idle
                       ELSE [notifier[p] EXCEPT !.step = "events", !.results = Tail(@)]]
        <4> SUFFICES ASSUME NEW p \in Notifiers, notifier[p] # Idle,
                            1 \in DOMAIN notifier[p].results,
                            notifier' = [notifier EXCEPT ![p] =
                               IF Len(notifier[p].results) = 1 THEN Idle
                               ELSE [notifier[p] EXCEPT !.step = "events", !.results = Tail(@)]]
                     PROVE  FALSE
          OBVIOUS
        <4>1. /\ notifier[p] = [notifier[p] EXCEPT !.step = "events", !.results = Tail(@)]
              /\ notifier[p].results # <<>>
          BY <1>3, <1>4
        <4>2. notifier[p].results = Tail(notifier[p].results)
          BY <4>1, AtWork DEF NotifierCall
        <4>3. \A S : \A s \in Seq(S) : s # <<>> => s # Tail(s)
          OBVIOUS
        <4> QED
          BY <4>1, <4>2, <4>3, AtWork, ResultsOf, Zenon
      <3> QED
        BY <3>1, SentStep
    <2>2. \A p \in Notifiers : notifier[p] # Idle =>
              \A i \in DOMAIN notifier[p].results :
                  Recipient(notifier[p].results[i]) = minted'[notifier[p].results[i].notification].to
      BY <1>3 DEF NotifiersHold, NotifierHolds, Recipient
    <2> QED
      BY <1>2, <1>4, <2>1, <2>2 DEF OneNotifier, Apart, Recipient
  <1>5. ASSUME NEW p \in Notifiers, NotifierStep(p), ~UNCHANGED notifier
        PROVE  OneNotifier'
    <2> DEFINE c == notifier[p]
               d == notifier'[p]
    <2>1. \E e : notifier' = [notifier EXCEPT ![p] = e]
      BY <1>5 DEF NotifierStep, BeginNotify, notify_affected_practices, propagate_impact, Notify,
             SkipAlreadySent, SendNext, RecordStatus, AppendNextEvent, WriteImpact, CrashNotifier,
             NotifierGoes
    <2>2. \A u \in Notifiers : u # p => notifier[u] = Idle
      <3>1. CASE c # Idle
        BY <1>2, <3>1 DEF OneNotifier
      <3>2. CASE c = Idle
        <4>1. BeginNotify(p)
          BY <1>5, <3>2 DEF NotifierStep, Notify, SkipAlreadySent, SendNext, RecordStatus,
                            AppendNextEvent, WriteImpact, CrashNotifier, Idle
        <4>2. \A u \in Notifiers : BeginNotify(u) => notifier[u] = Idle /\ notifier'[u] # Idle
          <5>1. \A u \in Notifiers : BeginNotify(u) =>
                    notifier[u] = Idle /\ notifier'[u].step \in {"sent", "impact"}
            BY <1>3 DEF BeginNotify, notify_affected_practices, propagate_impact, NotifierGoes
          <5> QED
            BY <5>1 DEF Idle
        <4>3. ~overlapped' => \A u \in Notifiers : notifier[u] = Idle
          <5>1. CASE \E u \in Notifiers : /\ BeginNotify(u)
                        /\ overlapped' = (overlapped \/ \E v \in Notifiers : notifier[v] # Idle)
            BY <5>1
          <5>2. CASE \E u \in Notifiers : Notify(u) \/ CrashNotifier(u)
            <6>1. PICK u \in Notifiers : Notify(u) \/ CrashNotifier(u)
              BY <5>2
            <6>2. notifier[u] # Idle /\ \E e : notifier' = [notifier EXCEPT ![u] = e]
              <7>1. notifier[u] # Idle
                BY <6>1, AtWork DEF Notify, SkipAlreadySent, SendNext, RecordStatus,
                            AppendNextEvent, WriteImpact, CrashNotifier
              <7>2. \E e : NotifierGoes(u, e)
                BY <6>1 DEF Notify, SkipAlreadySent, SendNext, RecordStatus,
                            AppendNextEvent, WriteImpact, CrashNotifier
              <7> QED
                BY <7>1, <7>2 DEF NotifierGoes
            <6>3. notifier[p] = Idle /\ notifier'[p] # Idle
              BY <4>1, <4>2
            <6> QED
              BY <1>3, <6>2, <6>3
          <5>3. CASE \E q \in Retriers : RetrierStep(q)
            BY <1>5, <5>3, RetrierStepTypes DEF RetrierStep
          <5>4. CASE WorldStep
            BY <1>5, <5>4, WorldStepOnly
          <5> QED
            BY <5>1, <5>2, <5>3, <5>4 DEF Next, RetrierStep, WorldStep
        <4> QED
          BY <1>1, <4>3
      <3> QED
        BY <3>1, <3>2
    <2>3. \A u \in Notifiers : u # p => notifier'[u] = Idle
      BY <1>3, <2>1, <2>2
    <2>4. SUFFICES ASSUME d # Idle PROVE Apart(notifier[p])'
      BY <2>3 DEF OneNotifier
    <2>5. CASE BeginNotify(p)
      <3>1. d.results = <<>> /\ d.step \in {"sent", "impact"}
        BY <1>3, <2>5 DEF BeginNotify, notify_affected_practices, propagate_impact, NotifierGoes
      <3> QED
        BY <3>1 DEF Apart
    <2>6. SUFFICES ASSUME Notify(p) PROVE Apart(notifier[p])'
      BY <1>3, <1>5, <2>4, <2>5 DEF NotifierStep, CrashNotifier, NotifierGoes
    <2>7. c # Idle /\ c \in NotifierCall /\ NotifierHolds(c) /\ Apart(c)
      BY <1>2, <2>6, AtWork DEF Notify, SkipAlreadySent, SendNext, RecordStatus, AppendNextEvent,
                          WriteImpact, NotifiersHold, OneNotifier
    <2>8. \A i \in DOMAIN c.results :
              Recipient(c.results[i]) = minted'[c.results[i].notification].to
      BY <1>3, <2>7 DEF NotifierHolds, Recipient
    <2>9. \A e \in log : minted'[e.notification] = minted[e.notification]
      BY <1>3 DEF TypeOK
    <2>10. CASE SkipAlreadySent(p)
      <3>1. d = [c EXCEPT !.step = "send", !.todo = c.todo \ AlreadySent]
        BY <1>3, <2>4, <2>10 DEF SkipAlreadySent, NotifierGoes
      <3>2. c.results = <<>> /\ UNCHANGED <<minted, log>>
        BY <2>7, <2>10 DEF SkipAlreadySent, NotifierHolds, worldVars
      <3>3. d.results = <<>> /\ d.todo = c.todo \ AlreadySent
        BY <2>7, <3>1, <3>2 DEF NotifierCall
      <3>4. AlreadySent' = AlreadySent
        BY <3>2 DEF AlreadySent
      <3> QED
        BY <3>3, <3>4 DEF Apart
    <2>11. CASE SendNext(p)
      <3>1. PICK r \in c.todo, delivered \in BOOLEAN :
               LET n == Len(minted) + 1
                   left == c.todo \ {r}
               IN  /\ c.step = "send"
                   /\ minted' = Append(minted, [to |-> r, expires_at |-> now + Lifetime])
                   /\ NotifierGoes(p, [c EXCEPT
                         !.todo = left,
                         !.results = Append(@, [notification |-> n, delivered |-> delivered]),
                         !.step = IF left = {} THEN "record" ELSE "send"])
                   /\ UNCHANGED log
        BY <2>11 DEF SendNext
      <3> DEFINE n == Len(minted) + 1
                 result == [notification |-> n, delivered |-> delivered]
      <3>2. d.todo = c.todo \ {r} /\ d.results = Append(c.results, result)
        BY <1>3, <2>7, <3>1 DEF NotifierCall, NotifierGoes
      <3>3. minted'[n].to = r
        BY <3>1, MintingKeeps
      <3>4. AlreadySent' = AlreadySent
        BY <2>9, <3>1 DEF AlreadySent
      <3>5. \A i \in DOMAIN d.results :
                \/ i \in DOMAIN c.results /\ d.results[i] = c.results[i]
                \/ i = Len(c.results) + 1 /\ d.results[i] = result
        <4>1. \A i \in DOMAIN Append(c.results, result) :
                  \/ i \in DOMAIN c.results /\ Append(c.results, result)[i] = c.results[i]
                  \/ i = Len(c.results) + 1 /\ Append(c.results, result)[i] = result
          BY <2>7, ResultsOf, AppendOf, Zenon
        <4> HIDE DEF result
        <4> QED
          BY <3>2, <4>1
      <3>6. r \notin AlreadySent /\ \A i \in DOMAIN c.results : Recipient(c.results[i]) # r
        BY <2>7, <3>1 DEF Apart
      <3>7. \A i \in DOMAIN d.results :
                \/ /\ i \in DOMAIN c.results
                   /\ minted'[d.results[i].notification].to = Recipient(c.results[i])
                \/ i = Len(c.results) + 1 /\ minted'[d.results[i].notification].to = r
        BY <2>8, <3>3, <3>5
      <3>8. \A i \in DOMAIN c.results : Recipient(c.results[i]) \notin c.todo \cup AlreadySent
        BY <2>7 DEF Apart
      <3>9. /\ d.todo \cap AlreadySent' = {}
            /\ \A i \in DOMAIN d.results :
                   minted'[d.results[i].notification].to \notin d.todo \cup AlreadySent'
        BY <2>7, <3>1, <3>2, <3>4, <3>6, <3>7, <3>8 DEF Apart
      <3>10. \A i, j \in DOMAIN d.results : i # j =>
                 minted'[d.results[i].notification].to # minted'[d.results[j].notification].to
        BY <2>7, <3>6, <3>7 DEF Apart
      <3> QED
        BY <3>9, <3>10 DEF Apart, Recipient
    <2>12. CASE WriteImpact(p)
      BY <1>3, <2>4, <2>12 DEF WriteImpact, NotifierGoes
    <2>13. CASE RecordStatus(p) \/ AppendNextEvent(p)
      <3>1. c.results # <<>> /\ UNCHANGED minted /\ c.step \in {"record", "events"}
        BY <2>7, <2>13 DEF RecordStatus, AppendNextEvent, NotifierHolds, worldVars
      <3>2. \/ d = [c EXCEPT !.step = "events"] /\ log' = log
            \/ /\ d = [c EXCEPT !.step = "events", !.results = Tail(@)]
               /\ log' = log \cup {EventOf(c.results[1])}
        <4>1. CASE RecordStatus(p)
          BY <1>3, <2>4, <4>1 DEF RecordStatus, NotifierGoes
        <4>2. CASE AppendNextEvent(p)
          <5>1. c.step = "events" /\ d = [c EXCEPT !.results = Tail(@)]
            BY <1>3, <2>4, <4>2 DEF AppendNextEvent, NotifierGoes
          <5>2. [c EXCEPT !.results = Tail(@)] = [c EXCEPT !.step = "events", !.results = Tail(@)]
            BY <2>7, <5>1 DEF NotifierCall
          <5> QED
            BY <4>2, <5>1, <5>2 DEF AppendNextEvent
        <4> QED
          BY <2>13, <4>1, <4>2
      <3>3. d.step = "events" /\ d.todo = c.todo
        BY <2>7, <3>2 DEF NotifierCall
      <3>4. CASE d = [c EXCEPT !.step = "events"] /\ log' = log
        <4>1. d.results = c.results /\ AlreadySent' = AlreadySent
          BY <2>7, <3>1, <3>4 DEF NotifierCall, AlreadySent
        <4> QED
          BY <2>7, <2>8, <3>3, <4>1 DEF Apart, Recipient
      <3>5. CASE /\ d = [c EXCEPT !.step = "events", !.results = Tail(@)]
                 /\ log' = log \cup {EventOf(c.results[1])}
        <4>1. d.results = Tail(c.results)
          BY <2>7, <3>5 DEF NotifierCall
        <4>2. /\ 1 \in DOMAIN c.results
              /\ \A i \in DOMAIN Tail(c.results) :
                    i + 1 \in DOMAIN c.results /\ Tail(c.results)[i] = c.results[i + 1]
          BY <2>7, <3>1, ResultsOf, TailOf, Zenon
        <4>3. EventOf(c.results[1]).notification = c.results[1].notification
          BY <2>7, <4>2, ResultsOf, EventOfResult
        <4>4. AlreadySent' \subseteq AlreadySent \cup {Recipient(c.results[1])}
          BY <3>1, <3>5, <4>3 DEF AlreadySent, Recipient
        <4>5. \A i \in DOMAIN Tail(c.results) : i \in Nat /\ i + 1 # 1
          BY <2>7, ResultsOf
        <4>6. \A i \in DOMAIN d.results :
                  /\ i + 1 \in DOMAIN c.results /\ i + 1 # 1
                  /\ minted'[d.results[i].notification].to = Recipient(c.results[i + 1])
          BY <2>8, <4>1, <4>2, <4>5
        <4>7. \A i \in DOMAIN d.results :
                  minted'[d.results[i].notification].to \notin d.todo \cup AlreadySent'
          BY <2>7, <3>3, <4>2, <4>4, <4>6 DEF Apart
        <4>8. \A i, j \in DOMAIN d.results : i # j =>
                  minted'[d.results[i].notification].to # minted'[d.results[j].notification].to
          <5>1. \A i, j \in DOMAIN d.results : i # j => i + 1 # j + 1
            BY <4>1, <4>5
          <5> QED
            BY <2>7, <4>6, <5>1 DEF Apart
        <4> QED
          BY <3>3, <4>7, <4>8 DEF Apart, Recipient
      <3> QED
        BY <3>2, <3>4, <3>5
    <2> QED
      BY <2>6, <2>10, <2>11, <2>12, <2>13 DEF Notify
  <1>6. ASSUME NEW q \in Retriers, RetrierStep(q)
        PROVE  UNCHANGED notifier
    BY <1>6, RetrierStepTypes DEF RetrierStep
  <1> QED
    BY <1>4, <1>5, <1>6, StepsAre, WorldStepOnly

LEMMA SentOnceStep ==
    ASSUME TypeOK, NotifiersHold, RetriersHold, SerialNotifiers, SentOncePerRecipient, [Next]_vars
    PROVE  SentOncePerRecipient'
  <1>1. SUFFICES ASSUME ~overlapped', NEW e \in log', NEW f \in log',
                        e.delivery_status = "sent", f.delivery_status = "sent",
                        minted'[e.notification].to = minted'[f.notification].to
                 PROVE  e = f
    BY DEF SentOncePerRecipient
  <1>2. ~overlapped /\ OneNotifier
    BY <1>1 DEF Next, vars, SerialNotifiers, TypeOK
  <1>3. \A g \in log : minted'[g.notification] = minted[g.notification]
    BY StepGrows DEF Grows, TypeOK
  <1>4. CASE e \in log /\ f \in log
    BY <1>1, <1>2, <1>3, <1>4 DEF SentOncePerRecipient
  <1>5. ASSUME NEW g \in log', NEW h \in log', g \notin log,
               g.delivery_status = "sent", h.delivery_status = "sent",
               minted'[g.notification].to = minted'[h.notification].to
        PROVE  g = h
    <2>1. ~\E q \in Retriers : retrier[q] # Idle /\ retrier[q].step = "event" /\ g = retrier[q].event
      BY <1>5 DEF RetriersHold, RetrierHolds
    <2>2. PICK p \in Notifiers :
                 /\ notifier[p] # Idle /\ 1 \in DOMAIN notifier[p].results
                 /\ g = EventOf(notifier[p].results[1])
                 /\ UNCHANGED minted /\ log' = log \cup {g}
      BY <1>5, <2>1, LogStep
    <2>3. g.notification = notifier[p].results[1].notification
      BY <2>2, AtWork, ResultsOf, EventOfResult
    <2>4. Recipient(notifier[p].results[1]) \notin AlreadySent
      BY <1>2, <2>2 DEF OneNotifier, Apart
    <2>5. h \in log => minted[h.notification].to \in AlreadySent
      BY <1>5 DEF AlreadySent
    <2> QED
      BY <1>5, <2>2, <2>3, <2>4, <2>5 DEF Recipient
  <1> QED
    BY <1>1, <1>4, <1>5

-----------------------------------------------------------------------------
(* The theorems *)

LEMMA InitIInv == Init => IInv
  <1> SUFFICES ASSUME Init PROVE IInv
    OBVIOUS
  <1>1. TypeOK
    <2>1. correction \in Correction
      BY CorrectionDeliveryConstants DEF Init, Correction, Statuses
    <2>2. minted \in Seq(Minted) /\ Len(minted) <= MaxNotifications /\ DOMAIN minted = {}
      BY CorrectionDeliveryConstants DEF Init
    <2>3. DOMAIN pending_deliveries = {}
      BY DEF Init
    <2>4. now \in 0 .. MaxTime
      BY CorrectionDeliveryConstants DEF Init
    <2>5. /\ notifier \in [Notifiers -> NotifierCall \cup {Idle}]
          /\ retrier \in [Retriers -> RetrierCall \cup {Idle}]
      BY DEF Init
    <2>6. inbox = {} /\ carried = {} /\ log = {} /\ overlapped = FALSE
      BY DEF Init
    <2> QED
      BY <2>1, <2>2, <2>3, <2>4, <2>5, <2>6 DEF TypeOK
  <1>2. NotifiersHold /\ RetriersHold
    BY DEF Init, NotifiersHold, RetriersHold
  <1>3. /\ DeliveredMeansArrived /\ FailureStaysVisible /\ LogAgreesWithRows
        /\ PendingRowsStayDue /\ SentOncePerRecipient
    <2>1. log = {} /\ DOMAIN pending_deliveries = {}
      BY DEF Init
    <2> QED
      BY <2>1 DEF DeliveredMeansArrived, FailureStaysVisible, LogAgreesWithRows,
                  PendingRowsStayDue, SentOncePerRecipient
  <1>4. SerialNotifiers
    BY DEF Init, SerialNotifiers, OneNotifier
  <1> QED
    BY <1>1, <1>2, <1>3, <1>4 DEF IInv

LEMMA StepIInv == IInv /\ [Next]_vars => IInv'
  BY TypeStep, NotifiersHoldStep, RetriersHoldStep, DeliveredStep, FailureStep, RecordsStep,
     SerialStep, SentOnceStep DEF IInv

LEMMA Invariance == Spec => []IInv
  BY InitIInv, StepIInv, PTL DEF Spec

\* What the log and the rows call delivered has arrived, whatever crashes or races
\* (SkipAlreadySent relies on it, MRR-FR-094).
THEOREM DeliveredHasArrived == Spec => []DeliveredMeansArrived
  <1>1. IInv => DeliveredMeansArrived
    BY DEF IInv
  <1> QED
    BY <1>1, Invariance, PTL

\* A logged failure shows in the correction's status for good: record_object_revision
\* refuses whoever read an older revision (notify_affected_practices, propagate_impact).
THEOREM FailuresStayVisible == Spec => []FailureStaysVisible
  <1>1. IInv => FailureStaysVisible
    BY DEF IInv
  <1> QED
    BY <1>1, Invariance, PTL

\* notify_affected_practices is idempotent per recipient, as long as one call of it or
\* of propagate_impact follows the other, wherever the calls before have died.
THEOREM NotifiedOnce == Spec => []SentOncePerRecipient
  <1>1. IInv => SentOncePerRecipient
    BY DEF IInv
  <1> QED
    BY <1>1, Invariance, PTL

\* Every variable keeps its type, the log never contradicts the rows, and a pending row
\* comes due before its notification expires (record_retry_attempt, next_retry_at).
THEOREM DeliveryRecordsAgree == Spec => []RecordsOfDeliveriesAgree
  <1>1. IInv => RecordsOfDeliveriesAgree
    BY DEF IInv, RecordsOfDeliveriesAgree
  <1> QED
    BY <1>1, Invariance, PTL

\* No row is deleted, no attempt is taken back, and a delivered or exhausted row never
\* changes again (DELIVERY_RETRY_LIFECYCLE): the safety part of
\* DeliveriesAreSettledForGood.
THEOREM SettledForGood == Spec => OutcomeIsFinal
  <1>1. IInv /\ [Next]_vars => [RowsEvolve]_vars
    BY StepGrows DEF IInv, Grows
  <1>2. RowsEvolve =>
          \A n \in DOMAIN pending_deliveries :
            /\ n \in DOMAIN pending_deliveries'
            /\ pending_deliveries'[n].attempt_count >= pending_deliveries[n].attempt_count
            /\ pending_deliveries[n].status # "pending" =>
                  pending_deliveries'[n] = pending_deliveries[n]
    BY DEF RowsEvolve
  <1> QED
    BY <1>1, <1>2, Invariance, PTL DEF Spec, OutcomeIsFinal
=============================================================================
