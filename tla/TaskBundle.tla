----------------------------- MODULE TaskBundle -----------------------------
(***************************************************************************)
(* The negotiation of one Task Bundle (mrr.services.task_bundle.service).   *)
(* The origin creates, offers and acknowledges; the target node accepts,    *)
(* defers, rejects or proposes a modification.  Under ADR-0007 the signed   *)
(* content is written once per revision and a lifecycle transition is a     *)
(* domain event only; the current status is that of the latest such event.  *)
(*                                                                         *)
(* A command runs in a worker (a process or thread with its own database    *)
(* session) as a sequence of separate reads followed by one write, and the  *)
(* workers interleave between any two of them.  The write is atomic: it is  *)
(* a step of AppendOnlyStore, which EventStore implements.                  *)
(***************************************************************************)
EXTENDS Naturals, Sequences

CONSTANTS
    Workers,        \* sessions that run a command
    Origin,         \* the practice that creates the bundle
    Nodes,          \* practices that run a node
    MaxRevision,    \* bound: content revisions
    MaxEvents,      \* bound: domain events of the bundle
    None            \* no such thing

ASSUME TaskBundleConstants ==
    /\ Origin \notin Nodes
    /\ MaxRevision \in Nat /\ MaxEvents \in Nat
    /\ None \notin Nodes \cup {Origin}

VARIABLES
    content,        \* the content revisions of the bundle, oldest first
    log,            \* the bundle's domain events, oldest first
    cmd,            \* per worker: the command it is running
    overlapped      \* history: a command began while another was running

vars == <<content, log, cmd, overlapped>>

Practices == Nodes \cup {Origin}

-----------------------------------------------------------------------------
(* The lifecycle *)

Transitions == {
    <<"CREATED", "OFFERED">>,
    <<"OFFERED", "ACCEPTED">>,
    <<"OFFERED", "MODIFICATION_PROPOSED">>,
    <<"MODIFICATION_PROPOSED", "OFFERED">>,
    <<"OFFERED", "DEFERRED">>,
    <<"OFFERED", "REJECTED">>,
    <<"ACCEPTED", "QUEUED">>,
    <<"ACCEPTED", "EXPIRED">>,
    <<"QUEUED", "RUNNING">>,
    <<"QUEUED", "CANCELLED">>,
    <<"RUNNING", "COMPLETED">>,
    <<"RUNNING", "FAILED">>,
    <<"COMPLETED", "SEALED">>,
    <<"COMPLETED", "INVALID_RESULT">> }

States == {p[1] : p \in Transitions} \cup {p[2] : p \in Transitions}

assert_transition(from, to) == <<from, to>> \in Transitions

\* _LIFECYCLE_TRANSITION_EVENT_TYPES; "created" and "acknowledged" are not among them.
LifecycleEvents == {"offered", "accepted", "deferred", "rejected", "modification_offered"}

\* What a command does to the status; an acknowledgement leaves it alone.
Target == [offer |-> "OFFERED", accept |-> "ACCEPTED", defer |-> "DEFERRED",
           reject |-> "REJECTED", modify |-> "MODIFICATION_PROPOSED"]
EventType == [create |-> "created", offer |-> "offered", accept |-> "accepted",
              defer |-> "deferred", reject |-> "rejected",
              modify |-> "modification_offered", acknowledge |-> "acknowledged"]

NodeDecisions == {"accept", "defer", "reject", "modify"}

\* The status after the first n events: that of the latest lifecycle event among
\* them, else the status the content record was created with.
StatusAfter(n, status) ==
    \/ status = "CREATED" /\ \A i \in 1 .. n : log[i].type \notin LifecycleEvents
    \/ \E i \in 1 .. n :
          /\ log[i].type \in LifecycleEvents
          /\ log[i].to = status
          /\ \A j \in i + 1 .. n : log[j].type \notin LifecycleEvents

_current_status(status) == StatusAfter(Len(log), status)

-----------------------------------------------------------------------------
(* Data *)

\* A content revision: whom it is for, who its signature names, and whether the
\* signature verifies under that practice's key over the stored bytes.
Revision == [target : Nodes, signer : Practices, valid : BOOLEAN]

Event == [type : {EventType[op] : op \in DOMAIN EventType},
          from : States \cup {None}, to : States \cup {None},
          revision : 1 .. MaxRevision,
          by : Practices,
          trusted : Practices \cup {None}]

\* A running command.  `trusted` is the practice whose key a *_trusted variant
\* resolves, `key` the practice whose key the command verifies with, `draft` the
\* content it wants to write.
Command == [op : DOMAIN EventType, step : {"resolve", "read", "status", "gates", "write"},
            by : Practices, trusted : Practices \cup {None}, key : Practices \cup {None},
            latest : 0 .. MaxRevision, status : States \cup {None},
            draft : Revision \cup {None}]
Idle == [op |-> "none"]

Exists == content # <<>>
Latest == content[Len(content)]

-----------------------------------------------------------------------------
(* Commands *)

Free(w) == cmd[w] = Idle

\* A command returns, or raises having written nothing.
Finish(w) == cmd' = [cmd EXCEPT ![w] = Idle]
Goto(w, c) == cmd' = [cmd EXCEPT ![w] = c]
NoWrite == UNCHANGED <<content, log>>
Raise(w) == Finish(w) /\ NoWrite

NewCommand(op, step, by, trusted, key, draft) ==
    [op |-> op, step |-> step, by |-> by, trusted |-> trusted, key |-> key,
     latest |-> 0, status |-> None, draft |-> draft]

\* TaskBundleService.create: a revision-1 bundle in CREATED.
create(w, draft) ==
    Free(w) /\ Goto(w, NewCommand("create", "gates", Origin, None, None, draft)) /\ NoWrite

\* TaskBundleService.offer and accept_modification verify no signature.
offer(w) ==
    Free(w) /\ Goto(w, NewCommand("offer", "read", Origin, None, None, None)) /\ NoWrite
accept_modification(w) ==
    Free(w) /\ Goto(w, NewCommand("acknowledge", "read", Origin, None, None, None)) /\ NoWrite

\* accept_modification_trusted resolves the node's key first.
accept_modification_trusted(w, node) ==
    Free(w) /\ Goto(w, NewCommand("acknowledge", "resolve", Origin, node, None, None)) /\ NoWrite

\* NodeTaskDecisionService: the caller brings the verifying key ...
decide(w, op, node, key, draft) ==
    Free(w) /\ Goto(w, NewCommand(op, "read", node, None, key, draft)) /\ NoWrite

\* ... or names the practice it trusts, whose key is resolved first.
decide_trusted(w, op, node, trusted, draft) ==
    Free(w) /\ Goto(w, NewCommand(op, "resolve", node, trusted, None, draft)) /\ NoWrite

\* resolve_trusted_task_key over the content revision that is the latest now: it
\* must be signed by the trusted practice and verify.
ResolveKey(w) ==
    /\ cmd[w] # Idle /\ cmd[w].step = "resolve"
    /\ \/ /\ Exists /\ Latest.signer = cmd[w].trusted /\ Latest.valid
          /\ Goto(w, [cmd[w] EXCEPT !.key = cmd[w].trusted, !.step = "read"])
          /\ UNCHANGED <<content, log>>
       \/ /\ ~(Exists /\ Latest.signer = cmd[w].trusted /\ Latest.valid)
          /\ Raise(w)

\* Mutant of Authorized: anyone may decide.
AuthorizedAnyone(c) == c.op \in NodeDecisions => Latest.valid /\ Latest.signer = c.key

\* Mutant of Authorized: the signature over the content as it is now is not verified
\* again.
AuthorizedByTarget(c) == c.op \in NodeDecisions => Latest.target = c.by

\* _authorize_and_verify: only the target node decides, and the content as it is
\* stored now verifies under the key at hand.
Authorized(c) == c.op \in NodeDecisions =>
                    Latest.target = c.by /\ Latest.valid /\ Latest.signer = c.key

\* _get_latest_or_raise, then the checks on the content it returns.
ReadLatest(w) ==
    /\ cmd[w] # Idle /\ cmd[w].step = "read"
    /\ \/ /\ Exists /\ Authorized(cmd[w])
          /\ Goto(w, [cmd[w] EXCEPT !.latest = Len(content), !.key = None, !.step = "status"])
          /\ UNCHANGED <<content, log>>
       \/ /\ ~(Exists /\ Authorized(cmd[w]))
          /\ Raise(w)

\* Mutant of Allowed: the status is not checked.
AllowedAlways(op, status) == TRUE

\* The status check every command makes before it writes.
Allowed(op, status) ==
    IF op = "acknowledge" THEN status = "OFFERED"
    ELSE assert_transition(status, Target[op])

\* The event log is read, and the transition asserted, before the write.
ReadStatus(w) ==
    /\ cmd[w] # Idle /\ cmd[w].step = "status"
    /\ \E status \in States :
          /\ _current_status(status)
          /\ \/ /\ Allowed(cmd[w].op, status)
                /\ Goto(w, [cmd[w] EXCEPT !.status = status, !.step = "write"])
                /\ UNCHANGED <<content, log>>
             \/ /\ ~Allowed(cmd[w].op, status)
                /\ Raise(w)

\* create: ensure_can_start_work and _ensure_capability_declared, which read the
\* Research Score and the target's manifest, pass or raise.
CheckGates(w) ==
    /\ cmd[w] # Idle /\ cmd[w].step = "gates"
    /\ \/ /\ Goto(w, [cmd[w] EXCEPT !.step = "write"])
          /\ UNCHANGED <<content, log>>
       \/ Raise(w)

\* Mutant of EventOf: every event names the first revision.
EventOfFirst(c) ==
    [type |-> EventType[c.op],
     from |-> IF c.op \in {"create", "acknowledge"} THEN None ELSE c.status,
     to |-> IF c.op \in {"create", "acknowledge"} THEN None
            ELSE IF c.op = "modify" THEN "OFFERED" ELSE Target[c.op],
     revision |-> 1, by |-> c.by, trusted |-> c.trusted]

\* The event of a command: a modification is offered in one event, an
\* acknowledgement moves no status.
EventOf(c) ==
    [type |-> EventType[c.op],
     from |-> IF c.op \in {"create", "acknowledge"} THEN None ELSE c.status,
     to |-> IF c.op \in {"create", "acknowledge"} THEN None
            ELSE IF c.op = "modify" THEN "OFFERED" ELSE Target[c.op],
     revision |-> IF c.op \in {"create", "modify"} THEN c.latest + 1 ELSE c.latest,
     by |-> c.by, trusted |-> c.trusted]

\* record_event: the event is appended whatever has happened since the reads.
RecordEvent(w) ==
    /\ cmd[w] # Idle /\ cmd[w].step = "write" /\ cmd[w].op \notin {"create", "modify"}
    /\ Len(log) < MaxEvents
    /\ log' = Append(log, EventOf(cmd[w]))
    /\ Finish(w)
    /\ UNCHANGED content

\* Mutant of RecordRevision: the content is replaced whatever revision it is at.
RecordRevisionUnchecked(w) ==
    /\ cmd[w] # Idle /\ cmd[w].step = "write" /\ cmd[w].op \in {"create", "modify"}
    /\ Len(log) < MaxEvents /\ Len(content) < MaxRevision
    /\ content' = Append(content, cmd[w].draft)
    /\ log' = Append(log, EventOf(cmd[w]))
    /\ Finish(w)

\* record_object_revision_with_event: the content must still be at the revision
\* read, else RevisionConflictError.
RecordRevision(w) ==
    /\ cmd[w] # Idle /\ cmd[w].step = "write" /\ cmd[w].op \in {"create", "modify"}
    /\ Len(log) < MaxEvents
    /\ \/ /\ Len(content) = cmd[w].latest /\ Len(content) < MaxRevision
          /\ content' = Append(content, cmd[w].draft)
          /\ log' = Append(log, EventOf(cmd[w]))
          /\ Finish(w)
       \/ /\ Len(content) # cmd[w].latest
          /\ Raise(w)

\* The worker dies before its write.
CrashWorker(w) == cmd[w] # Idle /\ Raise(w)

-----------------------------------------------------------------------------
Init == /\ content = <<>>
        /\ log = <<>>
        /\ cmd = [w \in Workers |-> Idle]
        /\ overlapped = FALSE

\* A modification carries a new content hash and signature; its target and signer
\* are whatever the modifying node wrote, but no node can sign for the origin.
Drafts(op) ==
    IF op = "modify" THEN {r \in Revision : r.valid => r.signer # Origin} ELSE {None}

StartCommand(w) ==
    \/ \E draft \in [target : Nodes, signer : {Origin}, valid : {TRUE}] : create(w, draft)
    \/ offer(w)
    \/ accept_modification(w)
    \/ \E node \in Nodes : accept_modification_trusted(w, node)
    \/ \E op \in NodeDecisions, node \in Practices : \E draft \in Drafts(op) :
          \/ \E key \in Practices : decide(w, op, node, key, draft)
          \/ \E trusted \in Practices : decide_trusted(w, op, node, trusted, draft)

Step(w) == ResolveKey(w) \/ ReadLatest(w) \/ ReadStatus(w) \/ CheckGates(w)
           \/ RecordEvent(w) \/ RecordRevision(w) \/ CrashWorker(w)

Next == \E w \in Workers :
    \/ StartCommand(w) /\ overlapped' = (overlapped \/ \E u \in Workers : cmd[u] # Idle)
    \/ Step(w) /\ UNCHANGED overlapped

Spec == Init /\ [][Next]_vars

-----------------------------------------------------------------------------
(* Properties *)

\* Every variable has its type.
TypeOK ==
    /\ content \in Seq(Revision) /\ Len(content) <= MaxRevision
    /\ log \in Seq(Event) /\ Len(log) <= MaxEvents
    /\ cmd \in [Workers -> Command \cup {Idle}]
    /\ overlapped \in BOOLEAN

Positions == 1 .. Len(log)
IsTransition(i) == log[i].type \in LifecycleEvents

\* The bundle's history is a path of the lifecycle diagram (docs/spec/01, 6.2):
\* every transition event leaves the status the previous one reached, so a
\* deferred, rejected or accepted bundle is never decided again.
HistoryFollowsLifecycle ==
    \A i \in Positions : IsTransition(i) =>
        /\ StatusAfter(i - 1, log[i].from)
        /\ \/ assert_transition(log[i].from, log[i].to)
           \/ /\ log[i].type = "modification_offered"
              /\ assert_transition(log[i].from, "MODIFICATION_PROPOSED")
              /\ assert_transition("MODIFICATION_PROPOSED", log[i].to)

\* While commands follow one another, _advance keeps the history on the diagram
\* through any number of modification rounds, crashes and refusals.
SerialHistoryFollowsLifecycle == ~overlapped => HistoryFollowsLifecycle

\* While commands follow one another, a bundle that reads as ACCEPTED was accepted in
\* its current content: the content that would be executed is the content the node
\* verified and accepted.
AcceptedContentIsCurrent ==
    ~overlapped /\ _current_status("ACCEPTED") =>
        \E i \in Positions : log[i].type = "accepted" /\ log[i].revision = Len(content)

\* Every recorded node decision was made by the node that the decided content
\* revision targets, on content whose signature verifies, and, when a practice was
\* trusted, on content that practice signed, although key and content are read
\* separately (MRR-FR-022; accept_trusted and its siblings).
DecisionsAreAuthorized ==
    \A i \in Positions :
        log[i].type \in {EventType[op] : op \in NodeDecisions} =>
            LET decided == IF log[i].type = "modification_offered"
                           THEN log[i].revision - 1 ELSE log[i].revision
            IN  /\ content[decided].target = log[i].by
                /\ content[decided].valid
                /\ log[i].trusted # None => content[decided].signer = log[i].trusted

\* A node that takes the origin's key for its trust anchor never accepts a node's
\* modification, acknowledged or not, even when the modification is stored between
\* the resolution of the key and the reading of the content (accept_trusted;
\* MRR-FR-023).  A node that accepts under the modifier's key needs no
\* acknowledgement: accept reads the status, which modification and
\* acknowledgement both leave at OFFERED.
OriginTrustExcludesModifications ==
    \A i, j \in Positions :
        /\ log[i].type = "accepted" /\ log[i].trusted = Origin
        /\ log[j].type = "modification_offered"
        => log[i].revision # log[j].revision

\* Content is changed only by a recorded modification of the revision before it,
\* one per revision, and the creation is the first event (MRR-FR-034).
EveryRevisionHasOneAuthor ==
    /\ \A n \in 1 .. Len(content) :
          \E i \in Positions :
             /\ log[i].revision = n
             /\ log[i].type = IF n = 1 THEN "created" ELSE "modification_offered"
             /\ \A j \in Positions \ {i} :
                   log[j].revision = n => log[j].type # log[i].type /\ j > i
    /\ \A i \in Positions : log[i].revision <= Len(content)

\* What accept_modification_trusted acknowledges is content the trusted node
\* signed, while commands follow one another: it resolves the key over one read of
\* the content and acknowledges the revision of a second.
AcknowledgedContentIsTrusted ==
    ~overlapped => \A i \in Positions :
        log[i].type = "acknowledged" /\ log[i].trusted # None =>
            /\ content[log[i].revision].signer = log[i].trusted
            /\ content[log[i].revision].valid

\* While commands follow one another, what is accepted is the content in force and
\* what is acknowledged is content the trusted practice signed, although no event is
\* compared with anything when it is appended (_advance and the trusted variants).
DecisionsRestOnWhatWasRead == AcceptedContentIsCurrent /\ AcknowledgedContentIsTrusted
=============================================================================
