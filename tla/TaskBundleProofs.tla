-------------------------- MODULE TaskBundleProofs --------------------------
(***************************************************************************)
(* Theorems about TaskBundle, for any number of workers and nodes, any      *)
(* number of revisions and events, and every interleaving of the commands.  *)
(***************************************************************************)
EXTENDS TaskBundle, TLAPS

-----------------------------------------------------------------------------
(* The values of the tables *)

LEMMA Operations ==
    /\ DOMAIN EventType = {"create", "offer", "accept", "defer", "reject", "modify", "acknowledge"}
    /\ EventType["create"] = "created" /\ EventType["offer"] = "offered"
    /\ EventType["accept"] = "accepted" /\ EventType["defer"] = "deferred"
    /\ EventType["reject"] = "rejected" /\ EventType["modify"] = "modification_offered"
    /\ EventType["acknowledge"] = "acknowledged"
  BY DEF EventType

LEMMA Targets ==
    /\ Target["offer"] = "OFFERED" /\ Target["accept"] = "ACCEPTED"
    /\ Target["defer"] = "DEFERRED" /\ Target["reject"] = "REJECTED"
    /\ Target["modify"] = "MODIFICATION_PROPOSED"
  BY DEF Target

LEMMA StatesAre ==
    {"CREATED", "OFFERED", "ACCEPTED", "MODIFICATION_PROPOSED", "DEFERRED", "REJECTED"} \subseteq States
  BY SMTT(30) DEF States, Transitions

LEMMA CommandsAreNotIdle == \A c \in Command : c # Idle
  BY Operations DEF Command, Idle

\* The event a command records names its author and its revision; only the four
\* decisions and the offer move the status.
LEMMA EventFields ==
    ASSUME NEW c \in Command
    PROVE  /\ EventOf(c).type = EventType[c.op]
           /\ EventOf(c).by = c.by /\ EventOf(c).trusted = c.trusted
           /\ EventOf(c).revision = IF c.op \in {"create", "modify"} THEN c.latest + 1 ELSE c.latest
           /\ c.op = "modify" => EventOf(c).to = "OFFERED"
           /\ c.op \in {"offer", "accept", "defer", "reject"} => EventOf(c).to = Target[c.op]
           /\ c.op \notin {"create", "acknowledge"} => EventOf(c).from = c.status
  BY DEF EventOf

-----------------------------------------------------------------------------
(* The inductive invariant *)

\* What a running command holds of the content ct it has read, whatever has been
\* stored since: revisions are never replaced.
HeldIn(ct, c) ==
    /\ c.op = "create" => c.step \in {"gates", "write"} /\ c.latest = 0
    /\ c.op # "create" => c.step # "gates"
    /\ c.op \in {"create", "modify"} => c.draft \in Revision
    /\ c.op = "modify" => (c.draft.valid => c.draft.signer # Origin)
    /\ c.step = "read" /\ c.op \in NodeDecisions /\ c.trusted # None => c.key = c.trusted
    /\ c.step = "write" /\ c.op # "create" => c.status \in States
    /\ c.op # "create" /\ c.step \in {"status", "write"} =>
          /\ c.latest \in 1 .. Len(ct)
          /\ c.op \in NodeDecisions =>
                /\ ct[c.latest].target = c.by
                /\ ct[c.latest].valid
                /\ c.trusted # None => ct[c.latest].signer = c.trusted

CommandsHold == \A w \in Workers : cmd[w] # Idle => HeldIn(content, cmd[w])

\* A modification is a revision after the first, and not one the origin has signed.
ModificationsAreTheNodes ==
    \A i \in Positions : log[i].type = "modification_offered" =>
        /\ log[i].revision \in 2 .. Len(content)
        /\ content[log[i].revision].valid => content[log[i].revision].signer # Origin

IInv == /\ TypeOK
        /\ CommandsHold
        /\ ModificationsAreTheNodes
        /\ DecisionsAreAuthorized
        /\ EveryRevisionHasOneAuthor

-----------------------------------------------------------------------------
(* The steps of one worker *)

LEMMA AppendKeepsHeld ==
    ASSUME NEW ct \in Seq(Revision), NEW r \in Revision, NEW c \in Command, HeldIn(ct, c)
    PROVE  HeldIn(Append(ct, r), c)
  BY DEF HeldIn, Command

\* Worker w begins command c, or takes c to its next read, and stores nothing.
Runs(w, c) == /\ c \in Command
              /\ cmd' = [cmd EXCEPT ![w] = c]
              /\ UNCHANGED <<content, log>>
              /\ HeldIn(content, c)

LEMMA StartRuns ==
    ASSUME TypeOK, NEW w \in Workers, StartCommand(w)
    PROVE  \E c : /\ Runs(w, c)
                  /\ cmd[w] = Idle
                  /\ c.step \in {"gates", "read", "resolve"}
                  /\ c.op = "acknowledge" /\ c.trusted # None => c.step = "resolve"
  <1> DEFINE Good(c) == /\ Runs(w, c)
                        /\ cmd[w] = Idle
                        /\ c.step \in {"gates", "read", "resolve"}
                        /\ c.op = "acknowledge" /\ c.trusted # None => c.step = "resolve"
  <1>1. CASE \E draft \in [target : Nodes, signer : {Origin}, valid : {TRUE}] : create(w, draft)
    <2>1. PICK draft \in [target : Nodes, signer : {Origin}, valid : {TRUE}] : create(w, draft)
      BY <1>1
    <2> DEFINE c == NewCommand("create", "gates", Origin, None, None, draft)
    <2>2. draft \in Revision
      BY <2>1 DEF Revision, Practices
    <2>3. c \in Command /\ HeldIn(content, c)
      <3>1. c \in Command
        BY <2>2, Operations, TaskBundleConstants DEF Command, NewCommand, Practices, NodeDecisions, Drafts
      <3>2. HeldIn(content, c)
        BY <2>2, Operations DEF NewCommand, HeldIn, NodeDecisions, Drafts, Revision
      <3> QED
        BY <3>1, <3>2
    <2>4. Good(c)
      BY <2>1, <2>3 DEF create, Free, Goto, NoWrite, Runs, NewCommand
    <2> QED
      BY <2>4
  <1>2. CASE offer(w)
    <2> DEFINE c == NewCommand("offer", "read", Origin, None, None, None)
    <2>1. c \in Command /\ HeldIn(content, c)
      <3>1. c \in Command
        BY Operations, TaskBundleConstants DEF Command, NewCommand, Practices, NodeDecisions, Drafts
      <3>2. HeldIn(content, c)
        BY Operations DEF NewCommand, HeldIn, NodeDecisions, Drafts, Revision
      <3> QED
        BY <3>1, <3>2
    <2>2. Good(c)
      BY <1>2, <2>1 DEF offer, Free, Goto, NoWrite, Runs, NewCommand
    <2> QED
      BY <2>2
  <1>3. CASE accept_modification(w)
    <2> DEFINE c == NewCommand("acknowledge", "read", Origin, None, None, None)
    <2>1. c \in Command /\ HeldIn(content, c)
      <3>1. c \in Command
        BY Operations, TaskBundleConstants DEF Command, NewCommand, Practices, NodeDecisions, Drafts
      <3>2. HeldIn(content, c)
        BY Operations DEF NewCommand, HeldIn, NodeDecisions, Drafts, Revision
      <3> QED
        BY <3>1, <3>2
    <2>2. Good(c)
      BY <1>3, <2>1 DEF accept_modification, Free, Goto, NoWrite, Runs, NewCommand
    <2> QED
      BY <2>2
  <1>4. CASE \E node \in Nodes : accept_modification_trusted(w, node)
    <2>1. PICK node \in Nodes : accept_modification_trusted(w, node)
      BY <1>4
    <2> DEFINE c == NewCommand("acknowledge", "resolve", Origin, node, None, None)
    <2>2. c \in Command /\ HeldIn(content, c)
      <3>1. c \in Command
        BY Operations, TaskBundleConstants DEF Command, NewCommand, Practices, NodeDecisions, Drafts
      <3>2. HeldIn(content, c)
        BY Operations DEF NewCommand, HeldIn, NodeDecisions, Drafts, Revision
      <3> QED
        BY <3>1, <3>2
    <2>3. Good(c)
      BY <2>1, <2>2 DEF accept_modification_trusted, Free, Goto, NoWrite, Runs, NewCommand
    <2> QED
      BY <2>3
  <1>5. ASSUME NEW op \in NodeDecisions, NEW node \in Practices, NEW draft \in Drafts(op),
               NEW key \in Practices, decide(w, op, node, key, draft)
        PROVE  \E c : Good(c)
    <2> DEFINE c == NewCommand(op, "read", node, None, key, draft)
    <2>1. c \in Command /\ HeldIn(content, c)
      <3>1. c \in Command
        BY Operations, TaskBundleConstants DEF Command, NewCommand, Practices, NodeDecisions, Drafts
      <3>2. HeldIn(content, c)
        BY Operations DEF NewCommand, HeldIn, NodeDecisions, Drafts, Revision
      <3> QED
        BY <3>1, <3>2
    <2>2. Good(c)
      BY <1>5, <2>1 DEF decide, Free, Goto, NoWrite, Runs, NewCommand, NodeDecisions
    <2> QED
      BY <2>2
  <1>6. ASSUME NEW op \in NodeDecisions, NEW node \in Practices, NEW draft \in Drafts(op),
               NEW trusted \in Practices, decide_trusted(w, op, node, trusted, draft)
        PROVE  \E c : Good(c)
    <2> DEFINE c == NewCommand(op, "resolve", node, trusted, None, draft)
    <2>1. c \in Command /\ HeldIn(content, c)
      <3>1. c \in Command
        BY Operations, TaskBundleConstants DEF Command, NewCommand, Practices, NodeDecisions, Drafts
      <3>2. HeldIn(content, c)
        BY Operations DEF NewCommand, HeldIn, NodeDecisions, Drafts, Revision
      <3> QED
        BY <3>1, <3>2
    <2>2. Good(c)
      BY <1>6, <2>1 DEF decide_trusted, Free, Goto, NoWrite, Runs, NewCommand, NodeDecisions
    <2> QED
      BY <2>2
  <1> QED
    BY <1>1, <1>2, <1>3, <1>4, <1>5, <1>6 DEF StartCommand

\* A read of a running command: it raises, or goes on holding what it has read.
Reads(w) == ResolveKey(w) \/ ReadLatest(w) \/ ReadStatus(w) \/ CheckGates(w) \/ CrashWorker(w)

\* What a step from command b to command c leaves as it was, and what it finds.
GoesOn(b, c) ==
    /\ c.op = b.op /\ c.by = b.by /\ c.trusted = b.trusted /\ c.draft = b.draft
    /\ \/ /\ b.step = "resolve" /\ c.step = "read" /\ content # <<>>
          /\ Latest.signer = b.trusted /\ Latest.valid
       \/ b.step = "read" /\ c.step = "status" /\ c.latest = Len(content)
       \/ /\ b.step = "status" /\ c.step = "write" /\ c.latest = b.latest
          /\ _current_status(c.status) /\ Allowed(c.op, c.status)
       \/ b.step = "gates" /\ c.step = "write" /\ c.latest = b.latest

LEMMA ReadsGoOn ==
    ASSUME TypeOK, CommandsHold, NEW w \in Workers, Reads(w)
    PROVE  /\ cmd[w] # Idle /\ cmd[w] \in Command
           /\ UNCHANGED <<content, log>>
           /\ \/ cmd' = [cmd EXCEPT ![w] = Idle]
              \/ \E c : Runs(w, c) /\ GoesOn(cmd[w], c)
  <1>1. cmd[w] # Idle
    BY DEF Reads, ResolveKey, ReadLatest, ReadStatus, CheckGates, CrashWorker
  <1>2. cmd[w] \in Command /\ HeldIn(content, cmd[w])
    BY <1>1 DEF TypeOK, CommandsHold
  <1>3. UNCHANGED <<content, log>>
    BY DEF Reads, ResolveKey, ReadLatest, ReadStatus, CheckGates, CrashWorker, Raise, NoWrite
  <1>4. SUFFICES ASSUME cmd' # [cmd EXCEPT ![w] = Idle]
                 PROVE  \E c : Runs(w, c) /\ GoesOn(cmd[w], c)
    BY <1>1, <1>2, <1>3
  <1>5. ~Raise(w)
    BY <1>4 DEF Raise, Finish
  <1>6. CASE ResolveKey(w)
    <2> DEFINE c == [cmd[w] EXCEPT !.key = cmd[w].trusted, !.step = "read"]
    <2>1. /\ cmd[w].step = "resolve" /\ content # <<>> /\ Latest.signer = cmd[w].trusted
          /\ Latest.valid /\ cmd' = [cmd EXCEPT ![w] = c]
      BY <1>5, <1>6 DEF ResolveKey, Goto, Exists
    <2>2. c \in Command
      BY <1>2 DEF Command
    <2>3. HeldIn(content, c)
      BY <1>2, <2>1 DEF HeldIn, Command
    <2>4. GoesOn(cmd[w], c)
      BY <1>2, <2>1 DEF GoesOn, Command
    <2> QED
      BY <1>3, <2>1, <2>2, <2>3, <2>4 DEF Runs
  <1>7. CASE ReadLatest(w)
    <2> DEFINE c == [cmd[w] EXCEPT !.latest = Len(content), !.key = None, !.step = "status"]
    <2>1. /\ cmd[w].step = "read" /\ content # <<>> /\ Authorized(cmd[w])
          /\ cmd' = [cmd EXCEPT ![w] = c]
      BY <1>5, <1>7 DEF ReadLatest, Goto, Exists
    <2>2. content \in Seq(Revision) /\ Len(content) \in 1 .. MaxRevision
      BY <2>1, TaskBundleConstants DEF TypeOK
    <2>3. c \in Command
      <3>1. Len(content) \in 0 .. MaxRevision
        BY <2>2, TaskBundleConstants
      <3>2. \A n \in 0 .. MaxRevision :
               [cmd[w] EXCEPT !.latest = n, !.key = None, !.step = "status"] \in Command
        BY <1>2 DEF Command
      <3> QED
        BY <3>1, <3>2
    <2>4. HeldIn(content, c)
      BY <1>2, <2>1, <2>2 DEF HeldIn, Command, Authorized, Latest
    <2>5. GoesOn(cmd[w], c)
      BY <1>2, <2>1 DEF GoesOn, Command
    <2> QED
      BY <1>3, <2>1, <2>3, <2>4, <2>5 DEF Runs
  <1>8. CASE ReadStatus(w)
    <2>1. PICK status \in States : /\ _current_status(status) /\ Allowed(cmd[w].op, status)
                                   /\ cmd' = [cmd EXCEPT ![w] = [cmd[w] EXCEPT !.status = status, !.step = "write"]]
      BY <1>5, <1>8 DEF ReadStatus, Goto
    <2> DEFINE c == [cmd[w] EXCEPT !.status = status, !.step = "write"]
    <2>2. cmd[w].step = "status"
      BY <1>8 DEF ReadStatus
    <2>3. c \in Command
      BY <1>2 DEF Command
    <2>4. HeldIn(content, c)
      BY <1>2, <2>2 DEF HeldIn, Command
    <2>5. GoesOn(cmd[w], c)
      BY <1>2, <2>1, <2>2 DEF GoesOn, Command
    <2> QED
      BY <1>3, <2>1, <2>3, <2>4, <2>5 DEF Runs
  <1>9. CASE CheckGates(w)
    <2> DEFINE c == [cmd[w] EXCEPT !.step = "write"]
    <2>1. cmd[w].step = "gates" /\ cmd' = [cmd EXCEPT ![w] = c]
      BY <1>5, <1>9 DEF CheckGates, Goto
    <2>2. c \in Command
      BY <1>2 DEF Command
    <2>3. HeldIn(content, c)
      BY <1>2, <2>1 DEF HeldIn, Command
    <2>4. GoesOn(cmd[w], c)
      BY <1>2, <2>1 DEF GoesOn, Command
    <2> QED
      BY <1>3, <2>1, <2>2, <2>3, <2>4 DEF Runs
  <1>10. CASE CrashWorker(w)
    BY <1>5, <1>10 DEF CrashWorker
  <1> QED
    BY <1>6, <1>7, <1>8, <1>9, <1>10 DEF Reads

\* A write that takes place: the event of the command is appended, and so is its draft
\* if it has one, to content that is still at the revision that was read.
Stores(w) ==
    /\ cmd[w] # Idle /\ cmd[w].step = "write"
    /\ cmd' = [cmd EXCEPT ![w] = Idle]
    /\ log' = Append(log, EventOf(cmd[w])) /\ Len(log) < MaxEvents
    /\ IF cmd[w].op \in {"create", "modify"}
       THEN /\ content' = Append(content, cmd[w].draft)
            /\ Len(content) = cmd[w].latest /\ Len(content) < MaxRevision
       ELSE content' = content

LEMMA WriteStoresOrRaises ==
    ASSUME NEW w \in Workers, RecordEvent(w) \/ RecordRevision(w)
    PROVE  Stores(w) \/ (Raise(w) /\ cmd[w] # Idle)
  BY DEF RecordEvent, RecordRevision, Stores, Finish

LEMMA EventIsTyped ==
    ASSUME TypeOK, CommandsHold, NEW w \in Workers, Stores(w)
    PROVE  EventOf(cmd[w]) \in Event
  <1> DEFINE c == cmd[w]
  <1>1. c \in Command /\ HeldIn(content, c) /\ c.step = "write"
    BY DEF TypeOK, CommandsHold, Stores
  <1>2. EventOf(c).type \in {EventType[op] : op \in DOMAIN EventType}
    BY <1>1 DEF EventOf, Command
  <1>3. EventOf(c).revision \in 1 .. MaxRevision
    <2>1. CASE c.op = "create"
      BY <1>1, <2>1, TaskBundleConstants DEF EventOf, HeldIn, Stores, TypeOK
    <2>2. CASE c.op = "modify"
      BY <1>1, <2>2, TaskBundleConstants DEF EventOf, HeldIn, Stores, TypeOK
    <2>3. CASE c.op \notin {"create", "modify"}
      BY <1>1, <2>3, TaskBundleConstants DEF EventOf, HeldIn, Stores, TypeOK
    <2> QED
      BY <2>1, <2>2, <2>3
  <1>4. EventOf(c).from \in States \cup {None}
    BY <1>1 DEF EventOf, HeldIn
  <1>5. EventOf(c).to \in States \cup {None}
    <2>1. CASE c.op \in {"create", "acknowledge"}
      BY <2>1 DEF EventOf
    <2>2. CASE c.op = "modify"
      BY <2>2, StatesAre DEF EventOf
    <2>3. CASE c.op \in {"offer", "accept", "defer", "reject"}
      BY <1>1, <2>3, StatesAre, Targets, EventFields
    <2> QED
      BY <1>1, <2>1, <2>2, <2>3, Operations DEF Command
  <1>6. EventOf(c).by \in Practices /\ EventOf(c).trusted \in Practices \cup {None}
    BY <1>1 DEF EventOf, Command
  <1>7. EventOf(c) = [type |-> EventOf(c).type, from |-> EventOf(c).from, to |-> EventOf(c).to,
                      revision |-> EventOf(c).revision, by |-> EventOf(c).by,
                      trusted |-> EventOf(c).trusted]
    BY DEF EventOf
  <1> QED
    BY <1>2, <1>3, <1>4, <1>5, <1>6, <1>7 DEF Event

\* Every step of a worker is one of four: it begins, reads, raises or stores.
LEMMA StepCases ==
    ASSUME TypeOK, CommandsHold, Next
    PROVE  \/ UNCHANGED <<content, log>> /\ \E w \in Workers : cmd' = [cmd EXCEPT ![w] = Idle]
           \/ \E w \in Workers : \E c : Runs(w, c)
           \/ \E w \in Workers : Stores(w)
  <1>1. PICK w \in Workers : StartCommand(w) \/ Step(w)
    BY DEF Next
  <1>2. CASE StartCommand(w)
    BY <1>2, StartRuns
  <1>3. CASE Reads(w)
    BY <1>3, ReadsGoOn
  <1>4. CASE RecordEvent(w) \/ RecordRevision(w)
    BY <1>4, WriteStoresOrRaises DEF Raise, Finish, NoWrite
  <1> QED
    BY <1>1, <1>2, <1>3, <1>4 DEF Step, Reads

LEMMA TypeStep == TypeOK /\ CommandsHold /\ [Next]_vars => TypeOK' /\ CommandsHold'
  <1> SUFFICES ASSUME TypeOK, CommandsHold, [Next]_vars
               PROVE  TypeOK' /\ CommandsHold'
    OBVIOUS
  <1>1. CASE UNCHANGED vars
    BY <1>1 DEF vars, TypeOK, CommandsHold
  <1>2. CASE Next
    <2>1. overlapped' \in BOOLEAN
      BY <1>2 DEF Next, TypeOK
    <2>2. ASSUME UNCHANGED <<content, log>>, NEW w \in Workers, cmd' = [cmd EXCEPT ![w] = Idle]
          PROVE  TypeOK' /\ CommandsHold'
      BY <2>1, <2>2 DEF TypeOK, CommandsHold
    <2>3. ASSUME NEW w \in Workers, NEW c, Runs(w, c)
          PROVE  TypeOK' /\ CommandsHold'
      BY <2>1, <2>3 DEF TypeOK, CommandsHold, Runs
    <2>4. ASSUME NEW w \in Workers, Stores(w)
          PROVE  TypeOK' /\ CommandsHold'
      <3>1. cmd[w] \in Command /\ HeldIn(content, cmd[w])
        BY <2>4 DEF TypeOK, CommandsHold, Stores
      <3>2. log' \in Seq(Event) /\ Len(log') <= MaxEvents
        <4>1. EventOf(cmd[w]) \in Event
          BY <2>4, EventIsTyped
        <4>2. log \in Seq(Event) /\ log' = Append(log, EventOf(cmd[w])) /\ Len(log) < MaxEvents
          BY <2>4 DEF TypeOK, Stores
        <4> QED
          BY <4>1, <4>2, TaskBundleConstants
      <3>3. cmd' \in [Workers -> Command \cup {Idle}]
        BY <2>4 DEF TypeOK, Stores
      <3>4. CASE content' = content
        BY <2>1, <2>4, <3>2, <3>3, <3>4 DEF TypeOK, CommandsHold, Stores
      <3>5. CASE /\ cmd[w].draft \in Revision /\ content' = Append(content, cmd[w].draft)
                 /\ Len(content) < MaxRevision
        <4>1. content' \in Seq(Revision) /\ Len(content') <= MaxRevision
          BY <3>5, TaskBundleConstants DEF TypeOK
        <4>2. ASSUME NEW u \in Workers, cmd'[u] # Idle
              PROVE  HeldIn(content', cmd'[u])
          <5>1. cmd'[u] = cmd[u] /\ cmd[u] \in Command /\ HeldIn(content, cmd[u])
            BY <2>4, <4>2 DEF TypeOK, CommandsHold, Stores
          <5> QED
            BY <3>5, <5>1, AppendKeepsHeld DEF TypeOK
        <4> QED
          BY <2>1, <3>2, <3>3, <4>1, <4>2 DEF TypeOK, CommandsHold
      <3> QED
        BY <2>4, <3>1, <3>4, <3>5 DEF Stores, HeldIn
    <2> QED
      BY <1>2, <2>2, <2>3, <2>4, StepCases
  <1> QED
    BY <1>1, <1>2

-----------------------------------------------------------------------------
(* What is stored *)

\* A write adds one event, and at most one revision, and replaces nothing.
LEMMA StoreFacts ==
    ASSUME TypeOK, CommandsHold, NEW w \in Workers, Stores(w)
    PROVE  /\ cmd[w] \in Command /\ HeldIn(content, cmd[w]) /\ cmd[w].step = "write"
           /\ EventOf(cmd[w]) \in Event
           /\ Len(log) \in Nat /\ Len(content) \in Nat
           /\ Len(log') = Len(log) + 1 /\ log'[Len(log) + 1] = EventOf(cmd[w])
           /\ \A i \in 1 .. Len(log) : log'[i] = log[i] /\ log[i] \in Event
           /\ \A k \in 1 .. Len(content) : content'[k] = content[k]
           /\ cmd[w].op \in {"create", "modify"} =>
                 /\ Len(content') = Len(content) + 1 /\ Len(content) = cmd[w].latest
                 /\ content'[Len(content) + 1] = cmd[w].draft
           /\ cmd[w].op \notin {"create", "modify"} => content' = content
  <1>1. cmd[w] \in Command /\ HeldIn(content, cmd[w]) /\ cmd[w].step = "write"
    BY DEF TypeOK, CommandsHold, Stores
  <1>2. EventOf(cmd[w]) \in Event
    BY EventIsTyped
  <1>3. log \in Seq(Event) /\ content \in Seq(Revision)
    BY DEF TypeOK
  <1>4. /\ Len(log') = Len(log) + 1 /\ log'[Len(log) + 1] = EventOf(cmd[w])
        /\ \A i \in 1 .. Len(log) : log'[i] = log[i] /\ log[i] \in Event
    BY <1>2, <1>3 DEF Stores
  <1>5. CASE cmd[w].op \in {"create", "modify"}
    <2>1. content' = Append(content, cmd[w].draft) /\ cmd[w].draft \in Revision
          /\ Len(content) = cmd[w].latest
      BY <1>1, <1>5 DEF Stores, HeldIn
    <2> QED
      BY <1>1, <1>2, <1>3, <1>4, <1>5, <2>1
  <1>6. CASE cmd[w].op \notin {"create", "modify"}
    <2>1. content' = content
      BY <1>6 DEF Stores
    <2> QED
      BY <1>1, <1>2, <1>3, <1>4, <1>6, <2>1
  <1> QED
    BY <1>5, <1>6

LEMMA ModificationsStep ==
    ASSUME IInv, NEW w \in Workers, Stores(w)
    PROVE  ModificationsAreTheNodes'
  <1> USE DEF IInv
  <1>1. SUFFICES ASSUME NEW i \in Positions', log'[i].type = "modification_offered"
                 PROVE  /\ log'[i].revision \in 2 .. Len(content')
                        /\ content'[log'[i].revision].valid =>
                              content'[log'[i].revision].signer # Origin
    BY DEF ModificationsAreTheNodes
  <1>2. CASE i \in 1 .. Len(log)
    <2>1. log'[i] = log[i] /\ log[i].revision \in 2 .. Len(content)
          /\ (content[log[i].revision].valid => content[log[i].revision].signer # Origin)
      BY <1>1, <1>2, StoreFacts DEF ModificationsAreTheNodes, Positions
    <2>2. Len(content') >= Len(content) /\ content'[log[i].revision] = content[log[i].revision]
          /\ Len(content') \in Nat
      BY <2>1, StoreFacts
    <2> QED
      BY <2>1, <2>2
  <1>3. CASE i = Len(log) + 1
    <2>1. EventOf(cmd[w]).type = "modification_offered" /\ cmd[w] \in Command
      BY <1>1, <1>3, StoreFacts
    <2>2. cmd[w].op = "modify"
      BY <2>1, EventFields, Operations DEF Command
    <2>3. /\ log'[i].revision = Len(content) + 1 /\ cmd[w].latest = Len(content)
          /\ cmd[w].latest \in 1 .. Len(content)
          /\ Len(content') = Len(content) + 1 /\ content'[Len(content) + 1] = cmd[w].draft
          /\ Len(content) \in Nat
      BY <1>3, <2>2, StoreFacts, EventFields DEF HeldIn
    <2>4. cmd[w].draft.valid => cmd[w].draft.signer # Origin
      BY <2>2, StoreFacts DEF HeldIn
    <2> QED
      BY <2>3, <2>4
  <1> QED
    BY <1>2, <1>3, StoreFacts DEF Positions

LEMMA DecisionsStep ==
    ASSUME IInv, NEW w \in Workers, Stores(w)
    PROVE  DecisionsAreAuthorized'
  <1> USE DEF IInv
  <1> DEFINE Decided(e) == IF e.type = "modification_offered" THEN e.revision - 1 ELSE e.revision
  <1>1. SUFFICES ASSUME NEW i \in Positions',
                        log'[i].type \in {EventType[op] : op \in NodeDecisions}
                 PROVE  /\ content'[Decided(log'[i])].target = log'[i].by
                        /\ content'[Decided(log'[i])].valid
                        /\ log'[i].trusted # None =>
                              content'[Decided(log'[i])].signer = log'[i].trusted
    BY DEF DecisionsAreAuthorized
  <1>2. CASE i \in 1 .. Len(log)
    <2>1. log'[i] = log[i] /\ i \in Positions /\ log[i] \in Event
      BY <1>2, StoreFacts DEF Positions
    <2>2. Decided(log[i]) \in 1 .. Len(content)
      <3>1. log[i].revision \in 1 .. Len(content)
        BY <2>1, TaskBundleConstants, StoreFacts DEF EveryRevisionHasOneAuthor, Event
      <3>2. log[i].type = "modification_offered" => log[i].revision \in 2 .. Len(content)
        BY <2>1 DEF ModificationsAreTheNodes
      <3> QED
        BY <3>1, <3>2, StoreFacts
    <2>3. content'[Decided(log[i])] = content[Decided(log[i])]
      BY <2>2, StoreFacts
    <2> QED
      BY <1>1, <2>1, <2>3 DEF DecisionsAreAuthorized
  <1>3. CASE i = Len(log) + 1
    <2> DEFINE c == cmd[w]
    <2>1. log'[i] = EventOf(c) /\ c \in Command
      BY <1>3, StoreFacts
    <2>2. c.op \in NodeDecisions
      BY <1>1, <2>1, EventFields, Operations DEF Command, NodeDecisions
    <2>3. Decided(log'[i]) = c.latest
      <3>1. c.latest \in Nat
        BY <2>1, TaskBundleConstants DEF Command
      <3>2. CASE c.op = "modify"
        BY <2>1, <3>1, <3>2, EventFields, Operations
      <3>3. CASE c.op # "modify"
        BY <2>1, <2>2, <3>3, EventFields, Operations DEF NodeDecisions
      <3> QED
        BY <3>2, <3>3
    <2>4. /\ c.latest \in 1 .. Len(content)
          /\ content[c.latest].target = c.by /\ content[c.latest].valid
          /\ c.trusted # None => content[c.latest].signer = c.trusted
      BY <2>2, StoreFacts DEF HeldIn, NodeDecisions
    <2>5. content'[c.latest] = content[c.latest]
      BY <2>4, StoreFacts
    <2> QED
      BY <2>1, <2>3, <2>4, <2>5, EventFields
  <1> QED
    BY <1>2, <1>3, StoreFacts DEF Positions

LEMMA AuthorsStep ==
    ASSUME IInv, NEW w \in Workers, Stores(w)
    PROVE  EveryRevisionHasOneAuthor'
  <1> USE DEF IInv
  <1> DEFINE c == cmd[w]
             m == Len(log) + 1
             Authored(n) == IF n = 1 THEN "created" ELSE "modification_offered"
  <1>1. /\ c \in Command /\ log'[m] = EventOf(c) /\ Len(log') = m /\ Len(log) \in Nat
        /\ \A i \in 1 .. Len(log) : log'[i] = log[i] /\ log[i] \in Event
        /\ Len(content) \in Nat
    BY StoreFacts
  <1>2. \A i \in 1 .. Len(log) : log[i].revision \in 1 .. Len(content)
    BY <1>1, TaskBundleConstants DEF EveryRevisionHasOneAuthor, Event, Positions
  <1>3. \A n \in 1 .. Len(content) : \E i \in 1 .. Len(log) :
           /\ log[i].revision = n /\ log[i].type = Authored(n)
           /\ \A j \in (1 .. Len(log)) \ {i} :
                 log[j].revision = n => log[j].type # log[i].type /\ j > i
    BY DEF EveryRevisionHasOneAuthor, Positions
  <1>4. CASE c.op \in {"create", "modify"}
    <2>1. /\ Len(content') = Len(content) + 1 /\ c.latest = Len(content)
          /\ EventOf(c).revision = Len(content) + 1
          /\ EventOf(c).type = Authored(Len(content) + 1)
      <3>1. Len(content') = Len(content) + 1 /\ c.latest = Len(content)
        BY <1>4, StoreFacts
      <3>2. EventOf(c).revision = Len(content) + 1
        BY <1>1, <1>4, <3>1, EventFields
      <3>3. c.op = "create" => c.latest = 0
        BY StoreFacts DEF HeldIn
      <3>4. c.op = "modify" => c.latest \in 1 .. Len(content)
        BY StoreFacts DEF HeldIn
      <3> QED
        BY <1>1, <1>4, <3>1, <3>2, <3>3, <3>4, EventFields, Operations
    <2>2. ASSUME NEW n \in 1 .. Len(content')
          PROVE  \E i \in 1 .. m :
                    /\ log'[i].revision = n /\ log'[i].type = Authored(n)
                    /\ \A j \in (1 .. m) \ {i} :
                          log'[j].revision = n => log'[j].type # log'[i].type /\ j > i
      <3>1. CASE n = Len(content) + 1
        <4>1. log'[m].revision = n /\ log'[m].type = Authored(n) /\ m \in 1 .. m
          BY <1>1, <2>1, <3>1
        <4>2. \A j \in (1 .. m) \ {m} : log'[j].revision # n
          BY <1>1, <1>2, <3>1
        <4> QED
          BY <4>1, <4>2
      <3>2. CASE n \in 1 .. Len(content)
        <4>1. PICK i \in 1 .. Len(log) :
                 /\ log[i].revision = n /\ log[i].type = Authored(n)
                 /\ \A j \in (1 .. Len(log)) \ {i} :
                       log[j].revision = n => log[j].type # log[i].type /\ j > i
          BY <1>3, <3>2
        <4>2. log'[m].revision # n
          BY <1>1, <2>1, <3>2
        <4>3. log'[i] = log[i] /\ i \in 1 .. m
          BY <1>1, <4>1
        <4>4. ASSUME NEW j \in (1 .. m) \ {i}, log'[j].revision = n
              PROVE  log'[j].type # log'[i].type /\ j > i
          <5>1. j \in (1 .. Len(log)) \ {i} /\ log'[j] = log[j]
            <6>1. j # m
              BY <4>2, <4>4
            <6> QED
              BY <1>1, <4>4, <6>1
          <5> QED
            BY <4>1, <4>3, <4>4, <5>1
        <4> QED
          BY <4>1, <4>3, <4>4
      <3>3. n = Len(content) + 1 \/ n \in 1 .. Len(content)
        BY <1>1, <2>1
      <3> QED
        BY <3>1, <3>2, <3>3
    <2>3. \A i \in 1 .. m : log'[i].revision <= Len(content')
      BY <1>1, <1>2, <2>1
    <2> QED
      BY <1>1, <2>2, <2>3 DEF EveryRevisionHasOneAuthor, Positions
  <1>5. CASE c.op \notin {"create", "modify"}
    <2>1. /\ content' = content /\ EventOf(c).revision = c.latest
          /\ c.latest \in 1 .. Len(content)
      BY <1>1, <1>5, StoreFacts, EventFields DEF HeldIn
    <2>2. EventOf(c).type \notin {"created", "modification_offered"}
      BY <1>1, <1>5, EventFields, Operations DEF Command
    <2>3. ASSUME NEW n \in 1 .. Len(content)
          PROVE  \E i \in 1 .. m :
                    /\ log'[i].revision = n /\ log'[i].type = Authored(n)
                    /\ \A j \in (1 .. m) \ {i} :
                          log'[j].revision = n => log'[j].type # log'[i].type /\ j > i
      <3>1. PICK i \in 1 .. Len(log) :
               /\ log[i].revision = n /\ log[i].type = Authored(n)
               /\ \A j \in (1 .. Len(log)) \ {i} :
                     log[j].revision = n => log[j].type # log[i].type /\ j > i
        BY <1>3, <2>3
      <3>2. log'[i] = log[i] /\ i \in 1 .. m
        BY <1>1, <3>1
      <3>3. ASSUME NEW j \in (1 .. m) \ {i}, log'[j].revision = n
            PROVE  log'[j].type # log'[i].type /\ j > i
        <4>1. CASE j = m
          BY <1>1, <2>2, <3>1, <3>2, <4>1
        <4>2. CASE j \in 1 .. Len(log)
          BY <1>1, <3>1, <3>2, <3>3, <4>2
        <4> QED
          BY <1>1, <3>3, <4>1, <4>2
      <3> QED
        BY <3>1, <3>2, <3>3
    <2>4. \A i \in 1 .. m : log'[i].revision <= Len(content)
      BY <1>1, <1>2, <2>1
    <2> QED
      BY <1>1, <2>1, <2>3, <2>4 DEF EveryRevisionHasOneAuthor, Positions
  <1> QED
    BY <1>4, <1>5

LEMMA InitInv == Init => IInv
  <1> SUFFICES ASSUME Init
               PROVE  IInv
    OBVIOUS
  <1>1. TypeOK
    <2>1. <<>> \in Seq(Revision) /\ <<>> \in Seq(Event) /\ Len(<<>>) = 0
      OBVIOUS
    <2>2. cmd \in [Workers -> Command \cup {Idle}]
      BY DEF Init
    <2>3. content = <<>> /\ log = <<>> /\ overlapped \in BOOLEAN
      BY DEF Init
    <2>4. 0 <= MaxRevision /\ 0 <= MaxEvents
      BY TaskBundleConstants
    <2> QED
      BY <2>1, <2>2, <2>3, <2>4 DEF TypeOK
  <1> QED
    BY <1>1 DEF Init, IInv, CommandsHold, ModificationsAreTheNodes, DecisionsAreAuthorized,
                EveryRevisionHasOneAuthor, Positions

LEMMA InvStep == IInv /\ [Next]_vars => IInv'
  <1> SUFFICES ASSUME IInv, [Next]_vars
               PROVE  IInv'
    OBVIOUS
  <1>1. TypeOK' /\ CommandsHold'
    BY TypeStep DEF IInv
  <1>2. CASE UNCHANGED <<content, log>>
    BY <1>1, <1>2 DEF IInv, ModificationsAreTheNodes, DecisionsAreAuthorized,
                      EveryRevisionHasOneAuthor, Positions
  <1>3. ASSUME NEW w \in Workers, Stores(w)
        PROVE  IInv'
    BY <1>1, <1>3, ModificationsStep, DecisionsStep, AuthorsStep DEF IInv
  <1> QED
    BY <1>2, <1>3, StepCases DEF IInv, vars, Runs

LEMMA Invariant == Spec => []IInv
  BY InitInv, InvStep, PTL DEF Spec

-----------------------------------------------------------------------------
(* While commands follow one another *)

\* StatusAfter with the events as a parameter.
StatusIn(events, n, status) ==
    \/ status = "CREATED" /\ \A i \in 1 .. n : events[i].type \notin LifecycleEvents
    \/ \E i \in 1 .. n :
          /\ events[i].type \in LifecycleEvents
          /\ events[i].to = status
          /\ \A j \in i + 1 .. n : events[j].type \notin LifecycleEvents

\* What a command that runs alone holds: nothing it has read is stale.
HeldAlone(ct, events, c) ==
    /\ c.op # "create" /\ c.step \in {"status", "write"} => c.latest = Len(ct)
    /\ c.op # "create" /\ c.step = "write" =>
          StatusIn(events, Len(events), c.status) /\ Allowed(c.op, c.status)
    /\ c.op = "acknowledge" /\ c.trusted # None /\ c.step # "resolve" =>
          ct[Len(ct)].signer = c.trusted /\ ct[Len(ct)].valid

AtMostOneRuns ==
    \A u, v \in Workers : cmd[u] # Idle /\ cmd[v] # Idle => u = v

Acknowledged ==
    \A i \in Positions :
        log[i].type = "acknowledged" /\ log[i].trusted # None =>
            /\ content[log[i].revision].signer = log[i].trusted
            /\ content[log[i].revision].valid

Accepted ==
    _current_status("ACCEPTED") =>
        \E i \in Positions : log[i].type = "accepted" /\ log[i].revision = Len(content)

SerialInv ==
    ~overlapped =>
        /\ AtMostOneRuns
        /\ \A w \in Workers : cmd[w] # Idle => HeldAlone(content, log, cmd[w])
        /\ HistoryFollowsLifecycle
        /\ Accepted
        /\ Acknowledged

\* The status after the first events does not change with later ones.
LEMMA StatusIsStable ==
    ASSUME TypeOK, CommandsHold, NEW w \in Workers, Stores(w), NEW n \in 0 .. Len(log), NEW status,
           StatusIn(log, n, status)
    PROVE  StatusIn(log', n, status)
  <1>1. \A i \in 1 .. n : log'[i] = log[i]
    BY StoreFacts
  <1>2. \A i \in 1 .. n : \A j \in i + 1 .. n : log'[j] = log[j]
    BY <1>1
  <1> QED
    BY <1>1, <1>2 DEF StatusIn

LEMMA HistoryStep ==
    ASSUME IInv, NEW w \in Workers, Stores(w), HistoryFollowsLifecycle, HeldAlone(content, log, cmd[w])
    PROVE  HistoryFollowsLifecycle'
  <1> USE DEF IInv
  <1> DEFINE c == cmd[w]
             Follows(e) == \/ assert_transition(e.from, e.to)
                           \/ /\ e.type = "modification_offered"
                              /\ assert_transition(e.from, "MODIFICATION_PROPOSED")
                              /\ assert_transition("MODIFICATION_PROPOSED", e.to)
  <1>1. SUFFICES ASSUME NEW i \in Positions', log'[i].type \in LifecycleEvents
                 PROVE  StatusIn(log', i - 1, log'[i].from) /\ Follows(log'[i])
    BY DEF HistoryFollowsLifecycle, IsTransition, StatusAfter, StatusIn
  <1>2. CASE i \in 1 .. Len(log)
    <2>1. log'[i] = log[i] /\ i \in Positions
      BY <1>2, StoreFacts DEF Positions
    <2>2. StatusIn(log, i - 1, log[i].from) /\ Follows(log[i])
      BY <1>1, <2>1 DEF HistoryFollowsLifecycle, IsTransition, StatusAfter, StatusIn
    <2>3. i - 1 \in 0 .. Len(log)
      BY <1>2, StoreFacts
    <2>4. StatusIn(log', i - 1, log[i].from)
      BY <2>2, <2>3, StatusIsStable
    <2> QED
      BY <2>1, <2>2, <2>4
  <1>3. CASE i = Len(log) + 1
    <2>1. log'[i] = EventOf(c) /\ c \in Command /\ c.step = "write"
      BY <1>3, StoreFacts
    <2>2. c.op \in {"offer", "accept", "defer", "reject", "modify"}
      BY <1>1, <2>1, EventFields, Operations DEF Command, LifecycleEvents
    <2>3. StatusIn(log, Len(log), c.status) /\ Allowed(c.op, c.status)
      BY <2>1, <2>2 DEF HeldAlone
    <2>4. log'[i].from = c.status
      BY <2>1, <2>2, EventFields
    <2>5. StatusIn(log', Len(log), c.status)
      <3>1. StatusIn(log, Len(log), c.status) /\ Len(log) \in 0 .. Len(log)
        BY <2>3, StoreFacts
      <3> QED
        BY <3>1, StatusIsStable
    <2>6. assert_transition(c.status, Target[c.op])
      BY <2>2, <2>3 DEF Allowed
    <2>7. i - 1 = Len(log)
      BY <1>3, StoreFacts
    <2>8. CASE c.op = "modify"
      <3>1. assert_transition("MODIFICATION_PROPOSED", "OFFERED")
        BY DEF assert_transition, Transitions
      <3>2. log'[i].type = "modification_offered" /\ log'[i].to = "OFFERED"
        BY <2>1, <2>8, EventFields, Operations
      <3>3. assert_transition(c.status, "MODIFICATION_PROPOSED")
        BY <2>6, <2>8, Targets
      <3> QED
        BY <2>4, <2>5, <2>7, <3>1, <3>2, <3>3
    <2>9. CASE c.op # "modify"
      <3>1. log'[i].to = Target[c.op]
        BY <2>1, <2>2, <2>9, EventFields
      <3> QED
        BY <2>4, <2>5, <2>6, <2>7, <3>1
    <2> QED
      BY <2>8, <2>9
  <1> QED
    BY <1>2, <1>3, StoreFacts DEF Positions

LEMMA AcceptedStep ==
    ASSUME IInv, NEW w \in Workers, Stores(w), Accepted, HeldAlone(content, log, cmd[w])
    PROVE  Accepted'
  <1> USE DEF IInv
  <1> DEFINE c == cmd[w]
             m == Len(log) + 1
  <1>1. SUFFICES ASSUME StatusIn(log', m, "ACCEPTED")
                 PROVE  \E i \in Positions' : log'[i].type = "accepted"
                                              /\ log'[i].revision = Len(content')
    BY StoreFacts DEF Accepted, _current_status, StatusAfter, StatusIn
  <1>2. c \in Command /\ log'[m] = EventOf(c) /\ Len(log') = m /\ Len(log) \in Nat
    BY StoreFacts
  <1>3. CASE c.op \in {"create", "acknowledge"}
    <2>1. log'[m].type \notin LifecycleEvents
      BY <1>2, <1>3, EventFields, Operations DEF LifecycleEvents
    <2>2. PICK i \in 1 .. m : /\ log'[i].type \in LifecycleEvents /\ log'[i].to = "ACCEPTED"
                              /\ \A j \in i + 1 .. m : log'[j].type \notin LifecycleEvents
      BY <1>1 DEF StatusIn
    <2>3. i \in 1 .. Len(log) /\ \A j \in i + 1 .. Len(log) : j \in i + 1 .. m
      BY <1>2, <2>1, <2>2
    <2>4. StatusAfter(Len(log), "ACCEPTED")
      <3>1. \A j \in 1 .. Len(log) : log'[j] = log[j]
        BY StoreFacts
      <3> QED
        BY <1>2, <2>2, <2>3, <3>1 DEF StatusAfter
    <2>5. PICK k \in 1 .. Len(log) : log[k].type = "accepted" /\ log[k].revision = Len(content)
      BY <2>4 DEF Accepted, _current_status, Positions
    <2>6. c.op # "create"
      <3>1. log[k].revision \in 1 .. Len(content)
        BY <2>5, StoreFacts, TaskBundleConstants DEF EveryRevisionHasOneAuthor, Event, Positions
      <3>2. c.op = "create" => Len(content) = 0
        BY StoreFacts DEF HeldIn
      <3> QED
        BY <3>1, <3>2
    <2>7. content' = content /\ log'[k] = log[k] /\ k \in Positions'
      BY <1>2, <1>3, <2>5, <2>6, StoreFacts DEF Positions
    <2> QED
      BY <2>5, <2>7
  <1>4. CASE c.op \in {"offer", "accept", "defer", "reject", "modify"}
    <2>1. log'[m].type \in LifecycleEvents
      BY <1>2, <1>4, EventFields, Operations DEF LifecycleEvents
    <2>2. log'[m].to = "ACCEPTED"
      BY <1>1, <1>2, <2>1 DEF StatusIn
    <2>3. c.op = "accept"
      BY <1>2, <1>4, <2>2, EventFields, Targets
    <2>4. c.latest = Len(content) /\ content' = content
      BY <2>3, StoreFacts DEF HeldAlone
    <2>5. log'[m].type = "accepted" /\ log'[m].revision = Len(content')
      BY <1>2, <2>3, <2>4, EventFields, Operations
    <2> QED
      BY <1>2, <2>5 DEF Positions
  <1> QED
    BY <1>2, <1>3, <1>4, Operations DEF Command

LEMMA AcknowledgedStep ==
    ASSUME IInv, NEW w \in Workers, Stores(w), Acknowledged, HeldAlone(content, log, cmd[w])
    PROVE  Acknowledged'
  <1> USE DEF IInv
  <1>1. SUFFICES ASSUME NEW i \in Positions',
                        log'[i].type = "acknowledged", log'[i].trusted # None
                 PROVE  /\ content'[log'[i].revision].signer = log'[i].trusted
                        /\ content'[log'[i].revision].valid
    BY DEF Acknowledged
  <1>2. CASE i \in 1 .. Len(log)
    <2>1. log'[i] = log[i] /\ i \in Positions /\ log[i] \in Event
      BY <1>2, StoreFacts DEF Positions
    <2>2. log[i].revision \in 1 .. Len(content)
      BY <2>1, TaskBundleConstants, StoreFacts DEF EveryRevisionHasOneAuthor, Event
    <2>3. content'[log[i].revision] = content[log[i].revision]
      BY <2>2, StoreFacts
    <2> QED
      BY <1>1, <2>1, <2>3 DEF Acknowledged
  <1>3. CASE i = Len(log) + 1
    <2> DEFINE c == cmd[w]
    <2>1. log'[i] = EventOf(c) /\ c \in Command /\ c.step = "write"
      BY <1>3, StoreFacts
    <2>2. c.op = "acknowledge"
      BY <1>1, <2>1, EventFields, Operations DEF Command
    <2>3. /\ log'[i].revision = c.latest /\ log'[i].trusted = c.trusted /\ content' = content
          /\ c.latest = Len(content)
      BY <2>1, <2>2, EventFields, StoreFacts DEF HeldAlone
    <2>4. content[Len(content)].signer = c.trusted /\ content[Len(content)].valid
      BY <1>1, <2>1, <2>2, <2>3 DEF HeldAlone
    <2> QED
      BY <2>3, <2>4
  <1> QED
    BY <1>2, <1>3, StoreFacts DEF Positions

\* A step that stores nothing, of a command that runs alone or begins to.
LEMMA QuietSerial ==
    ASSUME IInv, SerialInv, UNCHANGED <<content, log>>, ~overlapped', ~overlapped,
           NEW w \in Workers, NEW c, cmd' = [cmd EXCEPT ![w] = c],
           c # Idle => /\ \A u \in Workers : cmd[u] # Idle => u = w
                       /\ HeldAlone(content, log, c)
    PROVE  SerialInv'
  <1>1. cmd \in [Workers -> Command \cup {Idle}]
    BY DEF IInv, TypeOK
  <1>2. AtMostOneRuns'
    BY <1>1 DEF SerialInv, AtMostOneRuns
  <1>3. ASSUME NEW u \in Workers, cmd'[u] # Idle
        PROVE  HeldAlone(content', log', cmd'[u])
    <2>1. CASE u = w
      BY <1>1, <1>3, <2>1
    <2>2. CASE u # w
      BY <1>1, <1>3, <2>2 DEF SerialInv
    <2> QED
      BY <2>1, <2>2
  <1>4. HistoryFollowsLifecycle' /\ Accepted' /\ Acknowledged'
    BY DEF SerialInv, HistoryFollowsLifecycle, IsTransition, StatusAfter, Accepted,
           _current_status, Acknowledged, Positions
  <1> QED
    BY <1>2, <1>3, <1>4 DEF SerialInv

LEMMA SerialStep == IInv /\ SerialInv /\ [Next]_vars => SerialInv'
  <1> SUFFICES ASSUME IInv, SerialInv, [Next]_vars, ~overlapped'
               PROVE  SerialInv'
    BY DEF SerialInv
  <1>1. CASE UNCHANGED vars
    BY <1>1 DEF vars, SerialInv, AtMostOneRuns, HistoryFollowsLifecycle, IsTransition, StatusAfter,
                Accepted, _current_status, Acknowledged, Positions
  <1>2. ASSUME NEW w \in Workers, StartCommand(w),
               overlapped' = (overlapped \/ \E u \in Workers : cmd[u] # Idle)
        PROVE  SerialInv'
    <2>1. ~overlapped /\ \A u \in Workers : cmd[u] = Idle
      BY <1>2
    <2>2. PICK c : /\ Runs(w, c)
                   /\ c.step \in {"gates", "read", "resolve"}
                   /\ c.op = "acknowledge" /\ c.trusted # None => c.step = "resolve"
      BY <1>2, StartRuns DEF IInv
    <2>3. HeldAlone(content, log, c)
      BY <2>2 DEF HeldAlone
    <2> QED
      BY <2>1, <2>2, <2>3, QuietSerial DEF Runs
  <1>3. ASSUME NEW w \in Workers, Step(w), UNCHANGED overlapped
        PROVE  SerialInv'
    <2>1. ~overlapped
      BY <1>3
    <2>2. CASE Reads(w)
      <3>1. /\ cmd[w] # Idle /\ UNCHANGED <<content, log>>
            /\ \/ cmd' = [cmd EXCEPT ![w] = Idle]
               \/ \E c : Runs(w, c) /\ GoesOn(cmd[w], c)
        BY <2>2, ReadsGoOn DEF IInv
      <3>2. CASE cmd' = [cmd EXCEPT ![w] = Idle]
        BY <2>1, <3>1, <3>2, QuietSerial
      <3>3. CASE \E c : Runs(w, c) /\ GoesOn(cmd[w], c)
        <4>1. PICK c : Runs(w, c) /\ GoesOn(cmd[w], c)
          BY <3>3
        <4>2. HeldAlone(content, log, cmd[w]) /\ \A u \in Workers : cmd[u] # Idle => u = w
          BY <2>1, <3>1 DEF SerialInv, AtMostOneRuns
        <4>3. HeldIn(content, cmd[w]) /\ cmd[w] \in Command
          BY <3>1 DEF IInv, CommandsHold, TypeOK
        <4>4. HeldAlone(content, log, c)
          BY <4>1, <4>2, <4>3 DEF HeldAlone, GoesOn, HeldIn, Latest, _current_status, StatusAfter, StatusIn
        <4> QED
          BY <2>1, <4>1, <4>2, <4>4, QuietSerial DEF Runs
      <3> QED
        BY <3>1, <3>2, <3>3
    <2>3. CASE Raise(w) /\ cmd[w] # Idle
      BY <2>1, <2>3, QuietSerial DEF Raise, Finish, NoWrite
    <2>4. CASE Stores(w)
      <3>1. HeldAlone(content, log, cmd[w])
        BY <2>1, <2>4 DEF SerialInv, Stores
      <3>2. \A u \in Workers : cmd'[u] = Idle
        BY <2>1, <2>4 DEF SerialInv, AtMostOneRuns, Stores, IInv, TypeOK
      <3>3. AtMostOneRuns'
        BY <3>2 DEF AtMostOneRuns
      <3>4. HistoryFollowsLifecycle' /\ Accepted' /\ Acknowledged'
        BY <2>1, <2>4, <3>1, HistoryStep, AcceptedStep, AcknowledgedStep DEF SerialInv
      <3> QED
        BY <3>2, <3>3, <3>4 DEF SerialInv
    <2> QED
      BY <1>3, <2>2, <2>3, <2>4, WriteStoresOrRaises DEF Step, Reads
  <1> QED
    BY <1>1, <1>2, <1>3 DEF Next

LEMMA SerialInvariant == Spec => []SerialInv
  <1>1. Init => SerialInv
    BY DEF Init, SerialInv, AtMostOneRuns, HistoryFollowsLifecycle, StatusAfter, Accepted,
           _current_status, Acknowledged, Positions
  <1> QED
    BY <1>1, SerialStep, Invariant, PTL DEF Spec

-----------------------------------------------------------------------------
(* Theorems *)

\* Every variable keeps its type, whatever the commands do.
THEOREM TypeCorrect == Spec => []TypeOK
  BY Invariant, PTL DEF IInv

\* MRR-FR-022: however commands interleave, a recorded decision is the target node's
\* own, on content whose signature verified under the key it trusts.
THEOREM DecisionsAreAlwaysAuthorized == Spec => []DecisionsAreAuthorized
  BY Invariant, PTL DEF IInv

\* MRR-FR-034: content revisions form one line, each the work of one recorded command.
THEOREM RevisionsAreAuthored == Spec => []EveryRevisionHasOneAuthor
  BY Invariant, PTL DEF IInv

\* MRR-FR-023, for nodes that trust the origin: they accept no modification.
THEOREM ModificationsNeedTheirOwnTrust == Spec => []OriginTrustExcludesModifications
  <1>1. IInv => OriginTrustExcludesModifications
    <2> SUFFICES ASSUME IInv, NEW i \in Positions, NEW j \in Positions,
                        log[i].type = "accepted", log[i].trusted = Origin,
                        log[j].type = "modification_offered"
                 PROVE  log[i].revision # log[j].revision
      BY DEF OriginTrustExcludesModifications
    <2>1. Origin # None
      BY TaskBundleConstants
    <2>2. log[i].type \in {EventType[op] : op \in NodeDecisions}
      BY Operations DEF NodeDecisions
    <2>3. /\ content[log[i].revision].valid
          /\ content[log[i].revision].signer = Origin
      BY <2>1, <2>2 DEF IInv, DecisionsAreAuthorized
    <2>4. content[log[j].revision].valid => content[log[j].revision].signer # Origin
      BY DEF IInv, ModificationsAreTheNodes
    <2> QED
      BY <2>3, <2>4
  <1> QED
    BY <1>1, Invariant, PTL

\* While no two commands overlap, the history of a bundle is a path of the lifecycle
\* diagram, through any number of rounds, refusals and crashes.
THEOREM SerialHistoryIsALifecycle == Spec => []SerialHistoryFollowsLifecycle
  <1>1. SerialInv => SerialHistoryFollowsLifecycle
    BY DEF SerialInv, SerialHistoryFollowsLifecycle
  <1> QED
    BY <1>1, SerialInvariant, PTL

\* While no two commands overlap, an accepted bundle was accepted in its current
\* content, and what is acknowledged under a trusted node's key is content that node
\* signed, although neither event is compared with the content when it is appended.
THEOREM SerialDecisionsRestOnWhatWasRead == Spec => []DecisionsRestOnWhatWasRead
  <1>1. SerialInv => AcceptedContentIsCurrent
    BY DEF SerialInv, AcceptedContentIsCurrent, Accepted
  <1>2. SerialInv => AcknowledgedContentIsTrusted
    BY DEF SerialInv, AcknowledgedContentIsTrusted, Acknowledged
  <1>3. SerialInv => DecisionsRestOnWhatWasRead
    BY <1>1, <1>2 DEF DecisionsRestOnWhatWasRead
  <1> QED
    BY <1>3, SerialInvariant, PTL
=============================================================================
