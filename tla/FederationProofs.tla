-------------------------- MODULE FederationProofs --------------------------
(***************************************************************************)
(* Theorems about Federation, for any number of callers, transfers,         *)
(* manifests, keys, objects and notifications, and for every workload.      *)
(***************************************************************************)
EXTENDS Federation, SequenceTheorems, WellFoundedInduction, TLAPS

-----------------------------------------------------------------------------
(* The inductive invariant: types *)

Nodes == {m.node : m \in Manifests}
Checks == Defects \cup {"unknown_key", "key_not_valid"}

EventTypes ==
    {"node_manifest.rejected", "node_manifest.registered", "transfer.created", "transfer.offered", "transfer.responded",
     "obligation.created", "obligation.propagated", "obligation.transition", "correction.response_recorded"}
Statuses == {"created", "offered"} \cup Decisions \cup {"open", "resolved"} \cup ResponseDecisions
\* The provers do not know of a literal that it is a string.
Kinds == STRING \cup {"retain_caveat"}
LogRow == [type : EventTypes, about : Nodes \cup Transfers \cup Notifications \cup Nat,
           to : Keys \cup {None} \cup Kinds \cup Checks \cup Statuses, copy : Nat \cup {None},
           began : Nat \cup {None}, object : Items \cup {None}]
ResponseRow == [notification : Notifications, decision : ResponseDecisions, adaptations : Adaptings,
                began : Nat, created : Nat]
Revision == [status : {"open", "resolved", "deferred"}, evidence : BOOLEAN, propagated : SUBSET Items]
ObligationRow == [transfer : Transfers, kind : Kinds, trigger : Nat, began : Nat, created : Nat,
                  bound_objects : SUBSET Items, revisions : Seq(Revision)]

RejectCall == [op : {"reject"}, m : Manifests, reason : Checks]
RegisterCall == [op : {"register"}, m : Manifests, read : Nat, copy : Nat]
CreateCall == [op : {"create"}, t : Transfers]
MoveCall == [op : {"move"}, t : Transfers, type : {"transfer.offered", "transfer.responded"},
             to : {"offered"} \cup Decisions, copy : Nat \cup {None}, began : Nat]
AdaptCall == [op : {"adapt"}, t : Transfers, object : Adaptations, copy : Nat, began : Nat]
DecideCall == [op : {"decide"}, t : Transfers, began : Nat]
MaterializeCall == [op : {"materialize"}, t : Transfers, began : Nat, trigger : Nat, todo : Seq(Kinds)]
GatherCall == [op : {"gather"}, ob : Nat, read : Nat, frontier : SUBSET Items, visited : SUBSET Items,
               found : SUBSET Items, downstream : SUBSET Items]
TransitionCall == [op : {"transition"}, ob : Nat, read : Nat, row : Revision]
ResponseCall == [op : {"response"}, began : Nat, notification : Notifications,
                 decision : ResponseDecisions, adaptations : Adaptings]
Call == {Idle} \cup RejectCall \cup RegisterCall \cup CreateCall \cup MoveCall \cup AdaptCall \cup DecideCall
        \cup MaterializeCall \cup GatherCall \cup TransitionCall \cup ResponseCall

Typed ==
    /\ now \in Nat
    /\ practice \in Document /\ trusted \in [Actors -> Document]
    /\ revocations \in [Keys -> Nat \cup {None}]
    /\ log \in Seq(LogRow)
    /\ \A e \in edges : e[1] \in Items /\ e[3] \in Items \cup DOMAIN obligations
    /\ responses \in Seq(ResponseRow)
    /\ obligations \in Seq(ObligationRow)
    /\ nodes \in [Nodes -> Seq(Manifests)]
    /\ call \in [Actors -> Call]
    /\ died \subseteq Transfers \X Nat

-----------------------------------------------------------------------------
(* The inductive invariant: keys *)

\* A document of version `copy` in which key k was active is older than k's last change.
Trusted(k, copy) ==
    copy \in 0 .. practice.version /\ (practice.keys[k].state = "active" \/ copy < practice.keys[k].since)

KeysInv ==
    \A a \in Actors :
        /\ trusted[a].version \in 0 .. practice.version
        /\ \A k \in Keys : trusted[a].keys[k].state = "active" => Trusted(k, trusted[a].version)

-----------------------------------------------------------------------------
(* The inductive invariant: what the store holds *)

\* The last move up to the instant `began` was an offer.
OfferedAt(t, began) ==
    \E j \in MovesOf(t) : /\ j <= began /\ log[j].to = "offered"
                          /\ \A i \in MovesOf(t) : i <= began => i <= j

LogInv ==
    \A i \in DOMAIN log :
        /\ log[i].type = "transfer.responded" =>
              /\ log[i].about \in Transfers /\ log[i].began \in 0 .. i - 1
              /\ Trusted(Contract[log[i].about].key, log[i].copy)
              /\ OfferedAt(log[i].about, log[i].began)
        /\ log[i].type = "node_manifest.registered" => log[i].to \in Keys /\ Trusted(log[i].to, log[i].copy)

ResponsesInv == \A i \in DOMAIN responses : responses[i].created \in 1 .. Len(log)

\* The answer at index i of the log accepted transfer t, and no other answer came
\* after it up to the instant `began`.
InForce(t, i, began) ==
    /\ i \in DOMAIN log /\ log[i].to \in {"accepted", "adapted"}
    /\ \A j \in EventsOf({"transfer.responded"}, t) : ~(i < j /\ j <= began)

\* Every obligation is a duty of its transfer, and no call for it began before one was stored.
ObligationsInv ==
    \A ob \in DOMAIN obligations :
        LET o == obligations[ob]
        IN  /\ o.created \in 1 .. Len(log) /\ o.began \in 0 .. Len(log)
            /\ o.kind \in ToSet(Duties(o.transfer))
            /\ InForce(o.transfer, o.trigger, o.began)

\* The revisions of an obligation, in which propagated objects do build on the bound ones.
Lifecycle(r) ==
    /\ r # <<>>
    /\ \A i \in 2 .. Len(r) :
          /\ r[i - 1].propagated \subseteq r[i].propagated
          /\ r[i - 1].status = r[i].status \/ <<r[i - 1].status, r[i].status>> \in ObligationTransitions
    /\ \A i \in 1 .. Len(r) : r[i].status = "resolved" <=> r[i].evidence
BindingInv ==
    \A ob \in DOMAIN obligations :
        /\ Lifecycle(obligations[ob].revisions)
        /\ Last(obligations[ob].revisions).propagated \subseteq Downstream(obligations[ob].bound_objects)
        /\ Last(obligations[ob].revisions).propagated \cup obligations[ob].bound_objects \subseteq BoundTo(ob)

-----------------------------------------------------------------------------
(* The inductive invariant: what a call holds between its read and its write *)

\* No obligation of transfer t was stored before the instant `began`.
NoneBefore(t, began) ==
    began \in 0 .. Len(log) /\ \A ob \in DOMAIN obligations : obligations[ob].transfer = t => began < obligations[ob].created

\* What builds on the seeds in the graph E.
SourcesIn(E, id) == {e[1] : e \in {f \in {g \in E : g[3] = id} : f[2] \in IMPACT_EDGE_TYPES}}
ClosedIn(E, seeds, S) == \A o \in seeds \cup S : SourcesIn(E, o) \subseteq S
DownstreamIn(E, seeds) == {x \in Items : \A S \in SUBSET Items : ClosedIn(E, seeds, S) => x \in S}

\* A traversal has asked for the ids in `visited`, of a graph E or a larger one.
Traverses(c, seeds) ==
    /\ seeds \cup c.found \subseteq c.visited \cup c.frontier
    /\ c.visited \cup c.frontier \subseteq seeds \cup c.found
    /\ c.found \subseteq Downstream(seeds)
    /\ \E E \in SUBSET edges : /\ c.downstream = DownstreamIn(E, seeds)
                               /\ \A v \in c.visited : SourcesIn(E, v) \subseteq c.found

Revisions(c) == obligations[c.ob].revisions
\* The revision a call read exists, and revisions never change.
Read(c) == c.ob \in DOMAIN obligations /\ c.read \in 1 .. Len(Revisions(c))

HoldsKey(c) ==
    /\ c.op = "register" => Trusted(c.m.key, c.copy)
    /\ c.op = "adapt" \/ (c.op = "move" /\ c.type = "transfer.responded") =>
          /\ Trusted(Contract[c.t].key, c.copy)
          /\ c.began \in 0 .. Len(log) /\ OfferedAt(c.t, c.began)
    /\ c.op = "move" /\ c.type = "transfer.responded" => c.to \in Decisions \ {"adapted"}

HoldsDuties(c) ==
    /\ c.op \in {"decide", "materialize"} => NoneBefore(c.t, c.began)
    /\ c.op = "materialize" =>
          /\ InForce(c.t, c.trigger, c.began)
          /\ c.todo # <<>> /\ ToSet(c.todo) \subseteq ToSet(Duties(c.t))
          /\ ToSet(Duties(c.t)) \subseteq DutiesOf(c.t, c.began) \cup ToSet(c.todo)

HoldsRevision(c) ==
    /\ c.op = "gather" =>
          /\ Read(c) /\ Traverses(c, obligations[c.ob].bound_objects)
          /\ Revisions(c)[c.read].propagated \subseteq c.downstream
    /\ c.op = "transition" =>
          /\ Read(c) /\ c.row.propagated = Revisions(c)[c.read].propagated
          /\ <<Revisions(c)[c.read].status, c.row.status>> \in ObligationTransitions
          /\ c.row.status = "resolved" <=> c.row.evidence

HoldsResponse(c) ==
    c.op = "response" =>
        /\ c.began \in 0 .. Len(log)
        /\ c.adaptations # {} => c.decision = "adapt"
        /\ \A pair \in c.adaptations : pair[2] \in Notified[c.notification]
        /\ \A i \in DOMAIN responses : responses[i].notification = c.notification => c.began < responses[i].created

Holds(c) == HoldsKey(c) /\ HoldsDuties(c) /\ HoldsRevision(c) /\ HoldsResponse(c)

IInv ==
    /\ Typed /\ KeysInv /\ LogInv /\ ManifestsInOrder /\ AdaptationKeepsRelations
    /\ ResponsesInv /\ RespondedOnceUnlessOverlapping /\ CorrectsWhatWasNotified
    /\ ObligationsInv /\ MaterializedOnceUnlessOverlapping /\ DutiesTravelUnlessDied /\ BindingInv
    /\ \A a \in Actors : Holds(call[a])

-----------------------------------------------------------------------------
(* Data *)

LEMMA AppendedTo ==
    ASSUME NEW S, NEW s \in Seq(S), NEW x \in S
    PROVE  /\ Append(s, x) \in Seq(S) /\ Len(s) \in Nat /\ DOMAIN s = 1 .. Len(s)
           /\ Len(Append(s, x)) = Len(s) + 1 /\ Append(s, x)[Len(s) + 1] = x
           /\ DOMAIN Append(s, x) = 1 .. Len(s) + 1
           /\ \A i \in 1 .. Len(s) : Append(s, x)[i] = s[i]
  OBVIOUS

LEMMA Replaced ==
    ASSUME NEW S, NEW s \in Seq(S), NEW i \in 1 .. Len(s), NEW x \in S, NEW new, new = [s EXCEPT ![i] = x]
    PROVE  /\ new \in Seq(S) /\ Len(new) = Len(s) /\ new[i] = x
           /\ \A j \in 1 .. Len(s) : j # i => new[j] = s[j]
  BY ExceptSeq

LEMMA LastIs ==
    ASSUME NEW S, NEW s \in Seq(S), s # <<>>
    PROVE  Len(s) \in Nat \ {0} /\ Last(s) = s[Len(s)] /\ s[Len(s)] \in S
  BY DEF Last

\* The calls with one operation are those of its set.
LEMMA CallOf ==
    ASSUME NEW c \in Call
    PROVE  /\ c.op = "reject" => c \in RejectCall
           /\ c.op = "register" => c \in RegisterCall
           /\ c.op = "create" => c \in CreateCall
           /\ c.op = "move" => c \in MoveCall
           /\ c.op = "adapt" => c \in AdaptCall
           /\ c.op = "decide" => c \in DecideCall
           /\ c.op = "materialize" => c \in MaterializeCall
           /\ c.op = "gather" => c \in GatherCall
           /\ c.op = "transition" => c \in TransitionCall
           /\ c.op = "response" => c \in ResponseCall
  BY DEF Call, Idle, RejectCall, RegisterCall, CreateCall, MoveCall, AdaptCall, DecideCall,
         MaterializeCall, GatherCall, TransitionCall, ResponseCall

\* Every nonempty set of naturals has a least element.
LEMMA LeastNatural ==
    ASSUME NEW T, T \subseteq Nat, T # {}
    PROVE  \E n \in T : \A m \in T : n <= m
  <1>1. IsWellFoundedOn(OpToRel(<, Nat), Nat)
    BY NatLessThanWellFounded
  <1>2. PICK x \in T : \A y \in T : ~ (<<y, x>> \in OpToRel(<, Nat))
    BY <1>1, WFMin
  <1>3. \A y \in Nat, z \in Nat : y < z => <<y, z>> \in OpToRel(<, Nat)
    BY DEF OpToRel
  <1>4. \A y \in T : ~(y < x)
    BY <1>2, <1>3, Zenon
  <1> QED
    BY <1>4

\* A nonempty set of indexes has a last one.
LEMMA LastOfIs ==
    ASSUME NEW n \in Nat, NEW I, I \subseteq 1 .. n, I # {}
    PROVE  LastOf(I) \in I /\ \A j \in I : j <= LastOf(I)
  <1> DEFINE Bounds == {m \in 0 .. n : \A j \in I : j <= m}
  <1>1. n \in Bounds /\ Bounds \subseteq Nat
    OBVIOUS
  <1>2. PICK m \in Bounds : \A k \in Bounds : m <= k
    <2> HIDE DEF Bounds
    <2> QED
      BY <1>1, LeastNatural
  <1>3. m \in I
    <2> SUFFICES ASSUME m \notin I PROVE FALSE
      OBVIOUS
    <2>1. PICK j \in I : j \in 1 .. n /\ j <= m
      BY <1>2
    <2>2. m - 1 \in Bounds
      BY <2>1
    <2> QED
      BY <1>2, <2>1, <2>2
  <1>4. \E i \in I : \A j \in I : j <= i
    BY <1>2, <1>3
  <1> QED
    BY <1>4 DEF LastOf

-----------------------------------------------------------------------------
(* What a step does *)

\* The second halves of the calls: the only steps of a caller that change the store.
Writes(a) ==
    \/ _record_manifest_rejected(a) \/ register(a) \/ RecordCreated(a) \/ RecordMove(a)
    \/ _respond_adapted(a) \/ _materialize_one(a) \/ RecordPropagation(a) \/ RecordTransition(a)
    \/ RecordResponse(a)

\* The first halves, and what ends a call without a write.
Reads(a) ==
    \/ \E m \in Manifests : receive(a, m)
    \/ \E t \in Transfers :
          \/ transfer_create(a, t) \/ offer(a, t) \/ materialize_from_transfer(a, t)
          \/ \E d \in Decisions, o \in Adaptations : respond(a, t, d, o)
    \/ \E ob \in DOMAIN obligations : propagate(a, ob) \/ resolve(a, ob, TRUE) \/ defer(a, ob)
    \/ \E n \in Notifications, d \in ResponseDecisions, reason \in BOOLEAN, pairs \in Adaptings :
          record_response(a, n, d, reason, pairs)
    \/ ReadDecision(a) \/ _gather_binding_edges(a) \/ Raise(a)

\* The writes that give an obligation its next revision.
Revises(a) == (RecordPropagation(a) /\ Missing(a) # {}) \/ RecordTransition(a)

ChangesKeys == \E k \in Keys : revoke(k) \/ \E s \in Keys : rotate(k, s)

LEMMA Steps ==
    ASSUME [Next]_vars
    PROVE  \/ UNCHANGED vars
           \/ Tick \/ \E k \in Keys : record_revocation_core(k)
           \/ ChangesKeys
           \/ \E d \in Derivations : AddDerivation(d)
           \/ \E a \in Actors : LoadPractice(a) \/ Crash(a) \/ Reads(a) \/ Writes(a)
  BY DEF Next, Writes, Reads, ChangesKeys

LEMMA ReadsFrame ==
    ASSUME NEW a \in Actors, Reads(a)
    PROVE  /\ UNCHANGED <<now, practice, trusted, revocations, log, edges, responses, obligations, nodes, died>>
           /\ \E c : call' = [call EXCEPT ![a] = c]
  <1> USE DEF Enter, Goto, keyVars, storeVars
  <1>1. CASE \E m \in Manifests : receive(a, m)
    BY <1>1 DEF receive
  <1>2. CASE \E t \in Transfers :
                \/ transfer_create(a, t) \/ offer(a, t) \/ materialize_from_transfer(a, t)
                \/ \E d \in Decisions, o \in Adaptations : respond(a, t, d, o)
    BY <1>2 DEF transfer_create, offer, materialize_from_transfer, respond
  <1>3. CASE \E ob \in DOMAIN obligations : propagate(a, ob) \/ resolve(a, ob, TRUE) \/ defer(a, ob)
    BY <1>3 DEF propagate, resolve, defer, _transition
  <1>4. CASE \E n \in Notifications, d \in ResponseDecisions, reason \in BOOLEAN, pairs \in Adaptings :
                record_response(a, n, d, reason, pairs)
    BY <1>4 DEF record_response
  <1>5. CASE ReadDecision(a) \/ _gather_binding_edges(a) \/ Raise(a)
    BY <1>5 DEF ReadDecision, _gather_binding_edges, Raise
  <1> QED
    BY <1>1, <1>2, <1>3, <1>4, <1>5 DEF Reads

LEMMA WritesFrame ==
    ASSUME NEW a \in Actors, Writes(a)
    PROVE  /\ UNCHANGED <<now, practice, trusted, revocations, died>>
           /\ \E c : call' = [call EXCEPT ![a] = c]
  BY DEF Writes, _record_manifest_rejected, register, RecordCreated, RecordMove, _respond_adapted,
         _materialize_one, RecordPropagation, RecordTransition, RecordResponse, Goto, keyVars

\* The row a write appends to the log tells what its call decided.
TellsOf(e, a, c) ==
    /\ e.type \in {"transfer.offered", "transfer.responded"} =>
          /\ e.about = c.t /\ e.copy = c.copy /\ e.began = c.began
          /\ \/ RecordMove(a) /\ c.op = "move" /\ e.type = c.type /\ e.to = c.to
             \/ /\ _respond_adapted(a) /\ c.op = "adapt" /\ e.type = "transfer.responded"
                /\ e.to = "adapted" /\ e.object = c.object
    /\ e.type = "node_manifest.registered" => c.op = "register" /\ e.to = c.m.key /\ e.copy = c.copy

LEMMA NewRow ==
    ASSUME IInv, NEW a \in Actors, NEW c, c = call[a], Writes(a)
    PROVE  \/ UNCHANGED storeVars
           \/ \E e \in LogRow : log' = Append(log, e) /\ TellsOf(e, a, c)
  <1>1. c \in Call
    BY DEF IInv, Typed
  <1>2. ASSUME _record_manifest_rejected(a)
        PROVE  \E e \in LogRow : log' = Append(log, e) /\ TellsOf(e, a, c)
    <2>1. c \in RejectCall
      BY <1>1, <1>2, CallOf DEF _record_manifest_rejected, At
    <2>2. PICK e : e = Event("node_manifest.rejected", c.m.node, c.reason)
      OBVIOUS
    <2>3. e \in LogRow /\ e.type = "node_manifest.rejected"
      BY <2>1, <2>2 DEF Event, LogRow, EventTypes, RejectCall, Nodes
    <2> QED
      BY <1>2, <2>2, <2>3 DEF _record_manifest_rejected, TellsOf
  <1>3. ASSUME register(a)
        PROVE  \E e \in LogRow : log' = Append(log, e) /\ TellsOf(e, a, c)
    <2>1. c \in RegisterCall
      BY <1>1, <1>3, CallOf DEF register, At
    <2>2. PICK e : e = [Event("node_manifest.registered", c.m.node, c.m.key) EXCEPT !.copy = c.copy]
      OBVIOUS
    <2>3. e = [type |-> "node_manifest.registered", about |-> c.m.node, to |-> c.m.key, copy |-> c.copy,
               began |-> None, object |-> None]
      BY <2>2 DEF Event
    <2>4. e \in LogRow
      BY <2>1, <2>3, FederationConstants DEF LogRow, EventTypes, RegisterCall, Nodes
    <2> QED
      BY <1>3, <2>1, <2>2, <2>3, <2>4 DEF register, TellsOf, RegisterCall
  <1>4. ASSUME RecordCreated(a)
        PROVE  \E e \in LogRow : log' = Append(log, e) /\ TellsOf(e, a, c)
    <2>1. c \in CreateCall
      BY <1>1, <1>4, CallOf DEF RecordCreated, At
    <2>2. PICK e : e = Event("transfer.created", c.t, "created")
      OBVIOUS
    <2>3. e \in LogRow /\ e.type = "transfer.created"
      BY <2>1, <2>2 DEF Event, LogRow, EventTypes, Statuses, CreateCall
    <2> QED
      BY <1>4, <2>2, <2>3 DEF RecordCreated, TellsOf
  <1>5. ASSUME RecordMove(a)
        PROVE  \E e \in LogRow : log' = Append(log, e) /\ TellsOf(e, a, c)
    <2>1. c \in MoveCall
      BY <1>1, <1>5, CallOf DEF RecordMove, At
    <2>2. PICK e : e = [Event(c.type, c.t, c.to) EXCEPT !.copy = c.copy, !.began = c.began]
      OBVIOUS
    <2>3. e = [type |-> c.type, about |-> c.t, to |-> c.to, copy |-> c.copy,
               began |-> c.began, object |-> None]
      BY <2>2 DEF Event
    <2>4. e \in LogRow
      BY <2>1, <2>3 DEF LogRow, EventTypes, Statuses, MoveCall
    <2>5. c.op = "move" /\ log' = Append(log, e)
      BY <1>5, <2>2 DEF RecordMove, At
    <2>6. TellsOf(e, a, c)
      BY <1>5, <2>1, <2>3, <2>5 DEF TellsOf, MoveCall
    <2> QED
      BY <2>4, <2>5, <2>6
  <1>6. ASSUME _respond_adapted(a)
        PROVE  \E e \in LogRow : log' = Append(log, e) /\ TellsOf(e, a, c)
    <2>1. c \in AdaptCall
      BY <1>1, <1>6, CallOf DEF _respond_adapted, At
    <2>2. PICK e : e = [Event("transfer.responded", c.t, "adapted") EXCEPT
                           !.copy = c.copy, !.began = c.began, !.object = c.object]
      OBVIOUS
    <2>3. e = [type |-> "transfer.responded", about |-> c.t, to |-> "adapted", copy |-> c.copy,
               began |-> c.began, object |-> c.object]
      BY <2>2 DEF Event
    <2>4. e \in LogRow
      BY <2>1, <2>3, FederationConstants DEF LogRow, EventTypes, Statuses, Decisions, AdaptCall
    <2>5. c.op = "adapt" /\ log' = Append(log, e)
      BY <1>6, <2>2 DEF _respond_adapted, record_edges, At
    <2>6. TellsOf(e, a, c)
      BY <1>6, <2>3, <2>5 DEF TellsOf
    <2> QED
      BY <2>4, <2>5, <2>6
  <1>7. ASSUME _materialize_one(a)
        PROVE  \E e \in LogRow : log' = Append(log, e) /\ TellsOf(e, a, c)
    <2>1. c \in MaterializeCall /\ c.todo # <<>>
      BY <1>1, <1>7, CallOf DEF _materialize_one, At
    <2>2. PICK e : e = Event("obligation.created", c.t, Head(c.todo))
      OBVIOUS
    <2>3. Head(c.todo) \in Kinds
      BY <2>1 DEF MaterializeCall
    <2>4. e \in LogRow /\ e.type = "obligation.created"
      BY <2>1, <2>2, <2>3 DEF Event, LogRow, EventTypes, MaterializeCall
    <2> QED
      BY <1>7, <2>2, <2>4 DEF _materialize_one, bind_revision_with_edges, TellsOf
  <1>8. ASSUME RecordPropagation(a), ~UNCHANGED storeVars
        PROVE  \E e \in LogRow : log' = Append(log, e) /\ TellsOf(e, a, c)
    <2>1. c \in GatherCall
      BY <1>1, <1>8, CallOf DEF RecordPropagation, Gathered, At
    <2>2. PICK e : e = Event("obligation.propagated", c.ob, None)
      OBVIOUS
    <2>3. e \in LogRow /\ e.type = "obligation.propagated"
      BY <2>1, <2>2 DEF Event, LogRow, EventTypes, GatherCall
    <2> QED
      BY <1>8, <2>2, <2>3 DEF RecordPropagation, bind_revision_with_edges, TellsOf
  <1>9. ASSUME RecordTransition(a)
        PROVE  \E e \in LogRow : log' = Append(log, e) /\ TellsOf(e, a, c)
    <2>1. c \in TransitionCall
      BY <1>1, <1>9, CallOf DEF RecordTransition, At
    <2>2. PICK e : e = Event("obligation.transition", c.ob, c.row.status)
      OBVIOUS
    <2>3. e \in LogRow /\ e.type = "obligation.transition"
      BY <2>1, <2>2 DEF Event, LogRow, EventTypes, Statuses, Decisions, TransitionCall, Revision
    <2> QED
      BY <1>9, <2>2, <2>3 DEF RecordTransition, TellsOf
  <1>10. ASSUME RecordResponse(a)
         PROVE  \E e \in LogRow : log' = Append(log, e) /\ TellsOf(e, a, c)
    <2>1. c \in ResponseCall
      BY <1>1, <1>10, CallOf DEF RecordResponse, At
    <2>2. PICK e : e = Event("correction.response_recorded", c.notification, c.decision)
      OBVIOUS
    <2>3. e \in LogRow /\ e.type = "correction.response_recorded"
      BY <2>1, <2>2 DEF Event, LogRow, EventTypes, Statuses, ResponseCall
    <2> QED
      BY <1>10, <2>2, <2>3 DEF RecordResponse, record_edges, TellsOf
  <1> QED
    BY <1>2, <1>3, <1>4, <1>5, <1>6, <1>7, <1>8, <1>9, <1>10 DEF Writes


\* Which steps change which part of the state.
OnlyThese ==
    /\ UNCHANGED nodes \/ \E a \in Actors : register(a)
    /\ UNCHANGED responses \/ \E a \in Actors : RecordResponse(a)
    /\ UNCHANGED obligations \/ \E a \in Actors : _materialize_one(a) \/ Revises(a)
    /\ \/ UNCHANGED edges
       \/ \E d \in Derivations : AddDerivation(d)
       \/ \E a \in Actors : _respond_adapted(a) \/ _materialize_one(a) \/ Revises(a) \/ RecordResponse(a)
    /\ UNCHANGED log \/ \E a \in Actors : Writes(a) /\ ~UNCHANGED storeVars
    /\ UNCHANGED <<practice, trusted>> \/ ChangesKeys \/ \E a \in Actors : LoadPractice(a)
    /\ UNCHANGED revocations \/ \E k \in Keys : record_revocation_core(k)
    /\ UNCHANGED now \/ now' = now + 1
    /\ UNCHANGED died \/ \E a \in Actors : Crash(a)

LEMMA Only ==
    ASSUME [Next]_vars
    PROVE  OnlyThese
  <1>1. CASE UNCHANGED vars
    BY <1>1 DEF vars, OnlyThese
  <1>2. CASE Tick \/ \E k \in Keys : record_revocation_core(k)
    BY <1>2 DEF Tick, record_revocation_core, keyVars, storeVars, OnlyThese
  <1>3. CASE ChangesKeys
    <2>1. UNCHANGED <<now, revocations, log, edges, responses, obligations, nodes, died>>
      BY <1>3 DEF ChangesKeys, revoke, rotate, storeVars
    <2> QED
      BY <1>3, <2>1 DEF OnlyThese
  <1>4. CASE \E d \in Derivations : AddDerivation(d)
    <2>1. UNCHANGED <<now, practice, trusted, revocations, log, responses, obligations, nodes, died>>
      BY <1>4 DEF AddDerivation, keyVars
    <2> QED
      BY <1>4, <2>1 DEF OnlyThese
  <1>5. ASSUME NEW a \in Actors, LoadPractice(a) PROVE OnlyThese
    <2>1. UNCHANGED <<now, practice, revocations, log, edges, responses, obligations, nodes, died>>
      BY <1>5 DEF LoadPractice, storeVars
    <2> QED
      BY <1>5, <2>1 DEF OnlyThese
  <1>6. ASSUME NEW a \in Actors, Crash(a) PROVE OnlyThese
    <2>1. UNCHANGED <<now, practice, trusted, revocations, log, edges, responses, obligations, nodes>>
      BY <1>6 DEF Crash, keyVars, storeVars
    <2> QED
      BY <1>6, <2>1 DEF OnlyThese
  <1>7. ASSUME NEW a \in Actors, Reads(a) PROVE OnlyThese
    BY <1>7, ReadsFrame DEF OnlyThese
  <1>8. ASSUME NEW a \in Actors, Writes(a), ~UNCHANGED storeVars PROVE OnlyThese
    <2>1. UNCHANGED <<now, practice, trusted, revocations, died>>
      BY <1>8, WritesFrame
    <2>2. CASE _record_manifest_rejected(a) \/ RecordCreated(a) \/ RecordMove(a)
      BY <1>8, <2>1, <2>2 DEF _record_manifest_rejected, RecordCreated, RecordMove, OnlyThese
    <2>3. CASE register(a)
      <3>1. UNCHANGED <<edges, responses, obligations>>
        BY <2>3 DEF register
      <3> QED
        BY <1>8, <2>1, <2>3, <3>1 DEF OnlyThese
    <2>4. CASE _respond_adapted(a)
      <3>1. UNCHANGED <<responses, obligations, nodes>>
        BY <2>4 DEF _respond_adapted
      <3> QED
        BY <1>8, <2>1, <2>4, <3>1 DEF OnlyThese
    <2>5. CASE _materialize_one(a)
      <3>1. UNCHANGED <<responses, nodes>>
        BY <2>5 DEF _materialize_one
      <3> QED
        BY <1>8, <2>1, <2>5, <3>1 DEF OnlyThese
    <2>6. CASE RecordPropagation(a)
      <3>1. Missing(a) # {} /\ UNCHANGED <<responses, nodes>>
        BY <1>8, <2>6 DEF RecordPropagation
      <3> QED
        BY <1>8, <2>1, <2>6, <3>1 DEF OnlyThese, Revises
    <2>7. CASE RecordTransition(a)
      <3>1. UNCHANGED <<edges, responses, nodes>>
        BY <2>7 DEF RecordTransition
      <3> QED
        BY <1>8, <2>1, <2>7, <3>1 DEF OnlyThese, Revises
    <2>8. CASE RecordResponse(a)
      <3>1. UNCHANGED <<obligations, nodes>>
        BY <2>8 DEF RecordResponse
      <3> QED
        BY <1>8, <2>1, <2>8, <3>1 DEF OnlyThese
    <2> QED
      BY <1>8, <2>2, <2>3, <2>4, <2>5, <2>6, <2>7, <2>8 DEF Writes
  <1>9. ASSUME NEW a \in Actors, Writes(a), UNCHANGED storeVars PROVE OnlyThese
    BY <1>9, WritesFrame DEF OnlyThese, storeVars
  <1> QED
    BY <1>1, <1>2, <1>3, <1>4, <1>5, <1>6, <1>7, <1>8, <1>9, Steps

-----------------------------------------------------------------------------
(* Keys *)

Rings == [Keys -> [state : {"absent", "active", "rotated", "revoked"}, since : Nat]]

\* Whether a key is active only changes together with the version noted beside it.
RingMoves(old, new, version) ==
    \A j \in Keys : \/ new[j].since = version
                    \/ new[j].since = old[j].since /\ (new[j].state = "active" <=> old[j].state = "active")

LEMMA RingChanges ==
    ASSUME NEW ring \in Rings, NEW version \in Nat, NEW k \in Keys,
           NEW state \in {"active", "rotated", "revoked"}
    PROVE  /\ with_descriptor(ring, version, k, state) \in Rings
           /\ RingMoves(ring, with_descriptor(ring, version, k, state), version)
  <1> DEFINE d == [state |-> state,
                   since |-> IF state = "active" <=> ring[k].state = "active" THEN ring[k].since ELSE version]
  <1>1. with_descriptor(ring, version, k, state) = [ring EXCEPT ![k] = d]
    BY DEF with_descriptor, Rings
  <1>2. ring[k].since \in Nat
    BY DEF Rings
  <1>3. d \in [state : {"absent", "active", "rotated", "revoked"}, since : Nat]
    <2>1. CASE state = "active" <=> ring[k].state = "active"
      BY <1>2, <2>1
    <2>2. CASE ~(state = "active" <=> ring[k].state = "active")
      BY <1>2, <2>2
    <2> QED
      BY <2>1, <2>2
  <1>4. \/ d.since = version
        \/ d.since = ring[k].since /\ (d.state = "active" <=> ring[k].state = "active")
    OBVIOUS
  <1> HIDE DEF d
  <1>5. [ring EXCEPT ![k] = d] \in Rings /\ RingMoves(ring, [ring EXCEPT ![k] = d], version)
    BY <1>3, <1>4 DEF Rings, RingMoves
  <1> QED
    BY <1>1, <1>5

LEMMA PracticeMoves ==
    ASSUME Typed, ChangesKeys
    PROVE  /\ practice' \in Document /\ practice'.version = practice.version + 1
           /\ RingMoves(practice.keys, practice'.keys, practice.version + 1)
           /\ UNCHANGED trusted
  <1>1. practice.version \in Nat /\ practice.version + 1 \in Nat /\ practice.keys \in Rings
    BY DEF Typed, Document, Rings
  <1>2. ASSUME NEW ring \in Rings, practice' = [version |-> practice.version + 1, keys |-> ring],
               RingMoves(practice.keys, ring, practice.version + 1), UNCHANGED trusted
        PROVE  /\ practice' \in Document /\ practice'.version = practice.version + 1
               /\ RingMoves(practice.keys, practice'.keys, practice.version + 1)
               /\ UNCHANGED trusted
    BY <1>1, <1>2 DEF Document, Rings
  <1>3. CASE \E k \in Keys : revoke(k)
    <2>1. PICK k \in Keys : revoke(k)
      BY <1>3
    <2>2. /\ practice' = [version |-> practice.version + 1,
                          keys |-> with_descriptor(practice.keys, practice.version + 1, k, "revoked")]
          /\ UNCHANGED trusted
      BY <2>1 DEF revoke
    <2> QED
      BY <1>1, <1>2, <2>2, RingChanges
  <1>4. CASE \E k \in Keys : \E s \in Keys : rotate(k, s)
    <2>1. PICK k \in Keys, s \in Keys : rotate(k, s)
      BY <1>4
    <2> DEFINE next == practice.version + 1
    <2>2. PICK prior : prior = with_descriptor(practice.keys, next, k, "rotated")
      OBVIOUS
    <2>3. PICK both : both = with_descriptor(prior, next, s, "active")
      OBVIOUS
    <2>4. practice' = [version |-> next, keys |-> both] /\ UNCHANGED trusted
      BY <2>1, <2>2, <2>3 DEF rotate
    <2>5. /\ prior \in Rings /\ RingMoves(practice.keys, prior, next)
          /\ both \in Rings /\ RingMoves(prior, both, next)
      BY <1>1, <2>2, <2>3, RingChanges
    <2>6. RingMoves(practice.keys, both, next)
      BY <2>5 DEF RingMoves
    <2> QED
      BY <1>2, <2>4, <2>5, <2>6
  <1> QED
    BY <1>3, <1>4 DEF ChangesKeys

\* What was trusted stays so: a key only leaves its state in a newer document.
LEMMA TrustKept ==
    ASSUME Typed, [Next]_vars
    PROVE  /\ practice' \in Document /\ trusted' \in [Actors -> Document]
           /\ practice.version <= practice'.version
           /\ \A k \in Keys, copy \in Nat \cup {None} : Trusted(k, copy) => Trusted(k, copy)'
  <1>1. practice \in Document /\ practice.version \in Nat /\ trusted \in [Actors -> Document]
    BY DEF Typed, Document
  <1>2. CASE UNCHANGED <<practice, trusted>>
    BY <1>1, <1>2 DEF Trusted
  <1>3. CASE ChangesKeys
    <2>1. practice'.version = practice.version + 1
      BY <1>3, PracticeMoves
    <2>2. ASSUME NEW k \in Keys, NEW copy, Trusted(k, copy) PROVE Trusted(k, copy)'
      <3>1. copy \in 0 .. practice.version /\ (practice.keys[k].state = "active" \/ copy < practice.keys[k].since)
        BY <2>2 DEF Trusted
      <3>2. CASE practice'.keys[k].since = practice.keys[k].since
                 /\ (practice'.keys[k].state = "active" <=> practice.keys[k].state = "active")
        BY <1>1, <2>1, <3>1, <3>2 DEF Trusted
      <3>3. CASE practice'.keys[k].since = practice.version + 1
        BY <1>1, <2>1, <3>1, <3>3 DEF Trusted
      <3> QED
        BY <1>3, <3>2, <3>3, PracticeMoves DEF RingMoves
    <2> QED
      BY <1>1, <1>3, <2>1, <2>2, PracticeMoves
  <1>4. ASSUME NEW a \in Actors, LoadPractice(a)
        PROVE  practice' = practice /\ trusted' \in [Actors -> Document]
    BY <1>1, <1>4 DEF LoadPractice
  <1> QED
    BY <1>1, <1>2, <1>3, <1>4, Only DEF OnlyThese, Trusted

LEMMA KeysInvKept ==
    ASSUME IInv, [Next]_vars
    PROVE  KeysInv'
  <1>1. Typed /\ KeysInv
    BY DEF IInv
  <1>2. /\ practice.version \in Nat /\ practice'.version \in Nat /\ practice.version <= practice'.version
        /\ trusted \in [Actors -> Document]
    BY <1>1, TrustKept DEF Typed, Document
  <1>3. CASE UNCHANGED trusted
    <2> SUFFICES ASSUME NEW a \in Actors
                 PROVE  /\ trusted[a].version \in 0 .. practice'.version
                        /\ \A k \in Keys : trusted[a].keys[k].state = "active" => Trusted(k, trusted[a].version)'
      BY <1>3 DEF KeysInv
    <2>1. /\ trusted[a].version \in 0 .. practice.version
          /\ \A k \in Keys : trusted[a].keys[k].state = "active" => Trusted(k, trusted[a].version)
      BY <1>1 DEF KeysInv
    <2>2. PICK v : v = trusted[a].version
      OBVIOUS
    <2>3. v \in Nat /\ \A k \in Keys : Trusted(k, v) => Trusted(k, v)'
      BY <1>1, <1>2, <2>1, <2>2, TrustKept
    <2>4. trusted'[a] = trusted[a]
      BY <1>3
    <2> QED
      BY <1>2, <2>1, <2>2, <2>3, <2>4
  <1>4. ASSUME NEW b \in Actors, LoadPractice(b)
        PROVE  KeysInv'
    <2>1. practice' = practice /\ trusted' = [trusted EXCEPT ![b] = practice]
      BY <1>4 DEF LoadPractice
    <2> QED
      BY <1>1, <1>2, <2>1 DEF KeysInv, Trusted
  <1>5. CASE ChangesKeys
    BY <1>1, <1>3, <1>5, PracticeMoves
  <1> QED
    BY <1>3, <1>4, <1>5, Only DEF OnlyThese

-----------------------------------------------------------------------------
(* The log *)

LEMMA LogGrows ==
    ASSUME IInv, [Next]_vars
    PROVE  \/ UNCHANGED log
           \/ \E a \in Actors, e \in LogRow : Writes(a) /\ log' = Append(log, e) /\ TellsOf(e, a, call[a])
  <1>1. ASSUME NEW a \in Actors, Writes(a), ~UNCHANGED storeVars
        PROVE  \E e \in LogRow : log' = Append(log, e) /\ TellsOf(e, a, call[a])
    BY <1>1, NewRow
  <1> QED
    BY <1>1, Only DEF OnlyThese

LEMMA LogKept ==
    ASSUME IInv, [Next]_vars
    PROVE  /\ log \in Seq(LogRow) /\ Len(log) \in Nat /\ DOMAIN log = 1 .. Len(log)
           /\ log' \in Seq(LogRow) /\ Len(log') \in Nat /\ DOMAIN log' = 1 .. Len(log')
           /\ Len(log) <= Len(log')
           /\ \A i \in DOMAIN log : log'[i] = log[i]
  <1>1. log \in Seq(LogRow)
    BY DEF IInv, Typed
  <1>2. ASSUME NEW e \in LogRow, log' = Append(log, e)
        PROVE  /\ log' \in Seq(LogRow) /\ Len(log) <= Len(log')
               /\ \A i \in DOMAIN log : log'[i] = log[i]
    BY <1>1, <1>2, AppendedTo
  <1> QED
    BY <1>1, <1>2, LogGrows

\* What the log said up to an instant, it keeps saying.
LEMMA EventsKept ==
    ASSUME IInv, [Next]_vars, NEW types, NEW id, NEW n \in 0 .. Len(log)
    PROVE  \A i : i <= n => (i \in EventsOf(types, id)' <=> i \in EventsOf(types, id))
  BY LogKept DEF EventsOf

LEMMA OfferedKept ==
    ASSUME IInv, [Next]_vars, NEW t, NEW n \in 0 .. Len(log), OfferedAt(t, n)
    PROVE  OfferedAt(t, n)'
  <1>1. \A i : i <= n => (i \in MovesOf(t)' <=> i \in MovesOf(t))
    BY EventsKept DEF MovesOf
  <1>2. PICK j \in MovesOf(t) : /\ j <= n /\ log[j].to = "offered"
                                /\ \A i \in MovesOf(t) : i <= n => i <= j
    BY DEF OfferedAt
  <1>3. j \in DOMAIN log /\ log'[j] = log[j]
    BY LogKept DEF MovesOf, EventsOf
  <1>4. j \in MovesOf(t)' /\ log'[j].to = "offered" /\ \A i \in MovesOf(t)' : i <= n => i <= j
    BY <1>1, <1>2, <1>3
  <1> QED
    BY <1>2, <1>4 DEF OfferedAt

LEMMA InForceKept ==
    ASSUME IInv, [Next]_vars, NEW t, NEW i, NEW n \in 0 .. Len(log), InForce(t, i, n)
    PROVE  InForce(t, i, n)'
  <1>1. \A j : j <= n => (j \in EventsOf({"transfer.responded"}, t)' <=> j \in EventsOf({"transfer.responded"}, t))
    BY EventsKept
  <1>2. i \in DOMAIN log' /\ log'[i] = log[i]
    BY LogKept DEF InForce
  <1> QED
    BY <1>1, <1>2 DEF InForce

LEMMA LogInvKept ==
    ASSUME IInv, [Next]_vars
    PROVE  LogInv'
  <1> DEFINE Fits(e, i) ==
        /\ e.type = "transfer.responded" =>
              /\ e.about \in Transfers /\ e.began \in 0 .. i - 1
              /\ Trusted(Contract[e.about].key, e.copy)
              /\ OfferedAt(e.about, e.began)
        /\ e.type = "node_manifest.registered" => e.to \in Keys /\ Trusted(e.to, e.copy)
  <1>1. /\ log \in Seq(LogRow) /\ Len(log) \in Nat /\ DOMAIN log = 1 .. Len(log)
        /\ DOMAIN log' = 1 .. Len(log') /\ Len(log) <= Len(log') /\ Len(log') \in Nat
        /\ \A i \in DOMAIN log : log'[i] = log[i]
    BY LogKept
  <1>2. ASSUME NEW e \in LogRow, NEW i \in 1 .. Len(log) + 1, Fits(e, i)
        PROVE  Fits(e, i)'
    <2>1. e.copy \in Nat \cup {None}
      BY DEF LogRow
    <2>2. e.type = "transfer.responded" => Contract[e.about].key \in Keys /\ e.began \in 0 .. Len(log)
      BY <1>1, <1>2, FederationConstants
    <2> QED
      BY <1>2, <2>1, <2>2, OfferedKept, TrustKept DEF IInv
  <1>3. ASSUME NEW i \in DOMAIN log PROVE Fits(log[i], i)
    BY <1>3 DEF IInv, LogInv
  <1>4. ASSUME NEW a \in Actors, NEW e \in LogRow, TellsOf(e, a, call[a])
        PROVE  Fits(e, Len(log) + 1)
    <2>1. call[a] \in Call /\ Holds(call[a])
      BY DEF IInv, Typed
    <2>2. PICK c : c = call[a]
      OBVIOUS
    <2>3. ASSUME e.type = "transfer.responded"
          PROVE  /\ e.about = c.t /\ c.t \in Transfers /\ e.copy = c.copy /\ e.began = c.began
                 /\ c.op = "adapt" \/ (c.op = "move" /\ c.type = "transfer.responded")
      BY <1>4, <2>1, <2>2, <2>3, CallOf DEF TellsOf, MoveCall, AdaptCall
    <2>4. ASSUME e.type = "node_manifest.registered"
          PROVE  c.op = "register" /\ e.to = c.m.key /\ e.copy = c.copy /\ c.m.key \in Keys
      BY <1>4, <2>1, <2>2, <2>4, CallOf, FederationConstants DEF TellsOf, RegisterCall
    <2> QED
      BY <1>1, <2>1, <2>2, <2>3, <2>4 DEF Holds, HoldsKey
  <1>5. ASSUME NEW i \in DOMAIN log' PROVE Fits(log[i], i)'
    <2>1. CASE i \in DOMAIN log
      <3>1. PICK e : e = log[i]
        OBVIOUS
      <3>2. e \in LogRow /\ log'[i] = e /\ i \in 1 .. Len(log) + 1
        BY <1>1, <2>1, <3>1
      <3>3. Fits(e, i)'
        BY <1>2, <1>3, <2>1, <3>1, <3>2
      <3> QED
        BY <3>2, <3>3
    <2>2. CASE i \notin DOMAIN log
      <3>1. PICK a \in Actors, e \in LogRow : log' = Append(log, e) /\ TellsOf(e, a, call[a])
        BY <2>2, LogGrows
      <3>2. i = Len(log) + 1 /\ log'[i] = e
        BY <1>1, <2>2, <3>1, AppendedTo
      <3>3. Fits(e, i)'
        BY <1>1, <1>2, <1>4, <3>1, <3>2
      <3> QED
        BY <3>2, <3>3
    <2> QED
      BY <2>1, <2>2
  <1> QED
    BY <1>5 DEF LogInv

-----------------------------------------------------------------------------
(* What builds on what *)

LEMMA SourcesAre ==
    ASSUME Typed, NEW E \in SUBSET edges, NEW o
    PROVE  SourcesIn(E, o) \subseteq SourcesOf(o) /\ SourcesOf(o) \subseteq Items
  BY DEF Typed, SourcesIn, SourcesOf, edges_to

\* Downstream is closed, and it is the least closed set.
LEMMA DownstreamIs ==
    ASSUME Typed, NEW seeds
    PROVE  /\ Downstream(seeds) = DownstreamIn(edges, seeds) /\ Downstream(seeds) \subseteq Items
           /\ \A o \in seeds \cup Downstream(seeds) : SourcesOf(o) \subseteq Downstream(seeds)
  <1>1. \A o : SourcesIn(edges, o) = SourcesOf(o)
    BY DEF SourcesIn, SourcesOf, edges_to
  <1>2. Downstream(seeds) = DownstreamIn(edges, seeds) /\ Downstream(seeds) \subseteq Items
    <2>1. \A S : ClosedIn(edges, seeds, S) <=> \A o \in seeds \cup S : SourcesOf(o) \subseteq S
      BY <1>1 DEF ClosedIn
    <2>2. Downstream(seeds) = {x \in Items : \A S \in SUBSET Items :
                                  (\A o \in seeds \cup S : SourcesOf(o) \subseteq S) => x \in S}
      BY DEF Downstream
    <2> QED
      BY <2>1, <2>2 DEF DownstreamIn
  <1>3. ASSUME NEW o \in seeds \cup Downstream(seeds), NEW x \in SourcesOf(o)
        PROVE  x \in Downstream(seeds)
    <2>1. x \in Items
      BY <1>3, SourcesAre
    <2>2. SUFFICES ASSUME NEW S \in SUBSET Items, ClosedIn(edges, seeds, S) PROVE x \in S
      BY <1>2, <2>1 DEF DownstreamIn
    <2>3. o \in seeds \cup S
      BY <1>2, <2>2 DEF DownstreamIn
    <2> QED
      BY <1>1, <1>3, <2>2, <2>3 DEF ClosedIn
  <1> QED
    BY <1>2, <1>3

LEMMA LeastClosed ==
    ASSUME NEW E, NEW seeds, NEW S \in SUBSET Items, ClosedIn(E, seeds, S)
    PROVE  DownstreamIn(E, seeds) \subseteq S
  BY DEF DownstreamIn

\* More edges, more objects that build on the seeds.
LEMMA DownstreamGrows ==
    ASSUME Typed, Typed', edges \subseteq edges', NEW seeds
    PROVE  Downstream(seeds) \subseteq Downstream(seeds)'
  <1>1. \A o : SourcesOf(o) \subseteq SourcesOf(o)'
    BY DEF SourcesOf, edges_to
  <1> SUFFICES ASSUME NEW x \in Downstream(seeds), NEW S \in SUBSET Items,
                      \A o \in seeds \cup S : SourcesOf(o)' \subseteq S
               PROVE  x \in S
    BY DEF Downstream
  <1>2. \A o \in seeds \cup S : SourcesOf(o) \subseteq S
    BY <1>1
  <1> QED
    BY <1>2 DEF Downstream

\* A traversal that has no id left to ask for has found whatever built on the bound
\* objects when it began.
LEMMA GatheredIsComplete ==
    ASSUME NEW seeds, NEW c \in GatherCall, Traverses(c, seeds), c.frontier = {}
    PROVE  c.downstream \subseteq c.found /\ c.found \subseteq Downstream(seeds)
  <1>1. PICK E \in SUBSET edges : /\ c.downstream = DownstreamIn(E, seeds)
                                  /\ \A v \in c.visited : SourcesIn(E, v) \subseteq c.found
    BY DEF Traverses
  <1>2. c.found \in SUBSET Items /\ seeds \cup c.found \subseteq c.visited
    BY DEF GatherCall, Traverses
  <1>3. ClosedIn(E, seeds, c.found)
    BY <1>1, <1>2 DEF ClosedIn
  <1> QED
    BY <1>1, <1>2, <1>3, LeastClosed DEF Traverses

\* One more id is asked for.
LEMMA GatherStep ==
    ASSUME Typed, NEW seeds, NEW c, NEW d, Traverses(c, seeds), NEW o \in c.frontier,
           d.frontier = (c.frontier \ {o}) \cup (SourcesOf(o) \ (c.visited \cup {o})),
           d.visited = c.visited \cup {o}, d.found = c.found \cup SourcesOf(o), d.downstream = c.downstream
    PROVE  Traverses(d, seeds)
  <1>1. /\ seeds \cup c.found \subseteq c.visited \cup c.frontier
        /\ c.visited \cup c.frontier \subseteq seeds \cup c.found
        /\ c.found \subseteq Downstream(seeds)
    BY DEF Traverses
  <1>2. PICK E \in SUBSET edges : /\ c.downstream = DownstreamIn(E, seeds)
                                  /\ \A v \in c.visited : SourcesIn(E, v) \subseteq c.found
    BY DEF Traverses
  <1>3. SourcesOf(o) \subseteq Downstream(seeds)
    BY <1>1, DownstreamIs
  <1>4. SourcesIn(E, o) \subseteq SourcesOf(o)
    BY SourcesAre
  <1>5. /\ seeds \cup d.found \subseteq d.visited \cup d.frontier
        /\ d.visited \cup d.frontier \subseteq seeds \cup d.found
        /\ d.found \subseteq Downstream(seeds)
    BY <1>1, <1>3
  <1>6. \A v \in d.visited : SourcesIn(E, v) \subseteq d.found
    BY <1>2, <1>4
  <1> QED
    BY <1>2, <1>5, <1>6 DEF Traverses

-----------------------------------------------------------------------------
(* What a write does to the obligations *)

LEMMA DutiesAre ==
    ASSUME NEW t \in Transfers
    PROVE  Duties(t) \in Seq(Kinds)
  <1>1. Contract[t].obligations \in Seq(Kinds)
    BY FederationConstants DEF Kinds
  <1>2. <<"retain_caveat">> \in Seq(Kinds) /\ <<>> \in Seq(Kinds)
    BY DEF Kinds
  <1> QED
    BY <1>1, <1>2 DEF Duties

LEMMA Materialized ==
    ASSUME IInv, NEW a \in Actors, NEW c, c = call[a], _materialize_one(a)
    PROVE  /\ c \in MaterializeCall /\ c.op = "materialize" /\ c.todo # <<>>
           /\ \E o \in ObligationRow :
                 /\ obligations' = Append(obligations, o)
                 /\ o = [transfer |-> c.t, kind |-> Head(c.todo), trigger |-> c.trigger, began |-> c.began,
                         created |-> Len(log) + 1, bound_objects |-> Contract[c.t].transferred_objects,
                         revisions |-> <<[status |-> "open", evidence |-> FALSE, propagated |-> {}]>>]
           /\ edges' = edges \cup {<<o, "subject_to_obligation", Len(obligations) + 1>> : o \in Contract[c.t].transferred_objects}
           /\ Len(log') = Len(log) + 1
           /\ call' = [call EXCEPT ![a] = IF Len(c.todo) = 1 THEN Idle ELSE [c EXCEPT !.todo = Tail(c.todo)]]
  <1>1. c \in MaterializeCall /\ c.op = "materialize" /\ c.todo # <<>>
    BY CallOf DEF IInv, Typed, _materialize_one, At
  <1>2. PICK o : o = [transfer |-> c.t, kind |-> Head(c.todo), trigger |-> c.trigger, began |-> c.began,
                      created |-> Len(log) + 1, bound_objects |-> Contract[c.t].transferred_objects,
                      revisions |-> <<[status |-> "open", evidence |-> FALSE, propagated |-> {}]>>]
    OBVIOUS
  <1>3. c.t \in Transfers /\ Head(c.todo) \in Kinds /\ c.trigger \in Nat /\ c.began \in Nat
    BY <1>1 DEF MaterializeCall
  <1>4. Contract[c.t].transferred_objects \in SUBSET Items /\ Len(log) + 1 \in Nat
    BY <1>3, FederationConstants DEF IInv, Typed
  <1>5. <<[status |-> "open", evidence |-> FALSE, propagated |-> {}]>> \in Seq(Revision)
    <2>1. [status |-> "open", evidence |-> FALSE, propagated |-> {}] \in Revision
      BY DEF Revision
    <2> QED
      BY <2>1
  <1>6. o \in ObligationRow
    BY <1>2, <1>3, <1>4, <1>5 DEF ObligationRow
  <1>7. obligations' = Append(obligations, o)
    BY <1>2 DEF _materialize_one, _build_obligation_body
  <1>8. PICK e : e = Event("obligation.created", c.t, Head(c.todo))
    OBVIOUS
  <1>9. /\ edges' = edges \cup {<<x, "subject_to_obligation", Len(obligations) + 1>> : x \in Contract[c.t].transferred_objects}
        /\ log' = Append(log, e)
    BY <1>8 DEF _materialize_one, bind_revision_with_edges
  <1>10. Len(log') = Len(log) + 1
    BY <1>9 DEF IInv, Typed
  <1>11. call' = [call EXCEPT ![a] = IF Len(c.todo) = 1 THEN Idle ELSE [c EXCEPT !.todo = Tail(c.todo)]]
    BY DEF _materialize_one, Goto
  <1> QED
    BY <1>1, <1>2, <1>6, <1>7, <1>9, <1>10, <1>11

\* The edges that bind objects to an obligation.
Binding(objects, ob) == {<<o, "subject_to_obligation", ob>> : o \in objects}

\* Revision r of an obligation o follows its last one; `new` are the objects bound with it.
Follows(o, r, bound, new) ==
    /\ Last(o.revisions).propagated \subseteq r.propagated
    /\ Last(o.revisions).status = r.status \/ <<Last(o.revisions).status, r.status>> \in ObligationTransitions
    /\ r.status = "resolved" <=> r.evidence
    /\ r.propagated \subseteq Downstream(o.bound_objects)
    /\ r.propagated \cup o.bound_objects \subseteq bound \cup new

\* What a call read of an obligation is still its last revision.
LEMMA LastRead ==
    ASSUME IInv, NEW a \in Actors, NEW c, c = call[a], c.op \in {"gather", "transition"},
           Fresh(c.ob, c.read)
    PROVE  /\ c.ob \in DOMAIN obligations /\ obligations[c.ob] \in ObligationRow
           /\ Revisions(c) # <<>> /\ Last(Revisions(c)) = Revisions(c)[c.read]
           /\ Last(Revisions(c)) \in Revision
           /\ Last(Revisions(c)).status = "resolved" <=> Last(Revisions(c)).evidence
           /\ Last(Revisions(c)).propagated \subseteq Downstream(obligations[c.ob].bound_objects)
           /\ Last(Revisions(c)).propagated \cup obligations[c.ob].bound_objects \subseteq BoundTo(c.ob)
  <1>1. Read(c)
    BY DEF IInv, Holds, HoldsRevision
  <1>2. c.ob \in DOMAIN obligations /\ obligations[c.ob] \in ObligationRow
    BY <1>1 DEF Read, IInv, Typed
  <1>3. Revisions(c) \in Seq(Revision) /\ Revisions(c) # <<>>
    BY <1>1, <1>2 DEF Read, Revisions, ObligationRow
  <1>4. /\ Lifecycle(Revisions(c))
        /\ Last(Revisions(c)).propagated \subseteq Downstream(obligations[c.ob].bound_objects)
        /\ Last(Revisions(c)).propagated \cup obligations[c.ob].bound_objects \subseteq BoundTo(c.ob)
    BY <1>2 DEF IInv, BindingInv, Revisions
  <1>5. Last(Revisions(c)) = Revisions(c)[c.read] /\ Last(Revisions(c)) \in Revision /\ c.read \in 1 .. Len(Revisions(c))
    BY <1>1, <1>3, LastIs DEF Fresh, Read, Revisions
  <1>6. Last(Revisions(c)).status = "resolved" <=> Last(Revisions(c)).evidence
    BY <1>4, <1>5 DEF Lifecycle
  <1> QED
    BY <1>2, <1>3, <1>4, <1>5, <1>6

LEMMA Revised ==
    ASSUME IInv, NEW a \in Actors, NEW c, c = call[a], Revises(a)
    PROVE  /\ c.ob \in DOMAIN obligations /\ obligations[c.ob] \in ObligationRow
           /\ \E r \in Revision, new \in SUBSET Items :
                 /\ obligations' = [obligations EXCEPT ![c.ob].revisions = Append(@, r)]
                 /\ edges' = edges \cup Binding(new, c.ob)
                 /\ Follows(obligations[c.ob], r, BoundTo(c.ob), new)
           /\ call' = [call EXCEPT ![a] = Idle]
  <1>1. CASE RecordTransition(a)
    <2>1. c \in TransitionCall /\ c.op = "transition"
      BY <1>1, CallOf DEF IInv, Typed, RecordTransition, At
    <2>2. /\ Fresh(c.ob, c.read) /\ NextRevision(c.ob, c.row) /\ edges' = edges
          /\ call' = [call EXCEPT ![a] = Idle]
      BY <1>1 DEF RecordTransition, Goto
    <2>3. PICK r \in Revision : r = c.row
      BY <2>1 DEF TransitionCall
    <2>4. /\ r.propagated = Revisions(c)[c.read].propagated
          /\ <<Revisions(c)[c.read].status, r.status>> \in ObligationTransitions
          /\ r.status = "resolved" <=> r.evidence
      BY <2>1, <2>3 DEF IInv, Holds, HoldsRevision
    <2>5. Follows(obligations[c.ob], r, BoundTo(c.ob), {})
      BY <2>1, <2>2, <2>4, LastRead DEF Follows, Revisions
    <2>6. edges' = edges \cup Binding({}, c.ob)
      BY <2>2 DEF Binding
    <2>7. obligations' = [obligations EXCEPT ![c.ob].revisions = Append(@, r)]
      BY <2>2, <2>3 DEF NextRevision
    <2> QED
      BY <2>1, <2>2, <2>5, <2>6, <2>7, LastRead
  <1>2. CASE RecordPropagation(a) /\ Missing(a) # {}
    <2>1. c \in GatherCall /\ c.op = "gather" /\ c.frontier = {}
      BY <1>2, CallOf DEF IInv, Typed, RecordPropagation, Gathered, At
    <2>2. Fresh(c.ob, c.read)
      BY <1>2 DEF RecordPropagation
    <2>3. PICK r : r = [Revisions(c)[c.read] EXCEPT !.propagated = c.found]
      OBVIOUS
    <2>4. PICK new : new = c.found \ BoundTo(c.ob)
      OBVIOUS
    <2>5. /\ NextRevision(c.ob, r) /\ call' = [call EXCEPT ![a] = Idle]
          /\ edges' = edges \cup Binding(new, c.ob)
      BY <1>2, <2>3, <2>4 DEF RecordPropagation, Missing, Goto, Revisions, bind_revision_with_edges, Binding
    <2>6. c.found \in SUBSET Items
      BY <2>1 DEF GatherCall
    <2>7. PICK last : last = Last(Revisions(c))
      OBVIOUS
    <2>8. /\ last \in Revision
          /\ last.status = "resolved" <=> last.evidence
          /\ r = [last EXCEPT !.propagated = c.found]
          /\ last.propagated \cup obligations[c.ob].bound_objects \subseteq BoundTo(c.ob)
      BY <2>1, <2>2, <2>3, <2>7, LastRead
    <2>9. r \in Revision /\ r.status = last.status /\ r.evidence = last.evidence /\ r.propagated = c.found
      <3>1. last = [status |-> last.status, evidence |-> last.evidence, propagated |-> last.propagated]
        BY <2>8 DEF Revision
      <3>2. r = [status |-> last.status, evidence |-> last.evidence, propagated |-> c.found]
        BY <2>8, <3>1
      <3>3. last.status \in {"open", "resolved", "deferred"} /\ last.evidence \in BOOLEAN
        BY <2>8 DEF Revision
      <3> QED
        BY <2>6, <3>2, <3>3 DEF Revision
    <2>10. /\ Traverses(c, obligations[c.ob].bound_objects)
           /\ last.propagated \subseteq c.downstream
      BY <2>1, <2>2, <2>7, LastRead DEF IInv, Holds, HoldsRevision
    <2>11. c.downstream \subseteq c.found /\ c.found \subseteq Downstream(obligations[c.ob].bound_objects)
      BY <2>1, <2>10, GatheredIsComplete
    <2>12. Follows(obligations[c.ob], r, BoundTo(c.ob), new)
      <3>1. Last(obligations[c.ob].revisions) = last
        BY <2>7 DEF Revisions
      <3>2. r.status = "resolved" <=> r.evidence
        BY <2>8, <2>9, Zenon
      <3> QED
        BY <2>4, <2>8, <2>9, <2>10, <2>11, <3>1, <3>2 DEF Follows
    <2>13. obligations' = [obligations EXCEPT ![c.ob].revisions = Append(@, r)]
      BY <2>5 DEF NextRevision
    <2>14. new \in SUBSET Items
      BY <2>4, <2>6
    <2> QED
      BY <2>1, <2>2, <2>5, <2>9, <2>12, <2>13, <2>14, LastRead
  <1> QED
    BY <1>1, <1>2 DEF Revises


\* An obligation keeps what it was created with, and its revisions.
Continues(o, p) ==
    /\ p.transfer = o.transfer /\ p.kind = o.kind /\ p.trigger = o.trigger /\ p.began = o.began
    /\ p.created = o.created /\ p.bound_objects = o.bound_objects
    /\ Len(o.revisions) <= Len(p.revisions)
    /\ \A i \in 1 .. Len(o.revisions) : p.revisions[i] = o.revisions[i]

LEMMA RevisionAppended ==
    ASSUME NEW o \in ObligationRow, NEW r \in Revision, NEW p, p = [o EXCEPT !.revisions = Append(o.revisions, r)]
    PROVE  /\ p \in ObligationRow /\ Continues(o, p) /\ p.revisions = Append(o.revisions, r)
  <1>1. /\ o = [transfer |-> o.transfer, kind |-> o.kind, trigger |-> o.trigger, began |-> o.began, created |-> o.created,
                bound_objects |-> o.bound_objects, revisions |-> o.revisions]
        /\ o.transfer \in Transfers /\ o.kind \in Kinds /\ o.trigger \in Nat /\ o.began \in Nat /\ o.created \in Nat
        /\ o.bound_objects \in SUBSET Items /\ o.revisions \in Seq(Revision)
    BY DEF ObligationRow
  <1>2. p = [transfer |-> o.transfer, kind |-> o.kind, trigger |-> o.trigger, began |-> o.began, created |-> o.created,
             bound_objects |-> o.bound_objects, revisions |-> Append(o.revisions, r)]
    BY <1>1
  <1>3. /\ Append(o.revisions, r) \in Seq(Revision) /\ Len(o.revisions) <= Len(Append(o.revisions, r))
        /\ \A i \in 1 .. Len(o.revisions) : Append(o.revisions, r)[i] = o.revisions[i]
    BY <1>1, AppendedTo
  <1> QED
    BY <1>1, <1>2, <1>3 DEF ObligationRow, Continues

\* A revision of one obligation leaves the others alone.
LEMMA ObligationRevised ==
    ASSUME IInv, NEW ob \in DOMAIN obligations, NEW r \in Revision,
           obligations' = [obligations EXCEPT ![ob].revisions = Append(@, r)]
    PROVE  /\ obligations' \in Seq(ObligationRow) /\ Len(obligations') = Len(obligations)
           /\ \A x \in DOMAIN obligations : x # ob => obligations'[x] = obligations[x]
           /\ obligations'[ob].revisions = Append(obligations[ob].revisions, r)
           /\ Continues(obligations[ob], obligations'[ob])
  <1>1. PICK o : o = obligations[ob]
    OBVIOUS
  <1>2. PICK p : p = [o EXCEPT !.revisions = Append(o.revisions, r)]
    OBVIOUS
  <1>3. obligations \in Seq(ObligationRow) /\ ob \in 1 .. Len(obligations) /\ o \in ObligationRow
    BY <1>1 DEF IInv, Typed
  <1>4. p \in ObligationRow /\ Continues(o, p) /\ p.revisions = Append(o.revisions, r)
    BY <1>2, <1>3, RevisionAppended
  <1>5. PICK new : new = obligations'
    OBVIOUS
  <1>6. new = [obligations EXCEPT ![ob] = p]
    BY <1>1, <1>2, <1>5
  <1>7. /\ new \in Seq(ObligationRow) /\ Len(new) = Len(obligations) /\ new[ob] = p
        /\ \A j \in 1 .. Len(obligations) : j # ob => new[j] = obligations[j]
    BY <1>3, <1>4, <1>6, Replaced
  <1> QED
    BY <1>1, <1>3, <1>4, <1>5, <1>7

LEMMA ObligationsKept ==
    ASSUME IInv, [Next]_vars
    PROVE  /\ obligations \in Seq(ObligationRow) /\ Len(obligations) \in Nat /\ DOMAIN obligations = 1 .. Len(obligations)
           /\ obligations' \in Seq(ObligationRow) /\ Len(obligations') \in Nat /\ DOMAIN obligations' = 1 .. Len(obligations')
           /\ Len(obligations) <= Len(obligations')
           /\ \A ob \in DOMAIN obligations : Continues(obligations[ob], obligations'[ob])
           /\ \A ob \in DOMAIN obligations' \ DOMAIN obligations :
                 obligations'[ob].created = Len(log) + 1 /\ Len(log') = Len(log) + 1
  <1>1. obligations \in Seq(ObligationRow)
    BY DEF IInv, Typed
  <1>2. \A o \in ObligationRow : Continues(o, o)
    BY DEF Continues, ObligationRow
  <1>3. CASE UNCHANGED obligations
    BY <1>1, <1>2, <1>3
  <1>4. ASSUME NEW a \in Actors, _materialize_one(a)
        PROVE  /\ \E o \in ObligationRow : obligations' = Append(obligations, o) /\ o.created = Len(log) + 1
               /\ Len(log') = Len(log) + 1
    BY <1>4, Materialized
  <1>5. ASSUME NEW a \in Actors, NEW o \in ObligationRow, obligations' = Append(obligations, o)
        PROVE  /\ obligations' \in Seq(ObligationRow) /\ Len(obligations') = Len(obligations) + 1
               /\ \A ob \in DOMAIN obligations : obligations'[ob] = obligations[ob]
               /\ obligations'[Len(obligations) + 1] = o
    BY <1>1, <1>5, AppendedTo
  <1>6. ASSUME NEW a \in Actors, Revises(a)
        PROVE  \E r \in Revision, ob \in DOMAIN obligations :
                  obligations' = [obligations EXCEPT ![ob].revisions = Append(@, r)]
    BY <1>6, Revised
  <1>7. ASSUME NEW r \in Revision, NEW ob \in DOMAIN obligations,
               obligations' = [obligations EXCEPT ![ob].revisions = Append(@, r)]
        PROVE  /\ obligations' \in Seq(ObligationRow) /\ Len(obligations') = Len(obligations)
               /\ \A x \in DOMAIN obligations : Continues(obligations[x], obligations'[x])
    <2>1. /\ obligations' \in Seq(ObligationRow) /\ Len(obligations') = Len(obligations)
          /\ \A x \in DOMAIN obligations : x # ob => obligations'[x] = obligations[x]
          /\ Continues(obligations[ob], obligations'[ob])
      BY <1>7, ObligationRevised
    <2>2. \A x \in DOMAIN obligations : obligations[x] \in ObligationRow
      BY <1>1
    <2> QED
      BY <1>2, <2>1, <2>2
  <1>8. CASE \E a \in Actors : _materialize_one(a)
    BY <1>1, <1>2, <1>4, <1>5, <1>8
  <1>9. CASE \E a \in Actors : Revises(a)
    BY <1>1, <1>6, <1>7, <1>9
  <1> QED
    BY <1>3, <1>8, <1>9, Only DEF OnlyThese

-----------------------------------------------------------------------------
(* What a write does to the responses and the edges *)

LEMMA Responded ==
    ASSUME IInv, NEW a \in Actors, NEW c, c = call[a], RecordResponse(a)
    PROVE  /\ c \in ResponseCall /\ c.op = "response"
           /\ \E r \in ResponseRow :
                 /\ responses' = Append(responses, r)
                 /\ r = [notification |-> c.notification, decision |-> c.decision, adaptations |-> c.adaptations,
                         began |-> c.began, created |-> Len(log) + 1]
           /\ edges' = edges \cup {<<pair[1], "corrects", pair[2]>> : pair \in c.adaptations}
           /\ Len(log') = Len(log) + 1
  <1>1. c \in ResponseCall /\ c.op = "response"
    BY CallOf DEF IInv, Typed, RecordResponse, At
  <1>2. PICK r : r = [notification |-> c.notification, decision |-> c.decision, adaptations |-> c.adaptations,
                      began |-> c.began, created |-> Len(log) + 1]
    OBVIOUS
  <1>3. r \in ResponseRow
    BY <1>1, <1>2 DEF ResponseCall, ResponseRow, IInv, Typed
  <1>4. responses' = Append(responses, r)
    BY <1>2 DEF RecordResponse
  <1>5. PICK e : e = Event("correction.response_recorded", c.notification, c.decision)
    OBVIOUS
  <1>6. edges' = edges \cup {<<pair[1], "corrects", pair[2]>> : pair \in c.adaptations} /\ log' = Append(log, e)
    BY <1>5 DEF RecordResponse, record_edges
  <1>7. Len(log') = Len(log) + 1
    BY <1>6 DEF IInv, Typed
  <1> QED
    BY <1>1, <1>2, <1>3, <1>4, <1>6, <1>7

LEMMA ResponsesKept ==
    ASSUME IInv, [Next]_vars
    PROVE  /\ responses \in Seq(ResponseRow) /\ Len(responses) \in Nat /\ DOMAIN responses = 1 .. Len(responses)
           /\ responses' \in Seq(ResponseRow) /\ Len(responses') \in Nat /\ DOMAIN responses' = 1 .. Len(responses')
           /\ Len(responses) <= Len(responses')
           /\ \A i \in DOMAIN responses : responses'[i] = responses[i]
           /\ \A i \in DOMAIN responses' \ DOMAIN responses :
                 responses'[i].created = Len(log) + 1 /\ Len(log') = Len(log) + 1
  <1>1. responses \in Seq(ResponseRow)
    BY DEF IInv, Typed
  <1>2. ASSUME NEW a \in Actors, RecordResponse(a)
        PROVE  /\ \E r \in ResponseRow : responses' = Append(responses, r) /\ r.created = Len(log) + 1
               /\ Len(log') = Len(log) + 1
    BY <1>2, Responded
  <1>3. ASSUME NEW r \in ResponseRow, responses' = Append(responses, r)
        PROVE  /\ responses' \in Seq(ResponseRow) /\ Len(responses') = Len(responses) + 1
               /\ \A i \in DOMAIN responses : responses'[i] = responses[i]
               /\ responses'[Len(responses) + 1] = r
    BY <1>1, <1>3, AppendedTo
  <1>4. CASE \E a \in Actors : RecordResponse(a)
    BY <1>1, <1>2, <1>3, <1>4
  <1>5. CASE UNCHANGED responses
    BY <1>1, <1>5
  <1> QED
    BY <1>4, <1>5, Only DEF OnlyThese

\* Edges are only added, each between stored objects or to an obligation; what corrects
\* an object does so by a response that was stored with it.
LEMMA EdgesKept ==
    ASSUME IInv, [Next]_vars
    PROVE  /\ edges \subseteq edges'
           /\ \A e \in edges' : e[1] \in Items /\ e[3] \in Items \cup DOMAIN obligations'
           /\ \A e \in edges' \ edges : e[2] = "corrects" =>
                 \E a \in Actors : /\ RecordResponse(a)
                                   /\ \E pair \in call[a].adaptations : e = <<pair[1], "corrects", pair[2]>>
  <1>1. /\ \A e \in edges : e[1] \in Items /\ e[3] \in Items \cup DOMAIN obligations
        /\ DOMAIN obligations \subseteq DOMAIN obligations'
    BY ObligationsKept DEF IInv, Typed
  <1>2. CASE UNCHANGED edges
    BY <1>1, <1>2
  <1>3. ASSUME NEW d \in Derivations, AddDerivation(d)
        PROVE  /\ edges' = edges \cup {<<d[1], "derived_from", d[2]>>} /\ d[1] \in Items /\ d[2] \in Items
    BY <1>3, FederationConstants DEF AddDerivation
  <1>4. CASE \E d \in Derivations : AddDerivation(d)
    BY <1>1, <1>3, <1>4
  <1>5. ASSUME NEW a \in Actors, _respond_adapted(a)
        PROVE  \E x \in Items, T \in SUBSET Items : edges' = edges \cup {<<x, "adapted_from", o>> : o \in T}
    <2>1. PICK c : c = call[a]
      OBVIOUS
    <2>2. c \in AdaptCall
      BY <1>5, <2>1, CallOf DEF IInv, Typed, _respond_adapted, At
    <2>3. c.object \in Items /\ Contract[c.t].transferred_objects \in SUBSET Items
      BY <2>2, FederationConstants DEF AdaptCall
    <2>4. edges' = edges \cup {<<c.object, "adapted_from", o>> : o \in Contract[c.t].transferred_objects}
      BY <1>5, <2>1 DEF _respond_adapted, record_edges
    <2> QED
      BY <2>3, <2>4
  <1>6. CASE \E a \in Actors : _respond_adapted(a)
    BY <1>1, <1>5, <1>6
  <1>7. ASSUME NEW a \in Actors, _materialize_one(a)
        PROVE  /\ \E T \in SUBSET Items : edges' = edges \cup {<<o, "subject_to_obligation", Len(obligations) + 1>> : o \in T}
               /\ Len(obligations) + 1 \in DOMAIN obligations'
    <2>1. PICK c : c = call[a]
      OBVIOUS
    <2>2. Contract[c.t].transferred_objects \in SUBSET Items
      BY <1>7, <2>1, Materialized, FederationConstants DEF MaterializeCall
    <2>3. edges' = edges \cup {<<o, "subject_to_obligation", Len(obligations) + 1>> : o \in Contract[c.t].transferred_objects}
      BY <1>7, <2>1, Materialized
    <2>4. PICK o \in ObligationRow : obligations' = Append(obligations, o)
      BY <1>7, <2>1, Materialized
    <2>5. Len(obligations) + 1 \in DOMAIN obligations'
      BY <2>4, AppendedTo DEF IInv, Typed
    <2> QED
      BY <2>2, <2>3, <2>5
  <1>8. CASE \E a \in Actors : _materialize_one(a)
    BY <1>1, <1>7, <1>8
  <1>9. ASSUME NEW a \in Actors, Revises(a)
        PROVE  \E T \in SUBSET Items, ob \in DOMAIN obligations :
                  edges' = edges \cup Binding(T, ob)
    <2>1. PICK c : c = call[a]
      OBVIOUS
    <2>2. /\ c.ob \in DOMAIN obligations
          /\ \E new \in SUBSET Items : edges' = edges \cup Binding(new, c.ob)
      BY <1>9, <2>1, Revised
    <2> QED
      BY <2>2
  <1>10. CASE \E a \in Actors : Revises(a)
    BY <1>1, <1>9, <1>10 DEF Binding
  <1>11. ASSUME NEW a \in Actors, RecordResponse(a)
         PROVE  /\ edges' = edges \cup {<<pair[1], "corrects", pair[2]>> : pair \in call[a].adaptations}
                /\ call[a].adaptations \subseteq Items \X Items
    <2>1. PICK c : c = call[a]
      OBVIOUS
    <2>2. c \in ResponseCall /\ edges' = edges \cup {<<pair[1], "corrects", pair[2]>> : pair \in c.adaptations}
      BY <1>11, <2>1, Responded
    <2>3. c.adaptations \subseteq Items \X Items
      BY <2>2, FederationConstants DEF ResponseCall
    <2> QED
      BY <2>1, <2>2, <2>3
  <1>12. CASE \E a \in Actors : RecordResponse(a)
    BY <1>1, <1>11, <1>12
  <1> QED
    BY <1>2, <1>4, <1>6, <1>8, <1>10, <1>12, Only DEF OnlyThese

-----------------------------------------------------------------------------
(* What a call holds after its read *)

\* The first check that fails is one of the checks, and there is none only if none fails.
LEMMA FirstFailureIs ==
    ASSUME NEW object, NEW ring, NEW at, NEW checks \in Seq(Checks)
    PROVE  /\ FirstFailure(object, ring, at, checks) \in Checks \cup {None}
           /\ FirstFailure(object, ring, at, checks) = None =>
                 \A i \in DOMAIN checks : ~Fails(object, ring, at, checks[i])
  <1> DEFINE failing == {i \in DOMAIN checks : Fails(object, ring, at, checks[i])}
             first == CHOOSE i \in failing : \A j \in failing : i <= j
  <1>1. FirstFailure(object, ring, at, checks) = IF failing = {} THEN None ELSE checks[first]
    BY DEF FirstFailure
  <1>2. failing \subseteq DOMAIN checks /\ failing \subseteq Nat
    OBVIOUS
  <1>3. failing # {} => first \in failing
    <2> HIDE DEF failing
    <2>1. failing # {} => \E i \in failing : \A j \in failing : i <= j
      BY <1>2, LeastNatural
    <2> QED
      BY <2>1
  <1>4. None \notin Checks
    BY FederationConstants DEF Checks
  <1>5. \A i \in failing : checks[i] \in Checks
    OBVIOUS
  <1>6. failing = {} => \A i \in DOMAIN checks : ~Fails(object, ring, at, checks[i])
    OBVIOUS
  <1> HIDE DEF failing, first
  <1> QED
    BY <1>1, <1>3, <1>4, <1>5, <1>6

LEMMA ConcatKeeps ==
    ASSUME NEW S, NEW s \in Seq(S), NEW r \in Seq(S), NEW i \in DOMAIN s
    PROVE  s \o r \in Seq(S) /\ i \in DOMAIN (s \o r) /\ (s \o r)[i] = s[i]
  OBVIOUS

LEMMA SignerChecks ==
    /\ resolve_trusted_signer_key \o verify_trusted_signature \in Seq(Checks)
    /\ resolve_trusted_signer_key \o <<"key_not_declared">> \o verify_trusted_signature \in Seq(Checks)
    /\ \E i \in DOMAIN (resolve_trusted_signer_key \o verify_trusted_signature) :
          (resolve_trusted_signer_key \o verify_trusted_signature)[i] = "key_not_valid"
    /\ \E i \in DOMAIN (resolve_trusted_signer_key \o <<"key_not_declared">> \o verify_trusted_signature) :
          (resolve_trusted_signer_key \o <<"key_not_declared">> \o verify_trusted_signature)[i] = "key_not_valid"
  <1>1. /\ resolve_trusted_signer_key \in Seq(Checks) /\ 3 \in DOMAIN resolve_trusted_signer_key
        /\ resolve_trusted_signer_key[3] = "key_not_valid" /\ verify_trusted_signature \in Seq(Checks)
    BY DEF resolve_trusted_signer_key, verify_trusted_signature, Checks, Defects
  <1>2. PICK d : d = <<"key_not_declared">>
    OBVIOUS
  <1>3. d \in Seq(Checks)
    BY <1>2 DEF Checks, Defects
  <1>4. PICK p, v : p = resolve_trusted_signer_key /\ v = verify_trusted_signature
    OBVIOUS
  <1>5. p \in Seq(Checks) /\ 3 \in DOMAIN p /\ p[3] = "key_not_valid" /\ v \in Seq(Checks)
    BY <1>1, <1>4
  <1>6. p \o v \in Seq(Checks) /\ 3 \in DOMAIN (p \o v) /\ (p \o v)[3] = "key_not_valid"
    BY <1>5, ConcatKeeps
  <1>7. PICK q : q = p \o d
    OBVIOUS
  <1>8. q \in Seq(Checks) /\ 3 \in DOMAIN q /\ q[3] = "key_not_valid"
    BY <1>3, <1>5, <1>7, ConcatKeeps
  <1>9. q \o v \in Seq(Checks) /\ 3 \in DOMAIN (q \o v) /\ (q \o v)[3] = "key_not_valid"
    BY <1>5, <1>8, ConcatKeeps
  <1> QED
    BY <1>2, <1>4, <1>6, <1>7, <1>9

\* A key that passes was active in the document the caller brought.
LEMMA PassesOnlyIfActive ==
    ASSUME NEW object, NEW p
    PROVE  /\ resolve_trusted_manifest_key(object, p, now) \in Checks \cup {None}
           /\ \/ resolve_trusted_transfer_key(object, p, now) = None
              \/ resolve_trusted_manifest_key(object, p, now) = None
              => p.keys[object.key].state = "active"
  BY SignerChecks, FirstFailureIs DEF resolve_trusted_manifest_key, resolve_trusted_transfer_key, Fails,
     is_valid_at, practice_key_ring

LEMMA IdleHolds == Idle \in Call /\ Holds(Idle)
  BY DEF Idle, Call, Holds, HoldsKey, HoldsDuties, HoldsRevision, HoldsResponse

\* The last move of a transfer that is offered is its offer.
LEMMA StatusIs ==
    ASSUME Typed, NEW t, _current_status(t) = "offered"
    PROVE  OfferedAt(t, Len(log))
  <1>1. MovesOf(t) = EventsOf({"transfer.offered", "transfer.responded"}, t) /\ MovesOf(t) \subseteq 1 .. Len(log) /\ Len(log) \in Nat
    BY DEF Typed, MovesOf, EventsOf
  <1>2. MovesOf(t) # {} /\ log[LastOf(MovesOf(t))].to = "offered"
    BY <1>1 DEF _current_status
  <1>3. LastOf(MovesOf(t)) \in MovesOf(t) /\ \A j \in MovesOf(t) : j <= LastOf(MovesOf(t))
    BY <1>1, <1>2, LastOfIs
  <1> QED
    BY <1>1, <1>2, <1>3 DEF OfferedAt

\* An accepting answer that was read as the latest is in force.
LEMMA DecisionIs ==
    ASSUME Typed, NEW t, _latest_transfer_decision(t).to \in _ACCEPTING_DECISIONS, NEW n \in Nat
    PROVE  InForce(t, _latest_transfer_decision(t).event, n)
  <1> DEFINE answers == EventsOf({"transfer.responded"}, t)
  <1>1. answers \subseteq 1 .. Len(log) /\ Len(log) \in Nat /\ DOMAIN log = 1 .. Len(log)
    BY DEF Typed, EventsOf
  <1>2. None \notin _ACCEPTING_DECISIONS
    BY FederationConstants DEF _ACCEPTING_DECISIONS, Decisions
  <1>3. answers # {}
    BY <1>2 DEF _latest_transfer_decision
  <1>4. _latest_transfer_decision(t) = [to |-> log[LastOf(answers)].to, event |-> LastOf(answers)]
    BY <1>3 DEF _latest_transfer_decision
  <1> HIDE DEF answers
  <1>5. PICK last : last = LastOf(answers)
    OBVIOUS
  <1>6. last \in answers /\ \A j \in answers : j <= last
    BY <1>1, <1>3, <1>5, LastOfIs
  <1>7. _latest_transfer_decision(t).event = last /\ log[last].to \in {"accepted", "adapted"}
    BY <1>4, <1>5 DEF _ACCEPTING_DECISIONS
  <1>8. last \in Nat /\ \A j \in answers : j \in Nat
    BY <1>1, <1>6
  <1>9. \A j \in answers : ~(last < j /\ j <= n)
    BY <1>6, <1>8
  <1> QED
    BY <1>1, <1>6, <1>7, <1>9 DEF InForce, answers


\* A read moves its caller to a call that holds what the store says.
MovesTo(a) == \E c \in Call : call' = [call EXCEPT ![a] = c] /\ Holds(c)

LEMMA ReceiveHolds ==
    ASSUME IInv, NEW a \in Actors, NEW m \in Manifests, receive(a, m)
    PROVE  MovesTo(a)
  <1>1. PICK reason : reason = resolve_trusted_manifest_key(m, trusted[a], now)
    OBVIOUS
  <1>2. trusted[a].version \in Nat /\ m.key \in Keys /\ Len(nodes[m.node]) \in Nat
    <2>1. m.node \in Nodes
      BY DEF Nodes
    <2> QED
      BY <2>1, FederationConstants DEF IInv, Typed, Document
  <1>3. CASE reason # None
    <2>1. PICK c : c = [op |-> "reject", m |-> m, reason |-> reason]
      OBVIOUS
    <2>2. call' = [call EXCEPT ![a] = c]
      BY <1>1, <1>3, <2>1 DEF receive, Enter
    <2>3. c \in RejectCall
      BY <1>1, <1>3, <2>1, PassesOnlyIfActive DEF RejectCall
    <2>4. c \in Call /\ Holds(c)
      BY <2>1, <2>3 DEF Call, Holds, HoldsKey, HoldsDuties, HoldsRevision, HoldsResponse
    <2> QED
      BY <2>2, <2>4 DEF MovesTo
  <1>4. CASE reason = None
    <2>1. PICK c : c = [op |-> "register", m |-> m, read |-> Len(nodes[m.node]), copy |-> trusted[a].version]
      OBVIOUS
    <2>2. call' = [call EXCEPT ![a] = c]
      BY <1>1, <1>4, <2>1 DEF receive, Enter
    <2>3. c \in RegisterCall
      BY <1>2, <2>1 DEF RegisterCall
    <2>4. Trusted(m.key, trusted[a].version)
      BY <1>1, <1>2, <1>4, PassesOnlyIfActive DEF IInv, KeysInv
    <2>5. c \in Call /\ Holds(c)
      BY <2>1, <2>3, <2>4 DEF Call, Holds, HoldsKey, HoldsDuties, HoldsRevision, HoldsResponse
    <2> QED
      BY <2>2, <2>5 DEF MovesTo
  <1> QED
    BY <1>3, <1>4

LEMMA CreateHolds ==
    ASSUME IInv, NEW a \in Actors, NEW t \in Transfers, transfer_create(a, t)
    PROVE  MovesTo(a)
  <1>1. PICK c : c = [op |-> "create", t |-> t]
    OBVIOUS
  <1>2. call' = [call EXCEPT ![a] = c]
    BY <1>1 DEF transfer_create, Enter
  <1>3. c \in Call /\ Holds(c)
    BY <1>1 DEF Call, CreateCall, Holds, HoldsKey, HoldsDuties, HoldsRevision, HoldsResponse
  <1> QED
    BY <1>2, <1>3 DEF MovesTo

LEMMA OfferHolds ==
    ASSUME IInv, NEW a \in Actors, NEW t \in Transfers, offer(a, t)
    PROVE  MovesTo(a)
  <1>1. PICK c : c = [op |-> "move", t |-> t, type |-> "transfer.offered", to |-> "offered", copy |-> None,
                      began |-> Len(log)]
    OBVIOUS
  <1>2. call' = [call EXCEPT ![a] = c]
    BY <1>1 DEF offer, Enter
  <1>3. Len(log) \in Nat
    BY DEF IInv, Typed
  <1>4. c \in Call /\ Holds(c)
    BY <1>1, <1>3 DEF Call, MoveCall, Holds, HoldsKey, HoldsDuties, HoldsRevision, HoldsResponse
  <1> QED
    BY <1>2, <1>4 DEF MovesTo

LEMMA RespondHolds ==
    ASSUME IInv, NEW a \in Actors, NEW t \in Transfers, NEW d \in Decisions, NEW o \in Adaptations, respond(a, t, d, o)
    PROVE  MovesTo(a)
  <1>1. Len(log) \in Nat /\ trusted[a].version \in Nat /\ Contract[t].key \in Keys
    BY FederationConstants DEF IInv, Typed, Document
  <1>2. Trusted(Contract[t].key, trusted[a].version)
    BY <1>1, PassesOnlyIfActive DEF respond, IInv, KeysInv
  <1>3. OfferedAt(t, Len(log))
    <2>1. _current_status(t) = "offered"
      BY DEF respond, TransferTransitions, Decisions
    <2> QED
      BY <2>1, StatusIs DEF IInv
  <1>4. CASE d = "adapted"
    <2>1. PICK c : c = [op |-> "adapt", t |-> t, object |-> o, copy |-> trusted[a].version, began |-> Len(log)]
      OBVIOUS
    <2>2. call' = [call EXCEPT ![a] = c]
      BY <1>4, <2>1 DEF respond, Enter
    <2>3. c \in Call
      BY <1>1, <2>1 DEF Call, AdaptCall
    <2>4. Holds(c)
      BY <1>1, <1>2, <1>3, <2>1 DEF Holds, HoldsKey, HoldsDuties, HoldsRevision, HoldsResponse
    <2> QED
      BY <2>2, <2>3, <2>4 DEF MovesTo
  <1>5. CASE d # "adapted"
    <2>1. PICK c : c = [op |-> "move", t |-> t, type |-> "transfer.responded", to |-> d,
                        copy |-> trusted[a].version, began |-> Len(log)]
      OBVIOUS
    <2>2. call' = [call EXCEPT ![a] = c]
      BY <1>5, <2>1 DEF respond, Enter
    <2>3. c \in Call
      BY <1>1, <2>1 DEF Call, MoveCall
    <2>4. Holds(c)
      BY <1>1, <1>2, <1>3, <1>5, <2>1 DEF Holds, HoldsKey, HoldsDuties, HoldsRevision, HoldsResponse
    <2> QED
      BY <2>2, <2>3, <2>4 DEF MovesTo
  <1> QED
    BY <1>4, <1>5

LEMMA MaterializeHolds ==
    ASSUME IInv, NEW a \in Actors, NEW t \in Transfers, materialize_from_transfer(a, t)
    PROVE  MovesTo(a)
  <1>1. PICK c : c = [op |-> "decide", t |-> t, began |-> Len(log)]
    OBVIOUS
  <1>2. call' = [call EXCEPT ![a] = c]
    BY <1>1 DEF materialize_from_transfer, Enter
  <1>3. Len(log) \in Nat
    BY DEF IInv, Typed
  <1>4. NoneBefore(t, Len(log))
    BY <1>3 DEF materialize_from_transfer, _materialized_obligation_ids_for, NoneBefore
  <1>5. c \in Call /\ Holds(c)
    BY <1>1, <1>3, <1>4 DEF Call, DecideCall, Holds, HoldsKey, HoldsDuties, HoldsRevision, HoldsResponse
  <1> QED
    BY <1>2, <1>5 DEF MovesTo

LEMMA ReadDecisionHolds ==
    ASSUME IInv, NEW a \in Actors, ReadDecision(a)
    PROVE  MovesTo(a)
  <1>1. PICK c : c = call[a]
    OBVIOUS
  <1>2. c \in DecideCall /\ c.op = "decide"
    BY <1>1, CallOf DEF IInv, Typed, ReadDecision, At
  <1>3. c.t \in Transfers /\ c.began \in Nat /\ NoneBefore(c.t, c.began)
    BY <1>1, <1>2 DEF DecideCall, IInv, Holds, HoldsDuties
  <1>4. PICK trigger : trigger = _latest_transfer_decision(c.t).event
    OBVIOUS
  <1>5. InForce(c.t, trigger, c.began) /\ trigger \in Nat
    BY <1>1, <1>3, <1>4, DecisionIs DEF ReadDecision, IInv, InForce, Typed
  <1>6. CASE Duties(c.t) = <<>>
    <2>1. call' = [call EXCEPT ![a] = Idle]
      BY <1>1, <1>6 DEF ReadDecision, Goto
    <2> QED
      BY <2>1, IdleHolds DEF MovesTo
  <1>7. CASE Duties(c.t) # <<>>
    <2>1. PICK d : d = [op |-> "materialize", t |-> c.t, began |-> c.began, trigger |-> trigger, todo |-> Duties(c.t)]
      OBVIOUS
    <2>2. call' = [call EXCEPT ![a] = d]
      BY <1>1, <1>4, <1>7, <2>1 DEF ReadDecision, Goto
    <2>3. d \in Call
      BY <1>3, <1>5, <2>1, DutiesAre DEF Call, MaterializeCall
    <2>4. Holds(d)
      BY <1>3, <1>5, <1>7, <2>1 DEF Holds, HoldsKey, HoldsDuties, HoldsRevision, HoldsResponse
    <2> QED
      BY <2>2, <2>3, <2>4 DEF MovesTo
  <1> QED
    BY <1>6, <1>7


\* The last revision of an obligation.
LEMMA LatestIs ==
    ASSUME IInv, NEW ob \in DOMAIN obligations
    PROVE  /\ ob \in Nat /\ Latest(ob) \in Revision /\ obligations[ob].bound_objects \in SUBSET Items
           /\ Len(obligations[ob].revisions) \in 1 .. Len(obligations[ob].revisions)
           /\ Latest(ob) = obligations[ob].revisions[Len(obligations[ob].revisions)]
           /\ Latest(ob).propagated \subseteq Downstream(obligations[ob].bound_objects)
  <1>1. obligations[ob] \in ObligationRow /\ ob \in Nat
    BY DEF IInv, Typed
  <1>2. /\ obligations[ob].revisions \in Seq(Revision) /\ obligations[ob].bound_objects \in SUBSET Items
        /\ obligations[ob].revisions # <<>>
        /\ Last(obligations[ob].revisions).propagated \subseteq Downstream(obligations[ob].bound_objects)
    BY <1>1 DEF ObligationRow, IInv, BindingInv, Lifecycle
  <1> QED
    BY <1>1, <1>2, LastIs DEF Latest

LEMMA PropagateHolds ==
    ASSUME IInv, NEW a \in Actors, NEW ob \in DOMAIN obligations, propagate(a, ob)
    PROVE  MovesTo(a)
  <1>1. PICK seeds : seeds = obligations[ob].bound_objects
    OBVIOUS
  <1>2. PICK c : c = [op |-> "gather", ob |-> ob, read |-> Len(obligations[ob].revisions),
                      frontier |-> seeds, visited |-> {}, found |-> {}, downstream |-> Downstream(seeds)]
    OBVIOUS
  <1>3. call' = [call EXCEPT ![a] = c]
    BY <1>1, <1>2 DEF propagate, Enter
  <1>4. Downstream(seeds) = DownstreamIn(edges, seeds) /\ Downstream(seeds) \in SUBSET Items
    BY DownstreamIs DEF IInv
  <1>5. Traverses(c, seeds)
    BY <1>2, <1>4 DEF Traverses
  <1>6. c \in Call
    <2>1. ob \in Nat /\ seeds \in SUBSET Items /\ Len(obligations[ob].revisions) \in Nat
      BY <1>1, LatestIs
    <2> QED
      BY <1>2, <1>4, <2>1 DEF Call, GatherCall
  <1>7. Read(c) /\ Revisions(c)[c.read].propagated \subseteq c.downstream
    BY <1>1, <1>2, LatestIs DEF Read, Revisions
  <1>8. Holds(c)
    BY <1>1, <1>2, <1>5, <1>7 DEF Holds, HoldsKey, HoldsDuties, HoldsRevision, HoldsResponse
  <1> QED
    BY <1>3, <1>6, <1>8 DEF MovesTo

LEMMA TransitionHolds ==
    ASSUME IInv, NEW a \in Actors, NEW ob \in DOMAIN obligations, resolve(a, ob, TRUE) \/ defer(a, ob)
    PROVE  MovesTo(a)
  <1>1. PICK to, evidence : /\ evidence \in BOOLEAN /\ to \in {"resolved", "deferred"}
                            /\ to = "resolved" <=> evidence
                            /\ _transition(a, ob, to, evidence)
    BY DEF resolve, defer
  <1>2. PICK last : last = Latest(ob)
    OBVIOUS
  <1>3. PICK row : row = [status |-> to, evidence |-> evidence, propagated |-> last.propagated]
    OBVIOUS
  <1>4. last \in Revision /\ last = [status |-> last.status, evidence |-> last.evidence, propagated |-> last.propagated]
    BY <1>2, LatestIs DEF Revision
  <1>5. row = [last EXCEPT !.status = to, !.evidence = evidence]
    <2>1. PICK mid : mid = [last EXCEPT !.status = to]
      OBVIOUS
    <2>2. mid = [status |-> to, evidence |-> last.evidence, propagated |-> last.propagated]
      BY <1>4, <2>1
    <2>3. row = [mid EXCEPT !.evidence = evidence]
      BY <1>3, <2>2
    <2> QED
      BY <2>1, <2>3
  <1>6. PICK c : c = [op |-> "transition", ob |-> ob, read |-> Len(obligations[ob].revisions), row |-> row]
    OBVIOUS
  <1>7. call' = [call EXCEPT ![a] = c] /\ <<last.status, to>> \in ObligationTransitions
    BY <1>1, <1>2, <1>5, <1>6 DEF _transition, Enter
  <1>8. c \in Call
    <2>1. row \in Revision
      BY <1>1, <1>3, <1>4 DEF Revision
    <2> QED
      BY <1>6, <2>1, LatestIs DEF Call, TransitionCall
  <1>9. Read(c) /\ Revisions(c)[c.read] = last
    BY <1>2, <1>6, LatestIs DEF Read, Revisions
  <1>10. row.status = to /\ row.propagated = last.propagated
    BY <1>3
  <1>11. row.status = "resolved" <=> row.evidence
    <2>1. row.evidence = evidence
      BY <1>3
    <2> QED
      BY <1>1, <1>10, <2>1, Zenon
  <1>12. c.op = "transition" /\ c.row = row
    BY <1>6
  <1>13. HoldsRevision(c)
    BY <1>7, <1>9, <1>10, <1>11, <1>12 DEF HoldsRevision
  <1>14. Holds(c)
    BY <1>6, <1>13 DEF Holds, HoldsKey, HoldsDuties, HoldsResponse
  <1> QED
    BY <1>7, <1>8, <1>14 DEF MovesTo

LEMMA ResponseHolds ==
    ASSUME IInv, NEW a \in Actors, NEW n \in Notifications, NEW d \in ResponseDecisions, NEW reason \in BOOLEAN,
           NEW pairs \in Adaptings, record_response(a, n, d, reason, pairs)
    PROVE  MovesTo(a)
  <1>1. PICK c : c = [op |-> "response", began |-> Len(log), notification |-> n, decision |-> d, adaptations |-> pairs]
    OBVIOUS
  <1>2. call' = [call EXCEPT ![a] = c]
    BY <1>1 DEF record_response, Enter
  <1>3. Len(log) \in Nat
    BY DEF IInv, Typed
  <1>4. /\ pairs # {} => d = "adapt"
        /\ \A pair \in pairs : pair[2] \in Notified[n]
        /\ \A i \in DOMAIN responses : responses[i].notification # n
    BY DEF record_response, _adaptations_required_iff_adapt, _adaptations_reference_notified_object_ids,
           already_responded
  <1>5. c \in Call
    BY <1>1, <1>3 DEF Call, ResponseCall
  <1>6. Holds(c)
    BY <1>1, <1>3, <1>4 DEF Holds, HoldsKey, HoldsDuties, HoldsRevision, HoldsResponse
  <1> QED
    BY <1>2, <1>5, <1>6 DEF MovesTo

LEMMA GatherHolds ==
    ASSUME IInv, NEW a \in Actors, _gather_binding_edges(a)
    PROVE  MovesTo(a)
  <1>1. PICK c : c = call[a]
    OBVIOUS
  <1>2. PICK o \in c.frontier :
           /\ At(a, "gather")
           /\ call' = [call EXCEPT ![a] = [c EXCEPT !.frontier = (@ \ {o}) \cup (SourcesOf(o) \ (c.visited \cup {o})),
                                                    !.visited = @ \cup {o}, !.found = @ \cup SourcesOf(o)]]
    BY <1>1 DEF _gather_binding_edges, Goto
  <1>3. c \in GatherCall /\ c.op = "gather"
    BY <1>1, <1>2, CallOf DEF IInv, Typed, At
  <1>4. /\ Read(c) /\ Traverses(c, obligations[c.ob].bound_objects)
        /\ Revisions(c)[c.read].propagated \subseteq c.downstream
    BY <1>1, <1>3 DEF IInv, Holds, HoldsRevision
  <1>5. PICK d : d = [op |-> "gather", ob |-> c.ob, read |-> c.read,
                      frontier |-> (c.frontier \ {o}) \cup (SourcesOf(o) \ (c.visited \cup {o})),
                      visited |-> c.visited \cup {o}, found |-> c.found \cup SourcesOf(o), downstream |-> c.downstream]
    OBVIOUS
  <1>6. call' = [call EXCEPT ![a] = d]
    <2>1. c = [op |-> "gather", ob |-> c.ob, read |-> c.read, frontier |-> c.frontier,
               visited |-> c.visited, found |-> c.found, downstream |-> c.downstream]
      BY <1>3 DEF GatherCall
    <2>2. d = [c EXCEPT !.frontier = (@ \ {o}) \cup (SourcesOf(o) \ (c.visited \cup {o})),
                        !.visited = @ \cup {o}, !.found = @ \cup SourcesOf(o)]
      <3>1. PICK asked : asked = [c EXCEPT !.frontier = (c.frontier \ {o}) \cup (SourcesOf(o) \ (c.visited \cup {o}))]
        OBVIOUS
      <3>2. asked = [op |-> "gather", ob |-> c.ob, read |-> c.read,
                     frontier |-> (c.frontier \ {o}) \cup (SourcesOf(o) \ (c.visited \cup {o})),
                     visited |-> c.visited, found |-> c.found, downstream |-> c.downstream]
        BY <2>1, <3>1
      <3>3. PICK seen : seen = [asked EXCEPT !.visited = c.visited \cup {o}]
        OBVIOUS
      <3>4. seen = [op |-> "gather", ob |-> c.ob, read |-> c.read,
                    frontier |-> (c.frontier \ {o}) \cup (SourcesOf(o) \ (c.visited \cup {o})),
                    visited |-> c.visited \cup {o}, found |-> c.found, downstream |-> c.downstream]
        BY <3>2, <3>3
      <3>5. d = [seen EXCEPT !.found = c.found \cup SourcesOf(o)]
        BY <1>5, <3>4
      <3> QED
        BY <3>1, <3>3, <3>5
    <2> QED
      BY <1>2, <2>2
  <1>7. SourcesOf(o) \subseteq Items
    BY SourcesAre DEF IInv
  <1>8. d \in Call
    BY <1>3, <1>5, <1>7 DEF Call, GatherCall
  <1>9. Traverses(d, obligations[c.ob].bound_objects)
    BY <1>4, <1>5, GatherStep DEF IInv
  <1>10. Holds(d)
    BY <1>4, <1>5, <1>9 DEF Holds, HoldsKey, HoldsDuties, HoldsRevision, HoldsResponse, Read, Revisions
  <1> QED
    BY <1>6, <1>8, <1>10 DEF MovesTo

LEMMA ReadsHold ==
    ASSUME IInv, NEW a \in Actors, Reads(a)
    PROVE  MovesTo(a)
  <1>1. CASE Raise(a)
    BY <1>1, IdleHolds DEF Raise, Goto, MovesTo
  <1>2. CASE ~Raise(a)
    BY <1>2, ReceiveHolds, CreateHolds, OfferHolds, RespondHolds, MaterializeHolds, ReadDecisionHolds, PropagateHolds,
       TransitionHolds, ResponseHolds, GatherHolds DEF Reads
  <1> QED
    BY <1>1, <1>2

-----------------------------------------------------------------------------
(* What a call holds, it keeps through the steps of the others *)

LEMMA HoldsKeyKept ==
    ASSUME IInv, [Next]_vars, NEW c \in Call, HoldsKey(c)
    PROVE  HoldsKey(c)'
  <1>1. ASSUME c.op = "register" PROVE Trusted(c.m.key, c.copy)'
    <2>1. c.m.key \in Keys /\ c.copy \in Nat
      BY <1>1, CallOf, FederationConstants DEF RegisterCall
    <2> QED
      BY <1>1, <2>1, TrustKept DEF HoldsKey, IInv
  <1>2. ASSUME c.op = "adapt" \/ (c.op = "move" /\ c.type = "transfer.responded")
        PROVE  /\ Trusted(Contract[c.t].key, c.copy)'
               /\ c.began \in 0 .. Len(log') /\ OfferedAt(c.t, c.began)'
    <2>1. Contract[c.t].key \in Keys /\ c.copy \in Nat \cup {None}
      BY <1>2, CallOf, FederationConstants DEF MoveCall, AdaptCall
    <2>2. Trusted(Contract[c.t].key, c.copy) /\ c.began \in 0 .. Len(log) /\ OfferedAt(c.t, c.began)
      BY <1>2 DEF HoldsKey
    <2>3. c.began \in 0 .. Len(log')
      BY <2>2, LogKept
    <2> QED
      BY <2>1, <2>2, <2>3, TrustKept, OfferedKept DEF IInv
  <1> QED
    BY <1>1, <1>2 DEF HoldsKey

LEMMA NoneBeforeKept ==
    ASSUME IInv, [Next]_vars, NEW t, NEW n, NoneBefore(t, n)
    PROVE  NoneBefore(t, n)'
  <1>1. /\ n \in 0 .. Len(log) /\ Len(log) \in Nat
        /\ \A ob \in DOMAIN obligations : obligations[ob].transfer = t => n < obligations[ob].created
    BY LogKept DEF NoneBefore
  <1>2. ASSUME NEW ob \in DOMAIN obligations', obligations'[ob].transfer = t
        PROVE  n < obligations'[ob].created
    <2>1. CASE ob \in DOMAIN obligations
      BY <1>1, <1>2, <2>1, ObligationsKept DEF Continues
    <2>2. CASE ob \notin DOMAIN obligations
      BY <1>1, <1>2, <2>2, ObligationsKept
    <2> QED
      BY <2>1, <2>2
  <1>3. n \in 0 .. Len(log')
    BY <1>1, LogKept
  <1> QED
    BY <1>2, <1>3 DEF NoneBefore

LEMMA DutiesOfGrow ==
    ASSUME IInv, [Next]_vars, NEW t, NEW n
    PROVE  DutiesOf(t, n) \subseteq DutiesOf(t, n)'
  <1>1. ASSUME NEW ob \in DOMAIN obligations, obligations[ob].transfer = t, obligations[ob].began = n
        PROVE  /\ ob \in DOMAIN obligations' /\ obligations'[ob].transfer = t /\ obligations'[ob].began = n
               /\ obligations'[ob].kind = obligations[ob].kind
    BY <1>1, ObligationsKept DEF Continues
  <1> QED
    BY <1>1 DEF DutiesOf

LEMMA HoldsDutiesKept ==
    ASSUME IInv, [Next]_vars, NEW c \in Call, HoldsDuties(c)
    PROVE  HoldsDuties(c)'
  <1>1. c.op \in {"decide", "materialize"} => NoneBefore(c.t, c.began)'
    BY NoneBeforeKept DEF HoldsDuties
  <1>2. ASSUME c.op = "materialize"
        PROVE  /\ InForce(c.t, c.trigger, c.began)'
               /\ ToSet(Duties(c.t)) \subseteq DutiesOf(c.t, c.began)' \cup ToSet(c.todo)
    <2>1. c.began \in 0 .. Len(log) /\ InForce(c.t, c.trigger, c.began)
      BY <1>2 DEF HoldsDuties, NoneBefore
    <2>2. ToSet(Duties(c.t)) \subseteq DutiesOf(c.t, c.began) \cup ToSet(c.todo)
      BY <1>2 DEF HoldsDuties
    <2> QED
      BY <2>1, <2>2, InForceKept, DutiesOfGrow
  <1>3. c.op = "materialize" => c.todo # <<>> /\ ToSet(c.todo) \subseteq ToSet(Duties(c.t))
    BY DEF HoldsDuties
  <1> QED
    BY <1>1, <1>2, <1>3 DEF HoldsDuties

\* What was read of an obligation stays, and so does what a traversal has found.
LEMMA HoldsRevisionKept ==
    ASSUME IInv, [Next]_vars, Typed', NEW c \in Call, HoldsRevision(c)
    PROVE  HoldsRevision(c)'
  <1>1. ASSUME Read(c)
        PROVE  /\ Read(c)' /\ Revisions(c)'[c.read] = Revisions(c)[c.read]
               /\ obligations'[c.ob].bound_objects = obligations[c.ob].bound_objects
    <2>1. c.ob \in DOMAIN obligations /\ c.read \in 1 .. Len(obligations[c.ob].revisions)
      BY <1>1 DEF Read, Revisions
    <2>2. c.ob \in DOMAIN obligations' /\ Continues(obligations[c.ob], obligations'[c.ob])
      BY <2>1, ObligationsKept
    <2>3. Len(obligations[c.ob].revisions) \in Nat /\ Len(obligations'[c.ob].revisions) \in Nat
      <3>1. obligations[c.ob] \in ObligationRow /\ obligations'[c.ob] \in ObligationRow
        BY <2>1, <2>2, ObligationsKept
      <3>2. \A o \in ObligationRow : Len(o.revisions) \in Nat
        BY DEF ObligationRow
      <3> QED
        BY <3>1, <3>2
    <2>4. c.read \in 1 .. Len(obligations'[c.ob].revisions)
      BY <2>1, <2>2, <2>3 DEF Continues
    <2> QED
      BY <2>1, <2>2, <2>4 DEF Read, Revisions, Continues
  <1>2. ASSUME NEW seeds, Traverses(c, seeds)
        PROVE  Traverses(c, seeds)'
    <2>1. edges \subseteq edges'
      BY EdgesKept
    <2>2. Downstream(seeds) \subseteq Downstream(seeds)'
      BY <2>1, DownstreamGrows DEF IInv
    <2>3. PICK E \in SUBSET edges : /\ c.downstream = DownstreamIn(E, seeds)
                                    /\ \A v \in c.visited : SourcesIn(E, v) \subseteq c.found
      BY <1>2 DEF Traverses
    <2>4. E \in SUBSET edges'
      BY <2>1
    <2> QED
      BY <1>2, <2>2, <2>3, <2>4 DEF Traverses
  <1>3. ASSUME c.op = "gather"
        PROVE  /\ Read(c)' /\ Traverses(c, obligations[c.ob].bound_objects)'
               /\ Revisions(c)'[c.read].propagated \subseteq c.downstream
    <2>1. /\ Read(c) /\ Traverses(c, obligations[c.ob].bound_objects)
          /\ Revisions(c)[c.read].propagated \subseteq c.downstream
      BY <1>3 DEF HoldsRevision
    <2>2. PICK seeds : seeds = obligations[c.ob].bound_objects
      OBVIOUS
    <2>3. Traverses(c, seeds)'
      BY <1>2, <2>1, <2>2
    <2>4. seeds = obligations'[c.ob].bound_objects
      BY <1>1, <2>1, <2>2
    <2> QED
      BY <1>1, <2>1, <2>3, <2>4
  <1>4. ASSUME c.op = "transition"
        PROVE  /\ Read(c)' /\ c.row.propagated = Revisions(c)'[c.read].propagated
               /\ <<Revisions(c)'[c.read].status, c.row.status>> \in ObligationTransitions
               /\ c.row.status = "resolved" <=> c.row.evidence
    BY <1>1, <1>4 DEF HoldsRevision
  <1> QED
    BY <1>3, <1>4 DEF HoldsRevision

LEMMA HoldsResponseKept ==
    ASSUME IInv, [Next]_vars, NEW c \in Call, HoldsResponse(c)
    PROVE  HoldsResponse(c)'
  <1> SUFFICES ASSUME c.op = "response"
               PROVE  /\ c.began \in 0 .. Len(log')
                      /\ c.adaptations # {} => c.decision = "adapt"
                      /\ \A pair \in c.adaptations : pair[2] \in Notified[c.notification]
                      /\ \A i \in DOMAIN responses' : responses'[i].notification = c.notification => c.began < responses'[i].created
    BY DEF HoldsResponse
  <1>1. /\ c.began \in 0 .. Len(log) /\ Len(log) \in Nat
        /\ c.adaptations # {} => c.decision = "adapt"
        /\ \A pair \in c.adaptations : pair[2] \in Notified[c.notification]
        /\ \A i \in DOMAIN responses : responses[i].notification = c.notification => c.began < responses[i].created
    BY LogKept DEF HoldsResponse
  <1>2. ASSUME NEW i \in DOMAIN responses', responses'[i].notification = c.notification
        PROVE  c.began < responses'[i].created
    <2>1. CASE i \in DOMAIN responses
      BY <1>1, <1>2, <2>1, ResponsesKept
    <2>2. CASE i \notin DOMAIN responses
      BY <1>1, <1>2, <2>2, ResponsesKept
    <2> QED
      BY <2>1, <2>2
  <1>3. c.began \in 0 .. Len(log')
    BY <1>1, LogKept
  <1> QED
    BY <1>1, <1>2, <1>3

LEMMA HoldsKept ==
    ASSUME IInv, [Next]_vars, Typed', NEW c \in Call, Holds(c)
    PROVE  Holds(c)'
  BY HoldsKeyKept, HoldsDutiesKept, HoldsRevisionKept, HoldsResponseKept DEF Holds

-----------------------------------------------------------------------------
(* The calls after a step *)

LEMMA ToSetTail ==
    ASSUME NEW s \in Seq(Kinds), s # <<>>
    PROVE  /\ Head(s) \in ToSet(s) /\ ToSet(Tail(s)) \subseteq ToSet(s) /\ ToSet(s) \subseteq {Head(s)} \cup ToSet(Tail(s))
           /\ Len(s) # 1 => Tail(s) # <<>>
           /\ Len(s) = 1 => ToSet(s) \subseteq {Head(s)}
           /\ Tail(s) \in Seq(Kinds)
  <1>1. Len(s) \in Nat \ {0} /\ DOMAIN s = 1 .. Len(s) /\ Head(s) = s[1]
    OBVIOUS
  <1>2. /\ Tail(s) \in Seq(Kinds) /\ Len(Tail(s)) = Len(s) - 1 /\ DOMAIN Tail(s) = 1 .. Len(s) - 1
        /\ \A i \in 1 .. Len(s) - 1 : Tail(s)[i] = s[i + 1]
    OBVIOUS
  <1>3. \A i \in DOMAIN s : i = 1 \/ (i - 1 \in DOMAIN Tail(s) /\ Tail(s)[i - 1] = s[i])
    BY <1>1, <1>2
  <1>4. \A i \in DOMAIN Tail(s) : i + 1 \in DOMAIN s /\ Tail(s)[i] = s[i + 1]
    BY <1>1, <1>2
  <1>5. Len(s) # 1 => Tail(s) # <<>>
    <2>1. PICK tail : tail = Tail(s)
      OBVIOUS
    <2>2. Len(tail) = Len(s) - 1
      BY <1>2, <2>1
    <2>3. Len(s) # 1 => Len(tail) # 0
      BY <1>1, <2>2
    <2>4. tail = <<>> => Len(tail) = 0
      OBVIOUS
    <2> QED
      BY <2>1, <2>3, <2>4
  <1>6. Len(s) = 1 => ToSet(s) \subseteq {Head(s)}
    BY <1>1 DEF ToSet
  <1>7. Head(s) \in ToSet(s)
    BY <1>1 DEF ToSet
  <1>8. ToSet(Tail(s)) \subseteq ToSet(s)
    BY <1>4 DEF ToSet
  <1>9. ToSet(s) \subseteq {Head(s)} \cup ToSet(Tail(s))
    BY <1>1, <1>3 DEF ToSet
  <1> QED
    BY <1>2, <1>5, <1>6, <1>7, <1>8, <1>9

\* The duty a call has just stored is one of its duties; the rest is still to do.
LEMMA MaterializedHolds ==
    ASSUME IInv, [Next]_vars, NEW a \in Actors, NEW c, c = call[a], _materialize_one(a)
    PROVE  /\ Len(c.todo) # 1 =>
                  \E d \in Call : /\ d = [c EXCEPT !.todo = Tail(c.todo)]
                                  /\ d.op = "materialize" /\ d.t = c.t /\ d.began = c.began /\ HoldsDuties(d)'
           /\ Len(c.todo) = 1 => ToSet(Duties(c.t)) \subseteq DutiesOf(c.t, c.began)'
  <1>1. c \in MaterializeCall /\ c.op = "materialize" /\ c.todo # <<>> /\ c \in Call
    BY Materialized DEF Call
  <1>2. HoldsDuties(c)'
    BY <1>1, HoldsDutiesKept DEF IInv, Holds
  <1>3. c.todo \in Seq(Kinds)
    BY <1>1 DEF MaterializeCall
  <1>4. Head(c.todo) \in DutiesOf(c.t, c.began)'
    <2>1. PICK o \in ObligationRow : /\ obligations' = Append(obligations, o)
                                     /\ o.transfer = c.t /\ o.kind = Head(c.todo) /\ o.began = c.began
      BY Materialized
    <2>2. Len(obligations) + 1 \in DOMAIN obligations' /\ obligations'[Len(obligations) + 1] = o
      BY <2>1, AppendedTo DEF IInv, Typed
    <2> QED
      BY <2>1, <2>2 DEF DutiesOf
  <1>5. /\ NoneBefore(c.t, c.began)' /\ InForce(c.t, c.trigger, c.began)'
        /\ ToSet(c.todo) \subseteq ToSet(Duties(c.t))
        /\ ToSet(Duties(c.t)) \subseteq DutiesOf(c.t, c.began)' \cup ToSet(c.todo)
    BY <1>1, <1>2 DEF HoldsDuties
  <1>6. ASSUME Len(c.todo) = 1 PROVE ToSet(Duties(c.t)) \subseteq DutiesOf(c.t, c.began)'
    BY <1>1, <1>3, <1>4, <1>5, <1>6, ToSetTail
  <1>7. ASSUME Len(c.todo) # 1
        PROVE  \E d \in Call : /\ d = [c EXCEPT !.todo = Tail(c.todo)]
                               /\ d.op = "materialize" /\ d.t = c.t /\ d.began = c.began /\ HoldsDuties(d)'
    <2>1. c = [op |-> "materialize", t |-> c.t, began |-> c.began, trigger |-> c.trigger, todo |-> c.todo]
      BY <1>1 DEF MaterializeCall
    <2>2. PICK d : d = [op |-> "materialize", t |-> c.t, began |-> c.began, trigger |-> c.trigger, todo |-> Tail(c.todo)]
      OBVIOUS
    <2>3. d = [c EXCEPT !.todo = Tail(c.todo)]
      <3>1. PICK tail : tail = Tail(c.todo)
        OBVIOUS
      <3>2. d = [op |-> "materialize", t |-> c.t, began |-> c.began, trigger |-> c.trigger, todo |-> tail]
        BY <2>2, <3>1
      <3>3. d = [c EXCEPT !.todo = tail]
        BY <2>1, <3>2
      <3> QED
        BY <3>1, <3>3
    <2>4. d \in Call
      BY <1>1, <1>3, <2>2, ToSetTail DEF Call, MaterializeCall
    <2>5. HoldsDuties(d)'
      <3>1. /\ Tail(c.todo) # <<>> /\ ToSet(Tail(c.todo)) \subseteq ToSet(Duties(c.t))
            /\ ToSet(Duties(c.t)) \subseteq DutiesOf(c.t, c.began)' \cup ToSet(Tail(c.todo))
        BY <1>1, <1>3, <1>4, <1>5, <1>7, ToSetTail
      <3>2. d.op = "materialize" /\ d.t = c.t /\ d.began = c.began /\ d.trigger = c.trigger /\ d.todo = Tail(c.todo)
        BY <2>2
      <3> QED
        BY <1>5, <3>1, <3>2 DEF HoldsDuties
    <2> QED
      BY <2>2, <2>3, <2>4, <2>5
  <1> QED
    BY <1>6, <1>7

\* A step moves at most one caller, to a call that holds what the store says.
LEMMA CallStep ==
    ASSUME IInv, [Next]_vars
    PROVE  \/ UNCHANGED call
           \/ \E a \in Actors, c \in Call :
                 /\ call' = [call EXCEPT ![a] = c]
                 /\ \/ Holds(c)
                    \/ c.op = "materialize" /\ HoldsDuties(c)'
  <1>1. ASSUME Tick \/ (\E k \in Keys : record_revocation_core(k)) \/ ChangesKeys \/ \E d \in Derivations : AddDerivation(d)
        PROVE  UNCHANGED call
    BY <1>1 DEF Tick, record_revocation_core, ChangesKeys, revoke, rotate, AddDerivation
  <1>2. ASSUME NEW a \in Actors, LoadPractice(a) PROVE UNCHANGED call
    BY <1>2 DEF LoadPractice
  <1>3. ASSUME NEW a \in Actors, Crash(a) \/ (Writes(a) /\ ~_materialize_one(a))
        PROVE  call' = [call EXCEPT ![a] = Idle]
    BY <1>3 DEF Crash, Writes, _record_manifest_rejected, register, RecordCreated, RecordMove, _respond_adapted,
       RecordPropagation, RecordTransition, RecordResponse, Goto
  <1>4. ASSUME NEW a \in Actors, Reads(a) PROVE MovesTo(a)
    BY <1>4, ReadsHold
  <1>5. ASSUME NEW a \in Actors, _materialize_one(a)
        PROVE  \E c \in Call : /\ call' = [call EXCEPT ![a] = c]
                               /\ Holds(c) \/ (c.op = "materialize" /\ HoldsDuties(c)')
    <2>1. PICK c : c = call[a]
      OBVIOUS
    <2>2. call' = [call EXCEPT ![a] = IF Len(c.todo) = 1 THEN Idle ELSE [c EXCEPT !.todo = Tail(c.todo)]]
      BY <1>5, <2>1, Materialized
    <2>3. CASE Len(c.todo) = 1
      BY <2>2, <2>3, IdleHolds
    <2>4. CASE Len(c.todo) # 1
      BY <1>5, <2>1, <2>2, <2>4, MaterializedHolds
    <2> QED
      BY <2>3, <2>4
  <1> QED
    BY <1>1, <1>2, <1>3, <1>4, <1>5, Steps, IdleHolds DEF vars, MovesTo


LEMMA CallTyped ==
    ASSUME IInv, [Next]_vars
    PROVE  call' \in [Actors -> Call]
  BY CallStep DEF IInv, Typed

LEMMA Registered ==
    ASSUME IInv, [Next]_vars
    PROVE  /\ nodes' \in [Nodes -> Seq(Manifests)]
           /\ ManifestsInOrder'
  <1>1. nodes \in [Nodes -> Seq(Manifests)] /\ ManifestsInOrder
    BY DEF IInv, Typed
  <1>2. CASE UNCHANGED nodes
    BY <1>1, <1>2 DEF ManifestsInOrder
  <1>3. ASSUME NEW a \in Actors, register(a)
        PROVE  nodes' \in [Nodes -> Seq(Manifests)] /\ ManifestsInOrder'
    <2>1. PICK c : c = call[a]
      OBVIOUS
    <2>2. c.m \in Manifests /\ c.m.node \in Nodes
      BY <1>3, <2>1, CallOf DEF IInv, Typed, register, At, RegisterCall, Nodes
    <2>3. /\ c.m.revision = c.read + 1 /\ Len(nodes[c.m.node]) = c.read
          /\ nodes' = [nodes EXCEPT ![c.m.node] = Append(@, c.m)]
      BY <1>3, <2>1 DEF register, CanRegister
    <2>4. PICK new : new = Append(nodes[c.m.node], c.m)
      OBVIOUS
    <2>5. nodes[c.m.node] \in Seq(Manifests) /\ DOMAIN nodes = Nodes /\ DOMAIN nodes' = Nodes
      BY <1>1, <2>2, <2>3
    <2>6. /\ new \in Seq(Manifests) /\ DOMAIN new = 1 .. c.read + 1 /\ new[c.read + 1] = c.m
          /\ \A i \in 1 .. c.read : new[i] = nodes[c.m.node][i] /\ i \in DOMAIN nodes[c.m.node]
          /\ c.read \in Nat
      BY <2>2, <2>3, <2>4, <2>5, AppendedTo
    <2>7. nodes' = [nodes EXCEPT ![c.m.node] = new]
      BY <2>3, <2>4
    <2>8. nodes' \in [Nodes -> Seq(Manifests)]
      BY <1>1, <2>6, <2>7
    <2>9. \A i \in DOMAIN new : new[i].revision = i
      <3> SUFFICES ASSUME NEW i \in DOMAIN new PROVE new[i].revision = i
        OBVIOUS
      <3>1. CASE i = c.read + 1
        BY <2>3, <2>6, <3>1
      <3>2. CASE i \in 1 .. c.read
        BY <1>1, <2>2, <2>5, <2>6, <3>2 DEF ManifestsInOrder
      <3> QED
        BY <2>6, <3>1, <3>2
    <2>10. ManifestsInOrder'
      BY <1>1, <2>2, <2>5, <2>7, <2>9 DEF ManifestsInOrder
    <2> QED
      BY <2>8, <2>10
  <1> QED
    BY <1>2, <1>3, Only DEF OnlyThese

LEMMA DiedGrows ==
    ASSUME IInv, [Next]_vars
    PROVE  died \subseteq died' /\ died' \subseteq Transfers \X Nat
  <1>1. died \subseteq Transfers \X Nat
    BY DEF IInv, Typed
  <1>2. ASSUME NEW a \in Actors, Crash(a)
        PROVE  died' = died \/ (\E t \in Transfers, n \in Nat : died' = died \cup {<<t, n>>})
    <2>1. PICK c : c = call[a]
      OBVIOUS
    <2>2. CASE c.op = "materialize"
      <3>1. c.t \in Transfers /\ c.began \in Nat
        BY <2>1, <2>2, CallOf DEF IInv, Typed, MaterializeCall
      <3>2. died' = died \cup {<<c.t, c.began>>}
        BY <1>2, <2>1, <2>2 DEF Crash, At
      <3> QED
        BY <3>1, <3>2
    <2>3. CASE c.op # "materialize"
      BY <1>2, <2>1, <2>3 DEF Crash, At
    <2> QED
      BY <2>2, <2>3
  <1>3. CASE \E a \in Actors : Crash(a)
    BY <1>1, <1>2, <1>3
  <1>4. CASE UNCHANGED died
    BY <1>1, <1>4
  <1> QED
    BY <1>3, <1>4, Only DEF OnlyThese

LEMMA TypedKept ==
    ASSUME IInv, [Next]_vars
    PROVE  Typed'
  <1>1. now' \in Nat
    BY Only DEF OnlyThese, IInv, Typed
  <1>2. revocations' \in [Keys -> Nat \cup {None}]
    BY Only DEF OnlyThese, IInv, Typed, record_revocation_core
  <1>3. practice' \in Document /\ trusted' \in [Actors -> Document]
    BY TrustKept DEF IInv
  <1>4. log' \in Seq(LogRow) /\ responses' \in Seq(ResponseRow) /\ obligations' \in Seq(ObligationRow)
    BY LogKept, ResponsesKept, ObligationsKept
  <1>5. \A e \in edges' : e[1] \in Items /\ e[3] \in Items \cup DOMAIN obligations'
    BY EdgesKept
  <1>6. nodes' \in [Nodes -> Seq(Manifests)] /\ call' \in [Actors -> Call] /\ died' \subseteq Transfers \X Nat
    BY Registered, CallTyped, DiedGrows
  <1> QED
    BY <1>1, <1>2, <1>3, <1>4, <1>5, <1>6 DEF Typed

LEMMA CallsHold ==
    ASSUME IInv, [Next]_vars
    PROVE  \A b \in Actors : Holds(call[b])'
  <1>1. Typed' /\ \A b \in Actors : call[b] \in Call /\ Holds(call[b])
    BY TypedKept DEF IInv, Typed
  <1>2. ASSUME NEW c \in Call, Holds(c) PROVE Holds(c)'
    BY <1>1, <1>2, HoldsKept
  <1>3. ASSUME NEW b \in Actors, call'[b] = call[b] PROVE Holds(call[b])'
    <2>1. PICK c : c = call[b]
      OBVIOUS
    <2>2. Holds(c)' /\ call'[b] = c
      BY <1>1, <1>2, <1>3, <2>1
    <2> QED
      BY <2>2
  <1>4. ASSUME NEW b \in Actors, NEW c \in Call, call'[b] = c, Holds(c) \/ (c.op = "materialize" /\ HoldsDuties(c)')
        PROVE  Holds(call[b])'
    <2>1. Holds(c)'
      BY <1>2, <1>4 DEF Holds, HoldsKey, HoldsRevision, HoldsResponse
    <2> QED
      BY <1>4, <2>1
  <1>5. call \in [Actors -> Call]
    BY DEF IInv, Typed
  <1> QED
    BY <1>3, <1>4, <1>5, CallStep

-----------------------------------------------------------------------------
(* The store after a step *)

LEMMA AdaptationsKept ==
    ASSUME IInv, [Next]_vars
    PROVE  AdaptationKeepsRelations'
  <1>1. ASSUME NEW i \in DOMAIN log, log[i].type = "transfer.responded", log[i].to = "adapted"
        PROVE  \A o \in Contract[log[i].about].transferred_objects : <<log[i].object, "adapted_from", o>> \in edges'
    BY <1>1, EdgesKept DEF IInv, AdaptationKeepsRelations
  <1>2. ASSUME NEW a \in Actors, NEW e \in LogRow, TellsOf(e, a, call[a]), e.type = "transfer.responded", e.to = "adapted"
        PROVE  \A o \in Contract[e.about].transferred_objects : <<e.object, "adapted_from", o>> \in edges'
    <2>1. PICK c : c = call[a]
      OBVIOUS
    <2>2. HoldsKey(c) /\ TellsOf(e, a, c)
      BY <1>2, <2>1 DEF IInv, Holds
    <2>3. _respond_adapted(a) /\ e.object = c.object /\ e.about = c.t
      BY <1>2, <2>2 DEF TellsOf, HoldsKey
    <2>4. edges' = edges \cup {<<c.object, "adapted_from", o>> : o \in Contract[c.t].transferred_objects}
      BY <2>1, <2>3 DEF _respond_adapted, record_edges
    <2> QED
      BY <2>3, <2>4
  <1> SUFFICES ASSUME NEW i \in DOMAIN log', log'[i].type = "transfer.responded", log'[i].to = "adapted"
               PROVE  \A o \in Contract[log'[i].about].transferred_objects : <<log'[i].object, "adapted_from", o>> \in edges'
    BY DEF AdaptationKeepsRelations
  <1>3. CASE i \in DOMAIN log
    BY <1>1, <1>3, LogKept
  <1>4. CASE i \notin DOMAIN log
    <2>1. PICK a \in Actors, e \in LogRow : log' = Append(log, e) /\ TellsOf(e, a, call[a])
      BY <1>4, LogGrows
    <2>2. log'[i] = e
      BY <1>4, <2>1, LogKept, AppendedTo
    <2> QED
      BY <1>2, <2>1, <2>2
  <1> QED
    BY <1>3, <1>4

LEMMA ResponsesInvKept ==
    ASSUME IInv, [Next]_vars
    PROVE  ResponsesInv' /\ RespondedOnceUnlessOverlapping' /\ CorrectsWhatWasNotified'
  <1>1. ResponsesInv'
    <2>1. \A i \in DOMAIN responses : responses[i].created \in 1 .. Len(log)
      BY DEF IInv, ResponsesInv
    <2>2. ASSUME NEW i \in DOMAIN responses' PROVE responses'[i].created \in 1 .. Len(log')
      <3>1. CASE i \in DOMAIN responses
        BY <2>1, <3>1, ResponsesKept, LogKept
      <3>2. CASE i \notin DOMAIN responses
        BY <3>2, ResponsesKept, LogKept
      <3> QED
        BY <3>1, <3>2
    <2> QED
      BY <2>2 DEF ResponsesInv
  <1>2. ASSUME NEW a \in Actors, RecordResponse(a)
        PROVE  /\ \E r \in ResponseRow :
                     /\ responses' = Append(responses, r)
                     /\ \A i \in DOMAIN responses : responses[i].notification = r.notification => r.began < responses[i].created
                     /\ \A pair \in r.adaptations : r.decision = "adapt" /\ pair[2] \in Notified[r.notification]
                     /\ r.adaptations = call[a].adaptations
    <2>1. PICK c : c = call[a]
      OBVIOUS
    <2>2. c.op = "response" /\ HoldsResponse(c)
      BY <1>2, <2>1, Responded DEF IInv, Holds
    <2>3. PICK r \in ResponseRow : /\ responses' = Append(responses, r)
                                   /\ r = [notification |-> c.notification, decision |-> c.decision,
                                           adaptations |-> c.adaptations, began |-> c.began, created |-> Len(log) + 1]
      BY <1>2, <2>1, Responded
    <2>4. /\ r.notification = c.notification /\ r.decision = c.decision /\ r.adaptations = c.adaptations
          /\ r.began = c.began
      BY <2>3
    <2>5. \A i \in DOMAIN responses : responses[i].notification = r.notification => r.began < responses[i].created
      BY <2>2, <2>4 DEF HoldsResponse
    <2>6. \A pair \in r.adaptations : r.decision = "adapt" /\ pair[2] \in Notified[r.notification]
      BY <2>2, <2>4 DEF HoldsResponse
    <2> QED
      BY <2>1, <2>3, <2>4, <2>5, <2>6
  <1>3. RespondedOnceUnlessOverlapping'
    <2>1. SUFFICES ASSUME NEW i \in DOMAIN responses', NEW j \in DOMAIN responses',
                          i < j, responses'[i].notification = responses'[j].notification
                   PROVE  responses'[j].began < responses'[i].created
      BY DEF RespondedOnceUnlessOverlapping
    <2>2. CASE j \in DOMAIN responses
      <3>1. i \in DOMAIN responses
        BY <2>1, <2>2, ResponsesKept
      <3> QED
        BY <2>1, <2>2, <3>1, ResponsesKept DEF IInv, RespondedOnceUnlessOverlapping
    <2>3. CASE j \notin DOMAIN responses
      <3>1. \E a \in Actors : RecordResponse(a)
        BY <2>3, Only DEF OnlyThese
      <3>2. PICK r \in ResponseRow :
               /\ responses' = Append(responses, r)
               /\ \A x \in DOMAIN responses : responses[x].notification = r.notification => r.began < responses[x].created
        BY <1>2, <3>1
      <3>3. j = Len(responses) + 1 /\ responses'[j] = r /\ i \in DOMAIN responses
        BY <2>1, <2>3, <3>2, ResponsesKept, AppendedTo
      <3> QED
        BY <2>1, <3>2, <3>3, ResponsesKept
    <2> QED
      BY <2>2, <2>3
  <1>4. CorrectsWhatWasNotified'
    <2>1. SUFFICES ASSUME NEW e \in edges', e[2] = "corrects"
                   PROVE  \E i \in DOMAIN responses' :
                             /\ responses'[i].decision = "adapt" /\ <<e[1], e[3]>> \in responses'[i].adaptations
                             /\ e[3] \in Notified[responses'[i].notification]
      BY DEF CorrectsWhatWasNotified
    <2>2. CASE e \in edges
      <3>1. PICK i \in DOMAIN responses : /\ responses[i].decision = "adapt" /\ <<e[1], e[3]>> \in responses[i].adaptations
                                          /\ e[3] \in Notified[responses[i].notification]
        BY <2>1, <2>2 DEF IInv, CorrectsWhatWasNotified
      <3> QED
        BY <3>1, ResponsesKept
    <2>3. CASE e \notin edges
      <3>1. PICK a \in Actors : /\ RecordResponse(a)
                                /\ \E pair \in call[a].adaptations : e = <<pair[1], "corrects", pair[2]>>
        BY <2>1, <2>3, EdgesKept
      <3>2. PICK r \in ResponseRow :
               /\ responses' = Append(responses, r)
               /\ \A pair \in r.adaptations : r.decision = "adapt" /\ pair[2] \in Notified[r.notification]
               /\ r.adaptations = call[a].adaptations
        BY <1>2, <3>1
      <3>3. PICK pair \in r.adaptations : e = <<pair[1], "corrects", pair[2]>>
        BY <3>1, <3>2
      <3>4. pair = <<pair[1], pair[2]>> /\ e[1] = pair[1] /\ e[3] = pair[2]
        <4>1. r.adaptations \subseteq Items \X Items
          BY FederationConstants DEF ResponseRow
        <4> QED
          BY <3>3, <4>1
      <3>5. Len(responses) + 1 \in DOMAIN responses' /\ responses'[Len(responses) + 1] = r
        BY <3>2, ResponsesKept, AppendedTo
      <3> QED
        BY <3>2, <3>3, <3>4, <3>5
    <2> QED
      BY <2>2, <2>3
  <1> QED
    BY <1>1, <1>3, <1>4


\* The obligation a call stores: a duty of its transfer that rests on the answer in
\* force, and no other call's obligation was stored before this one began.
LEMMA MaterializedRow ==
    ASSUME IInv, [Next]_vars, NEW a \in Actors, _materialize_one(a)
    PROVE  \E o \in ObligationRow :
              /\ obligations' = Append(obligations, o)
              /\ o.created = Len(log) + 1 /\ o.began \in 0 .. Len(log)
              /\ o.kind \in ToSet(Duties(o.transfer))
              /\ InForce(o.transfer, o.trigger, o.began)
              /\ \A ob \in DOMAIN obligations : obligations[ob].transfer = o.transfer => o.began < obligations[ob].created
              /\ o.transfer = call[a].t /\ o.began = call[a].began
              /\ o.revisions = <<[status |-> "open", evidence |-> FALSE, propagated |-> {}]>>
              /\ edges' = edges \cup Binding(o.bound_objects, Len(obligations) + 1)
  <1>1. PICK c : c = call[a]
    OBVIOUS
  <1>2. c \in MaterializeCall /\ c.op = "materialize" /\ c.todo # <<>> /\ HoldsDuties(c)
    BY <1>1, Materialized DEF IInv, Holds
  <1>3. PICK o \in ObligationRow :
           /\ obligations' = Append(obligations, o)
           /\ o = [transfer |-> c.t, kind |-> Head(c.todo), trigger |-> c.trigger, began |-> c.began,
                   created |-> Len(log) + 1, bound_objects |-> Contract[c.t].transferred_objects,
                   revisions |-> <<[status |-> "open", evidence |-> FALSE, propagated |-> {}]>>]
    BY <1>1, Materialized
  <1>4. /\ o.transfer = c.t /\ o.kind = Head(c.todo) /\ o.trigger = c.trigger /\ o.began = c.began
        /\ o.created = Len(log) + 1 /\ o.bound_objects = Contract[c.t].transferred_objects
        /\ o.revisions = <<[status |-> "open", evidence |-> FALSE, propagated |-> {}]>>
    BY <1>3
  <1>5. /\ NoneBefore(c.t, c.began) /\ InForce(c.t, c.trigger, c.began) /\ ToSet(c.todo) \subseteq ToSet(Duties(c.t))
    BY <1>2 DEF HoldsDuties
  <1>6. Head(c.todo) \in ToSet(c.todo)
    BY <1>2, ToSetTail DEF MaterializeCall
  <1>7. /\ c.began \in 0 .. Len(log)
        /\ \A ob \in DOMAIN obligations : obligations[ob].transfer = c.t => c.began < obligations[ob].created
    BY <1>5 DEF NoneBefore
  <1>8. edges' = edges \cup Binding(Contract[c.t].transferred_objects, Len(obligations) + 1)
    BY <1>1, Materialized DEF Binding
  <1> QED
    BY <1>1, <1>3, <1>4, <1>5, <1>6, <1>7, <1>8

LEMMA ObligationsInvKept ==
    ASSUME IInv, [Next]_vars
    PROVE  ObligationsInv' /\ MaterializedOnceUnlessOverlapping'
  <1> DEFINE Fits(o) == /\ o.created \in 1 .. Len(log) + 1 /\ o.began \in 0 .. Len(log)
                        /\ o.kind \in ToSet(Duties(o.transfer))
                        /\ InForce(o.transfer, o.trigger, o.began)
  <1>1. ASSUME NEW ob \in DOMAIN obligations PROVE Fits(obligations[ob]) /\ obligations[ob].created \in 1 .. Len(log)
    BY <1>1, LogKept DEF IInv, ObligationsInv
  <1>2. ASSUME NEW ob \in DOMAIN obligations', ob \notin DOMAIN obligations
        PROVE  /\ Fits(obligations'[ob]) /\ Len(log') = Len(log) + 1
               /\ \A x \in DOMAIN obligations : obligations[x].transfer = obligations'[ob].transfer =>
                     obligations'[ob].began < obligations[x].created
               /\ ob = Len(obligations) + 1
    <2>1. \E a \in Actors : _materialize_one(a)
      <3>1. ASSUME NEW a \in Actors, Revises(a) PROVE FALSE
        <4>1. PICK c : c = call[a]
          OBVIOUS
        <4>2. PICK r \in Revision : /\ c.ob \in DOMAIN obligations
                                    /\ obligations' = [obligations EXCEPT ![c.ob].revisions = Append(@, r)]
          BY <3>1, <4>1, Revised
        <4>3. DOMAIN obligations' = DOMAIN obligations
          BY <4>2
        <4> QED
          BY <1>2, <4>3
      <3> QED
        BY <1>2, <3>1, Only DEF OnlyThese
    <2>2. PICK o \in ObligationRow :
             /\ obligations' = Append(obligations, o)
             /\ o.created = Len(log) + 1 /\ o.began \in 0 .. Len(log)
             /\ o.kind \in ToSet(Duties(o.transfer))
             /\ InForce(o.transfer, o.trigger, o.began)
             /\ \A x \in DOMAIN obligations : obligations[x].transfer = o.transfer => o.began < obligations[x].created
      BY <2>1, MaterializedRow
    <2>3. ob = Len(obligations) + 1 /\ obligations'[ob] = o
      BY <1>2, <2>2, ObligationsKept, AppendedTo
    <2>4. Len(log) + 1 \in 1 .. Len(log) + 1 /\ Len(log') = Len(log) + 1
      BY <1>2, LogKept, ObligationsKept
    <2> QED
      BY <2>2, <2>3, <2>4
  <1>3. ASSUME NEW o, Fits(o) PROVE InForce(o.transfer, o.trigger, o.began)'
    BY <1>3, InForceKept
  <1>4. ASSUME NEW ob \in DOMAIN obligations', NEW o, o = obligations'[ob]
        PROVE  /\ o.created \in 1 .. Len(log') /\ o.began \in 0 .. Len(log')
               /\ o.kind \in ToSet(Duties(o.transfer))
               /\ InForce(o.transfer, o.trigger, o.began)'
    <2>1. o = obligations'[ob]
      BY <1>4
    <2>2. CASE ob \in DOMAIN obligations
      <3>1. PICK p : p = obligations[ob]
        OBVIOUS
      <3>2. Fits(p) /\ p.created \in 1 .. Len(log) /\ InForce(p.transfer, p.trigger, p.began)'
        BY <1>1, <1>3, <2>2, <3>1
      <3>3. /\ o.transfer = p.transfer /\ o.kind = p.kind /\ o.trigger = p.trigger /\ o.began = p.began
            /\ o.created = p.created
        BY <2>1, <2>2, <3>1, ObligationsKept DEF Continues
      <3>4. p.created \in 1 .. Len(log') /\ p.began \in 0 .. Len(log')
        BY <3>2, LogKept
      <3> QED
        BY <2>1, <3>2, <3>3, <3>4
    <2>3. CASE ob \notin DOMAIN obligations
      <3>1. Fits(o) /\ Len(log') = Len(log) + 1 /\ InForce(o.transfer, o.trigger, o.began)'
        BY <1>2, <1>3, <2>1, <2>3
      <3>2. o.created \in 1 .. Len(log') /\ o.began \in 0 .. Len(log')
        BY <3>1, LogKept
      <3> QED
        BY <2>1, <3>1, <3>2
    <2> QED
      BY <2>2, <2>3
  <1>5. ObligationsInv'
    <2> SUFFICES ASSUME NEW ob \in DOMAIN obligations'
                 PROVE  /\ obligations'[ob].created \in 1 .. Len(log') /\ obligations'[ob].began \in 0 .. Len(log')
                        /\ obligations'[ob].kind \in ToSet(Duties(obligations'[ob].transfer))
                        /\ InForce(obligations[ob].transfer, obligations[ob].trigger, obligations[ob].began)'
      BY DEF ObligationsInv
    <2>1. PICK o : o = obligations'[ob]
      OBVIOUS
    <2>2. InForce(o.transfer, o.trigger, o.began)'
      BY <1>4, <2>1
    <2> QED
      BY <1>4, <2>1, <2>2
  <1>6. MaterializedOnceUnlessOverlapping'
    <2>1. SUFFICES ASSUME NEW i \in DOMAIN obligations', NEW j \in DOMAIN obligations', i < j,
                          obligations'[i].transfer = obligations'[j].transfer, obligations'[i].began # obligations'[j].began
                   PROVE  obligations'[j].began < obligations'[i].created
      BY DEF MaterializedOnceUnlessOverlapping
    <2>2. CASE j \in DOMAIN obligations
      <3>1. i \in DOMAIN obligations
        BY <2>1, <2>2, ObligationsKept
      <3>2. /\ obligations'[i].transfer = obligations[i].transfer /\ obligations'[i].began = obligations[i].began
            /\ obligations'[i].created = obligations[i].created
            /\ obligations'[j].transfer = obligations[j].transfer /\ obligations'[j].began = obligations[j].began
        BY <2>2, <3>1, ObligationsKept DEF Continues
      <3> QED
        BY <2>1, <2>2, <3>1, <3>2 DEF IInv, MaterializedOnceUnlessOverlapping
    <2>3. CASE j \notin DOMAIN obligations
      <3>1. i \in DOMAIN obligations
        BY <1>2, <2>1, <2>3, ObligationsKept
      <3>2. obligations'[i].transfer = obligations[i].transfer /\ obligations'[i].created = obligations[i].created
        BY <3>1, ObligationsKept DEF Continues
      <3> QED
        BY <1>2, <2>1, <2>3, <3>1, <3>2
    <2> QED
      BY <2>2, <2>3
  <1> QED
    BY <1>5, <1>6

\* While a call materializes, only its own death and its own writes move it.
LEMMA MaterializingStands ==
    ASSUME IInv, [Next]_vars, NEW b \in Actors, call[b].op = "materialize"
    PROVE  call'[b] = call[b] \/ Crash(b) \/ _materialize_one(b)
  <1>1. call[b] # Idle /\ call \in [Actors -> Call]
    BY DEF Idle, IInv, Typed
  <1>2. ~Reads(b)
    <2>1. \A w, c : ~Enter(b, w, c)
      BY <1>1 DEF Enter
    <2>2. /\ \A m : ~receive(b, m)
          /\ \A t : ~transfer_create(b, t) /\ ~offer(b, t) /\ ~materialize_from_transfer(b, t)
          /\ \A t, d, o : ~respond(b, t, d, o)
      BY <2>1 DEF receive, transfer_create, offer, materialize_from_transfer, respond
    <2>3. /\ \A ob : ~propagate(b, ob) /\ ~resolve(b, ob, TRUE) /\ ~defer(b, ob)
          /\ \A n, d, reason, pairs : ~record_response(b, n, d, reason, pairs)
      BY <2>1 DEF propagate, resolve, defer, _transition, record_response
    <2>4. ~ReadDecision(b) /\ ~_gather_binding_edges(b) /\ ~Raise(b)
      BY DEF ReadDecision, _gather_binding_edges, Raise, Gathered, At
    <2> QED
      BY <2>2, <2>3, <2>4 DEF Reads
  <1>3. Writes(b) => _materialize_one(b)
    BY DEF Writes, _record_manifest_rejected, register, RecordCreated, RecordMove, _respond_adapted,
       RecordPropagation, Gathered, RecordTransition, RecordResponse, At
  <1>4. ASSUME NEW a \in Actors, a # b, Crash(a) \/ Reads(a) \/ Writes(a)
        PROVE  call'[b] = call[b]
    <2>1. \E c : call' = [call EXCEPT ![a] = c]
      BY <1>4, ReadsFrame, WritesFrame DEF Crash
    <2> QED
      BY <1>1, <1>4, <2>1
  <1>5. ASSUME NEW a \in Actors, LoadPractice(a) PROVE UNCHANGED call
    BY <1>5 DEF LoadPractice
  <1>6. ASSUME Tick \/ (\E k \in Keys : record_revocation_core(k)) \/ ChangesKeys \/ \E d \in Derivations : AddDerivation(d)
        PROVE  UNCHANGED call
    BY <1>6 DEF Tick, record_revocation_core, ChangesKeys, revoke, rotate, AddDerivation
  <1> QED
    BY <1>2, <1>3, <1>4, <1>5, <1>6, Steps DEF vars


\* A call that materializes (t, n) is alive, has died, or has stored every duty.
LEMMA MaterializingGoesOn ==
    ASSUME IInv, [Next]_vars, NEW b \in Actors, NEW c, c = call[b], c.op = "materialize"
    PROVE  \/ <<c.t, c.began>> \in died'
           \/ call'[b].op = "materialize" /\ call'[b].t = c.t /\ call'[b].began = c.began
           \/ ToSet(Duties(c.t)) \subseteq DutiesOf(c.t, c.began)'
  <1>1. CASE call'[b] = call[b]
    BY <1>1
  <1>2. CASE Crash(b)
    BY <1>2 DEF Crash, At
  <1>3. CASE _materialize_one(b)
    <2>1. call' = [call EXCEPT ![b] = IF Len(c.todo) = 1 THEN Idle ELSE [c EXCEPT !.todo = Tail(c.todo)]]
      BY <1>3, Materialized
    <2>2. CASE Len(c.todo) = 1
      BY <1>3, <2>2, MaterializedHolds
    <2>3. CASE Len(c.todo) # 1
      <3>1. PICK d : d = [c EXCEPT !.todo = Tail(c.todo)] /\ d.op = "materialize" /\ d.t = c.t /\ d.began = c.began
        BY <1>3, <2>3, MaterializedHolds
      <3>2. call'[b] = d
        BY <2>1, <2>3, <3>1 DEF IInv, Typed
      <3> QED
        BY <3>1, <3>2
    <2> QED
      BY <2>2, <2>3
  <1> QED
    BY <1>1, <1>2, <1>3, MaterializingStands

LEMMA DutiesTravelKept ==
    ASSUME IInv, [Next]_vars
    PROVE  DutiesTravelUnlessDied'
  <1> SUFFICES ASSUME NEW ob \in DOMAIN obligations', NEW t, NEW n,
                      t = obligations'[ob].transfer, n = obligations'[ob].began
               PROVE  \/ <<t, n>> \in died'
                      \/ \E a \in Actors : call'[a].op = "materialize" /\ call'[a].t = t /\ call'[a].began = n
                      \/ DutiesOf(t, n)' = ToSet(Duties(t))
    BY DEF DutiesTravelUnlessDied, At
  <1>1. DutiesOf(t, n)' \subseteq ToSet(Duties(t))
    <2>1. \A x \in DOMAIN obligations' : obligations'[x].kind \in ToSet(Duties(obligations'[x].transfer))
      BY ObligationsInvKept DEF ObligationsInv
    <2> QED
      BY <2>1 DEF DutiesOf
  <1>2. ASSUME NEW b \in Actors, call[b].op = "materialize", call[b].t = t, call[b].began = n
        PROVE  \/ <<t, n>> \in died'
               \/ \E a \in Actors : call'[a].op = "materialize" /\ call'[a].t = t /\ call'[a].began = n
               \/ ToSet(Duties(t)) \subseteq DutiesOf(t, n)'
    <2>1. PICK c : c = call[b]
      OBVIOUS
    <2> QED
      BY <1>2, <2>1, MaterializingGoesOn
  <1>3. CASE ob \in DOMAIN obligations
    <2>1. obligations[ob].transfer = t /\ obligations[ob].began = n
      BY <1>3, ObligationsKept DEF Continues
    <2>2. \/ <<t, n>> \in died
          \/ \E a \in Actors : call[a].op = "materialize" /\ call[a].t = t /\ call[a].began = n
          \/ DutiesOf(t, n) = ToSet(Duties(t))
      BY <1>3, <2>1 DEF IInv, DutiesTravelUnlessDied, At
    <2>3. died \subseteq died' /\ DutiesOf(t, n) \subseteq DutiesOf(t, n)'
      BY DiedGrows, DutiesOfGrow
    <2> QED
      BY <1>1, <1>2, <2>2, <2>3
  <1>4. CASE ob \notin DOMAIN obligations
    <2>1. PICK a \in Actors : _materialize_one(a)
      <3>1. ASSUME NEW a \in Actors, Revises(a) PROVE FALSE
        <4>1. PICK c : c = call[a]
          OBVIOUS
        <4>2. PICK r \in Revision : /\ c.ob \in DOMAIN obligations
                                    /\ obligations' = [obligations EXCEPT ![c.ob].revisions = Append(@, r)]
          BY <3>1, <4>1, Revised
        <4> QED
          BY <1>4, <4>2
      <3> QED
        BY <1>4, <3>1, Only DEF OnlyThese
    <2>2. call[a].op = "materialize"
      BY <2>1 DEF _materialize_one, At
    <2>3. PICK o \in ObligationRow : obligations' = Append(obligations, o) /\ o.transfer = call[a].t /\ o.began = call[a].began
      BY <2>1, MaterializedRow
    <2>4. obligations'[ob] = o
      BY <1>4, <2>3, ObligationsKept, AppendedTo
    <2>5. call[a].t = t /\ call[a].began = n
      BY <2>3, <2>4
    <2> QED
      BY <1>1, <1>2, <2>2, <2>5
  <1> QED
    BY <1>3, <1>4

LEMMA BoundToIs ==
    ASSUME NEW ob, edges \subseteq edges'
    PROVE  /\ BoundTo(ob) \subseteq BoundTo(ob)'
           /\ \A T : edges' = edges \cup Binding(T, ob) => BoundTo(ob) \cup T \subseteq BoundTo(ob)'
  <1>1. BoundTo(ob) \subseteq BoundTo(ob)'
    BY DEF BoundTo, edges_to
  <1>2. ASSUME NEW T, edges' = edges \cup Binding(T, ob), NEW o \in T PROVE o \in BoundTo(ob)'
    <2>1. PICK e : e = <<o, "subject_to_obligation", ob>>
      OBVIOUS
    <2>2. e \in edges' /\ e[1] = o /\ e[2] = "subject_to_obligation" /\ e[3] = ob
      BY <1>2, <2>1 DEF Binding
    <2> QED
      BY <2>2 DEF BoundTo, edges_to
  <1> QED
    BY <1>1, <1>2

\* One more revision keeps the lifecycle.
LEMMA LifecycleGoesOn ==
    ASSUME NEW s \in Seq(Revision), NEW r \in Revision, Lifecycle(s),
           Last(s).propagated \subseteq r.propagated,
           Last(s).status = r.status \/ <<Last(s).status, r.status>> \in ObligationTransitions,
           r.status = "resolved" <=> r.evidence
    PROVE  Lifecycle(Append(s, r)) /\ Last(Append(s, r)) = r
  <1>1. s # <<>> /\ Len(s) \in Nat \ {0} /\ Last(s) = s[Len(s)]
    BY LastIs DEF Lifecycle
  <1>2. PICK new : new = Append(s, r)
    OBVIOUS
  <1>3. /\ new \in Seq(Revision) /\ Len(new) = Len(s) + 1 /\ new[Len(s) + 1] = r
        /\ \A i \in 1 .. Len(s) : new[i] = s[i]
    BY <1>2, AppendedTo
  <1>4. new # <<>> /\ Last(new) = r
    <2>1. new # <<>>
      BY <1>2
    <2> QED
      BY <1>3, <2>1, LastIs
  <1>5. ASSUME NEW i \in 2 .. Len(new)
        PROVE  /\ new[i - 1].propagated \subseteq new[i].propagated
               /\ new[i - 1].status = new[i].status \/ <<new[i - 1].status, new[i].status>> \in ObligationTransitions
    <2>1. CASE i \in 2 .. Len(s)
      <3>1. i - 1 \in 1 .. Len(s) /\ i \in 1 .. Len(s)
        BY <1>1, <2>1
      <3>2. new[i] = s[i] /\ new[i - 1] = s[i - 1]
        BY <1>3, <3>1
      <3> QED
        BY <2>1, <3>2 DEF Lifecycle
    <2>2. CASE i = Len(s) + 1
      <3>1. i - 1 = Len(s) /\ Len(s) \in 1 .. Len(s)
        BY <1>1, <2>2
      <3>2. new[i] = r /\ new[i - 1] = Last(s)
        BY <1>1, <1>3, <2>2, <3>1
      <3> QED
        BY <3>2
    <2> QED
      BY <1>1, <1>3, <2>1, <2>2
  <1>6. ASSUME NEW i \in 1 .. Len(new) PROVE new[i].status = "resolved" <=> new[i].evidence
    <2>1. CASE i \in 1 .. Len(s)
      <3>1. new[i] = s[i]
        BY <1>3, <2>1
      <3>2. s[i].status = "resolved" <=> s[i].evidence
        BY <2>1 DEF Lifecycle
      <3> QED
        BY <3>1, <3>2, Zenon
    <2>2. CASE i = Len(s) + 1
      <3>1. new[i] = r
        BY <1>3, <2>2
      <3> QED
        BY <3>1, Zenon
    <2> QED
      BY <1>1, <1>3, <2>1, <2>2
  <1> QED
    BY <1>2, <1>4, <1>5, <1>6 DEF Lifecycle


LEMMA BindingInvKept ==
    ASSUME IInv, [Next]_vars
    PROVE  BindingInv'
  <1> DEFINE Bound(s, seeds, ob) == /\ Lifecycle(s)
                                    /\ Last(s).propagated \subseteq Downstream(seeds)
                                    /\ Last(s).propagated \cup seeds \subseteq BoundTo(ob)
  <1>1. \A ob \in DOMAIN obligations : Bound(obligations[ob].revisions, obligations[ob].bound_objects, ob)
    BY DEF IInv, BindingInv
  <1>2. edges \subseteq edges' /\ \A seeds : Downstream(seeds) \subseteq Downstream(seeds)'
    BY EdgesKept, DownstreamGrows, TypedKept DEF IInv
  <1>3. ASSUME NEW s, NEW seeds, NEW ob, Bound(s, seeds, ob) PROVE Bound(s, seeds, ob)'
    BY <1>2, <1>3, BoundToIs
  <1>4. ASSUME NEW ob \in DOMAIN obligations, obligations'[ob] = obligations[ob]
        PROVE  Bound(obligations[ob].revisions, obligations[ob].bound_objects, ob)'
    <2>1. PICK s, seeds : s = obligations[ob].revisions /\ seeds = obligations[ob].bound_objects
      OBVIOUS
    <2>2. Bound(s, seeds, ob)'
      BY <1>1, <1>3, <2>1
    <2>3. s = obligations'[ob].revisions /\ seeds = obligations'[ob].bound_objects
      BY <1>4, <2>1
    <2> QED
      BY <2>2, <2>3
  <1>5. CASE UNCHANGED obligations
    BY <1>4, <1>5 DEF BindingInv
  <1>6. ASSUME NEW a \in Actors, _materialize_one(a)
        PROVE  BindingInv'
    <2>1. PICK o \in ObligationRow :
             /\ obligations' = Append(obligations, o)
             /\ o.revisions = <<[status |-> "open", evidence |-> FALSE, propagated |-> {}]>>
             /\ edges' = edges \cup Binding(o.bound_objects, Len(obligations) + 1)
      BY <1>6, MaterializedRow
    <2>2. /\ obligations'[Len(obligations) + 1] = o /\ Len(obligations) \in Nat
          /\ \A x \in DOMAIN obligations : obligations'[x] = obligations[x]
          /\ DOMAIN obligations = 1 .. Len(obligations) /\ DOMAIN obligations' = 1 .. Len(obligations) + 1
      BY <2>1, ObligationsKept, AppendedTo
    <2>3. PICK n : n = Len(obligations) + 1
      OBVIOUS
    <2>4. PICK row : row = [status |-> "open", evidence |-> FALSE, propagated |-> {}]
      OBVIOUS
    <2>5. row \in Revision /\ row.status = "open" /\ row.evidence = FALSE /\ row.propagated = {}
      BY <2>4 DEF Revision
    <2>6. /\ o.revisions # <<>> /\ Len(o.revisions) = 1 /\ o.revisions[1] = row /\ Last(o.revisions) = row
      <3>1. o.revisions = <<row>>
        BY <2>1, <2>4
      <3>2. <<row>> # <<>> /\ Len(<<row>>) = 1 /\ <<row>>[1] = row /\ <<row>> \in Seq(Revision)
        BY <2>5
      <3> QED
        BY <3>1, <3>2, LastIs
    <2>7. Lifecycle(o.revisions)
      <3>1. \A i \in 1 .. Len(o.revisions) : o.revisions[i].status = "resolved" <=> o.revisions[i].evidence
        <4>1. row.status = "resolved" <=> row.evidence
          BY <2>5
        <4>2. \A i \in 1 .. Len(o.revisions) : o.revisions[i] = row
          BY <2>6
        <4> QED
          BY <4>1, <4>2, Zenon
      <3>2. 2 .. Len(o.revisions) = {}
        BY <2>6
      <3> QED
        BY <2>6, <3>1, <3>2 DEF Lifecycle
    <2>8. o.bound_objects \subseteq BoundTo(n)'
      BY <1>2, <2>1, <2>3, BoundToIs
    <2>9. Bound(o.revisions, o.bound_objects, n)'
      BY <2>5, <2>6, <2>7, <2>8
    <2>10. ASSUME NEW ob \in DOMAIN obligations'
          PROVE  Bound(obligations[ob].revisions, obligations[ob].bound_objects, ob)'
      <3>1. CASE ob \in DOMAIN obligations
        BY <1>4, <2>2, <3>1
      <3>2. CASE ob = n
        <4>1. obligations'[ob] = o
          BY <2>2, <2>3, <3>2
        <4>2. Bound(o.revisions, o.bound_objects, ob)'
          BY <2>9, <3>2
        <4> QED
          BY <4>1, <4>2
      <3> QED
        BY <2>2, <2>3, <3>1, <3>2
    <2> QED
      BY <2>10 DEF BindingInv
  <1>7. ASSUME NEW a \in Actors, Revises(a)
        PROVE  BindingInv'
    <2>1. PICK c : c = call[a]
      OBVIOUS
    <2>2. PICK ob \in DOMAIN obligations : ob = c.ob /\ obligations[ob] \in ObligationRow
      BY <1>7, <2>1, Revised
    <2>3. PICK o \in ObligationRow : o = obligations[ob]
      BY <2>2
    <2>4. PICK r \in Revision, new \in SUBSET Items :
             /\ obligations' = [obligations EXCEPT ![ob].revisions = Append(@, r)]
             /\ edges' = edges \cup Binding(new, ob)
             /\ Follows(o, r, BoundTo(ob), new)
      BY <1>7, <2>1, <2>2, <2>3, Revised
    <2>5. /\ DOMAIN obligations' = DOMAIN obligations
          /\ \A x \in DOMAIN obligations : x # ob => obligations'[x] = obligations[x]
          /\ obligations'[ob].revisions = Append(o.revisions, r)
          /\ obligations'[ob].bound_objects = o.bound_objects
      <3>1. /\ Len(obligations') = Len(obligations)
            /\ \A x \in DOMAIN obligations : x # ob => obligations'[x] = obligations[x]
            /\ obligations'[ob].revisions = Append(obligations[ob].revisions, r)
            /\ Continues(obligations[ob], obligations'[ob])
        BY <2>4, ObligationRevised
      <3>2. obligations'[ob].bound_objects = obligations[ob].bound_objects
        BY <3>1 DEF Continues
      <3> QED
        BY <2>3, <3>1, <3>2, ObligationsKept
    <2>6. Lifecycle(Append(o.revisions, r)) /\ Last(Append(o.revisions, r)) = r
      <3>1. o.revisions \in Seq(Revision) /\ Lifecycle(o.revisions)
        BY <1>1, <2>3 DEF ObligationRow
      <3>2. /\ Last(o.revisions).propagated \subseteq r.propagated
            /\ Last(o.revisions).status = r.status \/ <<Last(o.revisions).status, r.status>> \in ObligationTransitions
        BY <2>4 DEF Follows
      <3>3. r.status = "resolved" <=> r.evidence
        BY <2>4 DEF Follows
      <3> QED
        BY <3>1, <3>2, <3>3, LifecycleGoesOn
    <2>7. r.propagated \subseteq Downstream(o.bound_objects)' /\ r.propagated \cup o.bound_objects \subseteq BoundTo(ob)'
      <3>1. /\ r.propagated \subseteq Downstream(o.bound_objects)
            /\ r.propagated \cup o.bound_objects \subseteq BoundTo(ob) \cup new
        BY <2>4 DEF Follows
      <3>2. BoundTo(ob) \cup new \subseteq BoundTo(ob)'
        BY <1>2, <2>4, BoundToIs
      <3>3. Downstream(o.bound_objects) \subseteq Downstream(o.bound_objects)'
        BY <1>2
      <3> QED
        BY <3>1, <3>2, <3>3
    <2>8. PICK s, seeds : s = Append(o.revisions, r) /\ seeds = o.bound_objects
      OBVIOUS
    <2>9. Bound(s, seeds, ob)'
      BY <2>3, <2>6, <2>7, <2>8
    <2>10. ASSUME NEW x \in DOMAIN obligations'
           PROVE  Bound(obligations[x].revisions, obligations[x].bound_objects, x)'
      <3>1. CASE x # ob
        BY <1>4, <2>5, <3>1
      <3>2. CASE x = ob
        <4>1. obligations'[x].revisions = s /\ obligations'[x].bound_objects = seeds
          BY <2>5, <2>8, <3>2
        <4> QED
          BY <2>9, <3>2, <4>1
      <3> QED
        BY <3>1, <3>2
    <2> QED
      BY <2>10 DEF BindingInv
  <1> QED
    BY <1>5, <1>6, <1>7, Only DEF OnlyThese

-----------------------------------------------------------------------------
(* The theorems *)

LEMMA InitHolds == Init => IInv
  <1> SUFFICES ASSUME Init PROVE IInv
    OBVIOUS
  <1>1. build_self_signed_practice(FirstKey) \in Document /\ build_self_signed_practice(FirstKey).version = 1
    BY DEF build_self_signed_practice, Document, Absent
  <1>2. /\ log = <<>> /\ edges = {} /\ responses = <<>> /\ obligations = <<>> /\ died = {} /\ now = 0
        /\ practice = build_self_signed_practice(FirstKey)
        /\ trusted = [a \in Actors |-> build_self_signed_practice(FirstKey)]
        /\ revocations = [k \in Keys |-> None]
        /\ nodes = [n \in Nodes |-> <<>>] /\ call = [a \in Actors |-> Idle]
    BY DEF Init, Nodes
  <1>3. DOMAIN log = {} /\ DOMAIN responses = {} /\ DOMAIN obligations = {}
    BY <1>2
  <1>4. Typed
    BY <1>1, <1>2, <1>3, IdleHolds DEF Typed
  <1>5. KeysInv
    BY <1>1, <1>2 DEF KeysInv, Trusted
  <1>6. LogInv /\ AdaptationKeepsRelations /\ ResponsesInv /\ RespondedOnceUnlessOverlapping /\ CorrectsWhatWasNotified
    BY <1>2, <1>3 DEF LogInv, AdaptationKeepsRelations, ResponsesInv, RespondedOnceUnlessOverlapping, CorrectsWhatWasNotified
  <1>7. ObligationsInv /\ MaterializedOnceUnlessOverlapping /\ DutiesTravelUnlessDied /\ BindingInv
    BY <1>3 DEF ObligationsInv, MaterializedOnceUnlessOverlapping, DutiesTravelUnlessDied, BindingInv
  <1>8. ManifestsInOrder
    BY <1>2 DEF ManifestsInOrder
  <1>9. \A a \in Actors : Holds(call[a])
    BY <1>2, IdleHolds
  <1> QED
    BY <1>4, <1>5, <1>6, <1>7, <1>8, <1>9 DEF IInv

LEMMA StepHolds == IInv /\ [Next]_vars => IInv'
  BY TypedKept, KeysInvKept, LogInvKept, Registered, AdaptationsKept, ResponsesInvKept, ObligationsInvKept,
     DutiesTravelKept, BindingInvKept, CallsHold DEF IInv

LEMMA Invariance == Spec => []IInv
  BY InitHolds, StepHolds, PTL DEF Spec

\* The answer before an answer is the offer it answers, or came while it was given.
LEMMA AnsweredAfterOffer == IInv => AnsweredOnceUnlessOverlapping
  <1> SUFFICES ASSUME IInv, NEW t \in Transfers, NEW i \in EventsOf({"transfer.responded"}, t),
                      NEW earlier, earlier = {j \in MovesOf(t) : j < i}
               PROVE  earlier # {} /\ (log[LastOf(earlier)].to = "offered" \/ LastOf(earlier) > log[i].began)
    BY DEF AnsweredOnceUnlessOverlapping
  <1>1. log \in Seq(LogRow) /\ Len(log) \in Nat /\ DOMAIN log = 1 .. Len(log) /\ MovesOf(t) \subseteq 1 .. Len(log)
    BY DEF IInv, Typed, MovesOf, EventsOf
  <1>2. i \in 1 .. Len(log) /\ log[i].began \in 0 .. i - 1 /\ OfferedAt(t, log[i].began)
    BY <1>1 DEF IInv, LogInv, EventsOf
  <1>3. PICK began \in Nat : began = log[i].began
    BY <1>2
  <1>4. PICK j \in MovesOf(t) : /\ j <= began /\ log[j].to = "offered"
                                /\ \A x \in MovesOf(t) : x <= began => x <= j
    BY <1>2, <1>3 DEF OfferedAt
  <1>5. j \in earlier /\ earlier \subseteq 1 .. Len(log)
    BY <1>1, <1>2, <1>3, <1>4
  <1>6. PICK last : last = LastOf(earlier)
    OBVIOUS
  <1>7. last \in earlier /\ \A x \in earlier : x <= last
    BY <1>1, <1>5, <1>6, LastOfIs
  <1>8. last \in MovesOf(t) /\ last \in Nat /\ j \in Nat /\ j <= last
    BY <1>1, <1>5, <1>7
  <1>9. last <= began => last = j
    BY <1>4, <1>8
  <1>10. log[last].to = "offered" \/ last > began
    BY <1>3, <1>4, <1>8, <1>9
  <1> QED
    BY <1>3, <1>5, <1>6, <1>10

LEMMA TypesAre == IInv => TypeOK
  <1> SUFFICES ASSUME IInv PROVE TypeOK
    OBVIOUS
  <1>1. Typed
    BY DEF IInv
  <1>2. \A i \in DOMAIN log : log[i].copy \in Nat \cup {None}
    <2>1. \A i \in DOMAIN log : log[i] \in LogRow
      BY <1>1 DEF Typed
    <2>2. \A e \in LogRow : e.copy \in Nat \cup {None}
      BY DEF LogRow
    <2> QED
      BY <2>1, <2>2
  <1>3. ASSUME NEW ob \in DOMAIN obligations
        PROVE  /\ obligations[ob].transfer \in Transfers /\ obligations[ob].trigger \in DOMAIN log
               /\ \A i \in DOMAIN obligations[ob].revisions : obligations[ob].revisions[i] \in Revision
    <2>1. obligations[ob] \in ObligationRow
      BY <1>1 DEF Typed
    <2>2. obligations[ob].trigger \in DOMAIN log
      BY DEF IInv, ObligationsInv, InForce
    <2> QED
      BY <2>1, <2>2 DEF ObligationRow
  <1> QED
    BY <1>1, <1>2, <1>3 DEF TypeOK, Typed, Revision

\* A transfer's answer has its effects (TransferService.respond,
\* ObligationService.materialize_from_transfer): it follows the offer directly or
\* overlapped with what came between, an adaptation is related to every object of the
\* transfer, and the duties that travel rest on the answer in force, all of them and once,
\* but for deaths and overlapping calls.
THEOREM AnswersAlwaysTakeEffect == Spec => []AnswersHaveTheirEffects
  <1>1. IInv => MaterializedOnTheLatestAnswer
    BY DEF IInv, ObligationsInv, InForce, MaterializedOnTheLatestAnswer
  <1>2. IInv => AnswersHaveTheirEffects
    BY <1>1, TypesAre, AnsweredAfterOffer DEF IInv, AnswersHaveTheirEffects
  <1> QED
    BY <1>2, Invariance, PTL

\* An obligation reaches all that builds on its objects (ObligationService.propagate), and
\* keeps what it has reached while propagations, resolutions and deferrals race.
THEOREM ObligationsAlwaysReachDownstream == Spec => []ObligationsReachDownstream
  <1>1. IInv => PropagationMissesNothing
    <2> SUFFICES ASSUME IInv, NEW a \in Actors, NEW c, c = call[a], Gathered(a)
                 PROVE  c.downstream \subseteq c.found /\ c.found \subseteq Downstream(obligations[c.ob].bound_objects)
      BY DEF PropagationMissesNothing
    <2>1. c \in GatherCall /\ c.op = "gather" /\ c.frontier = {}
      BY CallOf DEF IInv, Typed, Gathered, At
    <2>2. Traverses(c, obligations[c.ob].bound_objects)
      BY <2>1 DEF IInv, Holds, HoldsRevision
    <2> QED
      BY <2>1, <2>2, GatheredIsComplete
  <1>2. IInv => BindingNeverShrinks /\ ObligationsFollowLifecycle
    <2> SUFFICES ASSUME IInv, NEW ob \in DOMAIN obligations, NEW r, r = obligations[ob].revisions
                 PROVE  /\ \A i \in 2 .. Len(r) :
                              /\ r[i - 1].propagated \subseteq r[i].propagated
                              /\ \/ r[i - 1].status = r[i].status
                                 \/ <<r[i - 1].status, r[i].status>> \in {<<"open", "resolved">>, <<"open", "deferred">>}
                        /\ Last(r).propagated \cup obligations[ob].bound_objects \subseteq BoundTo(ob)
                        /\ Last(r).status = "resolved" <=> Last(r).evidence
      BY DEF BindingNeverShrinks, ObligationsFollowLifecycle
    <2>1. /\ Lifecycle(r)
          /\ Last(r).propagated \cup obligations[ob].bound_objects \subseteq BoundTo(ob)
      BY DEF IInv, BindingInv
    <2>2. Last(r) = r[Len(r)] /\ Len(r) \in 1 .. Len(r)
      <3>1. r \in Seq(Revision) /\ r # <<>>
        <4>1. obligations[ob] \in ObligationRow
          BY DEF IInv, Typed
        <4> QED
          BY <2>1, <4>1 DEF ObligationRow, Lifecycle
      <3> QED
        BY <3>1, LastIs
    <2>3. r[Len(r)].status = "resolved" <=> r[Len(r)].evidence
      BY <2>1, <2>2 DEF Lifecycle
    <2>4. Last(r).status = "resolved" <=> Last(r).evidence
      BY <2>2, <2>3, Zenon
    <2> QED
      BY <2>1, <2>4 DEF Lifecycle, ObligationTransitions
  <1>3. IInv => ObligationsReachDownstream
    BY <1>1, <1>2 DEF ObligationsReachDownstream
  <1> QED
    BY <1>3, Invariance, PTL

\* A notification is responded to once, but for overlapping calls, and what corrects an
\* object does so on a stored response that names it (CorrectionImpactService.record_response).
THEOREM CorrectionsAreAlwaysAnswered == Spec => []CorrectionsAreAnswered
  BY Invariance, PTL DEF IInv, CorrectionsAreAnswered

\* What was accepted under a key that is rotated or revoked by now was accepted with an
\* older document, manifests stand under the revision they were signed with, and the
\* annotation of a revocation never changes (verify_trusted_signature,
\* CapabilityRegistry.register, PostgresKeyRevocationStore).
THEOREM TrustStaysSettled == Spec => TrustIsSettled
  <1>1. IInv => RevokedKeysStayRefused /\ ManifestsInOrder
    BY DEF IInv, LogInv, Trusted, RevokedKeysStayRefused
  <1>2. IInv /\ [Next]_vars => [RevokedKeysStayRefused' /\ ManifestsInOrder']_vars
    <2> SUFFICES ASSUME IInv, [Next]_vars PROVE RevokedKeysStayRefused' /\ ManifestsInOrder'
      OBVIOUS
    <2>1. IInv'
      BY StepHolds
    <2>2. IInv' => RevokedKeysStayRefused' /\ ManifestsInOrder'
      BY <1>1, PTL
    <2> QED
      BY <2>1, <2>2
  <1>3. IInv /\ [Next]_vars =>
          [\A k \in Keys, signed_at \in 0 .. now :
              get_revocation(k) # None =>
                  trust_revoked_after_creation(signed_at, revocations'[k])
                      = trust_revoked_after_creation(signed_at, get_revocation(k))]_vars
    <2> SUFFICES ASSUME IInv, [Next]_vars, NEW k \in Keys, revocations[k] # None
                 PROVE  revocations'[k] = revocations[k]
      BY DEF get_revocation
    <2>1. revocations \in [Keys -> Nat \cup {None}]
      BY DEF IInv, Typed
    <2> QED
      BY <2>1, Only DEF OnlyThese, record_revocation_core
  <1> QED
    BY <1>2, <1>3, Invariance, PTL DEF Spec, TrustIsSettled, AnnotationIsSettled
=============================================================================
